SPECIFICATION Spec
CONSTANTS
    alice = alice
    tab = tab
    Call = {c1, c2}
    Taker = {alice}
    TakerOf <- MCTakerOf
    Subscription = {u1, u2}
    Tab = {tab}
    TabOf <- MCTabOf
    ReplyLimit = 1
    Life = 1
    MaxRevision = 2
    MaxTime = 1
    MaxFaults = 2
INVARIANTS
    AcceptedIsNotRefused
CHECK_DEADLOCK FALSE
