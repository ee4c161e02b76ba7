SPECIFICATION FairSpec
CONSTANTS
    o1 = o1
    o2 = o2
    Orders = {o1, o2}
    Page = Page
    Closing = {o1}
    MaxFaults = 2
INVARIANTS
    ListenersAreOwned
    NobodyWaitsInVain

    
\* Orders may all have ended.
CHECK_DEADLOCK FALSE
