SPECIFICATION RetriedSpec
CONSTANTS
    user = user
    coordinator = coordinator
    page = page
    Callers = {user, coordinator}
    Tabs = {page}
    TabOf <- OnePage
    Relays = {r1}
    ReservationIds = {res1}
    OrderAmount = 2
    MinimumFill = 1
    ReservationExpiresAt = 2
    OrderExpiresAt = 3
    MaxTime = 3
    MaxRevision = 3
    MaxRestarts = 1
    NoProjection = NoProjection
    NoReservation = NoReservation
    NoEntry = NoEntry
    NoCall = NoCall
INVARIANTS
    OneProjectionPerRevision
    ReceiptsAreOfTheHead
    NewestIsGreatest
    KeyOutlivesTheOrder
PROPERTIES
    ImplementsOrderLife
    PublicationCompletes
CHECK_DEADLOCK FALSE
