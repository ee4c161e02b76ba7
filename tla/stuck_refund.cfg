SPECIFICATION Spec
CONSTANTS
    None = None
    Resumed = {}
    MakerClaimCutoff = 2
    ShortLocktime = 3
    TakerClaimCutoff = 4
    LongLocktime = 5
    RefundGuard = 1
    ReservationExpiresAt = 7
    Life = 2
    MaxTime = 8
PROPERTIES
    RefundIsPrepared
CHECK_DEADLOCK FALSE
