SPECIFICATION PromptSpec
CONSTANTS
    OrderSide = "buy"
    MakerClaimCutoff = 1
    ShortLocktime = 2
    RefundGuard = 1
    TakerClaimCutoff = 5
    LongLocktime = 6
    ReservationExpiresAt = 9
    MaxTime = 9
    MaxFaults = 0
    Schedulings <- MakerInTime
PROPERTIES
    OfferIsResolved
\* The sessions end, and the clock stops at MaxTime.
CHECK_DEADLOCK FALSE
