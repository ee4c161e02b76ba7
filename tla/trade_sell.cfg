SPECIFICATION PromptSpec
CONSTANTS
    OrderSide = "sell"
    MakerClaimCutoff = 1
    ShortLocktime = 2
    RefundGuard = 1
    TakerClaimCutoff = 5
    LongLocktime = 6
    ReservationExpiresAt = 9
    MaxTime = 9
    MaxFaults = 2
    Schedulings <- AtMostOneInTime
INVARIANTS
    OfferOnlyAfterPayment
    FilledMeansBothClaimed
    PublicationBackedByMint
    MintEffectsAreJournaled
    ClaimLeavesTakerAble
PROPERTIES
    RequestsInWindow
    ImplementsAtomicSwap
    OfferIsResolved
    PaymentIsResolved
    ClaimedPaymentIsAnswered
\* The sessions end, and the clock stops at MaxTime.
CHECK_DEADLOCK FALSE
