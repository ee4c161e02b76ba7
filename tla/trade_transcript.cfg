SPECIFICATION Spec
CONSTANTS
    None = None
    Resumed = {"awaiting_session_ack", "awaiting_quote_lock_ack"}
    MakerClaimCutoff = 2
    ShortLocktime = 3
    TakerClaimCutoff = 4
    LongLocktime = 5
    RefundGuard = 1
    ReservationExpiresAt = 7
    Life = 2
    MaxTime = 8
INVARIANTS
    PolledIsWelcome
    SomeoneIsToSpeak
PROPERTIES
    StagedIsTaken
    ImplementsConversation
CHECK_DEADLOCK FALSE
