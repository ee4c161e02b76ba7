SPECIFICATION Spec
CONSTANTS
    Messages = 2
    Early <- MCEarly
    Lookback = 1
    Expiry = 2
    Due = 2
    MaxTime = 2
    BufferLimit = 1
    GivesUp = TRUE
    MaxFaults = 2
INVARIANTS
    SleepsOnlyWhenEmpty
PROPERTIES
    SentIsRead
    
