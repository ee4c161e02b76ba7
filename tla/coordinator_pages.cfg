SPECIFICATION DrivenSpec
CONSTANTS
    Pages = {p1, p2}
    MaxFaults = 1
INVARIANTS
    ResultsAreWelcome
    EffectsAreNotRepeated
PROPERTIES
    FillIsAnnounced
    SessionEnds
    ImplementsSessionRecord
\* A session ends.
CHECK_DEADLOCK FALSE
