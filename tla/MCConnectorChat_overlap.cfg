SPECIFICATION FairSpec
CONSTANTS
    t1 = t1
    t2 = t2
    t3 = t3
    NoSession = NoSession
    Turns = {t1, t2}
    Kind <- OneReset
    Sessions = {s1, s2, s3}
    MaxContinueTurns = 2
    ConfiguredTTL = "zero"
    Overlap = TRUE
    SaveFails = TRUE
    Timeouts = TRUE
    Logouts = TRUE
    Renames = TRUE
    TypingFails = TRUE
    MaxCrashes = 1
CHECK_DEADLOCK FALSE
INVARIANTS
    TypingStops
PROPERTIES
    ImplementsMemory
    TurnEnds
