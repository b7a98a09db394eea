SPECIFICATION Spec
CONSTANTS
    t1 = t1
    t2 = t2
    t3 = t3
    NoSession = NoSession
    Turns = {t1, t2, t3}
    Kind <- OneReset
    Sessions = {s1, s2, s3}
    MaxContinueTurns = 1
    ConfiguredTTL = "positive"
    Overlap = FALSE
    SaveFails = TRUE
    Timeouts = TRUE
    Logouts = TRUE
    Renames = FALSE
    TypingFails = FALSE
    MaxCrashes = 1
CHECK_DEADLOCK FALSE
INVARIANTS
    TypeOK
    OneActiveSession
    SerialInv
    SavedIsCurrent
PROPERTIES
    RetiredNeverSent
    GivenUpStays
