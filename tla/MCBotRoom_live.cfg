SPECIFICATION RoomFairSpec
CONSTANTS
    t1 = t1 t2 = t2 t3 = t3 u1 = u1 r1 = r1
    NoUser = NoUser NoState = NoState NoToken = NoToken NoSession = NoSession
    Turns = {t1,t2}
    Users = {u1}
    States = {s1}
    Tokens = {k1}
    Callbacks = {c1}
    GlobalToken = k1
    StoreFails = FALSE
    Sender <- OneSender
    Room <- OneRoom
    Kind <- Pictures
    Sessions = {a}
    MaxContinueTurns = 2
    CallbackServer = FALSE
    MediaEnabled = TRUE
    Overlap = TRUE
    TypingFails = FALSE
    TypingTimesOut = FALSE
    MaxCrashes = 1
    MaxMembers = 3
INVARIANTS RoomInv GroupWasGroup OneKindPerRoom
PROPERTIES TurnEnds
CHECK_DEADLOCK FALSE
