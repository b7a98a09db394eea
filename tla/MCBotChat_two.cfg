SPECIFICATION Spec
CONSTANTS
    t1 = t1 t2 = t2 t3 = t3 t4 = t4 t5 = t5 u1 = u1 u2 = u2 r1 = r1
    NoUser = NoUser NoState = NoState NoToken = NoToken NoSession = NoSession
    Turns = {t1,t2,t3,t4}
    Users = {u1,u2}
    States = {s1,s2}
    Tokens = {k1,k2}
    Callbacks = {c1,c2}
    GlobalToken = NoToken
    StoreFails = TRUE
    Sender <- TwoSenders
    Room <- OneRoom
    Kind <- Resets
    Sessions = {a}
    MaxContinueTurns = 0
    CallbackServer = TRUE
    MediaEnabled = TRUE
    Overlap = TRUE
    TypingFails = FALSE
    TypingTimesOut = TRUE
    MaxCrashes = 0
INVARIANTS AuthInv TokensInv TokenOfUser ClientOfSender
PROPERTIES RefusedNotResolved
CHECK_DEADLOCK FALSE
