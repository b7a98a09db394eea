SPECIFICATION Spec
CONSTANTS
    t1 = t1 t2 = t2 t3 = t3 t4 = t4 t5 = t5 u1 = u1 u2 = u2 r1 = r1
    NoUser = NoUser NoState = NoState NoToken = NoToken NoSession = NoSession
    Turns = {t1,t2,t3,t4}
    Users = {u1}
    States = {s1}
    Tokens = {k1,k2}
    Callbacks = {c1}
    GlobalToken = NoToken
    StoreFails = TRUE
    Sender <- OneSender
    Room <- OneRoom
    Kind <- Various
    Sessions = {a,b}
    MaxContinueTurns = 1
    CallbackServer = TRUE
    MediaEnabled = TRUE
    Overlap = FALSE
    TypingFails = TRUE
    TypingTimesOut = TRUE
    MaxCrashes = 1
INVARIANTS TypeOK TypingStops StateUsedOnce SessionsInv
PROPERTIES RetiredNeverSent
CHECK_DEADLOCK FALSE
