SPECIFICATION Spec
CONSTANTS
    l1 = l1
    l2 = l2
    s1 = s1
    s2 = s2
    m1 = m1
    m2 = m2
    NoSession = NoSession
    NoMessage = NoMessage
    NoLogin = NoLogin
    Wild = Wild
    Logins = {l1}
    Sessions = {s1}
    Messages = {m1, m2}
    p1 = p1
    p2 = p2
    Pollers = {p1}
    Hooks = {h1}
    LoginOf <- PolledLogin
    OwnerOf <- SoloOwnerOf
    SessionOf <- OneSessionOf
    SessionsOf <- SoloSessionsOf
    LoginScope <- SoloLoginScope
    MessageScope <- SoloMessageScope
    EventBuffer = 2
    MaxCrashes = 1
CHECK_DEADLOCK FALSE
INVARIANTS
    AckedNotLost
