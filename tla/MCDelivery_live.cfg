SPECIFICATION FairSpec
CONSTANTS
    l1 = l1
    l2 = l2
    s1 = s1
    s2 = s2
    m1 = m1
    m2 = m2
    NoSession = NoSession
    NoMessage = NoMessage
    NoLogin = NoLogin
    Wild = Wild
    Logins = {l1}
    Sessions = {s1, s2}
    Messages = {m1, m2}
    p1 = p1
    p2 = p2
    Pollers = {p1}
    Hooks = {h1}
    LoginOf <- PolledLogin
    OwnerOf <- SoloOwnerOf
    SessionOf <- SoloSessionOf
    SessionsOf <- SoloSessionsOf
    LoginScope <- SoloLoginScope
    MessageScope <- SoloMessageScope
    EventBuffer = 1
    MaxCrashes = 0
CHECK_DEADLOCK FALSE
INVARIANTS
    TypeOK
    AckedNotLost
PROPERTIES
    ImplementsInbox
    PendingIsShown
    ShownIsAcked
