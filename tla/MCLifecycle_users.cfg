SPECIFICATION Spec
CONSTANTS
    lid = lid
    NoProcess = NoProcess NoState = NoState NoToken = NoToken
    NoUser = NoUser NoLogin = NoLogin NoClient = NoClient
    Users = {u1, u2}
    Processes = {p1, p2}
    States = {s1, s2}
    Tokens = {k1, k2}
    Clients = {c1, c2, c3}
    DefaultSite = TRUE
    Logins = {lid}
    LoginOf <- OneLoginOf
SYMMETRY Symmetry
INVARIANTS LifecycleInv OnePollerPerToken AckUnderFetchToken AnswerNotLost
PROPERTIES ImplementsAccount
CHECK_DEADLOCK FALSE
