SPECIFICATION FairSpec
CONSTANTS
    lid = lid
    NoProcess = NoProcess NoState = NoState NoToken = NoToken
    NoUser = NoUser NoLogin = NoLogin NoClient = NoClient
    Users = {u1}
    Processes = {p1, p2}
    States = {s1, s2}
    Tokens = {k1, k2}
    Clients = {c1, c2}
    DefaultSite = FALSE
    Logins = {lid}
    LoginOf <- OneLoginOf
PROPERTIES AnsweredLoginEnds ValidatedPolls CancelledLoopEnds
CHECK_DEADLOCK FALSE
