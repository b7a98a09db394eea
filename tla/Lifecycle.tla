------------------------------ MODULE Lifecycle ------------------------------
(***************************************************************************)
(* From a completed login to its end: the login row and its client object  *)
(* (LoadUserLogin), Connect, the poll loop with its cancel function,       *)
(* Disconnect and LogoutRemote (pkg/connector/client.go, poller.go), beside *)
(* login processes that may sign the same or another user in again.        *)
(* Connect and the poll loop are goroutines of their own; Disconnect can   *)
(* stop a loop only once the loop has stored its cancel function.  A       *)
(* client object is connected once: by Wait, or by the framework when it   *)
(* has loaded the login.                                                   *)
(***************************************************************************)
EXTENDS ConnectorLogin

CONSTANTS Logins, NoLogin,
          LoginOf,            \* the login id it ends with: site host and agent
          Clients, NoClient   \* DataMachineClient objects

ASSUME LifecycleAssumption ==
    /\ NoLogin \notin Logins
    /\ NoClient \notin Clients
    /\ LoginOf \in [Processes -> Logins]

VARIABLES
    login,       \* per login id: its user, the token and the Client of UserLogin
    of,          \* the login each client was made for, NoLogin if not made yet
    cred,        \* agentToken and siteURL of a client, NoToken when emptied
    conn,        \* where its Connect is
    loop,        \* its poll loop
    pollCancel,  \* the loop has stored its cancel function
    stopOnce,    \* Disconnect has run
    cancelled,   \* the loop's context is done
    under        \* the token the loop's last poll was sent with

clientVars == <<of, cred, conn, loop, pollCancel, stopOnce, cancelled, under>>
vars == <<loginVars, login, clientVars>>

NotSignedIn == [user |-> NoUser, token |-> NoToken, client |-> NoClient]

Init ==
    /\ LoginInit
    /\ login = [l \in Logins |-> NotSignedIn]
    /\ of = [c \in Clients |-> NoLogin]
    /\ cred = [c \in Clients |-> NoToken]
    /\ conn = [c \in Clients |-> "none"]
    /\ loop = [c \in Clients |-> "none"]
    /\ pollCancel = [c \in Clients |-> FALSE]
    /\ stopOnce = [c \in Clients |-> FALSE]
    /\ cancelled = [c \in Clients |-> FALSE]
    /\ under = [c \in Clients |-> NoToken]

-----------------------------------------------------------------------------
\* Clients come and go.

\* Mutant of LoadUserLogin: a client the login already has gets the new token.
LoadUserLoginInPlace(l, c, k) ==
    /\ of' = [of EXCEPT ![c] = l]
    /\ cred' = [d \in Clients |-> IF d = c \/ d = login[l].client THEN k ELSE cred[d]]

\* A new client with the token of the metadata; the one it replaces lives on.
LoadUserLogin(l, c, k) ==
    /\ of' = [of EXCEPT ![c] = l]
    /\ cred' = [cred EXCEPT ![c] = k]

\* Disconnect acts once.  Where no cancel function is stored yet it has
\* nothing to call, and will not be called again.
Disconnect(S) ==
    /\ stopOnce' = [c \in Clients |-> stopOnce[c] \/ c \in S]
    /\ cancelled' = [c \in Clients |->
                        cancelled[c] \/ (c \in S /\ ~stopOnce[c] /\ pollCancel[c])]

\* Mutant of NewLogin: the metadata of an existing login is kept.
NewLoginOldToken(p, c) ==
    LET l == LoginOf[p]
        k == IF login[l].user = NoUser THEN token[p] ELSE login[l].token
    IN  /\ step[p] = "verified"
        /\ of[c] = NoLogin
        /\ login[l].user \in {NoUser, user[p]}
        /\ login' = [login EXCEPT ![l] = [user |-> user[p], token |-> k, client |-> c]]
        /\ LoadUserLogin(l, c, k)
        /\ \E S \in {{}, {login[l].client}} : Disconnect(S)
        /\ conn' = [conn EXCEPT ![c] = "started"]
        /\ Goto(p, "done")
        /\ UNCHANGED <<user, pkce, logins, resultCh, shownBy, token, grantee, loop, pollCancel, under>>

\* The end of Wait.  The row of a login id belongs to one user; signing in
\* again replaces its metadata and its client.  Whether the framework
\* disconnects the old client is left open.
NewLogin(p, c) ==
    LET l == LoginOf[p]
    IN  /\ step[p] = "verified"
        /\ of[c] = NoLogin
        /\ login[l].user \in {NoUser, user[p]}
        /\ login' = [login EXCEPT ![l] = [user |-> user[p], token |-> token[p],
                                          client |-> c]]
        /\ LoadUserLogin(l, c, token[p])
        /\ \E S \in {{}, {login[l].client}} : Disconnect(S)
        /\ conn' = [conn EXCEPT ![c] = "started"]
        /\ Goto(p, "done")
        /\ UNCHANGED <<user, pkce, logins, resultCh, shownBy, token, grantee, loop, pollCancel, under>>

\* The login id is another user's, or the row cannot be written.
NewLoginFails(p) ==
    /\ step[p] = "verified"
    /\ Goto(p, "failed")
    /\ UNCHANGED <<user, pkce, logins, resultCh, shownBy, token, grantee, login, clientVars>>

\* Mutant of LogoutRemote: stopping the poll loop is trusted to be enough.
LogoutRemoteKeepingToken(l) ==
    /\ login[l].client # NoClient
    /\ Disconnect({login[l].client})
    /\ login' = [login EXCEPT ![l] = NotSignedIn]
    /\ UNCHANGED <<loginVars, of, cred, conn, loop, pollCancel, under>>

\* The framework deletes the row right afterwards.
LogoutRemote(l) ==
    /\ login[l].client # NoClient
    /\ Disconnect({login[l].client})
    /\ cred' = [cred EXCEPT ![login[l].client] = NoToken]
    /\ login' = [login EXCEPT ![l] = NotSignedIn]
    /\ UNCHANGED <<loginVars, of, conn, loop, pollCancel, under>>

\* The framework disconnects a login that stays signed in.
Stop(l) ==
    /\ login[l].client # NoClient
    /\ Disconnect({login[l].client})
    /\ UNCHANGED <<loginVars, login, of, cred, conn, loop, pollCancel, under>>

\* All goroutines end; rows stay, and are loaded one after the other.
Crash ==
    /\ LoginCrash
    /\ login' = [l \in Logins |-> [user |-> login[l].user, token |-> login[l].token,
                                   client |-> NoClient]]
    /\ cred' = [c \in Clients |-> NoToken]
    /\ conn' = [c \in Clients |-> IF of[c] = NoLogin THEN "none" ELSE "ended"]
    /\ loop' = [c \in Clients |-> IF of[c] = NoLogin THEN "none" ELSE "ended"]
    /\ UNCHANGED <<of, pollCancel, stopOnce, cancelled, under>>

\* The framework loads the client of a row once per process: only after a crash
\* is there a row without one.
LoadLogin(l, c) ==
    /\ login[l].user # NoUser
    /\ login[l].client = NoClient
    /\ of[c] = NoLogin
    /\ LoadUserLogin(l, c, login[l].token)
    /\ login' = [login EXCEPT ![l] = [user |-> login[l].user, token |-> login[l].token,
                                      client |-> c]]
    /\ conn' = [conn EXCEPT ![c] = "started"]
    /\ UNCHANGED <<loginVars, loop, pollCancel, stopOnce, cancelled, under>>

-----------------------------------------------------------------------------
\* Connect.

GoOn(c, from, to) ==
    /\ conn[c] = from
    /\ conn' = [conn EXCEPT ![c] = to]
    /\ UNCHANGED <<loginVars, login, of, cred, pollCancel, stopOnce, cancelled, under>>

\* No token, or WordPress does not accept it or does not answer.
BadCredentials(c) == GoOn(c, "started", "ended") /\ UNCHANGED loop

GetIdentity(c) ==
    /\ cred[c] # NoToken
    /\ GoOn(c, "started", "identified")
    /\ UNCHANGED loop

\* A failure of these two is logged, and nothing else.
GetOnboarding(c) == GoOn(c, "identified", "onboarded") /\ UNCHANGED loop

\* Mutant of RegisterBridge: a failed registration ends Connect.
RegisterBridgeOrEnd(c) ==
    (GoOn(c, "onboarded", "registered") \/ GoOn(c, "onboarded", "ended")) /\ UNCHANGED loop

RegisterBridge(c) == GoOn(c, "onboarded", "registered") /\ UNCHANGED loop

\* The room and its welcome message, which may fail too; then go startPolling,
\* and Connected is reported; whether the client is still
\* logged in is not looked at again.
Connected(c) ==
    /\ GoOn(c, "registered", "ended")
    /\ loop' = [loop EXCEPT ![c] = "spawned"]

Connect(c) ==
    \/ BadCredentials(c) \/ GetIdentity(c) \/ GetOnboarding(c)
    \/ RegisterBridge(c) \/ Connected(c)

-----------------------------------------------------------------------------
\* The poll loop.

StartPolling(c) ==
    /\ loop[c] = "spawned"
    /\ loop' = [loop EXCEPT ![c] = "waiting"]
    /\ pollCancel' = [pollCancel EXCEPT ![c] = TRUE]
    /\ UNCHANGED <<loginVars, login, of, cred, conn, stopOnce, cancelled, under>>

\* With its context done or its token emptied a poll fails, and the loop waits
\* for the next tick.
PollFetch(c) ==
    /\ loop[c] = "waiting"
    /\ ~cancelled[c]
    /\ cred[c] # NoToken
    /\ under' = [under EXCEPT ![c] = cred[c]]
    /\ loop' = [loop EXCEPT ![c] = "fetched"]
    /\ UNCHANGED <<loginVars, login, of, cred, conn, pollCancel, stopOnce, cancelled>>

\* What was fetched is queued and acknowledged, or the poll has failed.
PollAck(c) ==
    /\ loop[c] = "fetched"
    /\ loop' = [loop EXCEPT ![c] = "waiting"]
    /\ UNCHANGED <<loginVars, login, of, cred, conn, pollCancel, stopOnce, cancelled, under>>

\* Mutant of LoopStops: a break that leaves the select and not the loop.
LoopBreaks(c) ==
    /\ loop[c] = "waiting"
    /\ cancelled[c]
    /\ UNCHANGED vars

LoopStops(c) ==
    /\ loop[c] = "waiting"
    /\ cancelled[c]
    /\ loop' = [loop EXCEPT ![c] = "ended"]
    /\ UNCHANGED <<loginVars, login, of, cred, conn, pollCancel, stopOnce, cancelled, under>>

PollLoop(c) == StartPolling(c) \/ PollFetch(c) \/ PollAck(c) \/ LoopStops(c)

-----------------------------------------------------------------------------
SignIn(p) ==
    \/ Waiter(p) /\ UNCHANGED <<login, clientVars>>
    \/ \E c \in Clients : NewLogin(p, c)
    \/ NewLoginFails(p)

Next ==
    \/ Attempt /\ UNCHANGED <<login, clientVars>>
    \/ \E p \in Processes : SignIn(p)
    \/ \E l \in Logins : LogoutRemote(l) \/ Stop(l) \/ \E c \in Clients : LoadLogin(l, c)
    \/ \E c \in Clients : Connect(c) \/ PollLoop(c)
    \/ Crash

Spec == Init /\ [][Next]_vars

\* Every request has a timeout, goroutines run, and the ticker ticks for ever.
FairSpec ==
    /\ Spec
    /\ \A p \in Processes : WF_vars(SignIn(p))
    /\ \A c \in Clients : WF_vars(Connect(c)) /\ WF_vars(PollLoop(c))

-----------------------------------------------------------------------------
TypeOK ==
    /\ LoginTypeOK
    /\ login \in [Logins -> [user : Users \cup {NoUser}, token : Tokens \cup {NoToken},
                             client : Clients \cup {NoClient}]]
    /\ of \in [Clients -> Logins \cup {NoLogin}]
    /\ cred \in [Clients -> Tokens \cup {NoToken}]
    /\ conn \in [Clients -> {"none", "started", "identified", "onboarded", "registered",
                             "ended"}]
    /\ loop \in [Clients -> {"none", "spawned", "waiting", "fetched", "ended"}]
    /\ pollCancel \in [Clients -> BOOLEAN]
    /\ stopOnce \in [Clients -> BOOLEAN]
    /\ cancelled \in [Clients -> BOOLEAN]
    /\ under \in [Clients -> Tokens \cup {NoToken}]

\* Signing in again leaves the old client's loop alone (connector.go:64-76),
\* and Disconnect can miss a loop: still no token is polled with by two
\* clients, which would fetch and acknowledge the same messages twice.
OnePollerPerToken ==
    \A c, d \in Clients : c # d /\ cred[c] # NoToken => cred[c] # cred[d]

\* pollOnce reads the client's token for the poll and again for the
\* acknowledgement (client.go:767, 817), with logouts and new logins in
\* between: it acknowledges under the token it polled with, or not at all.
AckUnderFetchToken ==
    \A c \in Clients : loop[c] = "fetched" => cred[c] \in {under[c], NoToken}

\* A callback that answers a login which is being waited for ends it.
AnsweredLoginEnds ==
    \A p \in Processes :
        (step[p] = "waiting" /\ pkce[p] \notin logins) ~> Ended(p)

\* Once WordPress has accepted the token the login gets its poll loop, whatever
\* fails in Connect after that (client.go:227-265).
ValidatedPolls ==
    \A c \in Clients : (conn[c] = "identified") ~> (loop[c] \in {"waiting", "ended"})

\* A loop that Disconnect did reach ends, in the middle of a poll too.
CancelledLoopEnds == \A c \in Clients : cancelled[c] ~> (loop[c] = "ended")

\* A login's token came from a completed process of its user, and is the token
\* of its client.  Before the client is loaded nobody else holds it.
LoginsOwned ==
    \A l \in Logins :
        /\ login[l].user = NoUser => login[l] = NotSignedIn
        /\ login[l].user # NoUser =>
              \E p \in Processes : /\ step[p] = "done" /\ token[p] = login[l].token
                                   /\ user[p] = login[l].user /\ LoginOf[p] = l
        /\ login[l].client # NoClient => /\ cred[login[l].client] = login[l].token
                                         /\ of[login[l].client] = l
        /\ login[l].user # NoUser /\ login[l].client = NoClient =>
              \A c \in Clients : cred[c] # login[l].token

\* A client's token came from a completed process, a client that is not made
\* yet has none, a poll was sent with one, and Connect starts one loop.
ClientsOwned ==
    \A c \in Clients :
        /\ cred[c] # NoToken =>
              \E p \in Processes : /\ step[p] = "done" /\ token[p] = cred[c]
                                   /\ LoginOf[p] = of[c]
        /\ of[c] = NoLogin => cred[c] = NoToken /\ loop[c] = "none" /\ conn[c] = "none"
        /\ loop[c] = "fetched" => under[c] # NoToken
        /\ loop[c] # "none" => conn[c] = "ended"

\* The inductive invariant behind OnePollerPerToken and the refinement: a token
\* goes from one link through one process into one client.
LifecycleInv ==
    /\ TypeOK
    /\ LoginInv
    /\ LoginsOwned /\ ClientsOwned
    /\ OnePollerPerToken /\ AckUnderFetchToken

-----------------------------------------------------------------------------
UserOrNone(p) == IF p = NoProcess THEN NoUser ELSE user[p]

IssuedTo == [k \in Tokens |-> UserOrNone(grantee[k])]
AccountOf == [l \in Logins |-> [user |-> login[l].user, token |-> login[l].token]]
Used == {token[p] : p \in {q \in Processes : step[q] = "done"}}
InService == {cred[c] : c \in Clients} \ {NoToken}
Polled == {under[c] : c \in {d \in Clients : loop[d] = "fetched"}}

A == INSTANCE Account WITH issuedTo <- IssuedTo, account <- AccountOf, used <- Used,
                           inService <- InService, polled <- Polled

\* Login processes, reconnects, leftover loops and crashes keep the promises
\* of Account: a token enters service once, for the user whose link led to it,
\* and a client that was logged out does not poll with it again.
ImplementsAccount == A!AccountSpec
=============================================================================
