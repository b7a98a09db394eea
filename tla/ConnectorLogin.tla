--------------------------- MODULE ConnectorLogin ---------------------------
(***************************************************************************)
(* The connector's browser login (pkg/connector/login.go) and the callback *)
(* server it waits for (pkg/connector/server.go).  A login process shows a *)
(* link with a fresh state and waits on a channel; the callback handler    *)
(* takes the pending login of a state and puts the result into that        *)
(* channel.  Lifecycle composes this module with what follows a login.     *)
(***************************************************************************)
CONSTANTS Users,
          Processes,   \* login processes the users of the bridge start
          States,      \* random state parameters
          Tokens, NoUser, NoProcess, NoState, NoToken,
          DefaultSite    \* default_site_url is configured

ASSUME LoginAssumption ==
    /\ NoUser \notin Users
    /\ NoProcess \notin Processes
    /\ NoState \notin States
    /\ NoToken \notin Tokens
    /\ DefaultSite \in BOOLEAN

VARIABLES
    step,       \* where each process is
    user,       \* DataMachineLogin.User, NoUser if not created yet
    pkce,       \* DataMachineLogin.pkce: its state parameter
    logins,     \* CallbackServer.logins: states with a pending login
    resultCh,   \* PKCELoginState.ResultCh, which has room for one result
    shownBy,    \* the process that showed each state's link (history)
    token,      \* the token each process got for its code
    grantee     \* the process whose link led to the token (WordPress)

loginVars == <<step, user, pkce, logins, resultCh, shownBy, token, grantee>>

NoResult == [state |-> NoState, kind |-> "none"]

LoginInit ==
    /\ step = [p \in Processes |-> "new"]
    /\ user = [p \in Processes |-> NoUser]
    /\ pkce = [p \in Processes |-> NoState]
    /\ logins = {}
    /\ resultCh = [s \in States |-> NoResult]
    /\ shownBy = [s \in States |-> NoProcess]
    /\ token = [p \in Processes |-> NoToken]
    /\ grantee = [k \in Tokens |-> NoProcess]

Goto(p, to) == step' = [step EXCEPT ![p] = to]

Ended(p) == step[p] \in {"done", "failed"}

-----------------------------------------------------------------------------
\* The process up to its link.

CreateLogin(p, u) ==
    /\ step[p] = "new"
    /\ user' = [user EXCEPT ![p] = u]
    /\ Goto(p, "created")
    /\ UNCHANGED <<pkce, logins, resultCh, shownBy, token, grantee>>

Start(p) ==
    /\ step[p] = "created"
    /\ ~DefaultSite
    /\ Goto(p, "asked")
    /\ UNCHANGED <<user, pkce, logins, resultCh, shownBy, token, grantee>>

RegisterLogin(s) == logins' = logins \cup {s}

\* With a default site, Start submits it itself.
MaySubmit(p) == step[p] = IF DefaultSite THEN "created" ELSE "asked"

SubmitUserInput(p) ==
    /\ MaySubmit(p)
    /\ \E s \in States :
          /\ shownBy[s] = NoProcess
          /\ shownBy' = [shownBy EXCEPT ![s] = p]
          /\ pkce' = [pkce EXCEPT ![p] = s]
          /\ RegisterLogin(s)
    /\ Goto(p, "shown")
    /\ UNCHANGED <<user, resultCh, token, grantee>>

\* No site, no usable callback URL, or no randomness.
SubmitFails(p) ==
    /\ MaySubmit(p)
    /\ Goto(p, "failed")
    /\ UNCHANGED <<user, pkce, logins, resultCh, shownBy, token, grantee>>

\* Cancel does nothing: the pending login stays registered.
Cancel(p) ==
    /\ step[p] \in {"created", "asked", "shown"}
    /\ Goto(p, "failed")
    /\ UNCHANGED <<user, pkce, logins, resultCh, shownBy, token, grantee>>

-----------------------------------------------------------------------------
\* handleCallback: whoever has the link may follow it, at any time.

\* Mutant of PutResult: a channel without room, as make(chan T) would give.
PutResultUnbuffered(s, kind) ==
    resultCh' = IF \E p \in Processes : pkce[p] = s /\ step[p] = "waiting"
                THEN [resultCh EXCEPT ![s] = [state |-> s, kind |-> kind]]
                ELSE resultCh

\* The send never blocks; a second result would be dropped.
PutResult(s, kind) ==
    resultCh' = IF resultCh[s] = NoResult
                THEN [resultCh EXCEPT ![s] = [state |-> s, kind |-> kind]]
                ELSE resultCh

\* Mutant of PopLogin: the login is looked up and stays.
PeekLogin(s) == UNCHANGED logins

PopLogin(s) == logins' = logins \ {s}

\* Mutant of HandleCallback: only a code is passed on, an error is just shown.
HandleCallbackQuietly(s) ==
    /\ s \in logins
    /\ PopLogin(s)
    /\ PutResult(s, "code") \/ UNCHANGED resultCh
    /\ UNCHANGED <<step, user, pkce, shownBy, token, grantee>>

HandleCallback(s) ==
    /\ s \in logins
    /\ PopLogin(s)
    /\ \E kind \in {"code", "error"} : PutResult(s, kind)
    /\ UNCHANGED <<step, user, pkce, shownBy, token, grantee>>

-----------------------------------------------------------------------------
\* Wait.

Wait(p) ==
    /\ step[p] = "shown"
    /\ Goto(p, "waiting")
    /\ UNCHANGED <<user, pkce, logins, resultCh, shownBy, token, grantee>>

\* The context ends first, or is chosen where both are ready.
WaitCancelled(p) ==
    /\ step[p] = "waiting"
    /\ Goto(p, "failed")
    /\ UNCHANGED <<user, pkce, logins, resultCh, shownBy, token, grantee>>

WaitReceives(p) ==
    LET result == resultCh[pkce[p]]
    IN  /\ step[p] = "waiting"
        /\ result # NoResult
        /\ resultCh' = [resultCh EXCEPT ![pkce[p]] = NoResult]
        /\ Goto(p, IF result.kind = "code" /\ result.state = pkce[p]
                   THEN "exchanging" ELSE "failed")
        /\ UNCHANGED <<user, pkce, logins, shownBy, token, grantee>>

\* WordPress issues a token to whoever followed the link of the code.
ExchangeAuthorizationCode(p) ==
    /\ step[p] = "exchanging"
    /\ \E k \in Tokens :
          /\ grantee[k] = NoProcess
          /\ grantee' = [grantee EXCEPT ![k] = shownBy[pkce[p]]]
          /\ token' = [token EXCEPT ![p] = k]
    /\ Goto(p, "verifying")
    /\ UNCHANGED <<user, pkce, logins, resultCh, shownBy>>

VerifyAgentAccess(p) ==
    /\ step[p] = "verifying"
    /\ Goto(p, "verified")
    /\ UNCHANGED <<user, pkce, logins, resultCh, shownBy, token, grantee>>

\* The exchange or the access check fails, or is cut off by the context.
WaitFails(p) ==
    /\ step[p] \in {"exchanging", "verifying"}
    /\ Goto(p, "failed")
    /\ UNCHANGED <<user, pkce, logins, resultCh, shownBy, token, grantee>>

\* What a user, who may stop anywhere, or a browser does.
Attempt ==
    \/ \E p \in Processes : \/ \E u \in Users : CreateLogin(p, u)
                            \/ Start(p) \/ SubmitUserInput(p) \/ SubmitFails(p)
                            \/ Cancel(p) \/ Wait(p) \/ WaitCancelled(p)
    \/ \E s \in States : HandleCallback(s)

\* What runs by itself once a result is there.
Waiter(p) ==
    \/ WaitReceives(p) \/ ExchangeAuthorizationCode(p)
    \/ VerifyAgentAccess(p) \/ WaitFails(p)

\* Processes, pending logins and channels are in memory only.
LoginCrash ==
    /\ step' = [p \in Processes |-> IF step[p] \in {"new", "done"} THEN step[p] ELSE "failed"]
    /\ logins' = {}
    /\ resultCh' = [s \in States |-> NoResult]
    /\ UNCHANGED <<user, pkce, shownBy, token, grantee>>

-----------------------------------------------------------------------------
LoginTypeOK ==
    /\ step \in [Processes -> {"new", "created", "asked", "shown", "waiting", "exchanging",
                               "verifying", "verified", "done", "failed"}]
    /\ user \in [Processes -> Users \cup {NoUser}]
    /\ pkce \in [Processes -> States \cup {NoState}]
    /\ logins \subseteq States
    /\ resultCh \in [States -> [state : States \cup {NoState},
                                kind : {"none", "code", "error"}]]
    /\ shownBy \in [States -> Processes \cup {NoProcess}]
    /\ token \in [Processes -> Tokens \cup {NoToken}]
    /\ grantee \in [Tokens -> Processes \cup {NoProcess}]

\* However the callback, the display of the link and Wait are ordered
\* (login.go:121-145, server.go:136-139): a login that can still be waited for
\* can still be answered, or its answer is in the channel.
AnswerNotLost ==
    \A p \in Processes : step[p] \in {"shown", "waiting"} =>
        pkce[p] \in logins \/ resultCh[pkce[p]] # NoResult

\* A state belongs to one process, and only one that was shown is pending; its
\* channel is empty as long as it is.
LinksOwned ==
    /\ \A p \in Processes :
          /\ pkce[p] # NoState => shownBy[pkce[p]] = p
          /\ step[p] \in {"shown", "waiting", "exchanging", "verifying", "verified"} =>
                pkce[p] # NoState
          /\ step[p] \in {"new", "created", "asked"} => pkce[p] = NoState
          /\ step[p] # "new" => user[p] # NoUser
    /\ \A s \in States :
          /\ s \in logins => shownBy[s] # NoProcess /\ resultCh[s] = NoResult
          /\ resultCh[s] # NoResult => resultCh[s].state = s /\ shownBy[s] # NoProcess

\* A process holds a token from the exchange on, one its own link led to.
TokensOwned ==
    /\ \A p \in Processes :
          /\ step[p] \in {"verifying", "verified", "done"} => token[p] # NoToken
          /\ token[p] # NoToken =>
                /\ grantee[token[p]] = p
                /\ step[p] \in {"verifying", "verified", "done", "failed"}
    /\ \A k \in Tokens : grantee[k] # NoProcess => step[grantee[k]] # "new"

\* The inductive invariant of the login flow.
LoginInv == LoginTypeOK /\ LinksOwned /\ TokensOwned /\ AnswerNotLost
=============================================================================
