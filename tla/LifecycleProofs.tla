--------------------------- MODULE LifecycleProofs ---------------------------
(***************************************************************************)
(* Proofs about signing in and out of connector mode, for any number of    *)
(* users, login processes, login ids, tokens and clients: LifecycleInv     *)
(* holds in every reachable state, and Lifecycle implements Account.       *)
(* A token goes from one link through one process into one client at a     *)
(* time; everything else follows from that.                                *)
(***************************************************************************)
EXTENDS Lifecycle, TLAPS

USE LoginAssumption, LifecycleAssumption

-----------------------------------------------------------------------------
\* The login flow by itself.

LEMMA LoginInitInv == LoginInit => LoginInv
  BY SMT DEF LoginInit, LoginInv, LoginTypeOK, LinksOwned, TokensOwned, AnswerNotLost, NoResult

\* Steps that only move a process to its end, or to its next place.
LEMMA GotoInv ==
  ASSUME LoginInv, NEW p \in Processes, NEW to, Goto(p, to),
         \/ to = "failed" /\ step[p] # "new"
         \/ step[p] = "created" /\ to = "asked"
         \/ step[p] = "shown" /\ to = "waiting"
         \/ step[p] = "verifying" /\ to = "verified"
         \/ step[p] = "verified" /\ to = "done",
         UNCHANGED <<user, pkce, logins, resultCh, shownBy, token, grantee>>
  PROVE  LoginInv'
  BY SMT DEF Goto, LoginInv, LoginTypeOK, LinksOwned, TokensOwned, AnswerNotLost, NoResult

LEMMA CreateLoginInv ==
  ASSUME LoginInv, NEW p \in Processes, NEW u \in Users, CreateLogin(p, u)
  PROVE  LoginInv'
  BY SMT DEF CreateLogin, Goto, LoginInv, LoginTypeOK, LinksOwned, TokensOwned, AnswerNotLost,
         NoResult

\* A state is shown once, so nothing can have been answered for it.
LEMMA SubmitUserInputInv ==
  ASSUME LoginInv, NEW p \in Processes, SubmitUserInput(p)
  PROVE  LoginInv'
<1>1. PICK s \in States :
        /\ shownBy[s] = NoProcess
        /\ shownBy' = [shownBy EXCEPT ![s] = p]
        /\ pkce' = [pkce EXCEPT ![p] = s]
        /\ logins' = logins \cup {s}
  BY Zenon DEF SubmitUserInput, RegisterLogin
<1>2. /\ step' = [step EXCEPT ![p] = "shown"]
      /\ step[p] \in {"created", "asked"}
      /\ UNCHANGED <<user, resultCh, token, grantee>>
  BY SMT DEF SubmitUserInput, MaySubmit, Goto
<1>3. LoginTypeOK'
  BY <1>1, <1>2, SMT DEF LoginInv, LoginTypeOK
<1>4. LinksOwned' /\ AnswerNotLost'
  BY <1>1, <1>2, SMT DEF LoginInv, LoginTypeOK, LinksOwned, AnswerNotLost, NoResult
<1>5. TokensOwned'
  BY <1>1, <1>2, SMT DEF LoginInv, LoginTypeOK, TokensOwned
<1> QED
  BY <1>3, <1>4, <1>5, Zenon DEF LoginInv

\* The channel of a pending login is empty, so there is room for the result.
LEMMA HandleCallbackInv ==
  ASSUME LoginInv, NEW s \in States, HandleCallback(s)
  PROVE  LoginInv'
<1>1. resultCh[s] = NoResult
  BY Zenon DEF HandleCallback, LoginInv, LinksOwned
<1>2. PICK kind \in {"code", "error"} : PutResult(s, kind)
  BY Zenon DEF HandleCallback
<1>3. resultCh' = [resultCh EXCEPT ![s] = [state |-> s, kind |-> kind]]
  BY <1>1, <1>2, Zenon DEF PutResult
<1>4. /\ s \in logins /\ logins' = logins \ {s}
      /\ UNCHANGED <<step, user, pkce, shownBy, token, grantee>>
  BY DEF HandleCallback, PopLogin
<1>5. LoginTypeOK'
  BY <1>3, <1>4, SMT DEF LoginInv, LoginTypeOK
<1>6. resultCh'[s].kind = kind /\ resultCh'[s].state = s
  BY <1>3, SMT DEF LoginInv, LoginTypeOK
<1>7. \A r \in States \ {s} : resultCh'[r] = resultCh[r]
  BY <1>3, SMT DEF LoginInv, LoginTypeOK
<1>8. resultCh'[s] # NoResult
  BY <1>6, SMT DEF NoResult
<1>9. LinksOwned' /\ AnswerNotLost'
  BY <1>4, <1>6, <1>7, <1>8, SMT DEF LoginInv, LoginTypeOK, LinksOwned, AnswerNotLost
<1>10. TokensOwned'
  BY <1>4, SMT DEF LoginInv, TokensOwned
<1> QED
  BY <1>5, <1>9, <1>10, Zenon DEF LoginInv

\* The process whose link it was takes the result, and nobody else needs it.
LEMMA WaitReceivesInv ==
  ASSUME LoginInv, NEW p \in Processes, WaitReceives(p)
  PROVE  LoginInv'
<1> DEFINE s == pkce[p]
<1>1. s \in States /\ shownBy[s] = p
  BY SMT DEF WaitReceives, LoginInv, LoginTypeOK, LinksOwned
<1>2. /\ resultCh' = [resultCh EXCEPT ![s] = NoResult]
      /\ step[p] = "waiting"
      /\ resultCh[s] # NoResult
      /\ UNCHANGED <<user, pkce, logins, shownBy, token, grantee>>
  BY DEF WaitReceives
<1>3. PICK to \in {"exchanging", "failed"} : step' = [step EXCEPT ![p] = to]
  BY Zenon DEF WaitReceives, Goto
<1>4. LoginTypeOK'
  BY <1>1, <1>2, <1>3, SMT DEF LoginInv, LoginTypeOK, NoResult
<1>5. resultCh'[s] = NoResult /\ \A r \in States \ {s} : resultCh'[r] = resultCh[r]
  BY <1>1, <1>2, SMT DEF LoginInv, LoginTypeOK
<1>6. step'[p] = to /\ \A q \in Processes \ {p} : step'[q] = step[q]
  BY <1>3, SMT DEF LoginInv, LoginTypeOK
<1>7. LinksOwned'
  BY <1>1, <1>2, <1>5, <1>6, SMT DEF LoginInv, LoginTypeOK, LinksOwned
<1>8. AnswerNotLost'
  BY <1>1, <1>2, <1>5, <1>6, SMT DEF LoginInv, LoginTypeOK, LinksOwned, AnswerNotLost
<1>9. TokensOwned'
  BY <1>2, <1>6, SMT DEF LoginInv, LoginTypeOK, TokensOwned
<1> QED
  BY <1>4, <1>7, <1>8, <1>9, Zenon DEF LoginInv

\* A new token, granted to the process whose link was followed.
LEMMA ExchangeInv ==
  ASSUME LoginInv, NEW p \in Processes, ExchangeAuthorizationCode(p)
  PROVE  LoginInv'
<1>1. PICK k \in Tokens :
        /\ grantee[k] = NoProcess
        /\ grantee' = [grantee EXCEPT ![k] = shownBy[pkce[p]]]
        /\ token' = [token EXCEPT ![p] = k]
  BY Zenon DEF ExchangeAuthorizationCode
<1>2. /\ step[p] = "exchanging"
      /\ step' = [step EXCEPT ![p] = "verifying"]
      /\ UNCHANGED <<user, pkce, logins, resultCh, shownBy>>
  BY DEF ExchangeAuthorizationCode, Goto
<1>3. shownBy[pkce[p]] = p /\ token[p] = NoToken
  BY <1>2, SMT DEF LoginInv, LoginTypeOK, LinksOwned, TokensOwned
<1>4. LoginTypeOK'
  BY <1>1, <1>2, <1>3, SMT DEF LoginInv, LoginTypeOK
<1>5. LinksOwned' /\ AnswerNotLost'
  BY <1>2, SMT DEF LoginInv, LoginTypeOK, LinksOwned, AnswerNotLost
<1>6. TokensOwned'
  BY <1>1, <1>2, <1>3, SMT DEF LoginInv, LoginTypeOK, TokensOwned
<1> QED
  BY <1>4, <1>5, <1>6, Zenon DEF LoginInv

LEMMA AttemptInv == LoginInv /\ Attempt => LoginInv'
<1> SUFFICES ASSUME LoginInv, Attempt PROVE LoginInv'
  OBVIOUS
<1>1. CASE \E p \in Processes, u \in Users : CreateLogin(p, u)
  BY <1>1, CreateLoginInv
<1>2. CASE \E p \in Processes : SubmitUserInput(p)
  BY <1>2, SubmitUserInputInv
<1>3. CASE \E p \in Processes : \/ Start(p) \/ SubmitFails(p)
                                \/ Cancel(p) \/ Wait(p) \/ WaitCancelled(p)
  <2>1. PICK p \in Processes, to \in {"asked", "waiting", "failed"} :
          /\ Goto(p, to)
          /\ \/ to = "failed" /\ step[p] # "new"
             \/ step[p] = "created" /\ to = "asked"
             \/ step[p] = "shown" /\ to = "waiting"
          /\ UNCHANGED <<user, pkce, logins, resultCh, shownBy, token, grantee>>
    BY <1>3, SMT DEF Start, SubmitFails, MaySubmit, Cancel, Wait, WaitCancelled
  <2> QED
    BY <2>1, GotoInv
<1>4. CASE \E s \in States : HandleCallback(s)
  BY <1>4, HandleCallbackInv
<1> QED
  BY <1>1, <1>2, <1>3, <1>4, Zenon DEF Attempt

LEMMA WaiterInv ==
  ASSUME LoginInv, NEW p \in Processes, Waiter(p)
  PROVE  LoginInv'
<1>1. CASE WaitReceives(p)
  BY <1>1, WaitReceivesInv
<1>2. CASE ExchangeAuthorizationCode(p)
  BY <1>2, ExchangeInv
<1>3. CASE VerifyAgentAccess(p) \/ WaitFails(p)
  BY <1>3, GotoInv, SMT DEF VerifyAgentAccess, WaitFails
<1> QED
  BY <1>1, <1>2, <1>3 DEF Waiter

LEMMA LoginCrashInv == LoginInv /\ LoginCrash => LoginInv'
  BY SMT DEF LoginCrash, LoginInv, LoginTypeOK, LinksOwned, TokensOwned, AnswerNotLost, NoResult

-----------------------------------------------------------------------------
\* Logins and clients beside it.  DoneKept is all they need to know of a step
\* of the login flow.

DoneKept ==
    \A p \in Processes : step[p] = "done" =>
        step'[p] = "done" /\ token'[p] = token[p] /\ user'[p] = user[p]

NoneDone == \A p \in Processes : step'[p] = "done" => step[p] = "done"

LEMMA DoneStays ==
  ASSUME LoginInv,
         Attempt \/ (\E p \in Processes : Waiter(p)) \/ LoginCrash
         \/ UNCHANGED loginVars \/ (\E p \in Processes : NewLoginFails(p))
  PROVE  DoneKept /\ NoneDone
<1>1. CASE Attempt
  BY <1>1, SMT DEF Attempt, CreateLogin, Start, SubmitUserInput, SubmitFails, MaySubmit, Cancel,
         Wait, WaitCancelled, HandleCallback, Goto, DoneKept, NoneDone, LoginInv, LoginTypeOK
<1>2. CASE \E p \in Processes : Waiter(p)
  BY <1>2, SMT DEF Waiter, WaitReceives, ExchangeAuthorizationCode, VerifyAgentAccess,
         WaitFails, Goto, DoneKept, NoneDone, LoginInv, LoginTypeOK
<1>3. CASE LoginCrash
  BY <1>3, SMT DEF LoginCrash, DoneKept, NoneDone
<1>4. CASE UNCHANGED loginVars
  BY <1>4, SMT DEF loginVars, DoneKept, NoneDone
<1>5. CASE \E p \in Processes : NewLoginFails(p)
  BY <1>5, SMT DEF NewLoginFails, Goto, DoneKept, NoneDone, LoginInv, LoginTypeOK
<1> QED
  BY <1>1, <1>2, <1>3, <1>4, <1>5

\* A step that leaves logins, tokens of clients and the poll under way alone.
LEMMA QuietInv ==
  ASSUME LifecycleInv, LoginInv', TypeOK', DoneKept, UNCHANGED <<login, of, cred, under>>,
         \A c \in Clients :
            /\ loop'[c] = "fetched" => loop[c] = "fetched"
            /\ of[c] = NoLogin => loop'[c] = loop[c] /\ conn'[c] = conn[c]
            /\ loop'[c] # "none" => conn'[c] = "ended"
  PROVE  LifecycleInv'
<1>1. LoginsOwned'
  BY SMTT(30) DEF LifecycleInv, LoginsOwned, DoneKept
<1>2. ClientsOwned'
  BY SMTT(30) DEF LifecycleInv, ClientsOwned, DoneKept
<1>3. OnePollerPerToken' /\ AckUnderFetchToken'
  BY Zenon DEF LifecycleInv, OnePollerPerToken, AckUnderFetchToken
<1> QED
  BY <1>1, <1>2, <1>3, Zenon DEF LifecycleInv

\* No client holds the token of a process that is not done, and two done
\* processes do not have the same.
LEMMA TokenOfOne ==
  ASSUME LifecycleInv, NEW p \in Processes, NEW q \in Processes,
         token[p] # NoToken, token[p] = token[q]
  PROVE  p = q
  BY Zenon DEF LifecycleInv, LoginInv, TokensOwned

LEMMA FreshToken ==
  ASSUME LifecycleInv, NEW p \in Processes, step[p] = "verified"
  PROVE  /\ token[p] \in Tokens
         /\ \A c \in Clients : cred[c] # token[p]
         /\ \A l \in Logins : login[l].token # token[p]
<1>1. token[p] \in Tokens /\ token[p] # NoToken
  BY SMT DEF LifecycleInv, LoginInv, LoginTypeOK, TokensOwned
<1>2. ASSUME NEW q \in Processes, step[q] = "done" PROVE token[q] # token[p]
  BY <1>1, <1>2, TokenOfOne
<1>3. \A c \in Clients : cred[c] # token[p]
  BY <1>1, <1>2, SMT DEF LifecycleInv, ClientsOwned
<1>4. ASSUME NEW l \in Logins PROVE login[l].token # token[p]
  <2>1. CASE login[l].user = NoUser
    BY <1>1, <2>1, SMT DEF LifecycleInv, LoginsOwned, NotSignedIn
  <2>2. CASE login[l].user # NoUser
    BY <1>2, <2>2, SMT DEF LifecycleInv, LoginsOwned
  <2> QED
    BY <2>1, <2>2
<1> QED
  BY <1>1, <1>3, <1>4

\* Connect only goes on.
LEMMA ConnectInv ==
  ASSUME LifecycleInv, NEW c \in Clients, Connect(c)
  PROVE  LifecycleInv'
<1>1. /\ UNCHANGED <<loginVars, login, of, cred, pollCancel, stopOnce, cancelled, under>>
      /\ conn[c] \notin {"none", "ended"}
      /\ \E to \in {"identified", "onboarded", "registered", "ended"} :
            /\ conn' = [conn EXCEPT ![c] = to]
            /\ \/ UNCHANGED loop
               \/ to = "ended" /\ loop' = [loop EXCEPT ![c] = "spawned"]
  BY SMT DEF Connect, BadCredentials, GetIdentity, GetOnboarding, RegisterBridge, Connected, GoOn
<1>2. LoginInv' /\ DoneKept
  BY <1>1, SMT DEF LifecycleInv, LoginInv, LoginTypeOK, LinksOwned, TokensOwned, AnswerNotLost,
         loginVars, DoneKept
<1>3. TypeOK'
  BY <1>1, <1>2, SMT DEF LifecycleInv, TypeOK, LoginInv
<1>4. of[c] # NoLogin /\ loop[c] = "none"
  BY <1>1, SMT DEF LifecycleInv, ClientsOwned
<1>5. \A d \in Clients :
        /\ loop'[d] = "fetched" => loop[d] = "fetched"
        /\ of[d] = NoLogin => loop'[d] = loop[d] /\ conn'[d] = conn[d]
        /\ loop'[d] # "none" => conn'[d] = "ended"
  BY <1>1, <1>4, SMT DEF LifecycleInv, TypeOK, ClientsOwned
<1> QED
  BY <1>1, <1>2, <1>3, <1>5, QuietInv

\* The poll loop, but for the poll itself.
LEMMA LoopInv ==
  ASSUME LifecycleInv, NEW c \in Clients, StartPolling(c) \/ PollAck(c) \/ LoopStops(c)
  PROVE  LifecycleInv'
<1>1. /\ UNCHANGED <<loginVars, login, of, cred, conn, stopOnce, cancelled, under>>
      /\ loop[c] # "none"
  BY SMT DEF StartPolling, PollAck, LoopStops
<1>2. loop' = [loop EXCEPT ![c] = "waiting"] \/ loop' = [loop EXCEPT ![c] = "ended"]
  BY Zenon DEF StartPolling, PollAck, LoopStops
<1>3. pollCancel' = pollCancel \/ pollCancel' = [pollCancel EXCEPT ![c] = TRUE]
  BY Zenon DEF StartPolling, PollAck, LoopStops
<1>4. LoginInv' /\ DoneKept
  BY <1>1, SMT DEF LifecycleInv, LoginInv, LoginTypeOK, LinksOwned, TokensOwned, AnswerNotLost,
         loginVars, DoneKept
<1>5. TypeOK'
  <2>1. loop' \in [Clients -> {"none", "spawned", "waiting", "fetched", "ended"}]
    BY <1>2, SMTT(30) DEF LifecycleInv, TypeOK
  <2>2. pollCancel' \in [Clients -> BOOLEAN]
    BY <1>3 DEF LifecycleInv, TypeOK
  <2> QED
    BY <1>1, <1>4, <2>1, <2>2, SMT DEF LifecycleInv, TypeOK, LoginInv
<1>6. of[c] # NoLogin
  BY <1>1, Zenon DEF LifecycleInv, ClientsOwned
<1>7. \A d \in Clients :
        /\ loop'[d] = "fetched" => loop[d] = "fetched"
        /\ of[d] = NoLogin => loop'[d] = loop[d] /\ conn'[d] = conn[d]
        /\ loop'[d] # "none" => conn'[d] = "ended"
  BY <1>1, <1>2, <1>6, SMT DEF LifecycleInv, TypeOK, ClientsOwned
<1> QED
  BY <1>1, <1>4, <1>5, <1>7, QuietInv

LEMMA PollFetchInv ==
  ASSUME LifecycleInv, NEW c \in Clients, PollFetch(c)
  PROVE  LifecycleInv'
<1>1. LoginInv' /\ DoneKept
  BY SMT DEF PollFetch, LifecycleInv, LoginInv, LoginTypeOK, LinksOwned, TokensOwned,
         AnswerNotLost, loginVars, DoneKept
<1>2. TypeOK'
  BY <1>1, SMT DEF PollFetch, LifecycleInv, TypeOK, LoginInv
<1>3. LoginsOwned'
  BY <1>1, SMTT(30) DEF PollFetch, LifecycleInv, LoginsOwned, DoneKept
<1>4. ClientsOwned'
  BY <1>1, SMT DEF PollFetch, LifecycleInv, TypeOK, ClientsOwned, loginVars
<1>5. OnePollerPerToken'
  BY Zenon DEF PollFetch, LifecycleInv, OnePollerPerToken
<1>6. AckUnderFetchToken'
  BY SMT DEF PollFetch, LifecycleInv, TypeOK, AckUnderFetchToken
<1> QED
  BY <1>1, <1>2, <1>3, <1>4, <1>5, <1>6, Zenon DEF LifecycleInv

\* Stop touches no token and no loop.
LEMMA StopInv ==
  ASSUME LifecycleInv, NEW l \in Logins, Stop(l)
  PROVE  LifecycleInv'
<1>1. LoginInv' /\ DoneKept
  BY SMT DEF Stop, LifecycleInv, LoginInv, LoginTypeOK, LinksOwned, TokensOwned,
         AnswerNotLost, loginVars, DoneKept
<1>2. TypeOK'
  BY <1>1, SMT DEF Stop, Disconnect, LifecycleInv, TypeOK, LoginInv
<1>3. \A c \in Clients : loop[c] # "none" => conn[c] = "ended"
  BY Zenon DEF LifecycleInv, ClientsOwned
<1> QED
  BY <1>1, <1>2, <1>3, QuietInv, SMT DEF Stop

\* Only the client of the login loses its token.
LEMMA LogoutRemoteInv ==
  ASSUME LifecycleInv, NEW l \in Logins, LogoutRemote(l)
  PROVE  LifecycleInv'
<1> DEFINE e == login[l].client
<1>1. e \in Clients /\ of[e] = l
  BY SMT DEF LogoutRemote, LifecycleInv, TypeOK, LoginsOwned
<1>2. /\ cred' = [cred EXCEPT ![e] = NoToken]
      /\ login' = [login EXCEPT ![l] = NotSignedIn]
      /\ UNCHANGED <<loginVars, of, conn, loop, pollCancel, under>>
  BY DEF LogoutRemote
<1>3. LoginInv' /\ DoneKept
  BY <1>2, SMT DEF LifecycleInv, LoginInv, LoginTypeOK, LinksOwned, TokensOwned,
         AnswerNotLost, loginVars, DoneKept
<1>4. TypeOK'
  BY <1>1, <1>2, <1>3, SMT DEF LogoutRemote, Disconnect, LifecycleInv, TypeOK, LoginInv, NotSignedIn
<1>5. /\ login'[l] = NotSignedIn
      /\ \A m \in Logins \ {l} : login'[m] = login[m]
      /\ \A c \in Clients : cred'[c] \in {cred[c], NoToken} /\ (c # e => cred'[c] = cred[c])
  BY <1>2, SMT DEF LifecycleInv, TypeOK
<1>6. LoginsOwned'
  <2> SUFFICES ASSUME NEW m \in Logins
               PROVE  /\ login'[m].user = NoUser => login'[m] = NotSignedIn
                      /\ login'[m].user # NoUser =>
                            \E p \in Processes : /\ step'[p] = "done" /\ token'[p] = login'[m].token
                                                 /\ user'[p] = login'[m].user /\ LoginOf[p] = m
                      /\ login'[m].client # NoClient =>
                            cred'[login'[m].client] = login'[m].token /\ of'[login'[m].client] = m
                      /\ login'[m].user # NoUser /\ login'[m].client = NoClient =>
                            \A c \in Clients : cred'[c] # login'[m].token
    BY Zenon DEF LoginsOwned
  <2>1. CASE m = l
    BY <1>5, <2>1, SMT DEF NotSignedIn
  <2>2. CASE m # l
    <3>1. login'[m] = login[m]
      BY <1>5, <2>2
    <3>2. login[m].client # NoClient => login[m].client \in Clients \ {e}
      BY <1>1, <2>2, SMT DEF LifecycleInv, TypeOK, LoginsOwned
    <3>3. login[m].user # NoUser => login[m].token # NoToken
      BY SMT DEF LifecycleInv, LoginInv, TokensOwned, LoginsOwned
    <3> QED
      BY <1>2, <1>3, <1>5, <3>1, <3>2, <3>3, SMT DEF LifecycleInv, LoginsOwned, DoneKept
  <2> QED
    BY <2>1, <2>2
<1>7. ClientsOwned'
  BY <1>2, <1>3, <1>5, SMT DEF LifecycleInv, ClientsOwned, DoneKept
<1>8. OnePollerPerToken'
  BY <1>5, SMT DEF LifecycleInv, OnePollerPerToken
<1>9. AckUnderFetchToken'
  BY <1>2, <1>5, SMT DEF LifecycleInv, AckUnderFetchToken
<1> QED
  BY <1>3, <1>4, <1>6, <1>7, <1>8, <1>9, Zenon DEF LifecycleInv

\* The new client gets a token nobody holds; the one it replaces keeps its own.
LEMMA NewLoginInv ==
  ASSUME LifecycleInv, NEW p \in Processes, NEW c \in Clients, NewLogin(p, c)
  PROVE  LifecycleInv'
<1> DEFINE l == LoginOf[p]
           k == token[p]
<1>1. /\ step[p] = "verified" /\ of[c] = NoLogin
      /\ login' = [login EXCEPT ![l] = [user |-> user[p], token |-> k, client |-> c]]
      /\ of' = [of EXCEPT ![c] = l]
      /\ cred' = [cred EXCEPT ![c] = k]
      /\ conn' = [conn EXCEPT ![c] = "started"]
      /\ Goto(p, "done")
      /\ UNCHANGED <<user, pkce, logins, resultCh, shownBy, token, grantee, loop, pollCancel, under>>
  BY DEF NewLogin, LoadUserLogin
<1>2. /\ stopOnce' \in [Clients -> BOOLEAN]
      /\ cancelled' \in [Clients -> BOOLEAN]
  BY SMT DEF NewLogin, Disconnect, LifecycleInv, TypeOK
<1>3. LoginInv'
  BY <1>1, GotoInv, Zenon DEF LifecycleInv
<1>4. /\ k \in Tokens
      /\ \A d \in Clients : cred[d] # k
      /\ \A m \in Logins : login[m].token # k
  BY <1>1, FreshToken
<1>5. /\ l \in Logins /\ l # NoLogin
      /\ c # NoClient
      /\ user[p] \in Users
  BY <1>1, SMT DEF LifecycleInv, LoginInv, LoginTypeOK, LinksOwned
<1>6. TypeOK'
  <2>1. login' \in [Logins -> [user : Users \cup {NoUser}, token : Tokens \cup {NoToken},
                              client : Clients \cup {NoClient}]]
    BY <1>1, <1>4, <1>5, SMT DEF LifecycleInv, TypeOK
  <2>2. /\ of' \in [Clients -> Logins \cup {NoLogin}]
        /\ cred' \in [Clients -> Tokens \cup {NoToken}]
    BY <1>1, <1>4, <1>5, SMT DEF LifecycleInv, TypeOK
  <2>3. conn' \in [Clients -> {"none", "started", "identified", "onboarded", "registered",
                              "ended"}]
    BY <1>1, SMT DEF LifecycleInv, TypeOK
  <2> QED
    BY <1>1, <1>2, <1>3, <2>1, <2>2, <2>3, Zenon DEF LifecycleInv, TypeOK, LoginInv
<1>7. /\ step'[p] = "done" /\ \A q \in Processes \ {p} : step'[q] = step[q]
      /\ login'[l].user = user[p] /\ login'[l].token = k /\ login'[l].client = c
      /\ \A m \in Logins \ {l} : login'[m] = login[m]
      /\ of'[c] = l /\ \A d \in Clients \ {c} : of'[d] = of[d]
      /\ cred'[c] = k /\ \A d \in Clients \ {c} : cred'[d] = cred[d]
      /\ conn'[c] = "started" /\ \A d \in Clients \ {c} : conn'[d] = conn[d]
  BY <1>1, <1>5, SMT DEF Goto, LifecycleInv, TypeOK, LoginInv, LoginTypeOK
<1>8. LoginsOwned'
  <2> SUFFICES ASSUME NEW m \in Logins
               PROVE  /\ login'[m].user = NoUser => login'[m] = NotSignedIn
                      /\ login'[m].user # NoUser =>
                            \E q \in Processes : /\ step'[q] = "done" /\ token'[q] = login'[m].token
                                                 /\ user'[q] = login'[m].user /\ LoginOf[q] = m
                      /\ login'[m].client # NoClient =>
                            cred'[login'[m].client] = login'[m].token /\ of'[login'[m].client] = m
                      /\ login'[m].user # NoUser /\ login'[m].client = NoClient =>
                            \A d \in Clients : cred'[d] # login'[m].token
    BY Zenon DEF LoginsOwned
  <2>1. CASE m = l
    <3>1. step'[p] = "done" /\ token'[p] = login'[m].token /\ user'[p] = login'[m].user
      BY <1>1, <1>7, <2>1
    <3> QED
      BY <1>5, <1>7, <2>1, <3>1, SMT
  <2>2. CASE m # l
    <3>1. login'[m] = login[m]
      BY <1>7, <2>2
    <3>2. login[m].client # NoClient => login[m].client \in Clients \ {c}
      BY <1>1, SMT DEF LifecycleInv, TypeOK, LoginsOwned
    <3>3. \A q \in Processes : step[q] = "done" => q # p
      BY <1>1
    <3> QED
      BY <1>1, <1>4, <1>7, <3>1, <3>2, <3>3, SMTT(30) DEF LifecycleInv, LoginsOwned
  <2> QED
    BY <2>1, <2>2
<1>9. ClientsOwned'
  <2> SUFFICES ASSUME NEW d \in Clients
               PROVE  /\ cred'[d] # NoToken =>
                            \E q \in Processes : /\ step'[q] = "done" /\ token'[q] = cred'[d]
                                                 /\ LoginOf[q] = of'[d]
                      /\ of'[d] = NoLogin =>
                            cred'[d] = NoToken /\ loop'[d] = "none" /\ conn'[d] = "none"
                      /\ loop'[d] = "fetched" => under'[d] # NoToken
                      /\ loop'[d] # "none" => conn'[d] = "ended"
    BY Zenon DEF ClientsOwned
  <2>1. CASE d = c
    <3>1. loop'[c] = "none"
      BY <1>1, Zenon DEF LifecycleInv, ClientsOwned
    <3> QED
      BY <1>1, <1>5, <1>7, <2>1, <3>1, SMT
  <2>2. CASE d # c
    <3>1. /\ cred'[d] = cred[d] /\ of'[d] = of[d] /\ conn'[d] = conn[d] /\ loop'[d] = loop[d]
          /\ under'[d] = under[d]
      BY <1>1, <1>7, <2>2
    <3>2. \A q \in Processes : step[q] = "done" => step'[q] = "done"
      BY <1>7
    <3> QED
      BY <1>1, <3>1, <3>2, SMT DEF LifecycleInv, ClientsOwned
  <2> QED
    BY <2>1, <2>2
<1>10. OnePollerPerToken'
  BY <1>4, <1>7, SMT DEF LifecycleInv, OnePollerPerToken
<1>11. AckUnderFetchToken'
  <2>1. loop[c] = "none"
    BY <1>1, Zenon DEF LifecycleInv, ClientsOwned
  <2> QED
    BY <1>1, <1>7, <2>1, SMT DEF LifecycleInv, AckUnderFetchToken
<1> QED
  BY <1>3, <1>6, <1>8, <1>9, <1>10, <1>11, Zenon DEF LifecycleInv

\* After a restart a login's token goes to its first client, and no other.
LEMMA LoadLoginInv ==
  ASSUME LifecycleInv, NEW l \in Logins, NEW c \in Clients, LoadLogin(l, c)
  PROVE  LifecycleInv'
<1> DEFINE k == login[l].token
<1>1. /\ login[l].user # NoUser /\ login[l].client = NoClient /\ of[c] = NoLogin
      /\ login' = [login EXCEPT ![l] = [user |-> login[l].user, token |-> k, client |-> c]]
      /\ of' = [of EXCEPT ![c] = l]
      /\ cred' = [cred EXCEPT ![c] = k]
      /\ conn' = [conn EXCEPT ![c] = "started"]
      /\ UNCHANGED <<loginVars, loop, pollCancel, stopOnce, cancelled, under>>
  BY DEF LoadLogin, LoadUserLogin
<1>2. LoginInv' /\ DoneKept
  BY <1>1, SMT DEF LifecycleInv, LoginInv, LoginTypeOK, LinksOwned, TokensOwned,
         AnswerNotLost, loginVars, DoneKept
<1>3. PICK p \in Processes :
        step[p] = "done" /\ token[p] = k /\ user[p] = login[l].user /\ LoginOf[p] = l
  BY <1>1, Zenon DEF LifecycleInv, LoginsOwned
<1>4. /\ k # NoToken /\ k \in Tokens
      /\ l # NoLogin /\ c # NoClient
      /\ \A d \in Clients : cred[d] # k
  BY <1>1, <1>3, SMT DEF LifecycleInv, LoginInv, LoginTypeOK, TokensOwned, LoginsOwned
<1>5. ASSUME NEW m \in Logins \ {l}, login[m].user # NoUser PROVE login[m].token # k
  <2>1. PICK q \in Processes : token[q] = login[m].token /\ LoginOf[q] = m
    BY <1>5, Zenon DEF LifecycleInv, LoginsOwned
  <2>2. q # p
    BY <1>3, <2>1
  <2> QED
    BY <1>3, <1>4, <2>1, <2>2, TokenOfOne
<1>6. TypeOK'
  BY <1>1, <1>2, <1>4, SMT DEF LifecycleInv, TypeOK, LoginInv
<1>7. /\ login'[l].user = login[l].user /\ login'[l].token = k /\ login'[l].client = c
      /\ \A m \in Logins \ {l} : login'[m] = login[m]
      /\ of'[c] = l /\ \A d \in Clients \ {c} : of'[d] = of[d]
      /\ cred'[c] = k /\ \A d \in Clients \ {c} : cred'[d] = cred[d]
      /\ conn'[c] = "started" /\ \A d \in Clients \ {c} : conn'[d] = conn[d]
      /\ UNCHANGED <<step, user, token>>
  BY <1>1, SMT DEF LifecycleInv, TypeOK, loginVars
<1>8. LoginsOwned'
  <2> SUFFICES ASSUME NEW m \in Logins
               PROVE  /\ login'[m].user = NoUser => login'[m] = NotSignedIn
                      /\ login'[m].user # NoUser =>
                            \E q \in Processes : /\ step'[q] = "done" /\ token'[q] = login'[m].token
                                                 /\ user'[q] = login'[m].user /\ LoginOf[q] = m
                      /\ login'[m].client # NoClient =>
                            cred'[login'[m].client] = login'[m].token /\ of'[login'[m].client] = m
                      /\ login'[m].user # NoUser /\ login'[m].client = NoClient =>
                            \A d \in Clients : cred'[d] # login'[m].token
    BY Zenon DEF LoginsOwned
  <2>1. CASE m = l
    BY <1>1, <1>3, <1>4, <1>7, <2>1, SMT
  <2>2. CASE m # l
    <3>1. login'[m] = login[m]
      BY <1>7, <2>2
    <3>2. login[m].client # NoClient => login[m].client \in Clients \ {c}
      BY <1>1, SMT DEF LifecycleInv, TypeOK, LoginsOwned
    <3>3. login[m].user # NoUser => login[m].token # k
      BY <1>5, <2>2
    <3> QED
      BY <1>7, <3>1, <3>2, <3>3, SMTT(30) DEF LifecycleInv, LoginsOwned
  <2> QED
    BY <2>1, <2>2
<1>9. ClientsOwned'
  <2>1. loop'[c] = loop[c] /\ of'[c] # NoLogin
    BY <1>1, <1>4, <1>7
  <2> QED
    BY <1>1, <1>3, <1>7, <2>1, SMTT(30) DEF LifecycleInv, ClientsOwned
<1>10. OnePollerPerToken'
  BY <1>4, <1>7, SMT DEF LifecycleInv, OnePollerPerToken
<1>11. AckUnderFetchToken'
  <2>1. loop[c] = "none"
    BY <1>1, Zenon DEF LifecycleInv, ClientsOwned
  <2> QED
    BY <1>1, <1>7, <2>1, SMT DEF LifecycleInv, AckUnderFetchToken
<1> QED
  BY <1>2, <1>6, <1>8, <1>9, <1>10, <1>11, Zenon DEF LifecycleInv

\* Rows survive, and no client has a token.
LEMMA CrashInv ==
  ASSUME LifecycleInv, Crash
  PROVE  LifecycleInv'
<1>1. LoginInv' /\ DoneKept
  BY LoginCrashInv, DoneStays, Zenon DEF Crash, LifecycleInv
<1>2. TypeOK'
  BY <1>1, SMT DEF Crash, LifecycleInv, TypeOK, LoginInv
<1>3. \A l \in Logins : /\ login'[l].user = login[l].user /\ login'[l].token = login[l].token
                        /\ login'[l].client = NoClient
                        /\ login[l] = NotSignedIn => login'[l] = NotSignedIn
  BY SMT DEF Crash, NotSignedIn
<1>4. \A c \in Clients : /\ cred'[c] = NoToken /\ loop'[c] # "fetched"
                         /\ of[c] = NoLogin => loop'[c] = "none" /\ conn'[c] = "none"
  BY SMT DEF Crash
<1>5. LoginsOwned'
  <2>1. \A l \in Logins : login[l].user # NoUser => login[l].token # NoToken
    BY SMT DEF LifecycleInv, LoginInv, TokensOwned, LoginsOwned
  <2> QED
    BY <1>1, <1>3, <1>4, <2>1, SMTT(30) DEF LifecycleInv, LoginsOwned, DoneKept
<1>6. ClientsOwned'
  BY <1>4, SMT DEF Crash, ClientsOwned
<1>7. OnePollerPerToken' /\ AckUnderFetchToken'
  BY <1>4, SMT DEF OnePollerPerToken, AckUnderFetchToken
<1> QED
  BY <1>1, <1>2, <1>5, <1>6, <1>7, Zenon DEF LifecycleInv

LEMMA InitInv == Init => LifecycleInv
<1> SUFFICES ASSUME Init PROVE LifecycleInv
  OBVIOUS
<1>1. LoginInv
  BY LoginInitInv DEF Init
<1>2. TypeOK
  BY <1>1, SMT DEF Init, TypeOK, LoginInv, NotSignedIn
<1>3. LoginsOwned /\ ClientsOwned /\ OnePollerPerToken /\ AckUnderFetchToken
  BY SMT DEF Init, LoginsOwned, ClientsOwned, OnePollerPerToken, AckUnderFetchToken, NotSignedIn
<1> QED
  BY <1>1, <1>2, <1>3 DEF LifecycleInv

LEMMA NextInv == LifecycleInv /\ [Next]_vars => LifecycleInv'
<1> SUFFICES ASSUME LifecycleInv, [Next]_vars PROVE LifecycleInv'
  OBVIOUS
<1>1. ASSUME UNCHANGED <<login, clientVars>>, LoginInv', DoneKept PROVE LifecycleInv'
  <2>1. TypeOK'
    BY <1>1, SMT DEF clientVars, LifecycleInv, TypeOK, LoginInv
  <2>2. \A c \in Clients : loop[c] # "none" => conn[c] = "ended"
    BY Zenon DEF LifecycleInv, ClientsOwned
  <2> QED
    BY <1>1, <2>1, <2>2, QuietInv, SMT DEF clientVars
<1>2. CASE Attempt /\ UNCHANGED <<login, clientVars>>
  BY <1>1, <1>2, AttemptInv, DoneStays, Zenon DEF LifecycleInv
<1>3. ASSUME NEW p \in Processes, SignIn(p) PROVE LifecycleInv'
  <2>1. CASE Waiter(p) /\ UNCHANGED <<login, clientVars>>
    BY <1>1, <2>1, WaiterInv, DoneStays, Zenon DEF LifecycleInv
  <2>2. CASE \E c \in Clients : NewLogin(p, c)
    BY <2>2, NewLoginInv
  <2>3. CASE NewLoginFails(p)
    <3>1. LoginInv'
      BY <2>3, GotoInv, SMT DEF NewLoginFails, LifecycleInv
    <3> QED
      BY <1>1, <2>3, <3>1, DoneStays, Zenon DEF LifecycleInv, NewLoginFails
  <2> QED
    BY <1>3, <2>1, <2>2, <2>3 DEF SignIn
<1>4. ASSUME NEW l \in Logins, \/ LogoutRemote(l) \/ Stop(l)
                               \/ \E c \in Clients : LoadLogin(l, c)
      PROVE  LifecycleInv'
  BY <1>4, LogoutRemoteInv, StopInv, LoadLoginInv
<1>5. ASSUME NEW c \in Clients, Connect(c) \/ PollLoop(c) PROVE LifecycleInv'
  BY <1>5, ConnectInv, LoopInv, PollFetchInv DEF PollLoop
<1>6. CASE Crash
  BY <1>6, CrashInv
<1>7. CASE UNCHANGED vars
  <2>1. UNCHANGED <<login, clientVars>> /\ UNCHANGED loginVars
    BY <1>7 DEF vars
  <2>2. LoginInv' /\ DoneKept
    BY <2>1, SMT DEF LifecycleInv, LoginInv, LoginTypeOK, LinksOwned, TokensOwned,
           AnswerNotLost, loginVars, DoneKept
  <2> QED
    BY <1>1, <2>1, <2>2
<1> QED
  BY <1>2, <1>3, <1>4, <1>5, <1>6, <1>7 DEF Next

-----------------------------------------------------------------------------
\* A token goes from one link through one process into one client at a time
\* (login.go:147-207, connector.go:64-76, client.go:281-288).
THEOREM LifecycleInvariant == Spec => []LifecycleInv
<1> QED
  BY InitInv, NextInv, PTL DEF Spec

\* No token is polled with by two clients, whatever loops are left over
\* (connector.go:64-76, poller.go:14-39).
THEOREM OnePoller == Spec => []OnePollerPerToken
<1>1. LifecycleInv => OnePollerPerToken
  BY DEF LifecycleInv
<1> QED
  BY <1>1, LifecycleInvariant, PTL

\* A poll acknowledges under the token it fetched with, or not at all
\* (client.go:761-821).
THEOREM AckTokenStable == Spec => []AckUnderFetchToken
<1>1. LifecycleInv => AckUnderFetchToken
  BY DEF LifecycleInv
<1> QED
  BY <1>1, LifecycleInvariant, PTL

\* The answer of a callback reaches the process that waits or will wait for it
\* (login.go:121-165, server.go:112-143).
THEOREM AnswerKept == Spec => []AnswerNotLost
<1>1. LifecycleInv => AnswerNotLost
  BY DEF LifecycleInv, LoginInv
<1> QED
  BY <1>1, LifecycleInvariant, PTL

-----------------------------------------------------------------------------
\* Lifecycle implements Account.

LEMMA InitRefines == Init => A!AccountInit
<1> SUFFICES ASSUME Init PROVE A!AccountInit
  OBVIOUS
<1>1. IssuedTo = [k \in Tokens |-> NoUser]
  BY Zenon DEF Init, LoginInit, IssuedTo, UserOrNone
<1>2. AccountOf = [l \in Logins |-> A!SignedOut]
  BY SMT DEF Init, NotSignedIn, AccountOf, A!SignedOut
<1>3. Used = {} /\ Polled = {}
  BY SMT DEF Init, LoginInit, Used, Polled
<1>4. InService = {}
  BY SMT DEF Init, InService
<1> QED
  BY <1>1, <1>2, <1>3, <1>4 DEF A!AccountInit

\* The mapped state moves only with what it is made of.
LEMMA SameIssued ==
  ASSUME LifecycleInv, UNCHANGED grantee,
         \A p \in Processes : step[p] # "new" => user'[p] = user[p]
  PROVE  UNCHANGED IssuedTo
<1>1. ASSUME NEW k \in Tokens PROVE UserOrNone(grantee[k])' = UserOrNone(grantee[k])
  BY SMT DEF UserOrNone, LifecycleInv, LoginInv, LoginTypeOK, TokensOwned
<1> QED
  BY <1>1, Zenon DEF IssuedTo

LEMMA SameUsed ==
  ASSUME DoneKept, NoneDone
  PROVE  UNCHANGED Used
  BY SMTT(30) DEF DoneKept, NoneDone, Used

LEMMA SameService == UNCHANGED cred => UNCHANGED InService
  BY DEF InService

LEMMA SamePolled ==
  ASSUME UNCHANGED under, \A c \in Clients : loop'[c] = "fetched" <=> loop[c] = "fetched"
  PROVE  UNCHANGED Polled
  BY SMTT(30) DEF Polled

\* AccountOf changes where one login does.
LEMMA SameDomain ==
  ASSUME NEW l \in Logins, NEW a, AccountOf'[l] = a,
         \A m \in Logins \ {l} : AccountOf'[m] = AccountOf[m]
  PROVE  AccountOf' = [AccountOf EXCEPT ![l] = a]
<1>1. /\ AccountOf' = [m \in Logins |-> AccountOf'[m]]
      /\ DOMAIN AccountOf = Logins
  BY Zenon DEF AccountOf
<1>2. \A m \in Logins : AccountOf'[m] = IF m = l THEN a ELSE AccountOf[m]
  OBVIOUS
<1> QED
  BY <1>1, <1>2, Zenon

LEMMA SameAccounts == UNCHANGED login => UNCHANGED AccountOf
  BY DEF AccountOf

\* A step of the login flow that gets no token and ends no login is a stutter.
LEMMA LoginQuiet ==
  ASSUME LifecycleInv, UNCHANGED <<grantee, login, clientVars>>, DoneKept, NoneDone,
         \A p \in Processes : step[p] # "new" => user'[p] = user[p]
  PROVE  UNCHANGED A!accountVars
<1>1. UNCHANGED <<IssuedTo, Used, InService, Polled, AccountOf>>
  BY SameIssued, SameUsed, SameService, SamePolled, SameAccounts DEF clientVars
<1> QED
  BY <1>1 DEF A!accountVars

\* The exchange of a code is Issue, to the user whose process it is.
LEMMA ExchangeRefines ==
  ASSUME LifecycleInv, NEW p \in Processes, ExchangeAuthorizationCode(p),
         UNCHANGED <<login, clientVars>>
  PROVE  \E u \in Users, k \in Tokens : A!Issue(u, k)
<1>1. PICK k \in Tokens :
        /\ grantee[k] = NoProcess
        /\ grantee' = [grantee EXCEPT ![k] = shownBy[pkce[p]]]
  BY Zenon DEF ExchangeAuthorizationCode
<1>2. step[p] = "exchanging" /\ UNCHANGED user
  BY DEF ExchangeAuthorizationCode
<1>3. shownBy[pkce[p]] = p /\ user[p] \in Users /\ p # NoProcess
  BY <1>2, SMT DEF LifecycleInv, LoginInv, LoginTypeOK, LinksOwned
<1>4. UserOrNone(grantee[k]) = NoUser /\ UserOrNone(grantee[k])' = user[p]
  BY <1>1, <1>2, <1>3, SMT DEF UserOrNone, LifecycleInv, LoginInv, LoginTypeOK
<1>5. \A j \in Tokens \ {k} : UserOrNone(grantee[j])' = UserOrNone(grantee[j])
  BY <1>1, <1>2, SMT DEF UserOrNone, LifecycleInv, LoginInv, LoginTypeOK
<1>6. IssuedTo[k] = NoUser /\ IssuedTo' = [IssuedTo EXCEPT ![k] = user[p]]
  BY <1>4, <1>5, Zenon DEF IssuedTo
<1>7. DoneKept /\ NoneDone
  BY DoneStays, Zenon DEF Waiter, LifecycleInv
<1>8. UNCHANGED <<AccountOf, Used, InService, Polled>>
  BY <1>7, SameUsed, SameService, SamePolled, SameAccounts DEF clientVars
<1> QED
  BY <1>3, <1>6, <1>8 DEF A!Issue

\* The end of a login process is SignIn.
LEMMA NewLoginRefines ==
  ASSUME LifecycleInv, NEW p \in Processes, NEW c \in Clients, NewLogin(p, c)
  PROVE  \E u \in Users, l \in Logins, k \in Tokens : A!SignIn(u, l, k)
<1> DEFINE l == LoginOf[p]
           k == token[p]
<1>1. /\ step[p] = "verified" /\ of[c] = NoLogin
      /\ login[l].user \in {NoUser, user[p]}
      /\ login' = [login EXCEPT ![l] = [user |-> user[p], token |-> k, client |-> c]]
      /\ cred' = [cred EXCEPT ![c] = k]
      /\ step' = [step EXCEPT ![p] = "done"]
      /\ UNCHANGED <<user, token, grantee, loop, under>>
  BY DEF NewLogin, LoadUserLogin, Goto
<1>2. /\ l \in Logins /\ k \in Tokens /\ k # NoToken /\ grantee[k] = p
      /\ user[p] \in Users /\ p # NoProcess
  BY <1>1, SMT DEF LifecycleInv, LoginInv, LoginTypeOK, LinksOwned, TokensOwned
<1>3. IssuedTo[k] = user[p] /\ UNCHANGED IssuedTo
  BY <1>1, <1>2, SMT DEF IssuedTo, UserOrNone
<1>4. k \notin Used
  <2>1. ASSUME NEW q \in Processes, step[q] = "done" PROVE token[q] # k
    BY <1>1, <1>2, <2>1, TokenOfOne
  <2> QED
    BY <2>1 DEF Used
<1>5. Used' = Used \cup {k}
  BY <1>1, SMTT(30) DEF Used, LifecycleInv, LoginInv, LoginTypeOK
<1>6. InService' = InService \cup {k}
  <2>1. cred[c] = NoToken
    BY <1>1, Zenon DEF LifecycleInv, ClientsOwned
  <2>2. cred'[c] = k /\ \A d \in Clients \ {c} : cred'[d] = cred[d]
    BY <1>1, SMT DEF LifecycleInv, TypeOK
  <2> QED
    BY <1>2, <2>1, <2>2, SMTT(30) DEF InService
<1>7. /\ AccountOf[l].user \in {NoUser, user[p]}
      /\ AccountOf' = [AccountOf EXCEPT ![l] = [user |-> user[p], token |-> k]]
  <2>1. /\ login'[l].user = user[p] /\ login'[l].token = k
        /\ \A m \in Logins \ {l} : login'[m] = login[m]
    BY <1>1, <1>2, SMT DEF LifecycleInv, TypeOK
  <2>2. /\ AccountOf'[l] = [user |-> user[p], token |-> k]
        /\ \A m \in Logins \ {l} : AccountOf'[m] = AccountOf[m]
    BY <1>2, <2>1, SMT DEF AccountOf
  <2>3. AccountOf' = [AccountOf EXCEPT ![l] = [user |-> user[p], token |-> k]]
    BY <2>2, SameDomain
  <2> QED
    BY <1>1, <1>2, <2>3, SMT DEF AccountOf
<1>8. UNCHANGED Polled
  BY <1>1, SamePolled
<1>9. A!SignIn(user[p], l, k)
  BY <1>3, <1>4, <1>5, <1>6, <1>7, <1>8, Zenon DEF A!SignIn
<1> QED
  BY <1>2, <1>9

\* LogoutRemote is SignOut: one client has the token, and it loses it.
LEMMA LogoutRefines ==
  ASSUME LifecycleInv, NEW l \in Logins, LogoutRemote(l)
  PROVE  A!SignOut(l)
<1> DEFINE e == login[l].client
<1>1. /\ e # NoClient
      /\ cred' = [cred EXCEPT ![e] = NoToken]
      /\ login' = [login EXCEPT ![l] = NotSignedIn]
      /\ UNCHANGED <<loginVars, loop, under>>
  BY DEF LogoutRemote
<1>2. /\ e \in Clients /\ cred[e] = login[l].token
      /\ login[l].user # NoUser
  BY <1>1, SMT DEF LifecycleInv, TypeOK, LoginsOwned, NotSignedIn
<1>3. InService' = InService \ {login[l].token}
  <2>1. cred'[e] = NoToken /\ \A d \in Clients \ {e} : cred'[d] = cred[d]
    BY <1>1, <1>2, SMT DEF LifecycleInv, TypeOK
  <2>2. \A d \in Clients \ {e} : cred[d] = cred[e] => cred[d] = NoToken
    BY <1>2, SMT DEF LifecycleInv, OnePollerPerToken
  <2> QED
    BY <1>2, <2>1, <2>2, SMTT(30) DEF InService
<1>4. /\ AccountOf[l].user # NoUser /\ AccountOf[l].token = login[l].token
      /\ AccountOf' = [AccountOf EXCEPT ![l] = A!SignedOut]
  <2>1. login'[l] = NotSignedIn /\ \A m \in Logins \ {l} : login'[m] = login[m]
    BY <1>1, SMT DEF LifecycleInv, TypeOK
  <2>2. /\ AccountOf'[l] = A!SignedOut
        /\ \A m \in Logins \ {l} : AccountOf'[m] = AccountOf[m]
    BY <2>1, SMT DEF AccountOf, NotSignedIn, A!SignedOut
  <2>3. AccountOf' = [AccountOf EXCEPT ![l] = A!SignedOut]
    BY <2>2, SameDomain
  <2> QED
    BY <1>2, <2>3, SMT DEF AccountOf
<1>5. DoneKept /\ NoneDone /\ UNCHANGED <<user, grantee>>
  BY <1>1 DEF loginVars, DoneKept, NoneDone
<1>6. UNCHANGED <<IssuedTo, Used, Polled>>
  BY <1>1, <1>5, SameIssued, SameUsed, SamePolled
<1> QED
  BY <1>3, <1>4, <1>6, Zenon DEF A!SignOut

\* Loading a login after a restart is Resume.
LEMMA LoadRefines ==
  ASSUME LifecycleInv, NEW l \in Logins, NEW c \in Clients, LoadLogin(l, c)
  PROVE  A!Resume(l)
<1> DEFINE k == login[l].token
<1>1. /\ login[l].user # NoUser /\ of[c] = NoLogin
      /\ login' = [login EXCEPT ![l] = [user |-> login[l].user, token |-> k, client |-> c]]
      /\ cred' = [cred EXCEPT ![c] = k]
      /\ UNCHANGED <<loginVars, loop, under>>
  BY DEF LoadLogin, LoadUserLogin
<1>2. k # NoToken
  BY <1>1, SMT DEF LifecycleInv, LoginInv, TokensOwned, LoginsOwned
<1>3. InService' = InService \cup {k}
  <2>1. cred[c] = NoToken
    BY <1>1, Zenon DEF LifecycleInv, ClientsOwned
  <2>2. cred'[c] = k /\ \A d \in Clients \ {c} : cred'[d] = cred[d]
    BY <1>1, SMT DEF LifecycleInv, TypeOK
  <2> QED
    BY <1>2, <2>1, <2>2, SMTT(30) DEF InService
<1>4. /\ AccountOf[l].user # NoUser /\ AccountOf[l].token = k
      /\ UNCHANGED AccountOf
  <2>1. /\ login'[l].user = login[l].user /\ login'[l].token = k
        /\ \A m \in Logins \ {l} : login'[m] = login[m]
    BY <1>1, SMT DEF LifecycleInv, TypeOK
  <2> QED
    BY <1>1, <2>1, SMT DEF AccountOf
<1>5. DoneKept /\ NoneDone /\ UNCHANGED <<user, grantee>>
  BY <1>1 DEF loginVars, DoneKept, NoneDone
<1>6. UNCHANGED <<IssuedTo, Used, Polled>>
  BY <1>1, <1>5, SameIssued, SameUsed, SamePolled
<1> QED
  BY <1>3, <1>4, <1>6, Zenon DEF A!Resume

\* A poll is Poll, and its end PollEnds.
LEMMA PollRefines ==
  ASSUME LifecycleInv, NEW c \in Clients, PollFetch(c) \/ PollAck(c)
  PROVE  \E k \in Tokens : A!Poll(k) \/ A!PollEnds(k) \/ UNCHANGED A!accountVars
<1>1. UNCHANGED <<loginVars, login, cred>>
  BY DEF PollFetch, PollAck
<1>2. DoneKept /\ NoneDone /\ UNCHANGED <<user, grantee>>
  BY <1>1 DEF loginVars, DoneKept, NoneDone
<1>3. UNCHANGED <<IssuedTo, AccountOf, Used, InService>>
  BY <1>1, <1>2, SameIssued, SameAccounts, SameUsed, SameService
<1>4. CASE PollFetch(c)
  <2>1. /\ cred[c] \in Tokens /\ cred[c] \in InService
        /\ loop[c] = "waiting"
        /\ under'[c] = cred[c] /\ loop'[c] = "fetched"
        /\ \A d \in Clients \ {c} : under'[d] = under[d] /\ loop'[d] = loop[d]
    BY <1>4, SMT DEF PollFetch, InService, LifecycleInv, TypeOK
  <2>2. Polled' = Polled \cup {cred[c]}
    BY <2>1, SMTT(30) DEF Polled
  <2>3. A!Poll(cred[c])
    BY <1>3, <2>1, <2>2, Zenon DEF A!Poll
  <2> QED
    BY <2>1, <2>3
<1>5. CASE PollAck(c)
  <2>1. /\ loop[c] = "fetched" /\ loop'[c] = "waiting" /\ UNCHANGED under
        /\ \A d \in Clients \ {c} : loop'[d] = loop[d]
    BY <1>5, SMT DEF PollAck, LifecycleInv, TypeOK
  <2>2. under[c] \in Tokens
    BY <2>1, SMT DEF LifecycleInv, TypeOK, ClientsOwned
  <2>3. Polled' = Polled \/ Polled' = Polled \ {under[c]}
    BY <2>1, SMTT(30) DEF Polled
  <2> QED
    BY <1>3, <2>2, <2>3, Zenon DEF A!PollEnds, A!accountVars
<1> QED
  BY <1>4, <1>5

LEMMA CrashRefines ==
  ASSUME LifecycleInv, Crash
  PROVE  A!Restart
<1>1. DoneKept /\ NoneDone
  BY DoneStays, Zenon DEF Crash, LifecycleInv
<1>2. UNCHANGED <<IssuedTo, Used>>
  BY <1>1, SameIssued, SameUsed DEF Crash, LoginCrash
<1>3. UNCHANGED AccountOf
  BY SMT DEF Crash, AccountOf
<1>4. InService' = {} /\ Polled' = {}
  BY SMT DEF Crash, InService, Polled
<1> QED
  BY <1>2, <1>3, <1>4 DEF A!Restart

LEMMA NextRefines ==
  ASSUME LifecycleInv, [Next]_vars
  PROVE  [A!AccountNext]_(A!accountVars)
<1>1. ASSUME NEW p \in Processes, ExchangeAuthorizationCode(p), UNCHANGED <<login, clientVars>>
      PROVE  A!AccountNext
  BY <1>1, ExchangeRefines, Zenon DEF A!AccountNext
<1>2. ASSUME DoneKept, NoneDone, UNCHANGED <<grantee, login, clientVars>>,
             \A p \in Processes : step[p] # "new" => user'[p] = user[p]
      PROVE  UNCHANGED A!accountVars
  BY <1>2, LoginQuiet
<1>3. CASE Attempt /\ UNCHANGED <<login, clientVars>>
  <2>1. /\ UNCHANGED grantee
        /\ \A p \in Processes : step[p] # "new" => user'[p] = user[p]
    BY <1>3, SMT DEF Attempt, CreateLogin, Start, SubmitUserInput, SubmitFails, Cancel, Wait,
           WaitCancelled, HandleCallback, LifecycleInv, LoginInv, LoginTypeOK
  <2>2. DoneKept /\ NoneDone
    BY <1>3, DoneStays, Zenon DEF LifecycleInv
  <2> QED
    BY <1>2, <1>3, <2>1, <2>2
<1>4. ASSUME NEW p \in Processes, SignIn(p) PROVE [A!AccountNext]_(A!accountVars)
  <2>1. CASE ExchangeAuthorizationCode(p) /\ UNCHANGED <<login, clientVars>>
    BY <1>1, <2>1
  <2>2. CASE /\ WaitReceives(p) \/ VerifyAgentAccess(p) \/ WaitFails(p) \/ NewLoginFails(p)
             /\ UNCHANGED <<login, clientVars>>
    <3>1. UNCHANGED <<grantee, user>>
      BY <2>2 DEF WaitReceives, VerifyAgentAccess, WaitFails, NewLoginFails
    <3>2. DoneKept /\ NoneDone
      BY <2>2, DoneStays, Zenon DEF Waiter, LifecycleInv
    <3> QED
      BY <1>2, <2>2, <3>1, <3>2
  <2>3. CASE \E c \in Clients : NewLogin(p, c)
    BY <2>3, NewLoginRefines, Zenon DEF A!AccountNext
  <2> QED
    BY <1>4, <2>1, <2>2, <2>3 DEF SignIn, Waiter, NewLoginFails
<1>5. ASSUME NEW l \in Logins, LogoutRemote(l) \/ \E c \in Clients : LoadLogin(l, c)
      PROVE  A!AccountNext
  BY <1>5, LogoutRefines, LoadRefines, Zenon DEF A!AccountNext
<1>6. ASSUME NEW c \in Clients, PollFetch(c) \/ PollAck(c)
      PROVE  [A!AccountNext]_(A!accountVars)
  <2>1. PICK k \in Tokens : A!Poll(k) \/ A!PollEnds(k) \/ UNCHANGED A!accountVars
    BY <1>6, PollRefines
  <2> QED
    BY <2>1, Zenon DEF A!AccountNext
<1>7. ASSUME UNCHANGED <<loginVars, login, cred, under>>,
             \A c \in Clients : loop'[c] = "fetched" <=> loop[c] = "fetched"
      PROVE  UNCHANGED A!accountVars
  <2>1. DoneKept /\ NoneDone /\ UNCHANGED <<user, grantee>>
    BY <1>7 DEF loginVars, DoneKept, NoneDone
  <2> QED
    BY <1>7, <2>1, SameIssued, SameUsed, SameService, SamePolled, SameAccounts DEF A!accountVars
<1>8. ASSUME NEW l \in Logins, Stop(l) PROVE UNCHANGED A!accountVars
  BY <1>7, <1>8 DEF Stop
<1>9. ASSUME NEW c \in Clients, Connect(c) \/ StartPolling(c) \/ LoopStops(c)
      PROVE  UNCHANGED A!accountVars
  <2>1. UNCHANGED <<loginVars, login, cred, under>>
    BY <1>9, SMT DEF Connect, BadCredentials, GetIdentity, GetOnboarding, RegisterBridge,
                     Connected, GoOn, StartPolling, LoopStops
  <2>2. \/ UNCHANGED loop
        \/ loop[c] \in {"none", "spawned", "waiting"} /\
           \E to \in {"spawned", "waiting", "ended"} : loop' = [loop EXCEPT ![c] = to]
    <3>1. CASE Connected(c)
      <4>1. loop[c] = "none"
        BY <3>1, SMT DEF Connected, GoOn, LifecycleInv, ClientsOwned
      <4> QED
        BY <3>1, <4>1, SMT DEF Connected
    <3>2. CASE StartPolling(c)
      BY <3>2, SMT DEF StartPolling
    <3>3. CASE LoopStops(c)
      BY <3>3, SMT DEF LoopStops
    <3>4. CASE BadCredentials(c) \/ GetIdentity(c) \/ GetOnboarding(c) \/ RegisterBridge(c)
      BY <3>4, Zenon DEF BadCredentials, GetIdentity, GetOnboarding, RegisterBridge
    <3> QED
      BY <1>9, <3>1, <3>2, <3>3, <3>4 DEF Connect
  <2>3. \A d \in Clients : loop'[d] = "fetched" <=> loop[d] = "fetched"
    BY <2>2, SMT DEF LifecycleInv, TypeOK
  <2> QED
    BY <1>7, <2>1, <2>3
<1>10. CASE Crash
  BY <1>10, CrashRefines, Zenon DEF A!AccountNext
<1>11. CASE UNCHANGED vars
  BY <1>7, <1>11 DEF vars, clientVars
<1> QED
  BY <1>3, <1>4, <1>5, <1>6, <1>8, <1>9, <1>10, <1>11 DEF Next, PollLoop

\* Login processes, reconnects, leftover loops and crashes keep the promises of
\* Account (login.go:147-279, client.go:204-288, connector.go:64-76).
THEOREM RefinesAccount == Spec => ImplementsAccount
<1>1. LifecycleInv /\ [Next]_vars => [A!AccountNext]_(A!accountVars)
  BY NextRefines
<1> QED
  BY InitRefines, LifecycleInvariant, <1>1, PTL DEF Spec, ImplementsAccount, A!AccountSpec
=============================================================================
