------------------------------- MODULE BotAuth -------------------------------
(***************************************************************************)
(* Per-user authorization in bot mode: the token store                     *)
(* (pkg/bot/userauth.go), the pending PKCE logins and the callback server  *)
(* whose request handlers run beside the message handlers                  *)
(* (pkg/bot/pkce.go).  BotChat composes this module with the handlers.     *)
(***************************************************************************)
EXTENDS Naturals

CONSTANTS Users, States, Tokens, Callbacks,
          NoUser, NoState, NoToken,
          GlobalToken, \* agent_token of the configuration, or NoToken
          StoreFails     \* an operation on the SQLite store may fail

ASSUME AuthAssumption ==
    /\ NoUser \notin Users
    /\ NoToken \notin Tokens
    /\ GlobalToken \in Tokens \cup {NoToken}

VARIABLES
    tokens,     \* UserAuth: the token stored for each user
    logins,     \* BotCallbackServer.logins: state -> user, NoUser if absent
    callback,   \* callback requests being handled
    linked,     \* user each state's link was sent to, NoUser if not sent
    exchanges,  \* codes exchanged, per state
    grantee,    \* user whose link led to the token (WordPress)
    valid       \* tokens WordPress accepts

authVars == <<tokens, logins, callback, linked, exchanges, grantee, valid>>

NoCallback == [step |-> "idle", state |-> NoState, user |-> NoUser, token |-> NoToken]

AuthInit ==
    /\ tokens = [u \in Users |-> NoToken]
    /\ logins = [s \in States |-> NoUser]
    /\ callback = [c \in Callbacks |-> NoCallback]
    /\ linked = [s \in States |-> NoUser]
    /\ exchanges = [s \in States |-> 0]
    /\ grantee = [k \in Tokens |-> NoUser]
    /\ valid = {GlobalToken} \ {NoToken}

-----------------------------------------------------------------------------
\* The token store.

SaveToken(u, k) == tokens' = [tokens EXCEPT ![u] = k]

\* Callers log or drop an error of DeleteToken and go on.
DeleteToken(u) ==
    \/ tokens' = [tokens EXCEPT ![u] = NoToken]
    \/ StoreFails /\ UNCHANGED tokens

-----------------------------------------------------------------------------
\* Pending logins.

\* Mutant of RegisterLogin: one pending user for all states.
RegisterLoginForAll(s, u) ==
    logins' = [x \in States |-> IF x = s \/ logins[x] # NoUser THEN u ELSE NoUser]

RegisterLogin(s, u) == logins' = [logins EXCEPT ![s] = u]

\* Mutant of PopLogin: the login is looked up and stays.
PeekLogin(s) == UNCHANGED logins

\* Looking up and deleting happen under one lock.
PopLogin(s) == logins' = [logins EXCEPT ![s] = NoUser]

\* A fresh random state; the link is sent to the user's room.
StartAuthFlow(u) ==
    \E s \in States :
        /\ linked[s] = NoUser
        /\ RegisterLogin(s, u)
        /\ linked' = [linked EXCEPT ![s] = u]

-----------------------------------------------------------------------------
\* handleCallback.  The browser may follow a link whenever it likes, and may
\* follow it again.

CallbackArrives(c, s) ==
    /\ callback[c].step = "idle"
    /\ linked[s] # NoUser
    /\ logins[s] # NoUser
    /\ PopLogin(s)
    /\ \/ callback' = [callback EXCEPT ![c] = [step |-> "popped", state |-> s,
                                               user |-> logins[s], token |-> NoToken]]
       \/ UNCHANGED callback     \* error parameter, or no code
    /\ UNCHANGED <<tokens, linked, exchanges, grantee, valid>>

\* exchangeCode: WordPress issues a token to whoever followed the link.  It may
\* drop the tokens it issued to the same user before.
CallbackExchanges(c) ==
    /\ callback[c].step = "popped"
    /\ exchanges' = [exchanges EXCEPT ![callback[c].state] = @ + 1]
    /\ \E k \in Tokens :
          /\ grantee[k] = NoUser /\ k # GlobalToken
          /\ grantee' = [grantee EXCEPT ![k] = linked[callback[c].state]]
          /\ \/ valid' = valid \cup {k}
             \/ valid' = {k} \cup {j \in valid : grantee[j] # grantee'[k]}
          /\ callback' = [callback EXCEPT ![c] = [step |-> "exchanged", state |-> @.state,
                                                  user |-> @.user, token |-> k]]
    /\ UNCHANGED <<tokens, logins, linked>>

\* verifyAccess.
CallbackVerifies(c) ==
    /\ callback[c].step = "exchanged"
    /\ callback[c].token \in valid
    /\ callback' = [callback EXCEPT ![c].step = "verified"]
    /\ UNCHANGED <<tokens, logins, linked, exchanges, grantee, valid>>

\* The exchange, the access check or the store fails: the user is told so.
CallbackFails(c) ==
    /\ \/ callback[c].step \in {"popped", "exchanged"}
       \/ callback[c].step = "verified" /\ StoreFails
    /\ callback' = [callback EXCEPT ![c] = NoCallback]
    /\ UNCHANGED <<tokens, logins, linked, exchanges, grantee, valid>>

CallbackSaves(c) ==
    /\ callback[c].step = "verified"
    /\ SaveToken(callback[c].user, callback[c].token)
    /\ callback' = [callback EXCEPT ![c] = NoCallback]
    /\ UNCHANGED <<logins, linked, exchanges, grantee, valid>>

\* WordPress stops accepting a token.
Revoke(k) ==
    /\ k \in valid
    /\ valid' = valid \ {k}
    /\ UNCHANGED <<tokens, logins, callback, linked, exchanges, grantee>>

Authorization ==
    \/ \E c \in Callbacks : \/ \E s \in States : CallbackArrives(c, s)
                            \/ CallbackExchanges(c) \/ CallbackVerifies(c)
                            \/ CallbackFails(c) \/ CallbackSaves(c)
    \/ \E k \in Tokens : Revoke(k)

\* Pending logins and requests die with the process, the store does not.
AuthCrash ==
    /\ logins' = [s \in States |-> NoUser]
    /\ callback' = [c \in Callbacks |-> NoCallback]
    /\ UNCHANGED <<tokens, linked, exchanges, grantee, valid>>

-----------------------------------------------------------------------------
AuthTypeOK ==
    /\ tokens \in [Users -> Tokens \cup {NoToken}]
    /\ logins \in [States -> Users \cup {NoUser}]
    /\ callback \in [Callbacks -> [step : {"idle", "popped", "exchanged", "verified"},
                                   state : States \cup {NoState},
                                   user : Users \cup {NoUser},
                                   token : Tokens \cup {NoToken}]]
    /\ linked \in [States -> Users \cup {NoUser}]
    /\ exchanges \in [States -> Nat]
    /\ grantee \in [Tokens -> Users \cup {NoUser}]
    /\ valid \subseteq Tokens

\* A login link is good for one code exchange, however many requests follow
\* it and whatever other logins are pending (pkce.go:123-129).
StateUsedOnce == \A s \in States : exchanges[s] <= 1

\* However many logins of however many users are pending, the token stored
\* for a user came from a link sent to that user (pkce.go:132-212).
TokenOfUser ==
    \A u \in Users : tokens[u] # NoToken => grantee[tokens[u]] = u

Popped(c, s) == callback[c].step = "popped" /\ callback[c].state = s

\* A link that is not sent is not pending, and one that is pending or not sent
\* has not been followed to an exchange.
LinksFresh ==
    \A s \in States :
        /\ logins[s] \in {NoUser, linked[s]}
        /\ logins[s] # NoUser \/ linked[s] = NoUser =>
              exchanges[s] = 0 /\ \A c \in Callbacks : ~Popped(c, s)

\* A request carries the user its link was sent to.
CallbacksOwned ==
    \A c \in Callbacks : callback[c].step # "idle" =>
        /\ callback[c].state \in States
        /\ callback[c].user \in Users
        /\ callback[c].user = linked[callback[c].state]

\* What it was granted is that user's.
GrantsOwned ==
    \A c \in Callbacks : callback[c].step \in {"exchanged", "verified"} =>
        /\ callback[c].token \in Tokens
        /\ grantee[callback[c].token] = callback[c].user

\* A link is in at most one request that has yet to exchange its code.
PoppedOnce ==
    \A c \in Callbacks : callback[c].step = "popped" =>
        /\ exchanges[callback[c].state] = 0
        /\ \A d \in Callbacks : Popped(d, callback[c].state) => d = c

\* The inductive invariant behind StateUsedOnce and TokenOfUser: a login link
\* is unsent, pending, carried by one request or spent (pkce.go:115-129), and
\* request, grant and stored token are of the user it was sent to.
AuthInv ==
    /\ AuthTypeOK
    /\ LinksFresh /\ CallbacksOwned /\ GrantsOwned /\ PoppedOnce
    /\ StateUsedOnce /\ TokenOfUser
=============================================================================
