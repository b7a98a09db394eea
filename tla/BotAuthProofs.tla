--------------------------- MODULE BotAuthProofs ---------------------------
(***************************************************************************)
(* Proofs about authorization in bot mode, for any users, links, tokens,   *)
(* callback requests and turns: a login link is good for one exchange, a   *)
(* stored token is its user's own, and so is the token of every turn.      *)
(* AuthInv is inductive for the actions of BotAuth; the handlers of        *)
(* BotChat touch its variables in four places only.                        *)
(***************************************************************************)
EXTENDS BotChat, TLAPS

\* What a turn resolved is a token, and the sender's own or the shared one.
ChatInv ==
    /\ client \in [Turns -> Tokens \cup {NoToken}]
    /\ ClientOfSender

\* The constants a step of BotAuth needs to know about.
USE AuthAssumption

-----------------------------------------------------------------------------
\* Nothing is linked, granted or pending at first.
LEMMA AuthInitInv == AuthInit => AuthInv
  BY SMT DEF AuthInit, AuthInv, AuthTypeOK, LinksFresh, Popped, CallbacksOwned, GrantsOwned,
         PoppedOnce, StateUsedOnce, TokenOfUser, NoCallback

\* Deleting a user's token leaves everybody else's.
LEMMA DeleteTokenInv ==
  ASSUME AuthInv, NEW u \in Users, DeleteToken(u),
         UNCHANGED <<logins, callback, linked, exchanges, grantee, valid>>
  PROVE  AuthInv'
  BY SMT DEF DeleteToken, AuthInv, AuthTypeOK, LinksFresh, Popped, CallbacksOwned, GrantsOwned,
         PoppedOnce, StateUsedOnce, TokenOfUser

\* A new link is for a state nobody was sent, so no request can carry it.
LEMMA StartAuthFlowInv ==
  ASSUME AuthInv, NEW u \in Users, StartAuthFlow(u),
         UNCHANGED <<tokens, callback, exchanges, grantee, valid>>
  PROVE  AuthInv'
  BY SMT DEF StartAuthFlow, RegisterLogin, AuthInv, AuthTypeOK, LinksFresh, Popped,
         CallbacksOwned, GrantsOwned, PoppedOnce, StateUsedOnce, TokenOfUser

\* Taking a login moves it from the map into at most one request.
LEMMA CallbackArrivesInv ==
  ASSUME AuthInv, NEW c \in Callbacks, NEW s \in States, CallbackArrives(c, s)
  PROVE  AuthInv'
  BY SMT DEF CallbackArrives, PopLogin, AuthInv, AuthTypeOK, LinksFresh, Popped,
         CallbacksOwned, GrantsOwned, PoppedOnce, StateUsedOnce, TokenOfUser

\* The one request that carries a state exchanges its code, once, for a token
\* nobody has been granted.
LEMMA CallbackExchangesInv ==
  ASSUME AuthInv, NEW c \in Callbacks, CallbackExchanges(c)
  PROVE  AuthInv'
<1> DEFINE s == callback[c].state
<1>1. s \in States /\ linked[s] \in Users /\ callback[c].user = linked[s] /\ exchanges[s] = 0
  BY SMT DEF CallbackExchanges, AuthInv, CallbacksOwned, PoppedOnce
<1>2. PICK k \in Tokens :
        /\ grantee[k] = NoUser
        /\ grantee' = [grantee EXCEPT ![k] = linked[s]]
        /\ \/ valid' = valid \cup {k}
           \/ valid' = {k} \cup {j \in valid : grantee[j] # grantee'[k]}
        /\ callback' = [callback EXCEPT ![c] = [step |-> "exchanged", state |-> @.state,
                                                user |-> @.user, token |-> k]]
  BY Zenon DEF CallbackExchanges
<1>3. /\ callback[c].step = "popped"
      /\ exchanges' = [exchanges EXCEPT ![s] = @ + 1]
      /\ UNCHANGED <<tokens, logins, linked>>
  BY SMT DEF CallbackExchanges
<1>4. /\ callback'[c].state = s
      /\ callback'[c].user = callback[c].user
      /\ callback'[c].step = "exchanged"
      /\ callback'[c].token = k
      /\ \A d \in Callbacks \ {c} : callback'[d] = callback[d]
  BY <1>2, SMT DEF AuthInv, AuthTypeOK
<1>5. AuthTypeOK'
  <2>1. valid' \subseteq Tokens
    BY <1>2, SMT DEF AuthInv, AuthTypeOK
  <2>2. grantee' \in [Tokens -> Users \cup {NoUser}]
    BY <1>1, <1>2, SMT DEF AuthInv, AuthTypeOK
  <2>3. exchanges' \in [States -> Nat]
    BY <1>1, <1>3, SMT DEF AuthInv, AuthTypeOK
  <2>4. callback' \in [Callbacks -> [step : {"idle", "popped", "exchanged", "verified"},
                                     state : States \cup {NoState},
                                     user : Users \cup {NoUser},
                                     token : Tokens \cup {NoToken}]]
    BY <1>2, SMT DEF AuthInv, AuthTypeOK
  <2> QED
    BY <1>3, <2>1, <2>2, <2>3, <2>4 DEF AuthInv, AuthTypeOK
<1>6. LinksFresh'
  BY <1>1, <1>3, <1>4, SMT DEF AuthInv, AuthTypeOK, LinksFresh, Popped
<1>7. CallbacksOwned'
  BY <1>1, <1>3, <1>4, SMT DEF AuthInv, CallbacksOwned
<1>8. GrantsOwned'
  BY <1>1, <1>2, <1>4, SMT DEF AuthInv, AuthTypeOK, CallbacksOwned, GrantsOwned
<1>9. PoppedOnce'
  BY <1>1, <1>3, <1>4, SMT DEF AuthInv, AuthTypeOK, CallbacksOwned, PoppedOnce, Popped
<1>10. StateUsedOnce'
  BY <1>1, <1>3, SMT DEF AuthInv, AuthTypeOK, StateUsedOnce
<1>11. TokenOfUser'
  BY <1>1, <1>2, <1>3, SMT DEF AuthInv, AuthTypeOK, TokenOfUser
<1> QED
  BY <1>5, <1>6, <1>7, <1>8, <1>9, <1>10, <1>11 DEF AuthInv

\* Verification moves on a request that has its token.
LEMMA CallbackVerifiesInv ==
  ASSUME AuthInv, NEW c \in Callbacks, CallbackVerifies(c)
  PROVE  AuthInv'
  BY SMT DEF CallbackVerifies, AuthInv, AuthTypeOK, LinksFresh, Popped, CallbacksOwned,
         GrantsOwned, PoppedOnce, StateUsedOnce, TokenOfUser

\* A failed request stores nothing.
LEMMA CallbackFailsInv ==
  ASSUME AuthInv, NEW c \in Callbacks, CallbackFails(c)
  PROVE  AuthInv'
  BY SMT DEF CallbackFails, NoCallback, AuthInv, AuthTypeOK, LinksFresh, Popped,
         CallbacksOwned, GrantsOwned, PoppedOnce, StateUsedOnce, TokenOfUser

\* A verified request stores its token under the user it was granted to.
LEMMA CallbackSavesInv ==
  ASSUME AuthInv, NEW c \in Callbacks, CallbackSaves(c)
  PROVE  AuthInv'
  BY SMT DEF CallbackSaves, SaveToken, NoCallback, AuthInv, AuthTypeOK, LinksFresh, Popped,
         CallbacksOwned, GrantsOwned, PoppedOnce, StateUsedOnce, TokenOfUser

\* A revoked token stays where it is.
LEMMA RevokeInv ==
  ASSUME AuthInv, NEW k \in Tokens, Revoke(k)
  PROVE  AuthInv'
  BY SMT DEF Revoke, AuthInv, AuthTypeOK, LinksFresh, Popped, CallbacksOwned, GrantsOwned,
         PoppedOnce, StateUsedOnce, TokenOfUser

\* A crash forgets logins and requests; states are not used again.
LEMMA AuthCrashInv ==
  ASSUME AuthInv, AuthCrash
  PROVE  AuthInv'
  BY SMT DEF AuthCrash, NoCallback, AuthInv, AuthTypeOK, LinksFresh, Popped, CallbacksOwned,
         GrantsOwned, PoppedOnce, StateUsedOnce, TokenOfUser

\* A step that leaves the variables of BotAuth alone.
LEMMA AuthStutter ==
  ASSUME AuthInv, UNCHANGED authVars
  PROVE  AuthInv'
  BY SMT DEF authVars, AuthInv, AuthTypeOK, LinksFresh, Popped, CallbacksOwned, GrantsOwned,
         PoppedOnce, StateUsedOnce, TokenOfUser

-----------------------------------------------------------------------------
\* The authorization steps together.
LEMMA AuthorizationInv ==
  ASSUME AuthInv, Authorization
  PROVE  AuthInv'
<1>1. CASE \E c \in Callbacks, s \in States : CallbackArrives(c, s)
  BY <1>1, CallbackArrivesInv
<1>2. CASE \E c \in Callbacks : CallbackExchanges(c)
  BY <1>2, CallbackExchangesInv
<1>3. CASE \E c \in Callbacks : CallbackVerifies(c)
  BY <1>3, CallbackVerifiesInv
<1>4. CASE \E c \in Callbacks : CallbackFails(c)
  BY <1>4, CallbackFailsInv
<1>5. CASE \E c \in Callbacks : CallbackSaves(c)
  BY <1>5, CallbackSavesInv
<1>6. CASE \E k \in Tokens : Revoke(k)
  BY <1>6, RevokeInv
<1> QED
  BY <1>1, <1>2, <1>3, <1>4, <1>5, <1>6 DEF Authorization

\* The handlers that change what BotAuth keeps.
AuthHandler(t) == Logout(t) \/ ResolveWithLink(t) \/ RequestRefused(t)

\* The other handlers leave it alone.
LEMMA HandlerAuth ==
  ASSUME NEW t \in Turns, Begin(t) \/ Handler(t), ~AuthHandler(t)
  PROVE  UNCHANGED authVars
  BY Zenon DEF Begin, Handler, AuthHandler, ResolveUserClient, ResolveFails, Reset, ImageBegins,
     ImageRefused, ImageFetched, ImageUploaded, ReadSession, StartTyping, SendMessage,
     SendReturns, RequestFails,
     ContinueChat, Conclude

\* A turn gets its token when it is resolved, and never another.
LEMMA HandlerClient ==
  ASSUME NEW t \in Turns, Begin(t) \/ Handler(t), ~ResolveUserClient(t)
  PROVE  UNCHANGED client
  BY Zenon DEF Begin, Handler, Logout, ResolveWithLink, ResolveFails, Reset, ImageBegins,
     ImageRefused, ImageFetched, ImageUploaded, ReadSession, StartTyping, SendMessage,
     SendReturns, RequestRefused,
     RequestFails, ContinueChat, Conclude

\* Every step keeps AuthInv.
LEMMA NextAuthInv ==
  ASSUME AuthInv, [Next]_vars
  PROVE  AuthInv'
<1>1. CASE Authorize
  BY <1>1, AuthorizationInv DEF Authorize
<1>2. CASE Crash
  BY <1>2, AuthCrashInv DEF Crash
<1>3. CASE TimePasses \/ TypingExpires \/ UNCHANGED vars
  BY <1>3, AuthStutter DEF TimePasses, TypingExpires, vars
<1>4. ASSUME NEW t \in Turns, Begin(t) \/ Handler(t)
      PROVE  AuthInv'
  <2>1. Sender[t] \in Users
    BY BotAssumption, SMT
  <2>2. CASE Logout(t)
    BY <2>1, <2>2, DeleteTokenInv DEF Logout
  <2>3. CASE ResolveWithLink(t)
    BY <2>1, <2>3, StartAuthFlowInv DEF ResolveWithLink
  <2>4. CASE RequestRefused(t)
    BY <2>1, <2>4, DeleteTokenInv DEF RequestRefused
  <2>5. CASE ~AuthHandler(t)
    BY <1>4, <2>5, HandlerAuth, AuthStutter
  <2> QED
    BY <2>2, <2>3, <2>4, <2>5 DEF AuthHandler
<1> QED
  BY <1>1, <1>2, <1>3, <1>4 DEF Next

\* A grant is never given to another user.
LEMMA GrantsStay ==
  ASSUME AuthInv, [Next]_vars, NEW k \in Tokens, grantee[k] # NoUser
  PROVE  grantee'[k] = grantee[k]
<1>1. ASSUME NEW c \in Callbacks, CallbackExchanges(c)
      PROVE  grantee'[k] = grantee[k]
  BY <1>1, SMT DEF CallbackExchanges, AuthInv, AuthTypeOK
<1>2. CASE Authorize
  <2>1. UNCHANGED grantee \/ \E c \in Callbacks : CallbackExchanges(c)
    BY <1>2, Zenon DEF Authorize, Authorization, CallbackArrives, CallbackVerifies, CallbackFails,
       CallbackSaves, Revoke
  <2> QED
    BY <1>1, <2>1
<1>3. CASE Crash \/ TimePasses \/ TypingExpires \/ UNCHANGED vars
  BY <1>3, Zenon DEF Crash, AuthCrash, TimePasses, TypingExpires, vars, authVars
<1>4. ASSUME NEW t \in Turns, Begin(t) \/ Handler(t)
      PROVE  grantee'[k] = grantee[k]
  <2>1. CASE ~AuthHandler(t)
    BY <1>4, <2>1, HandlerAuth, Zenon DEF authVars
  <2>2. CASE AuthHandler(t)
    BY <2>2, Zenon DEF AuthHandler, Logout, ResolveWithLink, RequestRefused
  <2> QED
    BY <2>1, <2>2
<1> QED
  BY <1>2, <1>3, <1>4 DEF Next

\* Every step keeps ChatInv: a turn takes a token that is stored for its
\* sender at that moment, and what it was granted for does not change.
LEMMA NextChatInv ==
  ASSUME AuthInv, ChatInv, [Next]_vars
  PROVE  ChatInv'
<1>1. CASE UNCHANGED client
  <2>1. \A t \in Turns : client[t] # NoToken /\ grantee[client[t]] = Sender[t]
            => grantee'[client[t]] = Sender[t]
    <3> SUFFICES ASSUME NEW t \in Turns, client[t] # NoToken,
                        grantee[client[t]] = Sender[t]
                 PROVE  grantee'[client[t]] = Sender[t]
      OBVIOUS
    <3>1. client[t] \in Tokens /\ grantee[client[t]] # NoUser
      BY BotAssumption, SMT DEF ChatInv
    <3> QED
      BY <3>1, GrantsStay
  <2> QED
    BY <1>1, <2>1, SMT DEF ChatInv, ClientOfSender
<1>2. ASSUME NEW t \in Turns, ResolveUserClient(t)
      PROVE  ChatInv'
  <2>1. PICK k \in Tokens :
          /\ client' = [client EXCEPT ![t] = k]
          /\ grantee[k] = Sender[t] \/ (~CallbackServer /\ k = GlobalToken)
    <3> DEFINE token == IF tokens[Sender[t]] = NoToken /\ ~CallbackServer
                        THEN GlobalToken ELSE tokens[Sender[t]]
    <3>1. client' = [client EXCEPT ![t] = token] /\ token # NoToken
      BY <1>2, Zenon DEF ResolveUserClient
    <3>2. token \in Tokens \cup {NoToken}
      BY BotAssumption, SMT DEF AuthInv, AuthTypeOK
    <3>3. grantee[token] = Sender[t] \/ (~CallbackServer /\ token = GlobalToken)
      BY <3>1, BotAssumption, SMT DEF AuthInv, TokenOfUser
    <3> HIDE DEF token
    <3>4. token \in Tokens
      BY <3>1, <3>2, Zenon
    <3> QED
      BY <3>1, <3>3, <3>4, Zenon
  <2>2. grantee' = grantee
    BY <1>2, Zenon DEF ResolveUserClient, authVars
  <2>3. /\ client' \in [Turns -> Tokens \cup {NoToken}]
        /\ client'[t] = k
        /\ \A u \in Turns \ {t} : client'[u] = client[u]
    BY <2>1, SMT DEF ChatInv
  <2>4. ASSUME NEW u \in Turns, client'[u] # NoToken
        PROVE  grantee'[client'[u]] = Sender[u] \/ (~CallbackServer /\ client'[u] = GlobalToken)
    <3>1. CASE u = t
      BY <2>1, <2>2, <2>3, <3>1
    <3>2. CASE u # t
      <4>1. client'[u] = client[u]
        BY <2>3, <3>2, SMT
      <4> QED
        BY <2>2, <2>4, <4>1, Zenon DEF ChatInv, ClientOfSender
    <3> QED
      BY <3>1, <3>2
  <2> QED
    BY <2>3, <2>4, Zenon DEF ChatInv, ClientOfSender
<1>3. UNCHANGED client \/ \E t \in Turns : ResolveUserClient(t)
  BY HandlerClient, Zenon DEF Next, Authorize, TimePasses, TypingExpires, Crash, vars, turnVars
<1> QED
  BY <1>1, <1>2, <1>3

-----------------------------------------------------------------------------
\* AuthInv and ChatInv hold in every reachable state.
THEOREM AuthInvariant == Spec => [](AuthInv /\ ChatInv)
<1>1. Init => AuthInv /\ ChatInv
  BY AuthInitInv, SMT DEF Init, ChatInv, ClientOfSender
<1>2. AuthInv /\ ChatInv /\ [Next]_vars => (AuthInv /\ ChatInv)'
  BY NextAuthInv, NextChatInv
<1> QED
  BY <1>1, <1>2, PTL DEF Spec

\* Links, callback requests, grants and stored tokens stay with their users.
THEOREM AuthOwned == Spec => []AuthInv
<1>1. AuthInv /\ ChatInv => AuthInv
  OBVIOUS
<1> QED
  BY <1>1, AuthInvariant, PTL

\* A login link is good for one exchange (pkce.go:123-129), for any number of
\* concurrent requests, crashes and pending logins.
THEOREM LinkUsedOnce == Spec => []StateUsedOnce
<1>1. AuthInv => StateUsedOnce
  BY DEF AuthInv
<1> QED
  BY <1>1, AuthInvariant, PTL

\* The token stored for a user came from a link sent to that user
\* (pkce.go:132-212).
THEOREM StoredTokenIsOwn == Spec => []TokenOfUser
<1>1. AuthInv => TokenOfUser
  BY DEF AuthInv
<1> QED
  BY <1>1, AuthInvariant, PTL

\* A message is sent with its sender's own token, or the shared one where
\* nobody can sign in (handlers.go:529-562).
THEOREM SentWithOwnToken == Spec => []ClientOfSender
<1>1. ChatInv => ClientOfSender
  BY DEF ChatInv
<1> QED
  BY <1>1, AuthInvariant, PTL
=============================================================================
