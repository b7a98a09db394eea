------------------------------- MODULE Account -------------------------------
(***************************************************************************)
(* What signing in promises about tokens, whatever browsers, login         *)
(* processes, reconnects and poll loops do: a token is issued to the user  *)
(* whose link was followed, enters service once and for that user's login, *)
(* and is polled with only while it is in service.  Lifecycle.tla          *)
(* implements this specification with the connector's login flow, its      *)
(* clients and their poll loops.                                           *)
(***************************************************************************)
CONSTANTS Users, NoUser,
          Logins,     \* login ids: a site and an agent
          Tokens, NoToken

VARIABLES issuedTo,   \* user each token was issued to, NoUser if not issued
          account,    \* the user and the token of each login
          used,       \* tokens that have been in service
          inService,  \* tokens the bridge may poll with
          polled      \* tokens a poll is being answered for

accountVars == <<issuedTo, account, used, inService, polled>>

SignedOut == [user |-> NoUser, token |-> NoToken]

AccountInit ==
    /\ issuedTo = [k \in Tokens |-> NoUser]
    /\ account = [l \in Logins |-> SignedOut]
    /\ used = {}
    /\ inService = {}
    /\ polled = {}

Issue(u, k) ==
    /\ issuedTo[k] = NoUser
    /\ issuedTo' = [issuedTo EXCEPT ![k] = u]
    /\ UNCHANGED <<account, used, inService, polled>>

\* A login belongs to one user, who may sign in again.  The token it had
\* stays in service: whoever still polls with it is not told.
SignIn(u, l, k) ==
    /\ issuedTo[k] = u
    /\ k \notin used
    /\ account[l].user \in {NoUser, u}
    /\ account' = [account EXCEPT ![l] = [user |-> u, token |-> k]]
    /\ used' = used \cup {k}
    /\ inService' = inService \cup {k}
    /\ UNCHANGED <<issuedTo, polled>>

SignOut(l) ==
    /\ account[l].user # NoUser
    /\ account' = [account EXCEPT ![l] = SignedOut]
    /\ inService' = inService \ {account[l].token}
    /\ UNCHANGED <<issuedTo, used, polled>>

Poll(k) ==
    /\ k \in inService
    /\ polled' = polled \cup {k}
    /\ UNCHANGED <<issuedTo, account, used, inService>>

PollEnds(k) ==
    /\ polled' = polled \ {k}
    /\ UNCHANGED <<issuedTo, account, used, inService>>

\* Only the logins survive a restart, and each takes up its token again.
Restart ==
    /\ inService' = {}
    /\ polled' = {}
    /\ UNCHANGED <<issuedTo, account, used>>

Resume(l) ==
    /\ account[l].user # NoUser
    /\ inService' = inService \cup {account[l].token}
    /\ UNCHANGED <<issuedTo, account, used, polled>>

AccountNext ==
    \/ \E u \in Users, k \in Tokens :
          \/ Issue(u, k)
          \/ \E l \in Logins : SignIn(u, l, k)
    \/ \E l \in Logins : SignOut(l) \/ Resume(l)
    \/ \E k \in Tokens : Poll(k) \/ PollEnds(k)
    \/ Restart

AccountSpec == AccountInit /\ [][AccountNext]_accountVars
=============================================================================
