---------------------------- MODULE SessionMemory ----------------------------
(***************************************************************************)
(* The session ids the connector knows: what a login remembers for its     *)
(* portal (UserLoginMeta in pkg/connector/connector.go), in memory and as  *)
(* last saved, and the sessions WordPress has created for it.              *)
(*                                                                         *)
(* This is all that Delivery needs to know of the handlers of Matrix       *)
(* messages, and takes its session steps from here; ConnectorChat, which   *)
(* has the handlers, implements it.                                        *)
(***************************************************************************)
CONSTANTS Logins, Sessions, NoSession,
          SessionsOf    \* the session ids WordPress may hand out to a login

VARIABLES opened, session, saved

memoryVars == <<opened, session, saved>>

MemoryInit ==
    /\ opened = [l \in Logins |-> {}]
    /\ session = [l \in Logins |-> NoSession]
    /\ saved = [l \in Logins |-> NoSession]

\* WordPress creates a session for a turn that was sent without one.  If the
\* turn has timed out, the login may know another one by then.
OpenSession(l, s) ==
    /\ s \in SessionsOf[l] \ opened[l]
    /\ opened' = [opened EXCEPT ![l] = @ \cup {s}]
    /\ UNCHANGED <<session, saved>>

\* The response of a turn names its session.
RememberSession(l, s) ==
    /\ s \in opened[l]
    /\ session' = [session EXCEPT ![l] = s]
    /\ UNCHANGED <<opened, saved>>

\* /new, or the idle TTL.
ForgetSession(l) ==
    /\ session' = [session EXCEPT ![l] = NoSession]
    /\ UNCHANGED <<opened, saved>>

\* Both of the first two save afterwards, unless the save fails; a rotation does
\* not.  What is saved is what is remembered by then.
SaveSession(l) ==
    /\ saved' = [saved EXCEPT ![l] = session[l]]
    /\ UNCHANGED <<opened, session>>

\* A restart loads what was saved.
ReloadSessions ==
    /\ session' = saved
    /\ UNCHANGED <<opened, saved>>

MemoryNext ==
    \/ \E l \in Logins :
          \/ \E s \in Sessions : OpenSession(l, s) \/ RememberSession(l, s)
          \/ ForgetSession(l) \/ SaveSession(l)
    \/ ReloadSessions

MemorySpec == MemoryInit /\ [][MemoryNext]_memoryVars
=============================================================================
