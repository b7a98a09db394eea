-------------------------------- MODULE Inbox --------------------------------
(***************************************************************************)
(* What the bridge promises about the messages an agent leaves for its     *)
(* users: WordPress offers a message, the bridge takes hold of it, shows   *)
(* it once in the room of the login it belongs to, and settles it (tells   *)
(* WordPress to forget it) only while it is held or shown.  Delivery.tla   *)
(* implements this specification with a poller, a webhook and portal       *)
(* event queues.                                                           *)
(***************************************************************************)
EXTENDS Sequences, Functions

CONSTANTS Logins,     \* the bridge logins, each with one room
          Messages,   \* the outbound messages agents produce
          OwnerOf,    \* the login a message is for
          Forgetful   \* TRUE when the bridge may crash and lose what it holds

VARIABLES offered,    \* messages WordPress has queued for the bridge
          held,       \* messages the bridge has taken and not yet shown
          room,       \* what each login's room shows, in order
          settled     \* messages the bridge has reported as delivered

inboxVars == <<offered, held, room, settled>>

InboxInit ==
    /\ offered = {}
    /\ held = {}
    /\ room = [l \in Logins |-> <<>>]
    /\ settled = {}

Offer(m) ==
    /\ m \notin offered
    /\ offered' = offered \cup {m}
    /\ UNCHANGED <<held, room, settled>>

Accept(m) ==
    /\ m \in offered
    /\ m \notin Range(room[OwnerOf[m]])
    /\ held' = held \cup {m}
    /\ UNCHANGED <<offered, room, settled>>

Show(m) ==
    /\ m \in held
    /\ m \notin Range(room[OwnerOf[m]])
    /\ room' = [room EXCEPT ![OwnerOf[m]] = Append(@, m)]
    /\ held' = held \ {m}
    /\ UNCHANGED <<offered, settled>>

\* Only what is held or already on screen may be settled; a crash-prone
\* bridge forgets what it held, so it may repeat an earlier settlement.
Settle(S) ==
    /\ S \subseteq held \cup UNION {Range(room[l]) : l \in Logins}
    /\ settled' = settled \cup S
    /\ UNCHANGED <<offered, held, room>>

\* The report may get lost on its way.
Retract(S) ==
    /\ settled' = settled \ S
    /\ UNCHANGED <<offered, held, room>>

Forget ==
    /\ Forgetful
    /\ held' = {}
    /\ UNCHANGED <<offered, room, settled>>

InboxNext ==
    \/ \E m \in Messages : Offer(m) \/ Accept(m) \/ Show(m)
    \/ \E S \in SUBSET Messages : Settle(S) \/ Retract(S)
    \/ Forget

InboxSpec == InboxInit /\ [][InboxNext]_inboxVars
=============================================================================
