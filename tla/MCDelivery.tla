----------------------------- MODULE MCDelivery -----------------------------
(***************************************************************************)
(* Delivery on small instances.                                            *)
(*   Duo:  two logins of one site whose sessions have the same id, told    *)
(*         apart by the agent slug alone; l1 has two poll loops, l2 depends *)
(*         on the webhook.                                                 *)
(*   Solo: one login, two messages, of one session or of two.              *)
(***************************************************************************)
EXTENDS Delivery, TLC

CONSTANTS l1, l2, s1, s2, m1, m2, p1, p2

\* Where a login has two loops, one is of a client it has replaced.
PolledLogin == [p \in Pollers |-> l1]
Symmetry == Permutations(Pollers)

DuoOwnerOf      == [m \in Messages |-> IF m = m1 THEN l1 ELSE l2]
DuoSessionOf    == [m \in Messages |-> s1]
DuoSessionsOf   == [l \in Logins |-> {s1}]
DuoLoginScope   == [l \in Logins |-> [site |-> "wp", agent |-> IF l = l1 THEN "a" ELSE "b"]]
DuoMessageScope ==
    [m \in Messages |-> [site |-> IF m = m1 THEN Wild ELSE "wp",
                         agent |-> IF m = m1 THEN "a" ELSE "b"]]

SoloOwnerOf      == [m \in Messages |-> l1]
SoloSessionOf    == [m \in Messages |-> IF m = m1 THEN s1 ELSE s2]
OneSessionOf     == [m \in Messages |-> s1]
SoloSessionsOf   == [l \in Logins |-> Sessions]
SoloLoginScope   == [l \in Logins |-> [site |-> "wp", agent |-> "a"]]
SoloMessageScope == [m \in Messages |-> [site |-> "wp", agent |-> Wild]]
=============================================================================
