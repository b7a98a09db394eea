----------------------------- MODULE MCLifecycle -----------------------------
(***************************************************************************)
(* Lifecycle on small instances: all processes end with the same login id, *)
(* a site and an agent.                                                    *)
(***************************************************************************)
EXTENDS Lifecycle, TLC

CONSTANT lid

OneLoginOf == [p \in Processes |-> lid]

\* Who is who does not matter.
Symmetry == Permutations(Users) \cup Permutations(Processes) \cup Permutations(States)
            \cup Permutations(Tokens) \cup Permutations(Clients)
=============================================================================
