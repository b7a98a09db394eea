------------------------------ MODULE MCBotRoom ------------------------------
(***************************************************************************)
(* BotRoom for one user of one room, under the shared token.               *)
(***************************************************************************)
EXTENDS BotRoom

CONSTANTS t1, t2, t3, u1, r1

OneRoom   == [t \in Turns |-> r1]
OneSender == [t \in Turns |-> u1]
Pictures  == [t \in Turns |-> IF t = t2 THEN "image" ELSE "text"]
=============================================================================
