------------------------------ MODULE MCBotChat ------------------------------
(***************************************************************************)
(* BotChat for two users of one room, or one user with several messages.   *)
(***************************************************************************)
EXTENDS BotChat

CONSTANTS t1, t2, t3, t4, t5, u1, u2, r1

OneRoom    == [t \in Turns |-> r1]
OneSender  == [t \in Turns |-> u1]
TwoSenders == [t \in Turns |-> IF t = t2 THEN u2 ELSE u1]

Resets   == [t \in Turns |-> IF t = t3 THEN "new" ELSE "text"]
Leaving  == [t \in Turns |-> IF t = t3 THEN "logout" ELSE "text"]
Various  == [t \in Turns |-> CASE t = t1 -> "text" [] t = t2 -> "image" [] t = t3 -> "new"
                               [] t = t4 -> "logout" [] OTHER -> "text"]
=============================================================================
