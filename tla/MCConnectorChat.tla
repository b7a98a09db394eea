--------------------------- MODULE MCConnectorChat ---------------------------
(***************************************************************************)
(* ConnectorChat for two text turns, with or without a /new between them.  *)
(***************************************************************************)
EXTENDS ConnectorChat

CONSTANTS t1, t2, t3

OneReset == [t \in Turns |-> IF t = t2 THEN "new" ELSE "text"]
=============================================================================
