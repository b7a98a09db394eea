---------------------------- MODULE MCCallbackURL ----------------------------
(***************************************************************************)
(* CallbackURL for every path of up to two of three segments, with and     *)
(* without a slash at the end.                                             *)
(***************************************************************************)
EXTENDS CallbackURL

UpTo(n) == UNION {[1 .. m -> Segments] : m \in 0 .. n}

ShortPaths == {[segs |-> s, slash |-> b] : s \in UpTo(2), b \in BOOLEAN}
=============================================================================
