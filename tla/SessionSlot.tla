----------------------------- MODULE SessionSlot -----------------------------
(***************************************************************************)
(* What one portal's entry in the session maps goes through.  The          *)
(* connector keeps the maps in UserLoginMeta (pkg/connector/connector.go), *)
(* the bot in SessionStore (pkg/wordpress/session.go); the operations are  *)
(* the same.  A slot is the session id of a portal and the age of its last *)
(* message: "recent" within the idle TTL, "stale" beyond it.               *)
(***************************************************************************)
CONSTANT NoSession

Ages == {"never", "recent", "stale"}

EmptySlot == [id |-> NoSession, at |-> "never"]

RememberSessionID(slot, s) == [slot EXCEPT !.id = s]

TouchPortal(slot) == [slot EXCEPT !.at = "recent"]

\* A portal without a timestamp never expires.
IsSessionExpired(slot) == slot.at = "stale"

ClearSession(slot) == EmptySlot

\* The idle TTL elapses.
Aged(slot) == IF slot.at = "recent" THEN [slot EXCEPT !.at = "stale"] ELSE slot
=============================================================================
