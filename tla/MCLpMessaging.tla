--------------------------- MODULE MCLpMessaging ---------------------------
(* Small instances of LpMessaging for TLC. *)
EXTENDS LpMessaging
=============================================================================
