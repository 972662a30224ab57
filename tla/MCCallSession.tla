--------------------------- MODULE MCCallSession ---------------------------
(* Instances of CallSession for TLC.                                       *)
EXTENDS CallSession
=============================================================================
