--------------------------- MODULE MCMrcpSession ---------------------------
(* Instances of MrcpSession for TLC.                                       *)
EXTENDS MrcpSession
=============================================================================
