--------------------------- MODULE MCActiveObject ---------------------------
(* Small instances of ActiveObject for TLC. *)
EXTENDS ActiveObject
=============================================================================
