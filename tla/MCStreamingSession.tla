----------------------- MODULE MCStreamingSession -----------------------
(* Instances of StreamingSession for TLC.                                  *)
EXTENDS StreamingSession
=============================================================================
