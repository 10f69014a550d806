--------------------------- MODULE MCProcessAlarm ---------------------------
(***************************************************************************)
(* Model checking ProcessAlarm.  The greenlets are alike, but the run has  *)
(* a liveness property and so uses no symmetry.                            *)
(***************************************************************************)
EXTENDS ProcessAlarm
=============================================================================
