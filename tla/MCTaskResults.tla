--------------------------- MODULE MCTaskResults ---------------------------
(***************************************************************************)
(* Model checking TaskResults.                                             *)
(***************************************************************************)
EXTENDS TaskResults
=============================================================================
