----------------------------- MODULE MCSyncJobs -----------------------------
(***************************************************************************)
(* Model checking SyncJobs: symmetry of the runs without liveness.         *)
(***************************************************************************)
EXTENDS SyncJobs, TLC

Symmetry == Permutations(Executions)
=============================================================================
