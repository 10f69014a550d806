----------------------------- MODULE MCRecovery -----------------------------
(***************************************************************************)
(* Model checking Recovery: modes and symmetry of the runs.                *)
(***************************************************************************)
EXTENDS Recovery, TLC

CONSTANTS app, app2

Modes == (app :> "blue-green") @@ (app2 :> "red-green")

Symmetry == Permutations(Jobs) \cup Permutations(Configs)
=============================================================================
