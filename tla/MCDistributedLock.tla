------------------------- MODULE MCDistributedLock -------------------------
(***************************************************************************)
(* Model checking DistributedLock: the symmetry of its sets of model       *)
(* values (used by the safety run only), and the mutants of its            *)
(* definitions.                                                            *)
(***************************************************************************)
EXTENDS DistributedLock, TLC

Symmetry == Permutations(Callers) \cup Permutations(Names)
              \cup Permutations(Uuids)
=============================================================================
