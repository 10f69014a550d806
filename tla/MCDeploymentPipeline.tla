------------------------ MODULE MCDeploymentPipeline ------------------------
(***************************************************************************)
(* Model checking DeploymentPipeline: the requests of the runs, as         *)
(* constant definitions for their configurations.                          *)
(***************************************************************************)
EXTENDS DeploymentPipeline, TLC

Create(a, v, m) ==
  [kind |-> "create", app |-> a, version |-> v, mode |-> m,
   enabled |-> TRUE, check |-> TRUE]
Delete(a, v) == [kind |-> "delete", app |-> a, version |-> v]

CONSTANTS app, v1, v2

\* One application, the two modes with a single version, one request without a
\* discover check, one with a disabled app template, and deletes.
SafetyRequests ==
  {Create(app, v1, "blue-green"), Create(app, v2, "blue-green"),
   [Create(app, v2, "red-green") EXCEPT !.check = FALSE],
   [Create(app, v1, "blue-green") EXCEPT !.enabled = FALSE],
   Delete(app, v1), Delete(app, AllVersions)}

\* A blue-green create, one in the mode that leaves other versions alone but
\* with a disabled app template, and a delete.
LivenessRequests ==
  {Create(app, v1, "blue-green"),
   [Create(app, v2, "a/b") EXCEPT !.enabled = FALSE],
   Delete(app, AllVersions)}

RedGreenRequests == {Create(app, v1, "red-green")}

Symmetry == Permutations(Jobs)
=============================================================================
