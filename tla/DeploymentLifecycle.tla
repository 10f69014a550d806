------------------------ MODULE DeploymentLifecycle ------------------------
(***************************************************************************)
(* What a client of the deployment store may rely on: how the state of a   *)
(* deployment document (conf/appconfig.py, DEPLOYMENT_STATE_...) changes,  *)
(* whatever tasks, retries and failures are behind the changes.            *)
(* DeploymentPipeline implements it as long as every pipeline finishes     *)
(* within the lease of its application lock.                               *)
(***************************************************************************)

CONSTANTS
  Deployments,     \* deployment ids, pairs <<application, version>>
  SingleVersion    \* applications that are to have one promoted version

VARIABLE doc       \* state of each deployment, "ABSENT" without a document

States == {"ABSENT", "NEW", "STARTED", "PROMOTED", "FAILED", "DECOMMISSIONED"}

Init == doc = [d \in Deployments |-> "ABSENT"]

\* A request to deploy (again) starts the life of the document (again).
Create(d) == doc' = [doc EXCEPT ![d] = "NEW"]

\* Its pipeline begins.
Begin(d) == doc' = [doc EXCEPT ![d] = "STARTED"]

\* Only a deployment under way is promoted, and in an application with a
\* single version only when no other version is promoted.
Promote(d) ==
  /\ doc[d] \in {"NEW", "STARTED", "PROMOTED"}
  /\ d[1] \in SingleVersion =>
       \A e \in Deployments : e[1] = d[1] /\ e # d => doc[e] # "PROMOTED"
  /\ doc' = [doc EXCEPT ![d] = "PROMOTED"]

Fail(d) == doc' = [doc EXCEPT ![d] = "FAILED"]

\* Decommissioning concerns promoted deployments only.
Decommission(ds) ==
  doc' = [d \in Deployments |->
            IF d \in ds /\ doc[d] = "PROMOTED" THEN "DECOMMISSIONED"
                                               ELSE doc[d]]

Next ==
  \/ \E d \in Deployments : Create(d) \/ Begin(d) \/ Promote(d) \/ Fail(d)
  \/ \E ds \in SUBSET Deployments : Decommission(ds)

Spec == Init /\ [][Next]_doc
=============================================================================
