------------------------------ MODULE Recovery ------------------------------
(***************************************************************************)
(* Recovering the cluster (recover_cluster, clone_deployment, the version  *)
(* that apply_defaults draws from the clock, filter_deployments): clones   *)
(* of stored deployments are created anew, next to what users deploy.      *)
(*                                                                         *)
(* A job is one run of the celery task create with its pipeline, reduced   *)
(* to what it does to the documents; DeploymentPipeline has the pipelines  *)
(* in detail, and deletes.  Pipelines finish within the lease of their     *)
(* lock.  A config stands for all of a deployment that is neither its      *)
(* application, its version nor its state.                                 *)
(***************************************************************************)
EXTENDS Naturals

CONSTANTS
  Jobs,             \* bound: runs of create, by users and by recoveries
  Apps,
  Configs,
  Mode,             \* the mode in which each application is deployed
  Named,            \* versions that users choose themselves
  MaxClock,         \* bound: the clock's milliseconds, and the versions drawn
  SameMillisecond,  \* TRUE: two creates may read the clock within one
  FailsIn,          \* phases in which a pipeline may fail
  RecoverStates,    \* the states that recoveries ask for
  None

ASSUME ModeAssumption == Mode \in [Apps -> {"blue-green", "red-green", "a/b"}]
ASSUME ClockAssumption == MaxClock \in Nat /\ SameMillisecond \in BOOLEAN
ASSUME NamedAssumption ==
  Named \cap (1 .. MaxClock) = {} /\ None \notin Named \cup 1 .. MaxClock

VARIABLES
  clock,
  doc,    \* the documents of the store
  job     \* the runs of create; source is the document a clone was made of,
          \* which no task looks at

vars == <<clock, doc, job>>

Versions == Named \cup 1 .. MaxClock
Deployments == Apps \X Versions
DocStates ==
  {"ABSENT", "NEW", "STARTED", "PROMOTED", "FAILED", "DECOMMISSIONED"}

ASSUME RecoverStatesAssumption == RecoverStates \subseteq DocStates \ {"ABSENT"}

Working == {"started", "deploying", "switched"}
Phases == {"idle", "queued", "created", "done", "failed"} \cup Working

ASSUME FailsInAssumption == FailsIn \subseteq {"queued", "created"} \cup Working

Absent == [state |-> "ABSENT", config |-> None]
Idle ==
  [phase |-> "idle", app |-> None, config |-> None, version |-> None,
   source |-> None]

TypeOK ==
  /\ clock \in 1 .. MaxClock + 1
  /\ doc \in [Deployments ->
                [state : DocStates, config : Configs \cup {None}]]
  /\ job \in [Jobs ->
                [phase : Phases, app : Apps \cup {None},
                 config : Configs \cup {None}, version : Versions \cup {None},
                 source : Deployments \cup {None}]]

Init ==
  /\ clock = 1
  /\ doc = [d \in Deployments |-> Absent]
  /\ job = [j \in Jobs |-> Idle]

-----------------------------------------------------------------------------
Own(j) == <<job[j].app, job[j].version>>

Enter(j, phase) == job' = [job EXCEPT ![j].phase = phase]

\* update_state of the job's own document.
Stored(docs, j, state) == [docs EXCEPT ![Own(j)].state = state]

\* update_state_bulk of every promoted version of an application.
Mutant_NoneRetired(a) == doc
Retired(a) ==
  [d \in Deployments |->
     IF d[1] = a /\ doc[d].state = "PROMOTED"
       THEN [doc[d] EXCEPT !.state = "DECOMMISSIONED"] ELSE doc[d]]

\* A user posts a deployment, with or without a version.
Post(j, a, c, v) ==
  /\ job[j] = Idle
  /\ job' = [job EXCEPT ![j] =
       [phase |-> "queued", app |-> a, config |-> c, version |-> v,
        source |-> None]]
  /\ UNCHANGED <<clock, doc>>

\* filter_deployments: exclude_names counts only without a name.
Recoveries ==
  [state : RecoverStates, name : Apps \cup {None},
   version : Versions \cup {None}, exclude : SUBSET Apps]
Selected(p) ==
  {d \in Deployments :
     /\ doc[d].state = p.state
     /\ IF p.name # None THEN d[1] = p.name ELSE d[1] \notin p.exclude
     /\ p.version # None => d[2] = p.version}

\* clone_deployment drops the version, so that apply_defaults draws a new one.
Mutant_KeepsVersion(d) ==
  [phase |-> "queued", app |-> d[1], config |-> doc[d].config,
   version |-> d[2], source |-> d]
CloneDeployment(d) ==
  [phase |-> "queued", app |-> d[1], config |-> doc[d].config,
   version |-> None, source |-> d]

\* recover_cluster queues the clones as one group.
RecoverCluster(p) ==
  /\ \E j \in Jobs : job[j] = Idle
  /\ Selected(p) # {}
  /\ \E f \in [Selected(p) -> {j \in Jobs : job[j] = Idle}] :
       /\ \A d, e \in Selected(p) : f[d] = f[e] => d = e
       /\ job' = [j \in Jobs |->
            IF \E d \in Selected(p) : f[d] = j
              THEN CloneDeployment(CHOOSE d \in Selected(p) : f[d] = j)
              ELSE job[j]]
  /\ UNCHANGED <<clock, doc>>

\* The version apply_defaults gives a deployment without one.
ClockVersion == clock

\* create stores the deployment over any document of the same id.
CreateAs(j, v) ==
  /\ doc' = [doc EXCEPT ![<<job[j].app, v>>] =
                [state |-> "NEW", config |-> job[j].config]]
  /\ job' = [job EXCEPT ![j].version = v, ![j].phase = "created"]
Create(j) ==
  /\ job[j].phase = "queued"
  /\ IF job[j].version # None
       THEN CreateAs(j, job[j].version) /\ UNCHANGED clock
       ELSE /\ clock <= MaxClock
            /\ CreateAs(j, ClockVersion)
            /\ clock' = clock + 1 \/ (SameMillisecond /\ UNCHANGED clock)

\* _using_lock and _start_deployment.
Start(j) ==
  /\ job[j].phase = "created"
  /\ \A i \in Jobs : job[i].app = job[j].app => job[i].phase \notin Working
  /\ doc' = Stored(doc, j, "STARTED")
  /\ Enter(j, "started")
  /\ UNCHANGED clock

\* _pre_create_undeploy: red-green retires the other versions first, a
\* blue-green create only its own, which is not promoted.
Prepare(j) ==
  /\ job[j].phase = "started"
  /\ doc' = IF Mode[job[j].app] = "red-green" THEN Retired(job[j].app) ELSE doc
  /\ Enter(j, "deploying")
  /\ UNCHANGED clock

\* _promote_deployment: blue-green retires the other versions afterwards.
Switch(j) ==
  /\ job[j].phase = "deploying"
  /\ doc' = IF Mode[job[j].app] = "blue-green" THEN Retired(job[j].app) ELSE doc
  /\ Enter(j, "switched")
  /\ UNCHANGED clock

\* _promote_success.
Succeed(j) ==
  /\ job[j].phase = "switched"
  /\ doc' = Stored(doc, j, "PROMOTED")
  /\ Enter(j, "done")
  /\ UNCHANGED clock

\* A task fails.  Once the pipeline runs, its callbacks mark the deployment and
\* undeploy it; a create that does not get its lock leaves its document alone.
Mutant_UndeploysAll(j) ==
  /\ job[j].phase \in FailsIn
  /\ doc' = Retired(job[j].app)
  /\ Enter(j, "failed")
  /\ UNCHANGED clock
Fail(j) ==
  /\ job[j].phase \in FailsIn
  /\ doc' = IF job[j].phase \in Working THEN Stored(doc, j, "FAILED") ELSE doc
  /\ Enter(j, "failed")
  /\ UNCHANGED clock

JobStep(j) ==
  Create(j) \/ Start(j) \/ Prepare(j) \/ Switch(j) \/ Succeed(j) \/ Fail(j)

Next ==
  \/ \E j \in Jobs, a \in Apps, c \in Configs, v \in Named \cup {None} :
       Post(j, a, c, v)
  \/ \E p \in Recoveries : RecoverCluster(p)
  \/ \E j \in Jobs : JobStep(j)

Spec == Init /\ [][Next]_vars

-----------------------------------------------------------------------------
(* Properties.                                                             *)

\* The document of d is that of one run of create only.  Runs share a document
\* when users choose the same version, and when the clock gives them the same
\* one (SameMillisecond).
OneRun(d) == \A i, j \in Jobs : Own(i) = d /\ Own(j) = d => i = j

\* Once the millisecond of a drawn version is over, no create and no clone of
\* a recovery gets that version again: the document keeps what was deployed
\* under it and its life does not start anew.  Within the millisecond, nothing
\* keeps a second create from the same version (deployment.py:281).
NothingOverwritten ==
  [][\A d \in Deployments : d[2] \in 1 .. MaxClock /\ d[2] < clock =>
       /\ doc'[d].config = doc[d].config
       /\ doc'[d].state = "NEW" => doc[d].state = "NEW"]_vars

\* A clone that is promoted takes the place of the deployment it was made of:
\* recovering a cluster does not add to it (deployment.py:891).  In a/b mode
\* nothing takes the source down, and each recovery doubles the application;
\* and a source whose id another run of create has got is promoted anew by it,
\* as is one that was recovered while it was under way.
CloneReplacesSource ==
  \A j \in Jobs :
    /\ job[j].phase = "done" /\ job[j].source # None
    /\ Mode[job[j].app] # "a/b" /\ OneRun(job[j].source)
    => doc[job[j].source].state # "PROMOTED"

\* The promoted versions are retired, the new one is not yet promoted.
Switching(j) ==
  \/ job[j].phase = "switched"
  \/ job[j].phase = "deploying" /\ Mode[job[j].app] = "red-green"

\* What was promoted of an application is still there to be recovered, or a
\* job is about to promote a newer version.
Recoverable(a) ==
  \/ \A v \in Versions : doc[<<a, v>>].state # "DECOMMISSIONED"
  \/ \E v \in Versions : doc[<<a, v>>].state = "PROMOTED"
  \/ \E j \in Jobs : job[j].app = a /\ Switching(j)

\* "If not specified, all apps are recovered" (schemas/recovery-v1.json:8):
\* there is a promoted document for the next recovery to find, whatever is
\* created, recovered or fails.  The code does not keep this promise in two
\* cases: a pipeline fails between the retirement of the promoted versions and
\* its own promotion, and a create takes the id of the promoted document.
LostOnlyInSwitch ==
  [][\A a \in Apps : Recoverable(a) =>
       \/ Recoverable(a)'
       \/ \E j \in Jobs :
            job[j].app = a /\ Switching(j) /\ job'[j].phase = "failed"
       \/ \E v \in Versions :
            doc[<<a, v>>].state = "PROMOTED" /\ ~OneRun(<<a, v>>)']_vars
=============================================================================
