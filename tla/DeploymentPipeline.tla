------------------------- MODULE DeploymentPipeline -------------------------
(***************************************************************************)
(* The create and delete pipelines of tasks/deployment.py, with the state  *)
(* they share: the application locks (etcd), the deployment documents      *)
(* (mongo), the fleet units and the yoda proxy.                            *)
(*                                                                         *)
(* A job is one call of the celery task create or delete.  Its pipeline is *)
(* a chain of celery tasks, pc[j] naming the task that is queued or        *)
(* running; cb[j] is the other thread of the job, the async_wait task that *)
(* polls the result of the pipeline and the callbacks it triggers          *)
(* (link: _release_lock; link_error: _deployment_error_event, then         *)
(* _fleet_undeploy, then _release_lock).                                   *)
(*                                                                         *)
(* Any task may take effect and run again, because fleet raised a          *)
(* retryable error half-way or its worker died before it acknowledged the  *)
(* message (CELERY_ACKS_LATE), and any task may fail for good.  That a     *)
(* redelivered task can also have queued its successor already is not      *)
(* modelled.                                                               *)
(*                                                                         *)
(* Operators called Mutant_... are wrong on purpose and used nowhere; see  *)
(* DistributedLock.                                                        *)
(***************************************************************************)
EXTENDS Naturals, FiniteSets

CONSTANTS
  Jobs,         \* calls of create and of delete
  Apps,         \* application names
  Versions,     \* application versions
  AllVersions,  \* delete without a version
  Requests,     \* what a job may ask for: a subset of RequestType
  Limit,        \* START_CONCURRENCY; 0 for no limit
  Overruns,     \* jobs whose pipeline may outlast the lease of its lock
  NoJob,        \* owner of a free lock
  Unversioned,  \* upstream name without a version, <app>-<port>
  NotWired      \* the proxy of an application before its first promotion

Modes == {"blue-green", "red-green", "a/b"}

RequestType ==
  [kind : {"create"}, app : Apps, version : Versions, mode : Modes,
   enabled : BOOLEAN,     \* templates.app.enabled
   check : BOOLEAN]       \* deployment.check has a port and a path
    \cup
  [kind : {"delete"}, app : Apps, version : Versions \cup {AllVersions}]

ASSUME RequestsAssumption == Requests \subseteq RequestType
ASSUME VersionsAssumption == {AllVersions, Unversioned} \cap Versions = {}
ASSUME JobsAssumption == NoJob \notin Jobs
ASSUME LimitAssumption == Limit \in Nat
ASSUME OverrunsAssumption == Overruns \subseteq Jobs

\* Every pipeline finishes within the lease of its lock.
Timely == Overruns = {}

VARIABLES
  req,         \* the request of each job
  pc,          \* the task of each job's pipeline
  cb,          \* the callback side of each job
  lock,        \* job that owns the lock of each application, or NoJob
  doc,         \* state of each deployment document
  units,       \* the fleet units of each deployment
  registered,  \* upstream names registered with yoda for each application
  wired        \* upstream name yoda routes each application's hosts to

vars == <<req, pc, cb, lock, doc, units, registered, wired>>
shared == <<doc, units, registered, wired>>

Deployments == Apps \X Versions

DocStates ==
  {"ABSENT", "NEW", "STARTED", "PROMOTED", "FAILED", "DECOMMISSIONED"}

\* The units of a deployment, as one: not in fleet, submitted but inactive
\* (or failed), launched, enough of them running, being stopped, being
\* destroyed.
UnitStates == {"none", "loaded", "launched", "running", "stopping", "removing"}
Active == {"launched", "running", "stopping"}

\* The tasks of create in their order; delete consists of the UndeployTasks.
StartTasks == {"start", "starting", "prepare"}
UndeployTasks == {"stop", "wait_stop", "undeploy", "wait_undeploy"}
DeployTasks ==
  {"register", "deploy_all", "deploy", "start_units", "check_running",
   "discover", "check", "promote"}
SwitchTasks ==
  {"stop_others", "wait_stop_others", "undeploy_others",
   "wait_undeploy_others", "succeed"}
Tasks == StartTasks \cup UndeployTasks \cup DeployTasks \cup SwitchTasks

\* async_wait and the callbacks that still work on the application.
Callbacks == {"wait", "error_event", "error_undeploy"}

TypeOK ==
  /\ req \in [Jobs -> Requests]
  /\ pc \in [Jobs -> Tasks \cup {"new", "lock", "abandoned", "done", "failed"}]
  /\ cb \in [Jobs -> Callbacks \cup {"none", "release", "over", "lost"}]
  /\ lock \in [Apps -> Jobs \cup {NoJob}]
  /\ doc \in [Deployments -> DocStates]
  /\ units \in [Deployments -> UnitStates]
  /\ registered \in [Apps -> SUBSET (Versions \cup {Unversioned})]
  /\ wired \in [Apps -> Versions \cup {Unversioned, NotWired}]

Init ==
  /\ req \in [Jobs -> Requests]
  /\ pc = [j \in Jobs |-> "new"]
  /\ cb = [j \in Jobs |-> "none"]
  /\ lock = [a \in Apps |-> NoJob]
  /\ doc = [d \in Deployments |-> "ABSENT"]
  /\ units = [d \in Deployments |-> "none"]
  /\ registered = [a \in Apps |-> {}]
  /\ wired = [a \in Apps |-> NotWired]

AppLock == INSTANCE LeasedLock WITH
  Names <- Apps, Owners <- Jobs, NoOwner <- NoJob, owner <- lock

-----------------------------------------------------------------------------
(* Which deployments a job is about.                                       *)

App(j) == req[j].app
IsCreate(j) == req[j].kind = "create"
BlueGreen(j) == IsCreate(j) /\ req[j].mode = "blue-green"
Own(j) == <<req[j].app, req[j].version>>
OfApp(a) == {a} \X Versions

\* The name/version filter of the first four undeploy tasks: the version of a
\* blue-green create or of a delete, or every version.
Scope(j) ==
  IF BlueGreen(j) \/ (~IsCreate(j) /\ req[j].version # AllVersions)
    THEN {Own(j)}
    ELSE OfApp(App(j))

\* The exclude_version filter of the tasks that follow the switch.
Mutant_ExcludesNothing(j) == OfApp(App(j))
Others(j) == OfApp(App(j)) \ {Own(j)}

\* as_upstream with use_version, which is None outside blue-green.
Mutant_SwapsArguments(version, mode) == mode
Upstream(version, mode) ==
  IF mode = "blue-green" THEN version ELSE Unversioned

-----------------------------------------------------------------------------
(* The calls the tasks make on fleet and on the store.                     *)

StopUnits(ds) ==
  units' = [d \in Deployments |->
              IF d \in ds /\ units[d] \in {"launched", "running"}
                THEN "stopping" ELSE units[d]]

RemoveUnits(ds) ==
  units' = [d \in Deployments |->
              IF d \in ds /\ units[d] # "none" THEN "removing" ELSE units[d]]

SubmitUnits(d) ==
  units' = IF units[d] \in {"none", "removing"}
             THEN [units EXCEPT ![d] = "loaded"] ELSE units

LaunchUnits(d) ==
  units' = IF units[d] \in {"loaded", "stopping"}
             THEN [units EXCEPT ![d] = "launched"] ELSE units

\* update_state: a document that does not exist is not created.
UpdateState(d, state) ==
  doc' = IF doc[d] = "ABSENT" THEN doc ELSE [doc EXCEPT ![d] = state]

\* update_state_bulk(name, DECOMMISSIONED, existing_state=PROMOTED, version).
Mutant_DecommissionNothing(ds) == doc' = doc
Mutant_DecommissionsAnyState(ds) ==
  doc' = [d \in Deployments |->
            IF d \in ds /\ doc[d] # "ABSENT" THEN "DECOMMISSIONED" ELSE doc[d]]
Decommission(ds) ==
  doc' = [d \in Deployments |->
            IF d \in ds /\ doc[d] = "PROMOTED" THEN "DECOMMISSIONED"
                                               ELSE doc[d]]

Started == {d \in Deployments : doc[d] = "STARTED"}

-----------------------------------------------------------------------------
(* Control of a pipeline.                                                  *)

\* The job is between taking its lock and releasing it, or its pipeline runs.
Busy(j) == cb[j] \in Callbacks \/ pc[j] \in Tasks

\* The task is over and the next one is queued.
Goto(j, task) == pc' = [pc EXCEPT ![j] = task]

\* A task took effect: it is over, or it will run again.
Advance(j, task) == Goto(j, task) \/ UNCHANGED pc

-----------------------------------------------------------------------------
(* Before the lock.                                                        *)

\* create stores the document as NEW, over any document of the same id, and
\* queues _using_lock; delete only queues it.
Submit(j) ==
  /\ pc[j] = "new"
  /\ doc' = IF IsCreate(j) THEN [doc EXCEPT ![Own(j)] = "NEW"] ELSE doc
  /\ Goto(j, "lock")
  /\ UNCHANGED <<req, cb, lock, units, registered, wired>>

\* _using_lock got the lock and queued the pipeline with its callbacks.
AcquireLock(j) ==
  /\ pc[j] = "lock"
  /\ AppLock!Grant(App(j), j)
  /\ Goto(j, IF IsCreate(j) THEN "start" ELSE "stop")
  /\ cb' = [cb EXCEPT ![j] = "wait"]
  /\ UNCHANGED <<req, shared>>

\* The worker died after apply_lock: the lock stays behind without a pipeline,
\* and the redelivered _using_lock finds it taken.
LoseLock(j) ==
  /\ pc[j] = "lock"
  /\ AppLock!Grant(App(j), j)
  /\ UNCHANGED <<req, pc, cb, shared>>

\* _using_lock found the lock taken LOCK_RETRIES times, or failed otherwise.
\* It has no errback: a created document stays NEW.
GiveUpLock(j) ==
  /\ pc[j] = "lock"
  /\ Goto(j, "abandoned")
  /\ UNCHANGED <<req, cb, lock, shared>>

-----------------------------------------------------------------------------
(* The pipeline of create up to the undeployment of old versions.          *)

\* _start_deployment counts the started deployments of the whole cluster.  At
\* the limit the task is retried, holding the lock, and fails in the end.
Mutant_AllowsOneMore(j) ==
  /\ pc[j] = "start"
  /\ Limit = 0 \/ Cardinality(Started) <= Limit
  /\ Goto(j, "starting")
  /\ UNCHANGED <<req, cb, lock, shared>>
StartCount(j) ==
  /\ pc[j] = "start"
  /\ Limit = 0 \/ Cardinality(Started) < Limit
  /\ Goto(j, "starting")
  /\ UNCHANGED <<req, cb, lock, shared>>

\* It then marks its own, which is another access to the store.  Redelivered,
\* it counts again, its own deployment included.
StartWrite(j) ==
  /\ pc[j] = "starting"
  /\ UpdateState(Own(j), "STARTED")
  /\ Goto(j, "prepare") \/ Goto(j, "start")
  /\ UNCHANGED <<req, cb, lock, units, registered, wired>>

\* _pre_create_undeploy: only these two modes undeploy anything first.
Prepare(j) ==
  /\ pc[j] = "prepare"
  /\ Goto(j, IF req[j].mode \in {"blue-green", "red-green"}
               THEN "stop" ELSE "register")
  /\ UNCHANGED <<req, cb, lock, shared>>

-----------------------------------------------------------------------------
(* Stopping and undeploying, before the deployment and after the switch.   *)

\* _fleet_stop; a retryable error leaves some of the units stopped.
FleetStop(j, ds, next) ==
  /\ \/ StopUnits(ds) /\ Goto(j, next)
     \/ (\E part \in SUBSET ds : StopUnits(part)) /\ UNCHANGED pc
  /\ UNCHANGED <<req, cb, lock, doc, registered, wired>>

\* _wait_for_stop, retried while there are active units.
WaitForStop(j, ds, next) ==
  /\ \A d \in ds : units[d] \notin Active
  /\ Goto(j, next)
  /\ UNCHANGED <<req, cb, lock, shared>>

\* _fleet_undeploy: destroys units, then decommissions documents.
FleetUndeploy(j, ds, bulk, next) ==
  /\ \/ RemoveUnits(ds) /\ Decommission(bulk) /\ Advance(j, next)
     \/ (\E part \in SUBSET ds : RemoveUnits(part)) /\ UNCHANGED <<doc, pc>>
  /\ UNCHANGED <<req, cb, lock, registered, wired>>

\* _wait_for_undeploy, retried while fleet still lists units.
WaitForUndeploy(j, ds, next) ==
  /\ \A d \in ds : units[d] = "none"
  /\ Goto(j, next)
  /\ UNCHANGED <<req, cb, lock, shared>>

Stop(j) == pc[j] = "stop" /\ FleetStop(j, Scope(j), "wait_stop")

WaitStop(j) == pc[j] = "wait_stop" /\ WaitForStop(j, Scope(j), "undeploy")

Undeploy(j) ==
  pc[j] = "undeploy" /\ FleetUndeploy(j, Scope(j), Scope(j), "wait_undeploy")

WaitUndeploy(j) ==
  /\ pc[j] = "wait_undeploy"
  /\ WaitForUndeploy(j, Scope(j), IF IsCreate(j) THEN "register" ELSE "done")

-----------------------------------------------------------------------------
(* Deploying the new version.                                              *)

\* _register_upstreams, with the mode of the deployment.
Mutant_RegistersUnversioned(j) ==
  /\ pc[j] = "register"
  /\ registered' = [registered EXCEPT ![App(j)] = @ \cup {Unversioned}]
  /\ Advance(j, "deploy_all")
  /\ UNCHANGED <<req, cb, lock, doc, units, wired>>
Register(j) ==
  /\ pc[j] = "register"
  /\ registered' = [registered EXCEPT ![App(j)] =
                       @ \cup {Upstream(req[j].version, req[j].mode)}]
  /\ Advance(j, "deploy_all")
  /\ UNCHANGED <<req, cb, lock, doc, units, wired>>

\* _deploy_all: without an app template there is nothing to deploy, and the
\* pipeline ends here.
DeployAll(j) ==
  /\ pc[j] = "deploy_all"
  /\ Goto(j, IF req[j].enabled THEN "deploy" ELSE "done")
  /\ UNCHANGED <<req, cb, lock, shared>>

\* The chord of _fleet_deploy tasks, one for each enabled template.
Deploy(j) ==
  /\ pc[j] = "deploy"
  /\ SubmitUnits(Own(j))
  /\ Advance(j, "start_units")
  /\ UNCHANGED <<req, cb, lock, doc, registered, wired>>

\* _fleet_start_and_wait: the chord of _fleet_start tasks.
StartUnits(j) ==
  /\ pc[j] = "start_units"
  /\ LaunchUnits(Own(j))
  /\ Advance(j, "check_running")
  /\ UNCHANGED <<req, cb, lock, doc, registered, wired>>

\* _fleet_check_deploy, retried until enough units run.
Mutant_SkipsCheckRunning(j) ==
  /\ pc[j] = "check_running"
  /\ Goto(j, "discover")
  /\ UNCHANGED <<req, cb, lock, shared>>
CheckRunning(j) ==
  /\ pc[j] = "check_running"
  /\ units[Own(j)] = "running"
  /\ Goto(j, "discover")
  /\ UNCHANGED <<req, cb, lock, shared>>

\* Deployments whose running units are discovered under the job's upstream.
Discovered(j) ==
  {d \in OfApp(App(j)) :
     /\ units[d] = "running"
     /\ Upstream(d[2], req[j].mode) = Upstream(req[j].version, req[j].mode)}

\* _check_discover, retried until enough nodes are in the upstream.
Discover(j) ==
  /\ pc[j] = "discover"
  /\ req[j].check => Discovered(j) # {}
  /\ Goto(j, "check")
  /\ UNCHANGED <<req, cb, lock, shared>>

\* _check_deployment: the chord of _check_node tasks and its body
\* _deployment_check_passed.
Check(j) ==
  /\ pc[j] = "check"
  /\ Goto(j, "promote")
  /\ UNCHANGED <<req, cb, lock, shared>>

-----------------------------------------------------------------------------
(* The switch.                                                             *)

\* wire_proxy: every host and listener of the application.
WireProxy(a, version, mode) ==
  wired' = [wired EXCEPT ![a] = Upstream(version, mode)]

\* _promote_deployment does not tell wire_proxy the mode of the deployment,
\* which therefore uses its default.
Promote(j) ==
  /\ pc[j] = "promote"
  /\ WireProxy(App(j), req[j].version, "blue-green")
  /\ Advance(j, IF BlueGreen(j) THEN "stop_others" ELSE "succeed")
  /\ UNCHANGED <<req, cb, lock, doc, units, registered>>

StopOthers(j) ==
  pc[j] = "stop_others" /\ FleetStop(j, Others(j), "wait_stop_others")

WaitStopOthers(j) ==
  /\ pc[j] = "wait_stop_others"
  /\ WaitForStop(j, Others(j), "undeploy_others")

\* exclude_version is not passed on to the store.
UndeployOthers(j) ==
  /\ pc[j] = "undeploy_others"
  /\ FleetUndeploy(j, Others(j), OfApp(App(j)), "wait_undeploy_others")

WaitUndeployOthers(j) ==
  /\ pc[j] = "wait_undeploy_others"
  /\ WaitForUndeploy(j, Others(j), "succeed")

\* _promote_success.
Succeed(j) ==
  /\ pc[j] = "succeed"
  /\ UpdateState(Own(j), "PROMOTED")
  /\ Advance(j, "done")
  /\ UNCHANGED <<req, cb, lock, units, registered, wired>>

\* A task raises, or exhausts its retries; nothing follows it.
Mutant_RetriesForEver(j) ==
  /\ pc[j] \in Tasks
  /\ UNCHANGED vars
TaskFails(j) ==
  /\ pc[j] \in Tasks
  /\ Goto(j, "failed")
  /\ UNCHANGED <<req, cb, lock, shared>>

-----------------------------------------------------------------------------
(* async_wait and the callbacks.                                           *)

\* async_wait has the result of the whole pipeline: link is called.
Mutant_WaitsForNothing(j) ==
  /\ cb[j] = "wait"
  /\ cb' = [cb EXCEPT ![j] = "release"]
  /\ UNCHANGED <<req, pc, lock, shared>>
WaitOver(j) ==
  /\ cb[j] = "wait"
  /\ pc[j] = "done"
  /\ cb' = [cb EXCEPT ![j] = "release"]
  /\ UNCHANGED <<req, pc, lock, shared>>

\* A task failed: link_error is called, which for delete only releases.
Mutant_OnlyReleases(j) ==
  /\ cb[j] = "wait"
  /\ pc[j] = "failed"
  /\ cb' = [cb EXCEPT ![j] = "release"]
  /\ UNCHANGED <<req, pc, lock, shared>>
WaitError(j) ==
  /\ cb[j] = "wait"
  /\ pc[j] = "failed"
  /\ cb' = [cb EXCEPT ![j] = IF IsCreate(j) THEN "error_event" ELSE "release"]
  /\ UNCHANGED <<req, pc, lock, shared>>

\* async_wait gives up after DEPLOYMENT_WAIT_RETRIES while the tasks that
\* _pre_create_undeploy started are still at work, and link_error is called.
WaitExhausted(j) ==
  /\ j \in Overruns
  /\ IsCreate(j)
  /\ cb[j] = "wait"
  /\ pc[j] \in Tasks \ StartTasks
  /\ cb' = [cb EXCEPT ![j] = "error_event"]
  /\ UNCHANGED <<req, pc, lock, shared>>

\* _deployment_error_event.
Mutant_KeepsState(j) ==
  /\ cb[j] = "error_event"
  /\ cb' = [cb EXCEPT ![j] = "error_undeploy"]
  /\ UNCHANGED <<req, pc, lock, shared>>
ErrorEvent(j) ==
  /\ cb[j] = "error_event"
  /\ UpdateState(Own(j), "FAILED")
  /\ cb' = [cb EXCEPT ![j] = "error_undeploy"] \/ UNCHANGED cb
  /\ UNCHANGED <<req, pc, lock, units, registered, wired>>

\* _fleet_undeploy(ignore_error=True): errors of fleet that are not retryable
\* are swallowed, so that only a part of the units may be gone.
ErrorUndeploy(j) ==
  /\ cb[j] = "error_undeploy"
  /\ RemoveUnits({Own(j)}) \/ UNCHANGED units
  /\ \/ Decommission({Own(j)}) /\ cb' = [cb EXCEPT ![j] = "release"]
     \/ UNCHANGED <<doc, cb>>
  /\ UNCHANGED <<req, pc, lock, registered, wired>>

\* _release_lock, a compare-and-delete that may be delivered again.
ReleaseLock(j) ==
  /\ cb[j] = "release"
  /\ AppLock!Release(App(j), j)
  /\ cb' = [cb EXCEPT ![j] = "over"] \/ UNCHANGED cb
  /\ UNCHANGED <<req, pc, shared>>

\* A callback fails for good, and with it those that follow it in the chain:
\* the lock is not released, nor the failure stored ("lost") if it is the first.
CallbackFails(j) ==
  /\ cb[j] \in {"error_event", "error_undeploy", "release"}
  /\ cb' = [cb EXCEPT ![j] = IF @ = "error_event" THEN "lost" ELSE "over"]
  /\ UNCHANGED <<req, pc, lock, shared>>

-----------------------------------------------------------------------------
(* The environment.                                                        *)

\* The lease of a lock runs out; unless the pipeline overruns, after its end.
LockExpires(a) ==
  /\ lock[a] # NoJob
  /\ Busy(lock[a]) => lock[a] \in Overruns
  /\ AppLock!Expire({a})
  /\ UNCHANGED <<req, pc, cb, shared>>

\* Fleet carries out a request, or units fail.
UnitsChange(d) ==
  /\ \/ units[d] = "launched" /\ units' = [units EXCEPT ![d] = "running"]
     \/ units[d] \in Active /\ units' = [units EXCEPT ![d] = "loaded"]
     \/ units[d] = "removing" /\ units' = [units EXCEPT ![d] = "none"]
  /\ UNCHANGED <<req, pc, cb, lock, doc, registered, wired>>

PipelineStep(j) ==
  \/ StartCount(j) \/ StartWrite(j) \/ Prepare(j)
  \/ Stop(j) \/ WaitStop(j) \/ Undeploy(j) \/ WaitUndeploy(j)
  \/ Register(j) \/ DeployAll(j) \/ Deploy(j) \/ StartUnits(j)
  \/ CheckRunning(j) \/ Discover(j) \/ Check(j) \/ Promote(j)
  \/ StopOthers(j) \/ WaitStopOthers(j)
  \/ UndeployOthers(j) \/ WaitUndeployOthers(j) \/ Succeed(j)
  \/ TaskFails(j)

LockStep(j) == Submit(j) \/ AcquireLock(j) \/ LoseLock(j) \/ GiveUpLock(j)

CallbackStep(j) ==
  \/ WaitOver(j) \/ WaitError(j) \/ WaitExhausted(j)
  \/ ErrorEvent(j) \/ ErrorUndeploy(j) \/ ReleaseLock(j) \/ CallbackFails(j)

Next ==
  \/ \E j \in Jobs : LockStep(j) \/ PipelineStep(j) \/ CallbackStep(j)
  \/ \E a \in Apps : LockExpires(a)
  \/ \E d \in Deployments : UnitsChange(d)

Spec == Init /\ [][Next]_vars

\* Celery delivers every task in the end and no task is retried or redelivered
\* for ever (each has max_retries), so that the control of every thread moves
\* on; leases run out.  Nothing is assumed of fleet or of the requests.
Fairness ==
  /\ \A j \in Jobs :
       /\ WF_vars((AcquireLock(j) \/ GiveUpLock(j)) /\ pc'[j] # pc[j])
       /\ WF_vars(PipelineStep(j) /\ pc'[j] # pc[j])
       /\ SF_vars(StartWrite(j) /\ pc'[j] = "prepare")
       /\ WF_vars(CallbackStep(j) /\ cb'[j] # cb[j])
  /\ \A a \in Apps : WF_vars(LockExpires(a))

FairSpec == Spec /\ Fairness

-----------------------------------------------------------------------------
(* Properties.                                                             *)

\* "Locking ... to ensure that only one task is carried at a time": from its
\* first task to the last task or callback, a job that finishes within its lease
\* owns the lock of its application, whatever jobs that overrun theirs, and
\* release them late, do meanwhile.  So no two such jobs work on one application.
ProcessingLocked ==
  \A j \in Jobs \ Overruns : Busy(j) => lock[App(j)] = j

\* Applications that are never deployed in a/b mode.
SingleVersion ==
  {a \in Apps : \A r \in Requests :
     r.kind = "create" /\ r.app = a => r.mode # "a/b"}

\* Such an application never has two promoted versions, not even for a moment
\* and not after any failure: _promote_deployment and _pre_create_undeploy
\* decommission the others before _promote_success.
AtMostOnePromoted ==
  \A d, e \in Deployments :
    /\ d[1] = e[1] /\ d[1] \in SingleVersion
    /\ doc[d] = "PROMOTED" /\ doc[e] = "PROMOTED"
    => d = e

\* The documents go through the states of DeploymentLifecycle.  Above all, a
\* deployment that failed or was decommissioned is not promoted afterwards by
\* a pipeline that lingers on.
Lifecycle == INSTANCE DeploymentLifecycle
ImplementsLifecycle == Lifecycle!Spec

\* The units of the version that the proxy routes to are stopped or destroyed
\* only by a job entitled to: a delete, a create that undeploys the versions
\* of its mode first, or the clean-up of a failed create of that version.  In
\* particular the switch of a blue-green create only hits what was unwired.
TakesDown(j, d) ==
  /\ Busy(j)
  /\ \/ d \in Scope(j) /\ (IsCreate(j) => pc[j] \in {"stop", "undeploy"})
     \/ d = Own(j) /\ cb[j] = "error_undeploy"
WiredTakenDownOnPurpose ==
  [][\A d \in Deployments :
       /\ wired[d[1]] = d[2]
       /\ units[d] \in {"launched", "running"}
       /\ units'[d] \in {"stopping", "removing"}
       => \E j \in Jobs : TakesDown(j, d)]_vars

\* The proxy is switched only to a version whose units run, or ran when they
\* were last checked and ended by themselves since: they are neither being
\* stopped, destroyed nor launched anew.  (Units that were destroyed and
\* submitted again, but not launched, look like ones that ended.)
WiredAfterCheck ==
  [][\A a \in Apps, v \in Versions :
       wired'[a] = v /\ wired[a] # v => units[<<a, v>>] \in {"running", "loaded"}]_vars

\* A deployment counts as STARTED, and so takes one of the START_CONCURRENCY
\* slots, only while a job deploys it, with two exceptions: its app template is
\* disabled, or the callback that had to mark it FAILED failed itself.
Deploying(j) ==
  \/ pc[j] \in Tasks
  \/ pc[j] = "failed" /\ cb[j] \in {"wait", "error_event"}
SlotLeaked(j) ==
  \/ pc[j] = "done" /\ ~req[j].enabled
  \/ pc[j] = "failed" /\ cb[j] = "lost"
SlotsAccountedFor ==
  \A d \in Started : \E j \in Jobs :
    IsCreate(j) /\ Own(j) = d /\ (Deploying(j) \/ SlotLeaked(j))

\* A deployment stays NEW only while its create is on its way to its first
\* task's write, or to the callback that marks it FAILED, with two exceptions:
\* _using_lock gave up, having no errback, or that callback failed itself.
Beginning(j) ==
  \/ pc[j] \in {"lock", "start", "starting"}
  \/ pc[j] = "failed" /\ cb[j] \in {"wait", "error_event"}
NeverBegun(j) ==
  \/ pc[j] = "abandoned"
  \/ pc[j] = "failed" /\ cb[j] = "lost"
NewAccountedFor ==
  \A d \in Deployments : doc[d] = "NEW" =>
    \E j \in Jobs : IsCreate(j) /\ Own(j) = d /\ (Beginning(j) \/ NeverBegun(j))

\* The proxy routes to an upstream that was registered.  This needs a mode that
\* registers versions of their own: a red-green deployment is registered
\* without its version and wired with it (proxy.py:110-111, where the mode is
\* the default, as deployment.py:719 does not pass it).
WiredIsRegistered ==
  \A a \in Apps : wired[a] # NotWired => wired[a] \in registered[a]

\* START_CONCURRENCY bounds the deployments in the state STARTED, but not
\* strictly: between its count and its mark (deployment.py:905, :912) a create
\* holds no lock but that of its application, so that creates of several
\* applications count the same and each of them but one may pass the limit.
StartedWithinLimit ==
  Limit > 0 => Cardinality(Started) < Limit + Cardinality(Apps)

\* No application stays locked, even if its callbacks fail or its worker dies.
LockFreed == \A a \in Apps, j \in Jobs : lock[a] = j ~> lock[a] # j

\* Every job that waits for its lock comes to an end, and a failed pipeline
\* to its callbacks, though fleet may never reach the expected state.
Settled(j) ==
  /\ pc[j] \notin Tasks \cup {"new", "lock"}
  /\ cb[j] \in {"none", "over", "lost"}
JobsSettle == \A j \in Jobs : pc[j] = "lock" ~> Settled(j)
=============================================================================
