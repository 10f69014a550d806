---------------------- MODULE DeploymentPipeline_proofs ----------------------
(***************************************************************************)
(* Proofs about DeploymentPipeline for every set of jobs, applications,    *)
(* versions and requests and every START_CONCURRENCY: types; that a job    *)
(* which finishes within the lease of its lock owns it all the time it     *)
(* works, whatever other jobs do; and, when all pipelines finish so        *)
(* (Timely), that an application without a/b deployments never has two     *)
(* promoted versions, that the documents implement DeploymentLifecycle,    *)
(* which documents may stay NEW or STARTED and how many are STARTED, and   *)
(* what the switch of the proxy relies on and spares.                      *)
(*                                                                         *)
(* The argument: the lock passes to another job only when its owner is not *)
(* busy or overruns (LeaseInv).  When none overruns (LockInv), no other    *)
(* job touches the documents and units of the application between two      *)
(* tasks of a pipeline, except for a create that is submitted and stores   *)
(* NEW (WorkFrame).  Hence what _fleet_undeploy                            *)
(* decommissioned stays not promoted up to _promote_success                *)
(* (OthersRetired), the document of a pipeline stays NEW or STARTED up to  *)
(* there (UnderWay), what was checked still runs, or failed by itself,     *)
(* when the proxy is switched (CheckedRuns), and the proxy routes to the   *)
(* new version while the others are taken down (Switched).                 *)
(***************************************************************************)
EXTENDS DeploymentPipeline, FiniteSetTheorems, TLAPS

USE DEF Timely

\* Which threads go with which requests and with each other.
Shape ==
  \A j \in Jobs :
    /\ pc[j] \in StartTasks \cup DeployTasks \cup SwitchTasks => IsCreate(j)
    /\ pc[j] \in SwitchTasks \ {"succeed"} => BlueGreen(j)
    /\ pc[j] \in {"new", "lock", "abandoned"} => cb[j] = "none"
    /\ cb[j] \in {"error_event", "error_undeploy"} => IsCreate(j)

\* The callbacks of a job do not start before its tasks end.
Sequential(j) ==
  /\ pc[j] \in Tasks => cb[j] = "wait"
  /\ cb[j] \in {"error_event", "error_undeploy"} => pc[j] = "failed"

\* So it is for jobs that do not overrun.
TimelySequential == \A j \in Jobs \ Overruns : Sequential(j)

\* In timely pipelines it is so for all, and all own the locks they work under.
OneThread == \A j \in Jobs : Sequential(j)
AllLocked == \A j \in Jobs : Busy(j) => lock[App(j)] = j

\* From its _fleet_undeploy to its _promote_success a job has decommissioned
\* the versions that its mode replaces.
Retired(j) ==
  \/ BlueGreen(j) /\ pc[j] \in {"wait_undeploy_others", "succeed"}
  \/ /\ IsCreate(j) /\ req[j].mode = "red-green"
     /\ pc[j] \in {"wait_undeploy"} \cup DeployTasks \cup {"succeed"}

OthersRetired ==
  \A j \in Jobs : Retired(j) => \A d \in Others(j) : doc[d] # "PROMOTED"

-----------------------------------------------------------------------------
(* Requests.                                                               *)

\* The fields of a request.
LEMMA RequestFields ==
  ASSUME NEW r \in Requests
  PROVE  /\ r.app \in Apps
         /\ r.kind = "create" =>
              r.version \in Versions /\ r.mode \in Modes /\ r.enabled \in BOOLEAN
BY RequestsAssumption DEF RequestType

\* The application and the deployment of a job.
LEMMA JobFields ==
  ASSUME TypeOK, NEW j \in Jobs
  PROVE  /\ App(j) \in Apps
         /\ IsCreate(j) => /\ req[j].version \in Versions
                           /\ req[j].mode \in Modes
                           /\ Own(j) \in Deployments
                           /\ Own(j) \in OfApp(App(j))
BY RequestFields DEF TypeOK, App, IsCreate, Own, Deployments, OfApp

-----------------------------------------------------------------------------
(* Types.                                                                  *)

\* What the helpers on units and documents assign has the type of units, doc.
LEMMA HelperTypes ==
  ASSUME TypeOK, NEW ds, NEW d \in Deployments, NEW s \in DocStates
  PROVE  /\ StopUnits(ds) => units' \in [Deployments -> UnitStates]
         /\ RemoveUnits(ds) => units' \in [Deployments -> UnitStates]
         /\ SubmitUnits(d) => units' \in [Deployments -> UnitStates]
         /\ LaunchUnits(d) => units' \in [Deployments -> UnitStates]
         /\ Decommission(ds) => doc' \in [Deployments -> DocStates]
         /\ UpdateState(d, s) => doc' \in [Deployments -> DocStates]
<1> USE DEF TypeOK, UnitStates, DocStates
<1>1. StopUnits(ds) => units' \in [Deployments -> UnitStates]
  BY DEF StopUnits
<1>2. RemoveUnits(ds) => units' \in [Deployments -> UnitStates]
  BY DEF RemoveUnits
<1>3. SubmitUnits(d) => units' \in [Deployments -> UnitStates]
  BY DEF SubmitUnits
<1>4. LaunchUnits(d) => units' \in [Deployments -> UnitStates]
  BY DEF LaunchUnits
<1>5. Decommission(ds) => doc' \in [Deployments -> DocStates]
  BY DEF Decommission
<1>6. UpdateState(d, s) => doc' \in [Deployments -> DocStates]
  BY DEF UpdateState
<1> QED BY <1>1, <1>2, <1>3, <1>4, <1>5, <1>6

\* How a task of a pipeline moves its control, whatever it does besides.
Control(j) ==
  /\ UNCHANGED <<req, cb, lock>>
  /\ pc[j] \in Tasks
  /\ \E t \in Tasks \cup {"done", "failed"} :
       /\ Goto(j, t)
       /\ t \in StartTasks \cup DeployTasks \cup SwitchTasks => IsCreate(j)
       /\ t \in SwitchTasks \ {"succeed"} => BlueGreen(j)
       /\ t = "done" => pc[j] \in {"wait_undeploy", "deploy_all", "succeed"}
       /\ t \in {"wait_undeploy"} \cup DeployTasks \cup {"succeed"} =>
            \/ pc[j] \in {"undeploy", "wait_undeploy", "succeed"} \cup DeployTasks
            \/ pc[j] = "prepare" /\ req[j].mode \notin {"blue-green", "red-green"}
            \/ pc[j] = "wait_undeploy_others"
       /\ t = "wait_undeploy_others" =>
            pc[j] \in {"undeploy_others", "wait_undeploy_others"}
       /\ t = "succeed" =>
            \/ pc[j] \in {"wait_undeploy_others", "succeed"}
            \/ pc[j] = "promote" /\ ~BlueGreen(j)

\* Every task moves its control like that.
LEMMA PipelineControl ==
  ASSUME TypeOK, Shape, NEW j \in Jobs, PipelineStep(j)
  PROVE  Control(j)
<1> USE DEF Goto, Advance, StartTasks, UndeployTasks, DeployTasks, SwitchTasks,
            Tasks
<1>0. pc = [pc EXCEPT ![j] = pc[j]] BY DEF TypeOK
<1>1. CASE StartCount(j) BY <1>1 DEF StartCount, Control, Shape
<1>2. CASE StartWrite(j) BY <1>2 DEF StartWrite, Control, Shape
<1>3. CASE Prepare(j)
  <2>1. CASE req[j].mode \in {"blue-green", "red-green"}
    <3>1. pc' = [pc EXCEPT ![j] = "stop"] BY <1>3, <2>1 DEF Prepare
    <3>2. UNCHANGED <<req, cb, lock>> /\ pc[j] = "prepare"
      BY <1>3 DEF Prepare
    <3> QED BY <3>1, <3>2 DEF Control
  <2>2. CASE req[j].mode \notin {"blue-green", "red-green"}
    BY <1>3, <2>2 DEF Prepare, Control, Shape
  <2> QED BY <2>1, <2>2
<1>4. CASE Stop(j) BY <1>4, <1>0 DEF Stop, FleetStop, Control, Shape
<1>5. CASE WaitStop(j) BY <1>5 DEF WaitStop, WaitForStop, Control, Shape
<1>6. CASE Undeploy(j) BY <1>6, <1>0 DEF Undeploy, FleetUndeploy, Control, Shape
<1>7. CASE WaitUndeploy(j)
  <2>1. CASE IsCreate(j)
    BY <1>7, <2>1 DEF WaitUndeploy, WaitForUndeploy, Control, Shape
  <2>2. CASE ~IsCreate(j)
    BY <1>7, <2>2 DEF WaitUndeploy, WaitForUndeploy, Control, Shape
  <2> QED BY <2>1, <2>2
<1>8. CASE Register(j) BY <1>8, <1>0 DEF Register, Control, Shape
<1>9. CASE DeployAll(j)
  <2>1. CASE req[j].enabled BY <1>9, <2>1 DEF DeployAll, Control, Shape
  <2>2. CASE ~req[j].enabled
    <3>1. pc' = [pc EXCEPT ![j] = "done"] BY <1>9, <2>2 DEF DeployAll
    <3>2. UNCHANGED <<req, cb, lock>> /\ pc[j] = "deploy_all"
      BY <1>9 DEF DeployAll
    <3> QED BY <3>1, <3>2 DEF Control
  <2> QED BY <2>1, <2>2
<1>10. CASE Deploy(j) BY <1>10, <1>0 DEF Deploy, Control, Shape
<1>11. CASE StartUnits(j) BY <1>11, <1>0 DEF StartUnits, Control, Shape
<1>12. CASE CheckRunning(j) BY <1>12 DEF CheckRunning, Control, Shape
<1>13. CASE Discover(j) BY <1>13 DEF Discover, Control, Shape
<1>14. CASE Check(j) BY <1>14 DEF Check, Control, Shape
<1>15. CASE Promote(j) BY <1>15, <1>0 DEF Promote, Control, Shape
<1>16. CASE StopOthers(j)
  BY <1>16, <1>0 DEF StopOthers, FleetStop, Control, Shape
<1>17. CASE WaitStopOthers(j)
  BY <1>17 DEF WaitStopOthers, WaitForStop, Control, Shape
<1>18. CASE UndeployOthers(j)
  BY <1>18, <1>0 DEF UndeployOthers, FleetUndeploy, Control, Shape
<1>19. CASE WaitUndeployOthers(j)
  BY <1>19 DEF WaitUndeployOthers, WaitForUndeploy, Control, Shape
<1>20. CASE Succeed(j) BY <1>20, <1>0 DEF Succeed, Control, Shape
<1>21. CASE TaskFails(j) BY <1>21 DEF TaskFails, Control, Shape
<1> QED
  BY <1>1, <1>2, <1>3, <1>4, <1>5, <1>6, <1>7, <1>8, <1>9, <1>10, <1>11, <1>12,
     <1>13, <1>14, <1>15, <1>16, <1>17, <1>18, <1>19, <1>20, <1>21
     DEF PipelineStep

\* The types of what the jobs share.
DataOK ==
  /\ doc \in [Deployments -> DocStates]
  /\ units \in [Deployments -> UnitStates]
  /\ registered \in [Apps -> SUBSET (Versions \cup {Unversioned})]
  /\ wired \in [Apps -> Versions \cup {Unversioned, NotWired}]

\* Every task of a pipeline keeps the types of what the jobs share.
LEMMA PipelineData ==
  ASSUME TypeOK, Shape, NEW j \in Jobs, PipelineStep(j)
  PROVE  DataOK'
<1>0. DataOK BY DEF TypeOK, DataOK
<1>a. ASSUME pc[j] \in StartTasks \cup DeployTasks \cup SwitchTasks
      PROVE  /\ Own(j) \in Deployments /\ req[j].version \in Versions
             /\ App(j) \in Apps
  BY <1>a, JobFields DEF Shape
<1>b. {"STARTED", "PROMOTED"} \subseteq DocStates BY DEF DocStates
<1>1. ASSUME UNCHANGED shared PROVE DataOK'
  BY <1>0, <1>1 DEF DataOK, shared
<1>2. ASSUME NEW ds, UNCHANGED <<doc, registered, wired>>,
             StopUnits(ds) \/ RemoveUnits(ds)
      PROVE  DataOK'
  BY <1>0, <1>2, HelperTypes, <1>b DEF DataOK, StopUnits, RemoveUnits, UnitStates
<1>3. CASE StartWrite(j)
  <2>1. doc' \in [Deployments -> DocStates]
    BY <1>3, <1>a, <1>b, HelperTypes DEF StartWrite, StartTasks
  <2> QED BY <1>3, <1>0, <2>1 DEF StartWrite, DataOK
<1>4. CASE Succeed(j)
  <2>1. doc' \in [Deployments -> DocStates]
    BY <1>4, <1>a, <1>b, HelperTypes DEF Succeed, SwitchTasks
  <2> QED BY <1>4, <1>0, <2>1 DEF Succeed, DataOK
<1>5. ASSUME NEW ds, NEW bulk, NEW next, FleetUndeploy(j, ds, bulk, next)
      PROVE  DataOK'
  <2>1. CASE RemoveUnits(ds) /\ Decommission(bulk)
    <3>1. units' \in [Deployments -> UnitStates]
      BY <2>1 DEF RemoveUnits, TypeOK, UnitStates
    <3>2. doc' \in [Deployments -> DocStates]
      BY <2>1 DEF Decommission, TypeOK, DocStates
    <3> QED BY <1>5, <3>1, <3>2, <1>0 DEF FleetUndeploy, DataOK
  <2>2. CASE (\E part \in SUBSET ds : RemoveUnits(part)) /\ UNCHANGED <<doc, pc>>
    BY <1>5, <2>2, <1>2 DEF FleetUndeploy
  <2> QED BY <1>5, <2>1, <2>2 DEF FleetUndeploy
<1>6. ASSUME NEW ds, NEW next, FleetStop(j, ds, next) PROVE DataOK'
  BY <1>6, <1>2 DEF FleetStop
<1>7. CASE Register(j)
  <2>1. registered' \in [Apps -> SUBSET (Versions \cup {Unversioned})]
    BY <1>7, <1>a DEF Register, DeployTasks, Upstream, TypeOK
  <2> QED BY <1>7, <1>0, <2>1 DEF Register, DataOK
<1>8. CASE Promote(j)
  <2>1. wired' \in [Apps -> Versions \cup {Unversioned, NotWired}]
    BY <1>8, <1>a DEF Promote, WireProxy, DeployTasks, Upstream, TypeOK
  <2> QED BY <1>8, <1>0, <2>1 DEF Promote, DataOK
<1>9. CASE Deploy(j)
  <2>1. units' \in [Deployments -> UnitStates]
    BY <1>9, <1>a, <1>b, HelperTypes DEF Deploy, DeployTasks
  <2> QED BY <1>9, <1>0, <2>1 DEF Deploy, DataOK
<1>10. CASE StartUnits(j)
  <2>1. units' \in [Deployments -> UnitStates]
    BY <1>10, <1>a, <1>b, HelperTypes DEF StartUnits, DeployTasks
  <2> QED BY <1>10, <1>0, <2>1 DEF StartUnits, DataOK
<1>11. CASE Stop(j) BY <1>11, <1>6 DEF Stop
<1>12. CASE Undeploy(j) BY <1>12, <1>5 DEF Undeploy
<1>13. CASE StopOthers(j) BY <1>13, <1>6 DEF StopOthers
<1>14. CASE UndeployOthers(j) BY <1>14, <1>5 DEF UndeployOthers
<1>15. CASE \/ StartCount(j) \/ Prepare(j) \/ WaitStop(j) \/ WaitUndeploy(j)
            \/ DeployAll(j) \/ CheckRunning(j) \/ Discover(j) \/ Check(j)
            \/ WaitStopOthers(j) \/ WaitUndeployOthers(j) \/ TaskFails(j)
  <2>1. UNCHANGED shared
    BY <1>15 DEF StartCount, Prepare, WaitStop, WaitUndeploy, DeployAll,
         CheckRunning, Discover, Check, WaitStopOthers, WaitUndeployOthers,
         TaskFails, WaitForStop, WaitForUndeploy
  <2> QED BY <2>1, <1>1
<1> QED
  BY <1>3, <1>4, <1>7, <1>8, <1>9, <1>10, <1>11, <1>12, <1>13, <1>14, <1>15
     DEF PipelineStep

\* Every task of a pipeline preserves the types and the shape.
LEMMA PipelineTypes ==
  ASSUME TypeOK, Shape, NEW j \in Jobs, PipelineStep(j)
  PROVE  TypeOK' /\ Shape'
<1>1. DataOK' BY PipelineData
<1>2. Control(j) BY PipelineControl
<1>3. PICK t \in Tasks \cup {"done", "failed"} :
        /\ pc' = [pc EXCEPT ![j] = t]
        /\ t \in StartTasks \cup DeployTasks \cup SwitchTasks => IsCreate(j)
        /\ t \in SwitchTasks \ {"succeed"} => BlueGreen(j)
  BY <1>2 DEF Control, Goto
<1>4. UNCHANGED <<req, cb, lock>> BY <1>2 DEF Control
<1>5. TypeOK' BY <1>1, <1>3, <1>4 DEF TypeOK, DataOK
<1>6. Shape'
  <2>1. t \notin {"new", "lock", "abandoned"}
    BY DEF Tasks, StartTasks, UndeployTasks, DeployTasks, SwitchTasks
  <2> QED BY <1>3, <1>4, <2>1 DEF Shape, TypeOK, IsCreate, BlueGreen
<1> QED BY <1>5, <1>6

\* So does every step before the lock.
LEMMA LockTypes ==
  ASSUME TypeOK, Shape, NEW j \in Jobs, LockStep(j)
  PROVE  TypeOK' /\ Shape'
<1> USE DEF Goto, StartTasks, UndeployTasks, DeployTasks, SwitchTasks, Tasks,
            Callbacks
<1>1. App(j) \in Apps BY JobFields
<1>2. CASE Submit(j)
  <2>1. doc' \in [Deployments -> DocStates]
    BY <1>2, JobFields DEF Submit, TypeOK, DocStates
  <2>2. TypeOK' BY <1>2, <2>1 DEF Submit, TypeOK
  <2> QED BY <1>2, <2>2 DEF Submit, Shape, TypeOK, IsCreate, BlueGreen
<1>3. CASE AcquireLock(j)
  <2>1. PICK t \in {"start", "stop"} :
          /\ pc' = [pc EXCEPT ![j] = t]
          /\ t = "start" => IsCreate(j)
    BY <1>3 DEF AcquireLock
  <2>2. TypeOK' BY <1>3, <2>1, <1>1 DEF AcquireLock, TypeOK, AppLock!Grant, shared
  <2>3. UNCHANGED req /\ cb' = [cb EXCEPT ![j] = "wait"]
    BY <1>3 DEF AcquireLock
  <2> QED BY <2>1, <2>2, <2>3 DEF Shape, TypeOK, IsCreate, BlueGreen
<1>4. CASE LoseLock(j)
  BY <1>4, <1>1 DEF LoseLock, AppLock!Grant, TypeOK, Shape, IsCreate, BlueGreen,
       shared
<1>5. CASE GiveUpLock(j)
  BY <1>5 DEF GiveUpLock, TypeOK, Shape, IsCreate, BlueGreen, shared
<1> QED BY <1>2, <1>3, <1>4, <1>5 DEF LockStep

\* So does every step of async_wait and of the callbacks.
LEMMA CallbackTypes ==
  ASSUME TypeOK, Shape, NEW j \in Jobs, CallbackStep(j)
  PROVE  TypeOK' /\ Shape'
<1> USE DEF StartTasks, UndeployTasks, DeployTasks, SwitchTasks, Tasks, Callbacks
<1>1. App(j) \in Apps /\ "FAILED" \in DocStates BY JobFields DEF DocStates
<1>2. CASE WaitOver(j)
  BY <1>2 DEF WaitOver, TypeOK, Shape, IsCreate, BlueGreen, shared
<1>3. CASE WaitError(j)
  <2>1. PICK t \in {"error_event", "release"} :
          /\ cb' = [cb EXCEPT ![j] = t]
          /\ t = "error_event" => IsCreate(j)
    BY <1>3 DEF WaitError
  <2>2. UNCHANGED <<req, pc, lock, shared>> /\ pc[j] = "failed"
    BY <1>3 DEF WaitError
  <2> QED BY <2>1, <2>2 DEF TypeOK, Shape, IsCreate, BlueGreen, shared
<1>4. CASE WaitExhausted(j)
  BY <1>4 DEF WaitExhausted, TypeOK, Shape, IsCreate, BlueGreen, shared
<1>5. CASE ErrorEvent(j)
  <2>1. Own(j) \in Deployments BY <1>5, JobFields DEF ErrorEvent, Shape
  <2>2. doc' \in [Deployments -> DocStates]
    BY <1>5, <2>1, <1>1, HelperTypes DEF ErrorEvent
  <2>3. TypeOK' BY <1>5, <2>2 DEF ErrorEvent, TypeOK
  <2> QED BY <1>5, <2>3 DEF ErrorEvent, Shape, TypeOK, IsCreate, BlueGreen
<1>6. CASE ErrorUndeploy(j)
  <2>1. units' \in [Deployments -> UnitStates]
    BY <1>6 DEF ErrorUndeploy, RemoveUnits, TypeOK, UnitStates
  <2>2. doc' \in [Deployments -> DocStates]
    BY <1>6 DEF ErrorUndeploy, Decommission, TypeOK, DocStates
  <2>3. TypeOK' BY <1>6, <2>1, <2>2 DEF ErrorUndeploy, TypeOK
  <2> QED BY <1>6, <2>3 DEF ErrorUndeploy, Shape, TypeOK, IsCreate, BlueGreen
<1>7. CASE ReleaseLock(j)
  BY <1>7, <1>1
     DEF ReleaseLock, AppLock!Release, TypeOK, Shape, IsCreate, BlueGreen, shared
<1>8. CASE CallbackFails(j)
  <2>1. PICK t \in {"lost", "over"} : cb' = [cb EXCEPT ![j] = t]
    BY <1>8 DEF CallbackFails
  <2>2. UNCHANGED <<req, pc, lock, shared>>
        /\ cb[j] \in {"error_event", "error_undeploy", "release"}
    BY <1>8 DEF CallbackFails
  <2> QED BY <2>1, <2>2 DEF TypeOK, Shape, IsCreate, BlueGreen, shared
<1> QED BY <1>2, <1>3, <1>4, <1>5, <1>6, <1>7, <1>8 DEF CallbackStep

\* The types and the shape are an inductive invariant, timely or not.
LEMMA TypesInductive == Spec => [](TypeOK /\ Shape)
<1>1. Init => TypeOK /\ Shape
  BY DEF Init, TypeOK, Shape, Tasks, StartTasks, UndeployTasks, DeployTasks,
         SwitchTasks, Callbacks, DocStates, UnitStates
<1>2. TypeOK /\ Shape /\ [Next]_vars => (TypeOK /\ Shape)'
  <2> SUFFICES ASSUME TypeOK, Shape, [Next]_vars PROVE TypeOK' /\ Shape'
    OBVIOUS
  <2>1. ASSUME NEW j \in Jobs, LockStep(j) PROVE TypeOK' /\ Shape'
    BY <2>1, LockTypes
  <2>2. ASSUME NEW j \in Jobs, PipelineStep(j) PROVE TypeOK' /\ Shape'
    BY <2>2, PipelineTypes
  <2>3. ASSUME NEW j \in Jobs, CallbackStep(j) PROVE TypeOK' /\ Shape'
    BY <2>3, CallbackTypes
  <2>4. ASSUME NEW a \in Apps, LockExpires(a) PROVE TypeOK' /\ Shape'
    <3>1. lock' \in [Apps -> Jobs \cup {NoJob}]
      BY <2>4 DEF LockExpires, AppLock!Expire, TypeOK
    <3> QED
      BY <2>4, <3>1 DEF LockExpires, TypeOK, Shape, IsCreate, BlueGreen, shared
  <2>5. ASSUME NEW d \in Deployments, UnitsChange(d) PROVE TypeOK' /\ Shape'
    <3>1. units' \in [Deployments -> UnitStates]
      BY <2>5 DEF UnitsChange, TypeOK, UnitStates
    <3> QED BY <2>5, <3>1 DEF UnitsChange, TypeOK, Shape, IsCreate, BlueGreen
  <2>6. CASE UNCHANGED vars
    BY <2>6 DEF vars, TypeOK, Shape, IsCreate, BlueGreen
  <2> QED BY <2>1, <2>2, <2>3, <2>4, <2>5, <2>6 DEF Next
<1> QED BY <1>1, <1>2, PTL DEF Spec

\* Every reachable state of the pipelines is well typed, whether or not locks
\* expire under running pipelines.
THEOREM TypeCorrect == Spec => []TypeOK
BY TypesInductive, PTL

-----------------------------------------------------------------------------
(* The lock.                                                               *)

LeaseInv == TypeOK /\ Shape /\ TimelySequential /\ ProcessingLocked

\* A task keeps the lock of its job.
LEMMA PipelineLocked ==
  ASSUME LeaseInv, NEW j \in Jobs, PipelineStep(j)
  PROVE  TimelySequential' /\ ProcessingLocked'
<1>1. Control(j) BY PipelineControl DEF LeaseInv
<1>2. PICK t \in Tasks \cup {"done", "failed"} : pc' = [pc EXCEPT ![j] = t]
  BY <1>1 DEF Control, Goto
<1>3. UNCHANGED <<req, cb, lock>> /\ pc[j] \in Tasks BY <1>1 DEF Control
<1>4. j \notin Overruns => cb[j] = "wait"
  BY <1>3 DEF LeaseInv, TimelySequential, Sequential
<1>5. \A i \in Jobs : i # j => pc'[i] = pc[i]
  BY <1>2 DEF LeaseInv, TypeOK
<1>6. TimelySequential'
  <2> SUFFICES ASSUME NEW i \in Jobs \ Overruns PROVE Sequential(i)'
    BY DEF TimelySequential
  <2>1. CASE i = j BY <2>1, <1>3, <1>4 DEF Sequential
  <2>2. CASE i # j
    BY <2>2, <1>3, <1>5 DEF LeaseInv, TimelySequential, Sequential
  <2> QED BY <2>1, <2>2
<1>7. ProcessingLocked'
  <2> SUFFICES ASSUME NEW i \in Jobs \ Overruns, Busy(i)'
               PROVE  lock'[App(i)] = i
    BY <1>3 DEF ProcessingLocked, App
  <2>1. Busy(i) BY <1>3, <1>5 DEF Busy
  <2> QED BY <2>1, <1>3 DEF LeaseInv, ProcessingLocked
<1> QED BY <1>6, <1>7

\* A job gets the lock when nobody works on the application.
LEMMA LockLocked ==
  ASSUME LeaseInv, NEW j \in Jobs, LockStep(j)
  PROVE  TimelySequential' /\ ProcessingLocked'
<1> USE DEF LeaseInv
<1>0. cb[j] = "none" /\ pc[j] \in {"new", "lock"} /\ UNCHANGED req
  BY DEF LockStep, Submit, AcquireLock, LoseLock, GiveUpLock, Shape
<1>1. App(j) \in Apps /\ j # NoJob BY JobFields, JobsAssumption
<1>2. \A i \in Jobs : i # j => pc'[i] = pc[i] /\ cb'[i] = cb[i]
  BY DEF LockStep, Submit, AcquireLock, LoseLock, GiveUpLock, Goto, TypeOK
<1>3. \/ pc'[j] \in {"lock", "abandoned"} /\ cb'[j] = "none"
      \/ cb'[j] = "wait" /\ lock' = [lock EXCEPT ![App(j)] = j]
  <2>1. cb = [cb EXCEPT ![j] = cb[j]] /\ pc = [pc EXCEPT ![j] = pc[j]]
    BY DEF TypeOK
  <2>2. CASE Submit(j) BY <2>2, <1>0 DEF Submit, Goto, TypeOK
  <2>3. CASE AcquireLock(j) BY <2>3 DEF AcquireLock, AppLock!Grant, TypeOK
  <2>4. CASE LoseLock(j) BY <2>4, <1>0 DEF LoseLock
  <2>5. CASE GiveUpLock(j) BY <2>5, <1>0 DEF GiveUpLock, Goto, TypeOK
  <2> QED BY <2>2, <2>3, <2>4, <2>5 DEF LockStep
<1>4. \/ UNCHANGED lock
      \/ lock[App(j)] = NoJob /\ lock' = [lock EXCEPT ![App(j)] = j]
  BY DEF LockStep, Submit, AcquireLock, LoseLock, GiveUpLock, AppLock!Grant
<1>5. TimelySequential'
  <2>1. {"lock", "abandoned"} \cap Tasks = {}
    BY DEF Tasks, StartTasks, UndeployTasks, DeployTasks, SwitchTasks
  <2> QED BY <1>2, <1>3, <2>1 DEF TimelySequential, Sequential
<1>6. ProcessingLocked'
  <2> SUFFICES ASSUME NEW i \in Jobs \ Overruns, Busy(i)'
               PROVE  lock'[App(i)] = i
    BY <1>0 DEF ProcessingLocked, App
  <2>1. App(i) \in Apps /\ lock \in [Apps -> Jobs \cup {NoJob}]
    BY JobFields DEF TypeOK
  <2>2. CASE i = j
    <3>1. {"lock", "abandoned"} \cap Tasks = {} /\ "none" \notin Callbacks
      BY DEF Tasks, StartTasks, UndeployTasks, DeployTasks, SwitchTasks,
             Callbacks
    <3> QED BY <2>1, <2>2, <3>1, <1>3 DEF Busy
  <2>3. CASE i # j
    <3>1. lock[App(i)] = i
      BY <2>3, <1>2 DEF Busy, ProcessingLocked
    <3> QED BY <2>1, <2>3, <3>1, <1>1, <1>4, JobsAssumption
  <2> QED BY <2>2, <2>3
<1> QED BY <1>5, <1>6

\* The callbacks keep the lock up to _release_lock, by when nothing runs; those
\* of a job that overruns release no lock but its own.
LEMMA CallbackLocked ==
  ASSUME LeaseInv, NEW j \in Jobs, CallbackStep(j)
  PROVE  TimelySequential' /\ ProcessingLocked'
<1> USE DEF LeaseInv
<1>1. UNCHANGED <<req, pc>>
  BY DEF CallbackStep, WaitOver, WaitError, WaitExhausted, ErrorEvent,
         ErrorUndeploy, ReleaseLock, CallbackFails
<1>2. \A i \in Jobs : i # j => cb'[i] = cb[i]
  BY DEF CallbackStep, WaitOver, WaitError, WaitExhausted, ErrorEvent,
         ErrorUndeploy, ReleaseLock, CallbackFails, TypeOK
<1>3. UNCHANGED lock \/ AppLock!Release(App(j), j)
  BY DEF CallbackStep, WaitOver, WaitError, WaitExhausted, ErrorEvent,
         ErrorUndeploy, ReleaseLock, CallbackFails
<1>4. j \notin Overruns =>
        \/ cb'[j] \in {"error_event", "error_undeploy"}
             /\ cb[j] \in Callbacks /\ pc[j] = "failed" /\ UNCHANGED lock
        \/ cb'[j] \in {"release", "over", "lost"} /\ UNCHANGED lock
        \/ cb'[j] \in {"release", "over"} /\ AppLock!Release(App(j), j)
  <2> SUFFICES ASSUME j \notin Overruns
               PROVE  \/ cb'[j] \in {"error_event", "error_undeploy"}
                           /\ cb[j] \in Callbacks /\ pc[j] = "failed"
                           /\ UNCHANGED lock
                      \/ cb'[j] \in {"release", "over", "lost"}
                           /\ UNCHANGED lock
                      \/ cb'[j] \in {"release", "over"}
                           /\ AppLock!Release(App(j), j)
    OBVIOUS
  <2> USE DEF Callbacks
  <2>0. cb = [cb EXCEPT ![j] = cb[j]] BY DEF TypeOK
  <2>1. CASE WaitOver(j) BY <2>1 DEF WaitOver, TypeOK
  <2>2. CASE WaitError(j) BY <2>2 DEF WaitError, TypeOK
  <2>3. CASE WaitExhausted(j) BY <2>3 DEF WaitExhausted
  <2>4. CASE ErrorEvent(j)
    BY <2>4 DEF ErrorEvent, TypeOK, TimelySequential, Sequential
  <2>5. CASE ErrorUndeploy(j)
    BY <2>5 DEF ErrorUndeploy, TypeOK, TimelySequential, Sequential
  <2>6. CASE ReleaseLock(j) BY <2>6 DEF ReleaseLock, TypeOK
  <2>7. CASE CallbackFails(j) BY <2>7 DEF CallbackFails, TypeOK
  <2> QED BY <2>1, <2>2, <2>3, <2>4, <2>5, <2>6, <2>7 DEF CallbackStep
<1>5. j \notin Overruns => pc[j] \notin Tasks
  BY DEF CallbackStep, WaitOver, WaitError, WaitExhausted, ErrorEvent,
         ErrorUndeploy, ReleaseLock, CallbackFails, TimelySequential,
         Sequential, Tasks, StartTasks, UndeployTasks, DeployTasks, SwitchTasks
<1>6. TimelySequential'
  <2> SUFFICES ASSUME NEW i \in Jobs \ Overruns PROVE Sequential(i)'
    BY DEF TimelySequential
  <2>1. CASE i = j BY <2>1, <1>1, <1>4, <1>5 DEF Sequential
  <2>2. CASE i # j
    BY <2>2, <1>1, <1>2 DEF TimelySequential, Sequential
  <2> QED BY <2>1, <2>2
<1>7. ProcessingLocked'
  <2> SUFFICES ASSUME NEW i \in Jobs \ Overruns, Busy(i)'
               PROVE  lock'[App(i)] = i
    BY <1>1 DEF ProcessingLocked, App
  <2>1. App(i) \in Apps /\ lock \in [Apps -> Jobs \cup {NoJob}]
    BY JobFields DEF TypeOK
  <2>2. CASE i = j
    <3>1. pc'[j] \notin Tasks BY <2>2, <1>1, <1>5
    <3>2. cb'[j] \in Callbacks BY <2>2, <3>1 DEF Busy
    <3>3. \/ cb[j] \in Callbacks /\ UNCHANGED lock
          \/ cb'[j] = "release"
      BY <2>2, <3>2, <1>4 DEF Callbacks
    <3> QED BY <2>2, <3>1, <3>3, <1>4 DEF Busy, Callbacks, ProcessingLocked
  <2>3. CASE i # j
    <3>1. lock[App(i)] = i BY <2>3, <1>1, <1>2 DEF Busy, ProcessingLocked
    <3> QED BY <2>1, <2>3, <3>1, <1>3 DEF AppLock!Release
  <2> QED BY <2>2, <2>3
<1> QED BY <1>6, <1>7

\* The invariant is inductive.
LEMMA LeaseInductive == Spec => []LeaseInv
<1>1. Init => TimelySequential /\ ProcessingLocked
  BY DEF Init, TimelySequential, Sequential, ProcessingLocked, Busy, Tasks,
         StartTasks, UndeployTasks, DeployTasks, SwitchTasks, Callbacks
<1>2. LeaseInv /\ [Next]_vars => (TimelySequential /\ ProcessingLocked)'
  <2> SUFFICES ASSUME LeaseInv, [Next]_vars
               PROVE  TimelySequential' /\ ProcessingLocked'
    OBVIOUS
  <2> USE DEF LeaseInv
  <2>1. ASSUME NEW j \in Jobs, LockStep(j) PROVE TimelySequential' /\ ProcessingLocked'
    BY <2>1, LockLocked
  <2>2. ASSUME NEW j \in Jobs, PipelineStep(j)
        PROVE  TimelySequential' /\ ProcessingLocked'
    BY <2>2, PipelineLocked
  <2>3. ASSUME NEW j \in Jobs, CallbackStep(j)
        PROVE  TimelySequential' /\ ProcessingLocked'
    BY <2>3, CallbackLocked
  <2>4. ASSUME NEW a \in Apps, LockExpires(a)
        PROVE  TimelySequential' /\ ProcessingLocked'
    <3>1. /\ UNCHANGED <<req, pc, cb>>
          /\ Busy(lock[a]) => lock[a] \in Overruns
      BY <2>4 DEF LockExpires
    <3>2. ASSUME NEW i \in Jobs \ Overruns, Busy(i) PROVE lock'[App(i)] = i
      <4>1. lock[App(i)] = i /\ App(i) \in Apps
        BY <3>2, JobFields DEF ProcessingLocked
      <4>2. App(i) # a BY <4>1, <3>1, <3>2
      <4> QED BY <4>1, <4>2, <2>4 DEF LockExpires, AppLock!Expire, TypeOK
    <3> QED
      BY <3>1, <3>2
      DEF TimelySequential, Sequential, ProcessingLocked, Busy, App
  <2>5. ASSUME NEW d \in Deployments, UnitsChange(d)
        PROVE  TimelySequential' /\ ProcessingLocked'
    BY <2>5
    DEF UnitsChange, TimelySequential, Sequential, ProcessingLocked, Busy, App
  <2>6. CASE UNCHANGED vars
    BY <2>6
    DEF vars, TimelySequential, Sequential, ProcessingLocked, Busy, App
  <2> QED BY <2>1, <2>2, <2>3, <2>4, <2>5, <2>6 DEF Next
<1> QED BY <1>1, <1>2, TypesInductive, PTL DEF Spec, LeaseInv

\* A job that finishes within the lease of its lock owns the lock of its
\* application from its first task to its last task or callback, whatever jobs
\* that overrun their leases do.
THEOREM PipelinesLocked == Spec => []ProcessingLocked
BY LeaseInductive, PTL DEF LeaseInv

LockInv == TypeOK /\ Shape /\ OneThread /\ AllLocked

\* When no pipeline overruns, this holds for all jobs.
LEMMA LockInductive == ASSUME Timely PROVE Spec => []LockInv
<1>1. LeaseInv => LockInv
  BY DEF LeaseInv, LockInv, TimelySequential, OneThread, ProcessingLocked,
         AllLocked
<1> QED BY <1>1, LeaseInductive, PTL

\* A job that works excludes the others from its application.
LEMMA Exclusion ==
  ASSUME LockInv, NEW i \in Jobs, NEW j \in Jobs, App(i) = App(j),
         Busy(i), Busy(j)
  PROVE  i = j
BY DEF LockInv, AllLocked

-----------------------------------------------------------------------------
(* Promotion.                                                              *)

DocInv == OthersRetired /\ AtMostOnePromoted

\* No deployment becomes promoted.
NoPromotion ==
  \A d \in Deployments : doc'[d] = "PROMOTED" => doc[d] = "PROMOTED"

\* The other deployments of a job are deployments.
LEMMA OthersAreDeployments ==
  ASSUME TypeOK, NEW j \in Jobs
  PROVE  Others(j) \subseteq Deployments /\ OfApp(App(j)) \subseteq Deployments
BY JobFields DEF Others, OfApp, Deployments

\* Without a promotion, DocInv can only be broken by a job that comes to count
\* as having retired the others.
LEMMA QuietStep ==
  ASSUME LockInv, DocInv, NoPromotion, UNCHANGED req,
         \A i \in Jobs : Retired(i)' =>
            Retired(i) \/ \A d \in Others(i) : doc'[d] # "PROMOTED"
  PROVE  DocInv'
<1>1. OthersRetired'
  <2> SUFFICES ASSUME NEW i \in Jobs, Retired(i)', NEW d \in Others(i)
               PROVE  doc'[d] # "PROMOTED"
    BY DEF OthersRetired, Others, OfApp, App, Own
  <2>1. d \in Deployments BY OthersAreDeployments DEF LockInv
  <2> QED BY <2>1 DEF DocInv, OthersRetired, NoPromotion
<1>2. AtMostOnePromoted' BY DEF DocInv, AtMostOnePromoted, NoPromotion
<1> QED BY <1>1, <1>2 DEF DocInv

\* The helpers that do not promote.
LEMMA HelpersDoNotPromote ==
  ASSUME TypeOK, NEW ds, NEW d \in Deployments, NEW s, s # "PROMOTED"
  PROVE  /\ Decommission(ds) => NoPromotion
         /\ UpdateState(d, s) => NoPromotion
<1>1. Decommission(ds) => NoPromotion
  BY DEF Decommission, NoPromotion
<1>2. UpdateState(d, s) => NoPromotion
  BY DEF UpdateState, NoPromotion, TypeOK
<1> QED BY <1>1, <1>2

\* No task promotes but _promote_success.
LEMMA TasksDoNotPromote ==
  ASSUME LockInv, NEW j \in Jobs, PipelineStep(j), ~Succeed(j)
  PROVE  NoPromotion
<1> USE DEF LockInv
<1>1. ASSUME UNCHANGED doc PROVE NoPromotion BY <1>1 DEF NoPromotion
<1>2. CASE StartWrite(j)
  <2>1. Own(j) \in Deployments
    BY <1>2, JobFields DEF StartWrite, Shape, StartTasks
  <2> QED BY <1>2, <2>1, HelpersDoNotPromote DEF StartWrite
<1>3. ASSUME NEW ds, NEW bulk, NEW next, FleetUndeploy(j, ds, bulk, next)
      PROVE  NoPromotion
  BY <1>1, <1>3 DEF FleetUndeploy, Decommission, NoPromotion
<1>4. CASE Undeploy(j) BY <1>4, <1>3 DEF Undeploy
<1>5. CASE UndeployOthers(j) BY <1>5, <1>3 DEF UndeployOthers
<1>6. CASE /\ ~StartWrite(j) /\ ~Undeploy(j) /\ ~UndeployOthers(j)
  <2>1. UNCHANGED doc
    BY <1>6 DEF PipelineStep, StartCount, Prepare, Stop, WaitStop, WaitUndeploy,
         Register, DeployAll, Deploy, StartUnits, CheckRunning, Discover, Check,
         Promote, StopOthers, WaitStopOthers, WaitUndeployOthers, TaskFails,
         FleetStop, WaitForStop, WaitForUndeploy, shared
  <2> QED BY <2>1, <1>1
<1> QED BY <1>2, <1>4, <1>5, <1>6

\* A job comes to count as having retired the others by _fleet_undeploy.
LEMMA Retirement ==
  ASSUME LockInv, NEW j \in Jobs, PipelineStep(j), Retired(j)', ~Retired(j)
  PROVE  \A d \in Others(j) : doc'[d] # "PROMOTED"
<1> USE DEF LockInv
<1>1. Control(j) BY PipelineControl
<1>2. UNCHANGED req BY <1>1 DEF Control
<1>3. \/ pc[j] = "undeploy" /\ pc'[j] # "undeploy" /\ ~BlueGreen(j) /\ IsCreate(j)
      \/ pc[j] = "undeploy_others" /\ pc'[j] # "undeploy_others"
  <2>1. pc' = [pc EXCEPT ![j] = pc'[j]]
    BY <1>1 DEF Control, Goto, TypeOK
  <2>2. \/ BlueGreen(j) /\ pc'[j] \in {"wait_undeploy_others", "succeed"}
        \/ /\ IsCreate(j) /\ req[j].mode = "red-green"
           /\ pc'[j] \in {"wait_undeploy"} \cup DeployTasks \cup {"succeed"}
    BY <1>2 DEF Retired, BlueGreen, IsCreate
  <2>3. PICK t \in Tasks \cup {"done", "failed"} :
          /\ Goto(j, t)
          /\ t \in {"wait_undeploy"} \cup DeployTasks \cup {"succeed"} =>
               \/ pc[j] \in {"undeploy", "wait_undeploy", "succeed"} \cup DeployTasks
               \/ pc[j] = "prepare" /\ req[j].mode \notin {"blue-green", "red-green"}
               \/ pc[j] = "wait_undeploy_others"
          /\ t = "wait_undeploy_others" =>
               pc[j] \in {"undeploy_others", "wait_undeploy_others"}
          /\ t = "succeed" =>
               \/ pc[j] \in {"wait_undeploy_others", "succeed"}
               \/ pc[j] = "promote" /\ ~BlueGreen(j)
    BY <1>1 DEF Control
  <2>4. t = pc'[j] BY <2>3 DEF Goto, TypeOK
  <2>5. pc'[j] \notin {"undeploy", "undeploy_others"}
    BY <2>2 DEF DeployTasks
  <2>6. pc[j] = "wait_undeploy_others" => BlueGreen(j)
    BY DEF Shape, SwitchTasks
  <2> QED
    BY <2>2, <2>3, <2>4, <2>5, <2>6 DEF Retired, BlueGreen
<1>4. ASSUME Decommission(OfApp(App(j))) PROVE \A d \in Others(j) : doc'[d] # "PROMOTED"
  BY <1>4, OthersAreDeployments DEF Decommission, Others
<1>5. ASSUME NEW ds, NEW next, FleetUndeploy(j, ds, OfApp(App(j)), next),
             pc'[j] # pc[j]
      PROVE  \A d \in Others(j) : doc'[d] # "PROMOTED"
  BY <1>5, <1>4 DEF FleetUndeploy
<1>6. CASE Undeploy(j)
  <2>1. pc[j] = "undeploy" BY <1>6 DEF Undeploy
  <2>2. Scope(j) = OfApp(App(j)) BY <1>3, <2>1 DEF Scope
  <2> QED BY <1>6, <2>1, <2>2, <1>3, <1>5 DEF Undeploy
<1>7. CASE UndeployOthers(j)
  <2>1. pc[j] = "undeploy_others" BY <1>7 DEF UndeployOthers
  <2> QED BY <1>7, <2>1, <1>3, <1>5 DEF UndeployOthers
<1>8. CASE TaskFails(j)
  <2>1. pc'[j] = "failed" BY <1>8 DEF TaskFails, Goto, TypeOK
  <2> QED BY <2>1 DEF Retired, DeployTasks
<1> QED
  BY <1>3, <1>6, <1>7, <1>8
     DEF PipelineStep, StartCount, StartWrite, Prepare, Stop, WaitStop,
         WaitUndeploy, Register, DeployAll, Deploy, StartUnits, CheckRunning,
         Discover, Check, Promote, StopOthers, WaitStopOthers,
         WaitUndeployOthers, Succeed

\* The control of the other jobs does not move.
LEMMA OtherJobsRetired ==
  ASSUME LockInv, NEW j \in Jobs, UNCHANGED req,
         PipelineStep(j) \/ LockStep(j) \/ CallbackStep(j),
         NEW i \in Jobs, i # j
  PROVE  /\ pc'[i] = pc[i]
         /\ Retired(i)' => Retired(i)
<1>1. pc'[i] = pc[i]
  <2>1. CASE PipelineStep(j)
    BY <2>1, PipelineControl DEF Control, Goto, LockInv, TypeOK
  <2>2. CASE LockStep(j)
    BY <2>2 DEF LockStep, Submit, AcquireLock, LoseLock, GiveUpLock, Goto,
                LockInv, TypeOK
  <2>3. CASE CallbackStep(j)
    BY <2>3 DEF CallbackStep, WaitOver, WaitError, WaitExhausted, ErrorEvent,
                ErrorUndeploy, ReleaseLock, CallbackFails
  <2> QED BY <2>1, <2>2, <2>3
<1> QED BY <1>1 DEF Retired, BlueGreen, IsCreate

\* _promote_success finds no other version promoted, and nobody who relies on
\* having retired the version it promotes.
LEMMA Promotion ==
  ASSUME LockInv, DocInv, NEW j \in Jobs, Succeed(j)
  PROVE  DocInv'
<1> USE DEF LockInv
<1>1. /\ pc[j] = "succeed" /\ UNCHANGED <<req, cb, lock>>
      /\ UpdateState(Own(j), "PROMOTED")
  BY DEF Succeed
<1>2. IsCreate(j) /\ Own(j) \in Deployments /\ req[j].mode \in Modes
  BY <1>1, JobFields DEF Shape, SwitchTasks
<1>3. Busy(j) BY <1>1 DEF Busy, Tasks, SwitchTasks
<1>4. \A d \in Deployments : d # Own(j) => doc'[d] = doc[d]
  BY <1>1 DEF UpdateState, TypeOK
<1>5. OthersRetired'
  <2> SUFFICES ASSUME NEW i \in Jobs, Retired(i)', NEW d \in Others(i)
               PROVE  doc'[d] # "PROMOTED"
    BY <1>1 DEF OthersRetired, Others, OfApp, App, Own
  <2>0. d \in Deployments BY OthersAreDeployments
  <2>1. CASE i = j
    <3>1. Retired(j)
      BY <2>1, <1>1, <1>2 DEF Retired, BlueGreen, IsCreate
    <3>2. d # Own(j) BY <2>1 DEF Others
    <3> QED BY <2>0, <2>1, <3>1, <3>2, <1>4 DEF DocInv, OthersRetired
  <2>2. CASE i # j
    <3>1. pc'[i] = pc[i] /\ Retired(i)
      BY <1>1, <2>2, OtherJobsRetired DEF PipelineStep
    <3>2. Busy(i)
      BY <3>1 DEF Retired, Busy, Tasks, UndeployTasks, DeployTasks, SwitchTasks
    <3>3. App(i) # App(j) BY <3>2, <1>3, <2>2, Exclusion
    <3>4. d # Own(j) BY <3>3 DEF Others, OfApp, Own, App
    <3> QED BY <2>0, <3>1, <3>4, <1>4 DEF DocInv, OthersRetired
  <2> QED BY <2>1, <2>2
<1>6. AtMostOnePromoted'
  <2> SUFFICES ASSUME NEW d \in Deployments, NEW e \in Deployments,
                      d[1] = e[1], d[1] \in SingleVersion,
                      doc'[d] = "PROMOTED", doc'[e] = "PROMOTED"
               PROVE  d = e
    BY DEF AtMostOnePromoted
  <2>1. ASSUME NEW x \in Deployments, x[1] = App(j), x[1] \in SingleVersion,
               x # Own(j)
        PROVE  doc'[x] # "PROMOTED"
    <3>1. req[j] \in Requests BY DEF TypeOK
    <3>2. req[j].mode \in {"blue-green", "red-green"}
      BY <2>1, <3>1, <1>2 DEF SingleVersion, Modes, IsCreate, App
    <3>3. Retired(j) BY <3>2, <1>1, <1>2 DEF Retired, BlueGreen
    <3>4. x \in Others(j) BY <2>1 DEF Others, OfApp, Deployments
    <3> QED BY <2>1, <3>3, <3>4, <1>4 DEF DocInv, OthersRetired
  <2>2. CASE d = Own(j) \/ e = Own(j)
    <3>1. Own(j)[1] = App(j) BY DEF Own, App
    <3> QED BY <2>1, <2>2, <3>1
  <2>3. CASE d # Own(j) /\ e # Own(j)
    BY <2>3, <1>4 DEF DocInv, AtMostOnePromoted
  <2> QED BY <2>2, <2>3
<1> QED BY <1>5, <1>6 DEF DocInv

\* Every step preserves the invariant of the documents.
LEMMA DocStep ==
  ASSUME LockInv, DocInv, [Next]_vars
  PROVE  DocInv'
<1> USE DEF LockInv
<1>1. ASSUME NEW j \in Jobs, PipelineStep(j) PROVE DocInv'
  <2>1. CASE Succeed(j) BY <2>1, Promotion
  <2>2. CASE ~Succeed(j)
    <3>1. NoPromotion BY <1>1, <2>2, TasksDoNotPromote
    <3>2. UNCHANGED req BY <1>1, PipelineControl DEF Control
    <3> QED
      BY <1>1, <3>1, <3>2, QuietStep, Retirement, OtherJobsRetired
  <2> QED BY <2>1, <2>2
<1>2. ASSUME NEW j \in Jobs, LockStep(j) PROVE DocInv'
  <2>1. UNCHANGED req
    BY <1>2 DEF LockStep, Submit, AcquireLock, LoseLock, GiveUpLock
  <2>2. NoPromotion
    <3>1. CASE Submit(j)
      BY <3>1, JobFields DEF Submit, NoPromotion, TypeOK
    <3>2. CASE ~Submit(j)
      BY <1>2, <3>2
         DEF LockStep, AcquireLock, LoseLock, GiveUpLock, NoPromotion, shared
    <3> QED BY <3>1, <3>2
  <2>3. ~Retired(j)'
    <3>1. pc'[j] \in {"lock", "abandoned", "start", "stop"}
      <4>1. CASE Submit(j) BY <4>1 DEF Submit, Goto, TypeOK
      <4>2. CASE AcquireLock(j) BY <4>2 DEF AcquireLock, Goto, TypeOK
      <4>3. CASE LoseLock(j) BY <4>3 DEF LoseLock
      <4>4. CASE GiveUpLock(j) BY <4>4 DEF GiveUpLock, Goto, TypeOK
      <4> QED BY <1>2, <4>1, <4>2, <4>3, <4>4 DEF LockStep
    <3> QED BY <3>1 DEF Retired, DeployTasks
  <2> QED BY <1>2, <2>1, <2>2, <2>3, QuietStep, OtherJobsRetired
<1>3. ASSUME NEW j \in Jobs, CallbackStep(j) PROVE DocInv'
  <2>1. UNCHANGED <<req, pc>>
    BY <1>3 DEF CallbackStep, WaitOver, WaitError, WaitExhausted, ErrorEvent,
                ErrorUndeploy, ReleaseLock, CallbackFails
  <2>2. NoPromotion
    <3>1. CASE ErrorEvent(j)
      <4>1. Own(j) \in Deployments BY <3>1, JobFields DEF ErrorEvent, Shape
      <4> QED BY <3>1, <4>1, HelpersDoNotPromote DEF ErrorEvent
    <3>2. CASE ~ErrorEvent(j)
      BY <1>3, <3>2
         DEF CallbackStep, WaitOver, WaitError, WaitExhausted, ErrorUndeploy,
             ReleaseLock, CallbackFails, NoPromotion, Decommission, shared
    <3> QED BY <3>1, <3>2
  <2>3. \A i \in Jobs : Retired(i)' => Retired(i)
    BY <2>1 DEF Retired, BlueGreen, IsCreate
  <2> QED BY <2>1, <2>2, <2>3, QuietStep
<1>4. ASSUME UNCHANGED <<req, pc, doc>> PROVE DocInv'
  <2>1. \A i \in Jobs : Retired(i)' => Retired(i)
    BY <1>4 DEF Retired, BlueGreen, IsCreate
  <2> QED BY <1>4, <2>1, QuietStep DEF NoPromotion
<1>5. ASSUME NEW a \in Apps, LockExpires(a) PROVE DocInv'
  BY <1>5, <1>4 DEF LockExpires, shared
<1>6. ASSUME NEW d \in Deployments, UnitsChange(d) PROVE DocInv'
  BY <1>6, <1>4 DEF UnitsChange
<1>7. CASE UNCHANGED vars BY <1>7, <1>4 DEF vars
<1> QED BY <1>1, <1>2, <1>3, <1>5, <1>6, <1>7 DEF Next

\* When pipelines finish within the lease of their lock, an application that is
\* never deployed in a/b mode never has two promoted versions, whatever tasks,
\* callbacks and workers fail and whatever is submitted meanwhile.
THEOREM SinglePromotion == ASSUME Timely PROVE Spec => []AtMostOnePromoted
<1>1. Init => DocInv
  BY DEF Init, DocInv, OthersRetired, AtMostOnePromoted, Retired, DeployTasks
<1>2. LockInv /\ DocInv /\ [Next]_vars => DocInv' BY DocStep
<1> QED BY <1>1, <1>2, LockInductive, PTL DEF Spec, DocInv

-----------------------------------------------------------------------------
(* Documents that wait for somebody.                                       *)

\* The create jobs that account for a STARTED and for a NEW document.
HoldsSlot(j) == IsCreate(j) /\ (Deploying(j) \/ SlotLeaked(j))
HoldsNew(j) == IsCreate(j) /\ (Beginning(j) \/ NeverBegun(j))

\* A job only moves its own threads.
LEMMA OwnThreads ==
  ASSUME LockInv, NEW j \in Jobs,
         PipelineStep(j) \/ LockStep(j) \/ CallbackStep(j)
  PROVE  /\ UNCHANGED req
         /\ \A i \in Jobs \ {j} : pc'[i] = pc[i] /\ cb'[i] = cb[i]
<1>1. CASE PipelineStep(j)
  BY <1>1, PipelineControl DEF Control, Goto, LockInv, TypeOK
<1>2. CASE LockStep(j)
  BY <1>2 DEF LockStep, Submit, AcquireLock, LoseLock, GiveUpLock, Goto,
              LockInv, TypeOK
<1>3. CASE CallbackStep(j)
  BY <1>3 DEF CallbackStep, WaitOver, WaitError, WaitExhausted, ErrorEvent,
              ErrorUndeploy, ReleaseLock, CallbackFails, LockInv, TypeOK
<1> QED BY <1>1, <1>2, <1>3

\* A step of a job keeps the documents accounted for, if what the job itself
\* accounted for and what it stored are.
LEMMA AccountedByOthers ==
  ASSUME LockInv, SlotsAccountedFor, NewAccountedFor, NEW j \in Jobs,
         PipelineStep(j) \/ LockStep(j) \/ CallbackStep(j),
         HoldsSlot(j) => HoldsSlot(j)' \/ doc'[Own(j)] # "STARTED",
         HoldsNew(j) => HoldsNew(j)' \/ doc'[Own(j)] # "NEW",
         \A d \in Deployments :
           /\ doc'[d] = "STARTED" =>
                doc[d] = "STARTED" \/ (Own(j) = d /\ HoldsSlot(j)')
           /\ doc'[d] = "NEW" => doc[d] = "NEW" \/ (Own(j) = d /\ HoldsNew(j)')
  PROVE  SlotsAccountedFor' /\ NewAccountedFor'
<1>1. /\ UNCHANGED req
      /\ \A i \in Jobs \ {j} : pc'[i] = pc[i] /\ cb'[i] = cb[i]
  BY OwnThreads
<1>2. \A i \in Jobs : Own(i)' = Own(i) /\ IsCreate(i)' = IsCreate(i)
  BY <1>1 DEF Own, IsCreate
<1>3. \A i \in Jobs \ {j} : /\ HoldsSlot(i) => HoldsSlot(i)'
                            /\ HoldsNew(i) => HoldsNew(i)'
  BY <1>1, <1>2
     DEF HoldsSlot, HoldsNew, Deploying, SlotLeaked, Beginning, NeverBegun
<1>4. SlotsAccountedFor'
  <2> SUFFICES ASSUME NEW d \in Deployments, doc'[d] = "STARTED"
               PROVE  \E i \in Jobs : Own(i)' = d /\ HoldsSlot(i)'
    BY DEF SlotsAccountedFor, Started, HoldsSlot
  <2>1. CASE doc[d] = "STARTED"
    <3>1. PICK i \in Jobs : Own(i) = d /\ HoldsSlot(i)
      BY <2>1 DEF SlotsAccountedFor, Started, HoldsSlot
    <3> QED BY <3>1, <1>2, <1>3
  <2>2. CASE Own(j) = d /\ HoldsSlot(j)' BY <2>2, <1>2
  <2> QED BY <2>1, <2>2
<1>5. NewAccountedFor'
  <2> SUFFICES ASSUME NEW d \in Deployments, doc'[d] = "NEW"
               PROVE  \E i \in Jobs : Own(i)' = d /\ HoldsNew(i)'
    BY DEF NewAccountedFor, HoldsNew
  <2>1. CASE doc[d] = "NEW"
    <3>1. PICK i \in Jobs : Own(i) = d /\ HoldsNew(i)
      BY <2>1 DEF NewAccountedFor, HoldsNew
    <3> QED BY <3>1, <1>2, <1>3
  <2>2. CASE Own(j) = d /\ HoldsNew(j)' BY <2>2, <1>2
  <2> QED BY <2>1, <2>2
<1> QED BY <1>4, <1>5

\* The documents that a task stores as STARTED: its own, by _start_deployment.
\* None is stored as NEW.
LEMMA TasksStore ==
  ASSUME LockInv, NEW j \in Jobs, PipelineStep(j), NEW d \in Deployments
  PROVE  /\ doc'[d] = "STARTED" =>
              doc[d] = "STARTED" \/ (Own(j) = d /\ StartWrite(j))
         /\ doc'[d] = "NEW" => doc[d] = "NEW"
<1> USE DEF LockInv
<1>1. CASE StartWrite(j)
  <2>1. Own(j) \in Deployments
    BY <1>1, JobFields DEF StartWrite, Shape, StartTasks
  <2> QED BY <1>1, <2>1 DEF StartWrite, UpdateState, TypeOK
<1>2. CASE Succeed(j)
  <2>1. Own(j) \in Deployments
    BY <1>2, JobFields DEF Succeed, Shape, SwitchTasks
  <2> QED BY <1>2, <2>1 DEF Succeed, UpdateState, TypeOK
<1>3. ASSUME NEW ds, NEW bulk, NEW next, FleetUndeploy(j, ds, bulk, next)
      PROVE  doc'[d] \in {"STARTED", "NEW"} => doc'[d] = doc[d]
  BY <1>3 DEF FleetUndeploy, Decommission
<1>4. CASE Undeploy(j) BY <1>4, <1>3 DEF Undeploy
<1>5. CASE UndeployOthers(j) BY <1>5, <1>3 DEF UndeployOthers
<1>6. CASE ~StartWrite(j) /\ ~Succeed(j) /\ ~Undeploy(j) /\ ~UndeployOthers(j)
  BY <1>6
     DEF PipelineStep, StartCount, Prepare, Stop, WaitStop, WaitUndeploy,
         Register, DeployAll, Deploy, StartUnits, CheckRunning, Discover, Check,
         Promote, StopOthers, WaitStopOthers, WaitUndeployOthers, TaskFails,
         FleetStop, WaitForStop, WaitForUndeploy, shared
<1> QED BY <1>1, <1>2, <1>4, <1>5, <1>6

\* A create that succeeded is PROMOTED, unless its app template is disabled.
LEMMA DoneIsPromoted ==
  ASSUME LockInv, NEW j \in Jobs, PipelineStep(j), IsCreate(j), pc'[j] = "done"
  PROVE  doc'[Own(j)] \notin {"STARTED", "NEW"} \/ ~req[j].enabled
<1> USE DEF LockInv
<1>1. pc[j] # "done"
  BY PipelineControl DEF Control, Tasks, StartTasks, UndeployTasks, DeployTasks,
                         SwitchTasks
<1>2. Own(j) \in Deployments BY JobFields
<1>3. CASE Succeed(j)
  BY <1>3, <1>2 DEF Succeed, UpdateState, TypeOK
<1>4. CASE DeployAll(j) BY <1>4 DEF DeployAll, Goto, TypeOK
<1>5. CASE ~Succeed(j) /\ ~DeployAll(j)
  <2>1. pc' = pc \/ \E t \in (Tasks \cup {"failed"}) : pc' = [pc EXCEPT ![j] = t]
    BY <1>5
       DEF PipelineStep, StartCount, StartWrite, Prepare, Stop, WaitStop,
           Undeploy, WaitUndeploy, Register, Deploy, StartUnits, CheckRunning,
           Discover, Check, Promote, StopOthers, WaitStopOthers, UndeployOthers,
           WaitUndeployOthers, TaskFails, FleetStop, WaitForStop, FleetUndeploy,
           WaitForUndeploy, Goto, Advance, Tasks, StartTasks, UndeployTasks,
           DeployTasks, SwitchTasks
  <2>2. "done" \notin Tasks \cup {"failed"}
    BY DEF Tasks, StartTasks, UndeployTasks, DeployTasks, SwitchTasks
  <2> QED BY <2>1, <2>2, <1>1 DEF TypeOK
<1> QED BY <1>3, <1>4, <1>5

\* The tasks keep the documents accounted for.
LEMMA PipelineAccounted ==
  ASSUME LockInv, SlotsAccountedFor, NewAccountedFor, NEW j \in Jobs,
         PipelineStep(j)
  PROVE  SlotsAccountedFor' /\ NewAccountedFor'
<1> USE DEF LockInv
<1>1. PICK t \in Tasks \cup {"done", "failed"} :
        /\ pc' = [pc EXCEPT ![j] = t]
        /\ t \in StartTasks \cup DeployTasks \cup SwitchTasks => IsCreate(j)
  BY PipelineControl DEF Control, Goto
<1>2. /\ UNCHANGED <<req, cb>> /\ pc[j] \in Tasks /\ pc'[j] = t
      /\ IsCreate(j)' = IsCreate(j)
  BY <1>1, PipelineControl DEF Control, TypeOK, IsCreate
<1>3. cb'[j] = "wait" BY <1>2 DEF OneThread, Sequential
<1>4. t \in Tasks \cup {"failed"} /\ IsCreate(j) => HoldsSlot(j)'
  BY <1>2, <1>3 DEF HoldsSlot, Deploying
<1>5. HoldsSlot(j) => HoldsSlot(j)' \/ doc'[Own(j)] # "STARTED"
  <2>1. CASE t = "done"
    BY <2>1, <1>2, DoneIsPromoted DEF HoldsSlot, SlotLeaked
  <2>2. CASE t # "done" BY <2>2, <1>1, <1>4 DEF HoldsSlot
  <2> QED BY <2>1, <2>2
<1>6. HoldsNew(j) => HoldsNew(j)' \/ doc'[Own(j)] # "NEW"
  <2> SUFFICES ASSUME HoldsNew(j) PROVE HoldsNew(j)' \/ doc'[Own(j)] # "NEW"
    OBVIOUS
  <2>1. pc[j] \in {"start", "starting"} /\ IsCreate(j)
    BY <1>2 DEF HoldsNew, Beginning, NeverBegun, Tasks, StartTasks,
                UndeployTasks, DeployTasks, SwitchTasks
  <2>2. CASE StartWrite(j)
    <3>1. Own(j) \in Deployments BY <2>1, JobFields
    <3> QED BY <2>2, <3>1 DEF StartWrite, UpdateState, TypeOK
  <2>3. CASE ~StartWrite(j)
    <3>1. StartCount(j) \/ TaskFails(j)
      BY <2>1, <2>3
         DEF PipelineStep, Prepare, Stop, WaitStop, Undeploy, WaitUndeploy,
             Register, DeployAll, Deploy, StartUnits, CheckRunning, Discover,
             Check, Promote, StopOthers, WaitStopOthers, UndeployOthers,
             WaitUndeployOthers, Succeed
    <3>2. pc'[j] \in {"starting", "failed"}
      BY <3>1 DEF StartCount, TaskFails, Goto, TypeOK
    <3> QED BY <3>2, <2>1, <1>2, <1>3 DEF HoldsNew, Beginning
  <2> QED BY <2>2, <2>3
<1>7. StartWrite(j) => HoldsSlot(j)'
  <2>1. ASSUME StartWrite(j) PROVE t \in Tasks /\ IsCreate(j)
    <3>1. t \in {"prepare", "start"}
      BY <1>2, <2>1 DEF StartWrite, Goto, TypeOK
    <3> QED BY <3>1, <1>1 DEF Tasks, StartTasks
  <2> QED BY <2>1, <1>4
<1> QED
  BY <1>5, <1>6, <1>7, TasksStore, AccountedByOthers

\* So do the steps before the lock.
LEMMA LockAccounted ==
  ASSUME LockInv, SlotsAccountedFor, NewAccountedFor, NEW j \in Jobs, LockStep(j)
  PROVE  SlotsAccountedFor' /\ NewAccountedFor'
<1> USE DEF LockInv
<1>1. pc[j] \in {"new", "lock"} /\ UNCHANGED req /\ IsCreate(j)' = IsCreate(j)
  BY DEF LockStep, Submit, AcquireLock, LoseLock, GiveUpLock, IsCreate
<1>2. ~HoldsSlot(j)
  BY <1>1 DEF HoldsSlot, Deploying, SlotLeaked, Tasks, StartTasks, UndeployTasks,
              DeployTasks, SwitchTasks
<1>3. IsCreate(j) => HoldsNew(j)'
  <2>1. ASSUME IsCreate(j) PROVE pc'[j] \in {"lock", "start", "abandoned"}
    BY <1>1, <2>1
       DEF LockStep, Submit, AcquireLock, LoseLock, GiveUpLock, Goto, TypeOK
  <2> QED BY <1>1, <2>1 DEF HoldsNew, Beginning, NeverBegun
<1>4. ASSUME NEW d \in Deployments
      PROVE  /\ doc'[d] = "STARTED" => doc[d] = "STARTED"
             /\ doc'[d] = "NEW" => doc[d] = "NEW" \/ (Own(j) = d /\ IsCreate(j))
  <2>1. CASE Submit(j) BY <2>1, JobFields DEF Submit, TypeOK
  <2>2. CASE ~Submit(j)
    BY <2>2 DEF LockStep, AcquireLock, LoseLock, GiveUpLock, shared
  <2> QED BY <2>1, <2>2
<1>5. HoldsNew(j) => HoldsNew(j)' BY <1>3 DEF HoldsNew
<1> QED BY <1>2, <1>3, <1>4, <1>5, AccountedByOthers

\* So do the callbacks, which start when the tasks have ended.
LEMMA CallbackAccounted ==
  ASSUME LockInv, Timely, SlotsAccountedFor, NewAccountedFor, NEW j \in Jobs,
         CallbackStep(j)
  PROVE  SlotsAccountedFor' /\ NewAccountedFor'
<1> USE DEF LockInv
<1>1. UNCHANGED <<req, pc>> /\ pc[j] \notin Tasks /\ IsCreate(j)' = IsCreate(j)
  BY DEF CallbackStep, WaitOver, WaitError, WaitExhausted, ErrorEvent,
         ErrorUndeploy, ReleaseLock, CallbackFails, OneThread, Sequential, Tasks,
         StartTasks, UndeployTasks, DeployTasks, SwitchTasks, IsCreate
<1>2. ASSUME NEW d \in Deployments, doc'[d] \in {"STARTED", "NEW"}
      PROVE  doc'[d] = doc[d]
  <2>1. CASE ErrorEvent(j)
    <3>1. Own(j) \in Deployments BY <2>1, JobFields DEF ErrorEvent, Shape
    <3> QED BY <1>2, <2>1, <3>1 DEF ErrorEvent, UpdateState, TypeOK
  <2>2. CASE ErrorUndeploy(j)
    BY <1>2, <2>2 DEF ErrorUndeploy, Decommission
  <2>3. CASE ~ErrorEvent(j) /\ ~ErrorUndeploy(j)
    BY <2>3 DEF CallbackStep, WaitOver, WaitError, WaitExhausted, ReleaseLock,
                CallbackFails, shared
  <2> QED BY <2>1, <2>2, <2>3
<1>3. ASSUME pc[j] = "failed", cb[j] \in {"wait", "error_event"}, IsCreate(j)
      PROVE  \/ cb'[j] \in {"wait", "error_event", "lost"}
             \/ doc'[Own(j)] \notin {"STARTED", "NEW"}
  <2>1. CASE ErrorEvent(j)
    <3>1. Own(j) \in Deployments BY <1>3, JobFields
    <3> QED BY <2>1, <3>1 DEF ErrorEvent, UpdateState, TypeOK
  <2>2. CASE WaitError(j) BY <1>3, <2>2 DEF WaitError, TypeOK
  <2>3. CASE CallbackFails(j) BY <1>3, <2>3 DEF CallbackFails, TypeOK
  <2>4. CASE ~ErrorEvent(j) /\ ~WaitError(j) /\ ~CallbackFails(j)
    BY <1>3, <2>4 DEF CallbackStep, WaitOver, WaitExhausted, ErrorUndeploy,
                      ReleaseLock
  <2> QED BY <2>1, <2>2, <2>3, <2>4
<1>4. cb[j] = "lost" => FALSE
  BY DEF CallbackStep, WaitOver, WaitError, WaitExhausted, ErrorEvent,
         ErrorUndeploy, ReleaseLock, CallbackFails
<1>5. HoldsSlot(j) => HoldsSlot(j)' \/ doc'[Own(j)] # "STARTED"
  BY <1>1, <1>3, <1>4 DEF HoldsSlot, Deploying, SlotLeaked
<1>6. HoldsNew(j) => HoldsNew(j)' \/ doc'[Own(j)] # "NEW"
  BY <1>1, <1>3, <1>4 DEF HoldsNew, Beginning, NeverBegun
<1> QED BY <1>2, <1>5, <1>6, AccountedByOthers

\* Every step keeps the documents accounted for.
LEMMA AccountedStep ==
  ASSUME LockInv, Timely, SlotsAccountedFor, NewAccountedFor, [Next]_vars
  PROVE  SlotsAccountedFor' /\ NewAccountedFor'
<1>1. ASSUME NEW j \in Jobs, LockStep(j)
      PROVE  SlotsAccountedFor' /\ NewAccountedFor'
  BY <1>1, LockAccounted
<1>2. ASSUME NEW j \in Jobs, PipelineStep(j)
      PROVE  SlotsAccountedFor' /\ NewAccountedFor'
  BY <1>2, PipelineAccounted
<1>3. ASSUME NEW j \in Jobs, CallbackStep(j)
      PROVE  SlotsAccountedFor' /\ NewAccountedFor'
  BY <1>3, CallbackAccounted
<1>4. ASSUME UNCHANGED <<req, pc, cb, doc>>
      PROVE  SlotsAccountedFor' /\ NewAccountedFor'
  BY <1>4 DEF SlotsAccountedFor, NewAccountedFor, Started, IsCreate, Own,
              Deploying, SlotLeaked, Beginning, NeverBegun
<1>5. ASSUME NEW a \in Apps, LockExpires(a)
      PROVE  SlotsAccountedFor' /\ NewAccountedFor'
  BY <1>5, <1>4 DEF LockExpires, shared
<1>6. ASSUME NEW d \in Deployments, UnitsChange(d)
      PROVE  SlotsAccountedFor' /\ NewAccountedFor'
  BY <1>6, <1>4 DEF UnitsChange
<1>7. CASE UNCHANGED vars BY <1>7, <1>4 DEF vars
<1> QED BY <1>1, <1>2, <1>3, <1>5, <1>6, <1>7 DEF Next

\* When pipelines finish within the lease of their lock, a deployment takes a
\* slot of START_CONCURRENCY only while a job deploys it, up to the two named
\* exceptions.
THEOREM SlotsHeld == ASSUME Timely PROVE Spec => []SlotsAccountedFor
<1>1. Init => SlotsAccountedFor /\ NewAccountedFor
  BY DEF Init, SlotsAccountedFor, NewAccountedFor, Started
<1>2. LockInv /\ SlotsAccountedFor /\ NewAccountedFor /\ [Next]_vars
        => (SlotsAccountedFor /\ NewAccountedFor)'
  BY AccountedStep
<1> QED BY <1>1, <1>2, LockInductive, PTL DEF Spec

\* Likewise a deployment is NEW only while its create is on its way, up to the
\* two named exceptions.
THEOREM NewHeld == ASSUME Timely PROVE Spec => []NewAccountedFor
<1>1. Init => SlotsAccountedFor /\ NewAccountedFor
  BY DEF Init, SlotsAccountedFor, NewAccountedFor, Started
<1>2. LockInv /\ SlotsAccountedFor /\ NewAccountedFor /\ [Next]_vars
        => (SlotsAccountedFor /\ NewAccountedFor)'
  BY AccountedStep
<1> QED BY <1>1, <1>2, LockInductive, PTL DEF Spec

-----------------------------------------------------------------------------
(* The proxy.                                                              *)

\* Every create asks for blue-green.
AllBlueGreen ==
  \A r \in Requests : r.kind = "create" => r.mode = "blue-green"

\* The tasks after _register_upstreams.
Later == (DeployTasks \ {"register"}) \cup SwitchTasks

\* What the later tasks find registered.
LaterRegistered ==
  \A j \in Jobs : pc[j] \in Later => req[j].version \in registered[App(j)]

\* A task of a blue-green create keeps the upstreams registered.
LEMMA PipelineRegistered ==
  ASSUME AllBlueGreen, TypeOK, Shape, LaterRegistered, WiredIsRegistered,
         NEW j \in Jobs, PipelineStep(j)
  PROVE  LaterRegistered' /\ WiredIsRegistered'
<1>1. Control(j) BY PipelineControl
<1>2. UNCHANGED req /\ App(j) \in Apps /\ \A i \in Jobs \ {j} : pc'[i] = pc[i]
  BY <1>1, JobFields DEF Control, Goto, TypeOK
<1>3. pc[j] \in StartTasks \cup DeployTasks \cup SwitchTasks =>
        IsCreate(j) /\ req[j].mode = "blue-green"
  BY DEF Shape, AllBlueGreen, TypeOK, IsCreate
<1>4. CASE Register(j)
  <2>1. registered' = [registered EXCEPT ![App(j)] = @ \cup {req[j].version}]
    BY <1>4, <1>3 DEF Register, Upstream, DeployTasks
  <2>2. \A a \in Apps : registered[a] \subseteq registered'[a]
    BY <2>1, <1>2 DEF TypeOK
  <2>3. LaterRegistered'
    <3> SUFFICES ASSUME NEW i \in Jobs, pc'[i] \in Later
                 PROVE  req[i].version \in registered'[App(i)]
      BY <1>2 DEF LaterRegistered, App
    <3>1. CASE i = j BY <3>1, <2>1, <1>2 DEF TypeOK
    <3>2. CASE i # j
      BY <3>2, <2>2, <1>2, JobFields DEF LaterRegistered
    <3> QED BY <3>1, <3>2
  <2>4. UNCHANGED wired BY <1>4 DEF Register
  <2> QED BY <2>2, <2>3, <2>4 DEF WiredIsRegistered
<1>5. CASE ~Register(j)
  <2>1. UNCHANGED registered
    BY <1>5
       DEF PipelineStep, StartCount, StartWrite, Prepare, Stop, WaitStop,
           Undeploy, WaitUndeploy, DeployAll, Deploy, StartUnits, CheckRunning,
           Discover, Check, Promote, StopOthers, WaitStopOthers, UndeployOthers,
           WaitUndeployOthers, Succeed, TaskFails, FleetStop, WaitForStop,
           FleetUndeploy, WaitForUndeploy, shared
  <2>2. pc'[j] \in Later => pc[j] \in Later
    <3>1. CASE StartCount(j) \/ StartWrite(j)
      BY <3>1 DEF StartCount, StartWrite, Goto, TypeOK, Later, DeployTasks,
                  SwitchTasks
    <3>2. CASE Prepare(j)
      BY <3>2 DEF Prepare, Goto, TypeOK, Later, DeployTasks, SwitchTasks
    <3>3. CASE Stop(j) \/ WaitStop(j)
      BY <3>3 DEF Stop, WaitStop, FleetStop, WaitForStop, Goto, TypeOK, Later,
                  DeployTasks, SwitchTasks
    <3>4. CASE Undeploy(j)
      BY <3>4 DEF Undeploy, FleetUndeploy, Advance, Goto, TypeOK, Later,
                  DeployTasks, SwitchTasks
    <3>5. CASE WaitUndeploy(j)
      BY <3>5 DEF WaitUndeploy, WaitForUndeploy, Goto, TypeOK, Later,
                  DeployTasks, SwitchTasks
    <3>6. CASE pc[j] \in DeployTasks \cup SwitchTasks
      <4>1. pc[j] # "register" \/ TaskFails(j)
        BY <1>5
           DEF PipelineStep, StartCount, StartWrite, Prepare, Stop, WaitStop,
               Undeploy, WaitUndeploy, DeployAll, Deploy, StartUnits,
               CheckRunning, Discover, Check, Promote, StopOthers,
               WaitStopOthers, UndeployOthers, WaitUndeployOthers, Succeed
      <4>2. TaskFails(j) => pc'[j] = "failed" BY DEF TaskFails, Goto, TypeOK
      <4> QED BY <3>6, <4>1, <4>2 DEF Later, DeployTasks, SwitchTasks
    <3>7. TaskFails(j) => pc'[j] = "failed" BY DEF TaskFails, Goto, TypeOK
    <3>8. "failed" \notin Later BY DEF Later, DeployTasks, SwitchTasks
    <3> QED
      BY <1>5, <3>1, <3>2, <3>3, <3>4, <3>5, <3>6, <3>7, <3>8
         DEF PipelineStep, DeployAll, Deploy, StartUnits, CheckRunning, Discover,
             Check, Promote, StopOthers, WaitStopOthers, UndeployOthers,
             WaitUndeployOthers, Succeed, DeployTasks, SwitchTasks
  <2>3. LaterRegistered'
    BY <1>2, <2>1, <2>2 DEF LaterRegistered, App
  <2>4. WiredIsRegistered'
    <3>1. CASE Promote(j)
      <4>1. wired' = [wired EXCEPT ![App(j)] = req[j].version]
        BY <3>1 DEF Promote, WireProxy, Upstream
      <4>2. req[j].version \in registered[App(j)]
        BY <3>1 DEF Promote, LaterRegistered, Later, DeployTasks
      <4> QED BY <4>1, <4>2, <2>1, <1>2 DEF WiredIsRegistered, TypeOK
    <3>2. CASE ~Promote(j)
      <4>1. UNCHANGED wired
        BY <1>5, <3>2
           DEF PipelineStep, StartCount, StartWrite, Prepare, Stop, WaitStop,
               Undeploy, WaitUndeploy, DeployAll, Deploy, StartUnits,
               CheckRunning, Discover, Check, StopOthers, WaitStopOthers,
               UndeployOthers, WaitUndeployOthers, Succeed, TaskFails,
               FleetStop, WaitForStop, FleetUndeploy, WaitForUndeploy, shared
      <4> QED BY <4>1, <2>1 DEF WiredIsRegistered
    <3> QED BY <3>1, <3>2
  <2> QED BY <2>3, <2>4
<1> QED BY <1>4, <1>5

\* If every create asks for blue-green, the proxy routes to upstreams that were
\* registered, whether or not pipelines finish within the lease of their lock.
\* (In the other modes _promote_deployment wires an upstream nobody registers.)
THEOREM RoutesRegistered ==
  ASSUME AllBlueGreen PROVE Spec => []WiredIsRegistered
<1>1. Init => LaterRegistered /\ WiredIsRegistered
  BY DEF Init, LaterRegistered, WiredIsRegistered, Later, DeployTasks, SwitchTasks
<1>2. TypeOK /\ Shape /\ LaterRegistered /\ WiredIsRegistered /\ [Next]_vars
        => (LaterRegistered /\ WiredIsRegistered)'
  <2> SUFFICES ASSUME TypeOK, Shape, LaterRegistered, WiredIsRegistered,
                      [Next]_vars
               PROVE  (LaterRegistered /\ WiredIsRegistered)'
    OBVIOUS
  <2>1. ASSUME UNCHANGED <<req, registered, wired>>,
               \A j \in Jobs : pc'[j] \in Later => pc[j] \in Later
        PROVE  (LaterRegistered /\ WiredIsRegistered)'
    BY <2>1 DEF LaterRegistered, WiredIsRegistered, App
  <2>2. ASSUME NEW j \in Jobs, LockStep(j)
        PROVE  (LaterRegistered /\ WiredIsRegistered)'
    <3>1. UNCHANGED <<req, registered, wired>>
      BY <2>2 DEF LockStep, Submit, AcquireLock, LoseLock, GiveUpLock, shared
    <3>2. \A i \in Jobs : pc'[i] = pc[i]
                          \/ pc'[i] \in {"lock", "abandoned", "start", "stop"}
      BY <2>2 DEF LockStep, Submit, AcquireLock, LoseLock, GiveUpLock, Goto,
                  TypeOK
    <3> QED BY <2>1, <3>1, <3>2 DEF Later, DeployTasks, SwitchTasks
  <2>3. ASSUME NEW j \in Jobs, PipelineStep(j)
        PROVE  (LaterRegistered /\ WiredIsRegistered)'
    BY <2>3, PipelineRegistered
  <2>4. ASSUME NEW j \in Jobs, CallbackStep(j)
        PROVE  (LaterRegistered /\ WiredIsRegistered)'
    BY <2>4, <2>1
       DEF CallbackStep, WaitOver, WaitError, WaitExhausted, ErrorEvent,
           ErrorUndeploy, ReleaseLock, CallbackFails, shared
  <2>5. ASSUME NEW a \in Apps, LockExpires(a)
        PROVE  (LaterRegistered /\ WiredIsRegistered)'
    BY <2>5, <2>1 DEF LockExpires, shared
  <2>6. ASSUME NEW d \in Deployments, UnitsChange(d)
        PROVE  (LaterRegistered /\ WiredIsRegistered)'
    BY <2>6, <2>1 DEF UnitsChange
  <2>7. CASE UNCHANGED vars BY <2>7, <2>1 DEF vars
  <2> QED BY <2>2, <2>3, <2>4, <2>5, <2>6, <2>7 DEF Next
<1> QED BY <1>1, <1>2, TypesInductive, PTL DEF Spec
-----------------------------------------------------------------------------
(* The life of the documents.                                              *)

\* While a job works on an application, no other job touches its documents and
\* units, but for a create that is submitted and stores NEW.
LEMMA WorkFrame ==
  ASSUME LockInv, Timely, NEW i \in Jobs, PipelineStep(i) \/ CallbackStep(i),
         NEW j \in Jobs, i # j, Busy(j), NEW d \in OfApp(App(j))
  PROVE  doc'[d] = doc[d] /\ units'[d] = units[d]
<1> USE DEF LockInv
<1>0. d \in Deployments BY OthersAreDeployments
<1>a. ASSUME Busy(i) PROVE App(i) # App(j) /\ d \notin OfApp(App(i))
  BY <1>a, Exclusion DEF OfApp
<1>b. Own(i) \in OfApp(App(i)) \/ ~IsCreate(i) BY JobFields
<1>c. Scope(i) \subseteq OfApp(App(i)) \cup {Own(i)} /\ Others(i) \subseteq OfApp(App(i))
  BY DEF Scope, Others
<1>d. ASSUME Busy(i) PROVE d # Own(i)
  BY <1>a, <1>d DEF OfApp, Own, App
<1>1. CASE PipelineStep(i)
  <2>1. Busy(i) BY <1>1, PipelineControl DEF Control, Busy
  <2>2. d \notin Scope(i) \cup Others(i) \cup OfApp(App(i)) \cup {Own(i)}
    BY <2>1, <1>a, <1>c, <1>d
  <2>3. ASSUME NEW ds, d \notin ds, StopUnits(ds) PROVE units'[d] = units[d]
    BY <1>0, <2>3 DEF StopUnits
  <2>4. ASSUME NEW ds, d \notin ds, RemoveUnits(ds) PROVE units'[d] = units[d]
    BY <1>0, <2>4 DEF RemoveUnits
  <2>5. ASSUME NEW ds, d \notin ds, Decommission(ds) PROVE doc'[d] = doc[d]
    BY <1>0, <2>5 DEF Decommission
  <2>6. ASSUME NEW ds, NEW next, d \notin ds, FleetStop(i, ds, next)
        PROVE  doc'[d] = doc[d] /\ units'[d] = units[d]
    BY <2>3, <2>6 DEF FleetStop
  <2>7. ASSUME NEW ds, NEW bulk, NEW next, d \notin ds, d \notin bulk,
               FleetUndeploy(i, ds, bulk, next)
        PROVE  doc'[d] = doc[d] /\ units'[d] = units[d]
    BY <2>4, <2>5, <2>7 DEF FleetUndeploy
  <2>8. CASE Stop(i) BY <2>2, <2>6, <2>8 DEF Stop
  <2>9. CASE StopOthers(i) BY <2>2, <2>6, <2>9 DEF StopOthers
  <2>10. CASE Undeploy(i) BY <2>2, <2>7, <2>10 DEF Undeploy
  <2>11. CASE UndeployOthers(i) BY <2>2, <2>7, <2>11 DEF UndeployOthers
  <2>12. CASE StartWrite(i) \/ Succeed(i)
    BY <2>2, <2>12, <1>0 DEF StartWrite, Succeed, UpdateState, TypeOK
  <2>13. CASE Deploy(i) \/ StartUnits(i)
    BY <2>2, <2>13, <1>0 DEF Deploy, StartUnits, SubmitUnits, LaunchUnits, TypeOK
  <2>14. CASE ~(\/ Stop(i) \/ StopOthers(i) \/ Undeploy(i) \/ UndeployOthers(i)
                \/ StartWrite(i) \/ Succeed(i) \/ Deploy(i) \/ StartUnits(i))
    BY <1>1, <2>14
       DEF PipelineStep, StartCount, Prepare, WaitStop, WaitUndeploy, Register,
           DeployAll, CheckRunning, Discover, Check, Promote, WaitStopOthers,
           WaitUndeployOthers, TaskFails, WaitForStop, WaitForUndeploy, shared
  <2> QED BY <2>8, <2>9, <2>10, <2>11, <2>12, <2>13, <2>14
<1>2. CASE CallbackStep(i)
  <2>1. CASE ErrorEvent(i)
    <3>1. d # Own(i) BY <2>1, <1>d DEF ErrorEvent, Busy, Callbacks
    <3> QED BY <2>1, <3>1, <1>0 DEF ErrorEvent, UpdateState, TypeOK
  <2>2. CASE ErrorUndeploy(i)
    <3>1. d # Own(i) BY <2>2, <1>d DEF ErrorUndeploy, Busy, Callbacks
    <3> QED
      BY <2>2, <3>1, <1>0 DEF ErrorUndeploy, RemoveUnits, Decommission
  <2>3. CASE ~ErrorEvent(i) /\ ~ErrorUndeploy(i)
    BY <1>2, <2>3 DEF CallbackStep, WaitOver, WaitError, WaitExhausted,
                      ReleaseLock, CallbackFails, shared
  <2> QED BY <2>1, <2>2, <2>3
<1> QED BY <1>1, <1>2

\* From its first write on, the document of a create that runs is not FAILED
\* or DECOMMISSIONED, and not PROMOTED before _promote_success.
Promotable(j) ==
  \/ doc[Own(j)] \in {"NEW", "STARTED"}
  \/ pc[j] = "succeed" /\ doc[Own(j)] = "PROMOTED"
UnderWay ==
  \A j \in Jobs :
    IsCreate(j) /\ pc[j] \in Tasks \ {"start", "starting"} => Promotable(j)

\* A create that was called has a document.
Stored == \A j \in Jobs : IsCreate(j) /\ pc[j] # "new" => doc[Own(j)] # "ABSENT"

\* A task of its own keeps the document of a job so.
LEMMA OwnUnderWay ==
  ASSUME LockInv, UnderWay, Stored, NEW j \in Jobs, PipelineStep(j), IsCreate(j),
         pc'[j] \in Tasks \ {"start", "starting"}
  PROVE  Promotable(j)'
<1> USE DEF LockInv
<1>1. Own(j) \in Deployments /\ Own(j)' = Own(j)
  BY JobFields, PipelineControl DEF Control, Own
<1>2. CASE StartWrite(j)
  BY <1>1, <1>2 DEF StartWrite, UpdateState, TypeOK, Promotable, Stored
<1>3. CASE Succeed(j)
  <2>1. doc'[Own(j)] = "PROMOTED" \/ doc'[Own(j)] \in {"NEW", "STARTED"}
    <3>1. doc[Own(j)] # "ABSENT"
      BY <1>3 DEF Succeed, UnderWay, Promotable, Tasks, SwitchTasks
    <3> QED BY <1>1, <1>3, <3>1 DEF Succeed, UpdateState, TypeOK
  <2>2. pc'[j] = "succeed"
    BY <1>3 DEF Succeed, Advance, Goto, TypeOK, Tasks, StartTasks,
                UndeployTasks, DeployTasks, SwitchTasks
  <2> QED BY <1>1, <2>1, <2>2 DEF Promotable
<1>4. ASSUME NEW ds, NEW bulk, NEW next, FleetUndeploy(j, ds, bulk, next),
             pc[j] \in {"undeploy", "undeploy_others"}
      PROVE  Promotable(j)'
  <2>1. doc[Own(j)] \in {"NEW", "STARTED"}
    BY <1>4 DEF UnderWay, Promotable, Tasks, UndeployTasks, SwitchTasks
  <2> QED BY <1>1, <1>4, <2>1 DEF FleetUndeploy, Decommission, Promotable
<1>5. CASE Undeploy(j) BY <1>5, <1>4 DEF Undeploy
<1>6. CASE UndeployOthers(j) BY <1>6, <1>4 DEF UndeployOthers
<1>7. CASE ~StartWrite(j) /\ ~Succeed(j) /\ ~Undeploy(j) /\ ~UndeployOthers(j)
  <2>1. UNCHANGED doc
    BY <1>7
       DEF PipelineStep, StartCount, Prepare, Stop, WaitStop, WaitUndeploy,
           Register, DeployAll, Deploy, StartUnits, CheckRunning, Discover,
           Check, Promote, StopOthers, WaitStopOthers, WaitUndeployOthers,
           TaskFails, FleetStop, WaitForStop, WaitForUndeploy, shared
  <2>2. pc[j] \notin {"start", "starting"}
    BY <1>7
       DEF PipelineStep, StartCount, Prepare, Stop, WaitStop, WaitUndeploy,
           Register, DeployAll, Deploy, StartUnits, CheckRunning, Discover,
           Check, Promote, StopOthers, WaitStopOthers, WaitUndeployOthers,
           TaskFails, FleetStop, WaitForStop, WaitForUndeploy, Goto, TypeOK,
           Tasks, StartTasks, UndeployTasks, DeployTasks, SwitchTasks
  <2>3. pc[j] \in Tasks /\ pc[j] # "succeed"
    BY <1>7, PipelineControl
       DEF Control, PipelineStep, StartCount, Prepare, Stop, WaitStop,
           WaitUndeploy, Register, DeployAll, Deploy, StartUnits, CheckRunning,
           Discover, Check, Promote, StopOthers, WaitStopOthers,
           WaitUndeployOthers, TaskFails, Goto, TypeOK, Tasks, StartTasks,
           UndeployTasks, DeployTasks, SwitchTasks
  <2>4. doc[Own(j)] \in {"NEW", "STARTED"}
    BY <2>2, <2>3 DEF UnderWay, Promotable
  <2> QED BY <1>1, <2>1, <2>4 DEF Promotable
<1> QED BY <1>2, <1>3, <1>5, <1>6, <1>7

\* Every step keeps the documents of the running creates so.
LEMMA UnderWayStep ==
  ASSUME LockInv, Timely, UnderWay, Stored, [Next]_vars
  PROVE  UnderWay'
<1> USE DEF LockInv
<1> SUFFICES ASSUME NEW j \in Jobs, IsCreate(j)',
                    pc'[j] \in Tasks \ {"start", "starting"}
             PROVE  Promotable(j)'
  BY DEF UnderWay
<1>1. ASSUME UNCHANGED req, pc'[j] = pc[j],
             doc'[Own(j)] \in {doc[Own(j)], "NEW"}
      PROVE  Promotable(j)'
  BY <1>1 DEF UnderWay, Promotable, Own, IsCreate
<1>2. ASSUME NEW i \in Jobs, PipelineStep(i) PROVE Promotable(j)'
  <2>1. UNCHANGED req BY <1>2, OwnThreads
  <2>2. CASE i = j BY <1>2, <2>1, <2>2, OwnUnderWay DEF IsCreate
  <2>3. CASE i # j
    <3>1. pc'[j] = pc[j] BY <1>2, <2>3, OwnThreads
    <3>2. Own(j) \in OfApp(App(j)) BY <2>1, JobFields DEF IsCreate
    <3>3. Busy(j) BY <3>1 DEF Busy
    <3>4. doc'[Own(j)] = doc[Own(j)] BY <1>2, <2>3, <3>2, <3>3, WorkFrame
    <3> QED BY <2>1, <3>1, <3>4, <1>1
  <2> QED BY <2>2, <2>3
<1>3. ASSUME NEW i \in Jobs, CallbackStep(i) PROVE Promotable(j)'
  <2>1. UNCHANGED <<req, pc>> /\ pc[i] \notin Tasks
    BY <1>3 DEF CallbackStep, WaitOver, WaitError, WaitExhausted, ErrorEvent,
         ErrorUndeploy, ReleaseLock, CallbackFails, OneThread, Sequential, Tasks,
         StartTasks, UndeployTasks, DeployTasks, SwitchTasks
  <2>2. i # j /\ Busy(j) BY <2>1 DEF Busy
  <2>3. Own(j) \in OfApp(App(j)) BY <2>1, JobFields DEF IsCreate
  <2>4. doc'[Own(j)] = doc[Own(j)] BY <1>3, <2>2, <2>3, WorkFrame
  <2> QED BY <2>1, <2>4, <1>1
<1>4. ASSUME NEW i \in Jobs, LockStep(i) PROVE Promotable(j)'
  <2>1. UNCHANGED req /\ i # j
    <3>1. UNCHANGED req BY <1>4, OwnThreads
    <3>2. ASSUME i = j, ~AcquireLock(i) PROVE pc'[j] \in {"lock", "abandoned"}
      BY <1>4, <3>2 DEF LockStep, Submit, LoseLock, GiveUpLock, Goto, TypeOK
    <3>3. ASSUME i = j, AcquireLock(i) PROVE pc'[j] = "start"
      BY <3>1, <3>3 DEF AcquireLock, Goto, TypeOK, IsCreate
    <3> QED
      BY <3>1, <3>2, <3>3
         DEF Tasks, StartTasks, UndeployTasks, DeployTasks, SwitchTasks
  <2>2. pc'[j] = pc[j] BY <1>4, <2>1, OwnThreads
  <2>3. Own(j) \in Deployments BY <2>1, JobFields DEF IsCreate
  <2>4. doc'[Own(j)] \in {doc[Own(j)], "NEW"}
    BY <1>4, <2>3, JobFields
       DEF LockStep, Submit, AcquireLock, LoseLock, GiveUpLock, TypeOK, shared
  <2> QED BY <2>1, <2>2, <2>4, <1>1
<1>5. ASSUME NEW a \in Apps, LockExpires(a) PROVE Promotable(j)'
  BY <1>5, <1>1 DEF LockExpires, shared
<1>6. ASSUME NEW d \in Deployments, UnitsChange(d) PROVE Promotable(j)'
  BY <1>6, <1>1 DEF UnitsChange
<1>7. CASE UNCHANGED vars BY <1>7, <1>1 DEF vars
<1> QED BY <1>2, <1>3, <1>4, <1>5, <1>6, <1>7 DEF Next

\* What is decommissioned at once is a set of deployments.
LEMMA DecommissionMaps ==
  ASSUME NEW ds \in SUBSET Deployments, Decommission(ds)
  PROVE  Lifecycle!Next
BY DEF Decommission, Lifecycle!Next, Lifecycle!Decommission

\* Every step is one of the abstract life of the documents, or leaves them.
LEMMA LifecycleStep ==
  ASSUME LockInv, DocInv, Timely, UnderWay, [Next]_vars
  PROVE  [Lifecycle!Next]_doc
<1> USE DEF LockInv
<1>1. ASSUME NEW j \in Jobs, LockStep(j) PROVE [Lifecycle!Next]_doc
  <2>1. CASE Submit(j) /\ IsCreate(j)
    <3>1. Own(j) \in Deployments BY <2>1, JobFields
    <3>2. Lifecycle!Create(Own(j)) BY <2>1 DEF Submit, Lifecycle!Create
    <3> QED BY <3>1, <3>2 DEF Lifecycle!Next
  <2>2. CASE ~(Submit(j) /\ IsCreate(j))
    BY <1>1, <2>2 DEF LockStep, Submit, AcquireLock, LoseLock, GiveUpLock, shared
  <2> QED BY <2>1, <2>2
<1>2. ASSUME NEW j \in Jobs, PipelineStep(j) PROVE [Lifecycle!Next]_doc
  <2>0. OfApp(App(j)) \subseteq Deployments BY OthersAreDeployments
  <2>1. CASE StartWrite(j)
    <3>1. Own(j) \in Deployments
      BY <2>1, JobFields DEF StartWrite, Shape, StartTasks
    <3>2. UNCHANGED doc \/ Lifecycle!Begin(Own(j))
      BY <2>1 DEF StartWrite, UpdateState, Lifecycle!Begin
    <3> QED BY <3>1, <3>2 DEF Lifecycle!Next
  <2>2. CASE Succeed(j)
    <3>1. pc[j] = "succeed" /\ IsCreate(j) BY <2>2 DEF Succeed, Shape, SwitchTasks
    <3>2. Own(j) \in Deployments /\ req[j].mode \in Modes BY <3>1, JobFields
    <3>3. doc[Own(j)] \in {"NEW", "STARTED", "PROMOTED"}
      BY <3>1 DEF UnderWay, Promotable, Tasks, SwitchTasks
    <3>4. ASSUME App(j) \in SingleVersion, NEW e \in Deployments,
                 e[1] = App(j), e # Own(j)
          PROVE  doc[e] # "PROMOTED"
      <4>1. req[j] \in Requests BY DEF TypeOK
      <4>2. req[j].mode \in {"blue-green", "red-green"}
        BY <3>4, <4>1, <3>1, <3>2 DEF SingleVersion, Modes, IsCreate, App
      <4>3. Retired(j) BY <4>2, <3>1 DEF Retired, BlueGreen
      <4>4. e \in Others(j) BY <3>4 DEF Others, OfApp, Deployments
      <4> QED BY <4>3, <4>4 DEF DocInv, OthersRetired
    <3>5. Own(j)[1] = App(j) BY DEF Own, App
    <3>6. doc' = [doc EXCEPT ![Own(j)] = "PROMOTED"]
      BY <2>2, <3>3 DEF Succeed, UpdateState
    <3>7. Lifecycle!Promote(Own(j))
      BY <3>3, <3>4, <3>5, <3>6 DEF Lifecycle!Promote
    <3> QED BY <3>2, <3>7 DEF Lifecycle!Next
  <2>3. ASSUME NEW ds, NEW bulk \in SUBSET Deployments, NEW next,
               FleetUndeploy(j, ds, bulk, next)
        PROVE  [Lifecycle!Next]_doc
    BY <2>3, DecommissionMaps DEF FleetUndeploy
  <2>4. CASE Undeploy(j)
    <3>1. pc[j] = "undeploy" BY <2>4 DEF Undeploy
    <3>2. IsCreate(j) => Own(j) \in Deployments BY JobFields
    <3>3. ~IsCreate(j) /\ req[j].version # AllVersions => Own(j) \in Deployments
      <4>1. req[j] \in RequestType BY RequestsAssumption DEF TypeOK
      <4> QED BY <4>1 DEF RequestType, IsCreate, Own, Deployments
    <3>4. Scope(j) \in SUBSET Deployments
      BY <2>0, <3>2, <3>3 DEF Scope, BlueGreen
    <3> QED BY <2>4, <3>4, <2>3 DEF Undeploy
  <2>5. CASE UndeployOthers(j) BY <2>5, <2>0, <2>3 DEF UndeployOthers
  <2>6. CASE ~StartWrite(j) /\ ~Succeed(j) /\ ~Undeploy(j) /\ ~UndeployOthers(j)
    BY <1>2, <2>6
       DEF PipelineStep, StartCount, Prepare, Stop, WaitStop, WaitUndeploy,
           Register, DeployAll, Deploy, StartUnits, CheckRunning, Discover,
           Check, Promote, StopOthers, WaitStopOthers, WaitUndeployOthers,
           TaskFails, FleetStop, WaitForStop, WaitForUndeploy, shared
  <2> QED BY <2>1, <2>2, <2>4, <2>5, <2>6
<1>3. ASSUME NEW j \in Jobs, CallbackStep(j) PROVE [Lifecycle!Next]_doc
  <2>1. CASE ErrorEvent(j)
    <3>1. Own(j) \in Deployments BY <2>1, JobFields DEF ErrorEvent, Shape
    <3>2. UNCHANGED doc \/ Lifecycle!Fail(Own(j))
      BY <2>1 DEF ErrorEvent, UpdateState, Lifecycle!Fail
    <3> QED BY <3>1, <3>2 DEF Lifecycle!Next
  <2>2. CASE ErrorUndeploy(j)
    <3>1. Own(j) \in Deployments BY <2>2, JobFields DEF ErrorUndeploy, Shape
    <3> QED BY <2>2, <3>1, DecommissionMaps DEF ErrorUndeploy
  <2>3. CASE ~ErrorEvent(j) /\ ~ErrorUndeploy(j)
    BY <1>3, <2>3 DEF CallbackStep, WaitOver, WaitError, WaitExhausted,
                      ReleaseLock, CallbackFails, shared
  <2> QED BY <2>1, <2>2, <2>3
<1>4. ASSUME NEW a \in Apps, LockExpires(a) PROVE [Lifecycle!Next]_doc
  BY <1>4 DEF LockExpires, shared
<1>5. ASSUME NEW d \in Deployments, UnitsChange(d) PROVE [Lifecycle!Next]_doc
  BY <1>5 DEF UnitsChange
<1>6. CASE UNCHANGED vars BY <1>6 DEF vars
<1> QED BY <1>1, <1>2, <1>3, <1>4, <1>5, <1>6 DEF Next

\* Documents are never removed.
LEMMA StoredStep ==
  ASSUME LockInv, DocInv, Timely, UnderWay, Stored, [Next]_vars
  PROVE  Stored'
<1> USE DEF LockInv
<1> SUFFICES ASSUME NEW j \in Jobs, IsCreate(j)', pc'[j] # "new"
             PROVE  doc'[Own(j)'] # "ABSENT"
  BY DEF Stored
<1>1. UNCHANGED req
  BY OwnThreads DEF Next, LockExpires, UnitsChange, vars
<1>2. IsCreate(j) /\ Own(j)' = Own(j) /\ Own(j) \in Deployments
  BY <1>1, JobFields DEF IsCreate, Own
<1>3. CASE pc[j] # "new"
  <2>1. doc[Own(j)] # "ABSENT" BY <1>2, <1>3 DEF Stored
  <2>2. [Lifecycle!Next]_doc BY LifecycleStep
  <2> QED
    BY <1>2, <2>1, <2>2
       DEF TypeOK, Lifecycle!Next, Lifecycle!Create, Lifecycle!Begin,
           Lifecycle!Promote, Lifecycle!Fail, Lifecycle!Decommission
<1>4. CASE pc[j] = "new"
  <2>1. Submit(j)
    <3>1. ASSUME NEW i \in Jobs, PipelineStep(i) PROVE i # j
      BY <1>4, <3>1, PipelineControl
         DEF Control, Tasks, StartTasks, UndeployTasks, DeployTasks, SwitchTasks
    <3>2. ASSUME NEW i \in Jobs, CallbackStep(i) PROVE pc'[j] = pc[j]
      BY <3>2 DEF CallbackStep, WaitOver, WaitError, WaitExhausted, ErrorEvent,
                  ErrorUndeploy, ReleaseLock, CallbackFails
    <3>3. ASSUME NEW i \in Jobs, LockStep(i), i = j PROVE Submit(j)
      BY <1>4, <3>3 DEF LockStep, AcquireLock, LoseLock, GiveUpLock
    <3>4. PICK i \in Jobs : LockStep(i) \/ PipelineStep(i) \/ CallbackStep(i)
      BY <1>4 DEF Next, LockExpires, UnitsChange, vars
    <3>5. i = j BY <1>4, <3>2, <3>4, OwnThreads
    <3> QED BY <1>4, <3>1, <3>2, <3>3, <3>4, <3>5
  <2> QED BY <1>2, <2>1 DEF Submit, TypeOK
<1> QED BY <1>3, <1>4

\* When pipelines finish within the lease of their lock, the pipelines implement
\* the abstract life of the documents: in particular nothing is promoted that
\* had failed or was decommissioned, nor next to another promoted version.
THEOREM Refinement == ASSUME Timely PROVE Spec => ImplementsLifecycle
<1>1. Init => DocInv /\ UnderWay /\ Stored
  BY DEF Init, DocInv, OthersRetired, AtMostOnePromoted, Retired, UnderWay,
         Stored, Tasks, StartTasks, UndeployTasks, DeployTasks, SwitchTasks
<1>2. LockInv /\ DocInv /\ UnderWay /\ Stored /\ [Next]_vars
        => (DocInv /\ UnderWay /\ Stored)'
  BY DocStep, UnderWayStep, StoredStep
<1>3. Init => Lifecycle!Init BY DEF Init, Lifecycle!Init
<1>4. LockInv /\ DocInv /\ UnderWay /\ [Next]_vars => [Lifecycle!Next]_doc
  BY LifecycleStep
<1> QED
  BY <1>1, <1>2, <1>3, <1>4, LockInductive, PTL
     DEF Spec, ImplementsLifecycle, Lifecycle!Spec
-----------------------------------------------------------------------------
(* The switch of the proxy.                                                *)

\* Between its check and its switch the units of a create were not touched,
\* though they may have failed.
CheckedRuns ==
  \A j \in Jobs :
    pc[j] \in {"discover", "check", "promote"} =>
      units[Own(j)] \in {"running", "loaded"}

\* From the switch until the other versions are gone, the proxy routes to the
\* version of the job.
Switched ==
  \A j \in Jobs :
    pc[j] \in SwitchTasks \ {"succeed"} => wired[App(j)] = req[j].version

\* A task of its own keeps both for a job.
LEMMA OwnSwitch ==
  ASSUME LockInv, CheckedRuns, Switched, NEW j \in Jobs, PipelineStep(j)
  PROVE  /\ pc'[j] \in {"discover", "check", "promote"} =>
              units'[Own(j)] \in {"running", "loaded"}
         /\ pc'[j] \in SwitchTasks \ {"succeed"} =>
              wired'[App(j)] = req[j].version
<1> USE DEF LockInv
<1>1. App(j) \in Apps BY JobFields
<1>2. CASE CheckRunning(j)
  BY <1>2 DEF CheckRunning, Goto, TypeOK, SwitchTasks, shared
<1>3. CASE Discover(j) \/ Check(j)
  <2>1. /\ units'[Own(j)] \in {"running", "loaded"}
        /\ pc'[j] \in {"check", "promote"}
    BY <1>3 DEF Discover, Check, CheckedRuns, Goto, TypeOK, shared
  <2> QED BY <2>1 DEF SwitchTasks
<1>4. CASE Promote(j)
  <2>1. wired'[App(j)] = req[j].version
    BY <1>1, <1>4 DEF Promote, WireProxy, Upstream, TypeOK
  <2>2. units'[Own(j)] \in {"running", "loaded"}
    BY <1>4 DEF Promote, CheckedRuns
  <2> QED BY <2>1, <2>2
<1>5. CASE pc[j] \in SwitchTasks
  <2>1. pc'[j] \notin {"discover", "check", "promote"}
    BY <1>5
       DEF PipelineStep, StartCount, StartWrite, Prepare, Stop, WaitStop,
           Undeploy, WaitUndeploy, Register, DeployAll, Deploy, StartUnits,
           CheckRunning, Discover, Check, Promote, StopOthers, WaitStopOthers,
           UndeployOthers, WaitUndeployOthers, Succeed, TaskFails, FleetStop,
           WaitForStop, FleetUndeploy, WaitForUndeploy, Goto, Advance, TypeOK,
           SwitchTasks
  <2>2. UNCHANGED wired
    BY <1>5
       DEF PipelineStep, StartCount, StartWrite, Prepare, Stop, WaitStop,
           Undeploy, WaitUndeploy, Register, DeployAll, Deploy, StartUnits,
           CheckRunning, Discover, Check, Promote, StopOthers, WaitStopOthers,
           UndeployOthers, WaitUndeployOthers, Succeed, TaskFails, FleetStop,
           WaitForStop, FleetUndeploy, WaitForUndeploy, shared, SwitchTasks
  <2>3. pc[j] = "succeed" => pc'[j] \notin SwitchTasks \ {"succeed"}
    BY DEF PipelineStep, StartCount, StartWrite, Prepare, Stop, WaitStop,
           Undeploy, WaitUndeploy, Register, DeployAll, Deploy, StartUnits,
           CheckRunning, Discover, Check, Promote, StopOthers, WaitStopOthers,
           UndeployOthers, WaitUndeployOthers, Succeed, TaskFails, Goto,
           Advance, TypeOK, SwitchTasks
  <2> QED BY <1>5, <2>1, <2>2, <2>3 DEF Switched
<1>6. CASE /\ ~CheckRunning(j) /\ ~Discover(j) /\ ~Check(j) /\ ~Promote(j)
           /\ pc[j] \notin SwitchTasks
  <2>1. pc'[j] \notin {"discover", "check", "promote"} \cup SwitchTasks
    BY <1>6
       DEF PipelineStep, StartCount, StartWrite, Prepare, Stop, WaitStop,
           Undeploy, WaitUndeploy, Register, DeployAll, Deploy, StartUnits,
           StopOthers, WaitStopOthers, UndeployOthers, WaitUndeployOthers,
           Succeed, TaskFails, FleetStop, WaitForStop, FleetUndeploy,
           WaitForUndeploy, Goto, Advance, TypeOK, SwitchTasks
  <2> QED BY <2>1
<1> QED BY <1>2, <1>3, <1>4, <1>5, <1>6

\* Other jobs do not switch the proxy of an application at work.
LEMMA WiredFrame ==
  ASSUME LockInv, NEW i \in Jobs,
         PipelineStep(i) \/ CallbackStep(i) \/ LockStep(i),
         NEW j \in Jobs, i # j, Busy(j)
  PROVE  wired'[App(j)] = wired[App(j)]
<1> USE DEF LockInv
<1>1. CASE Promote(i)
  <2>1. Busy(i)
    BY <1>1 DEF Promote, Busy, Tasks, DeployTasks
  <2>2. App(i) # App(j) /\ App(j) \in Apps BY <2>1, Exclusion, JobFields
  <2> QED BY <1>1, <2>2 DEF Promote, WireProxy, TypeOK
<1>2. CASE ~Promote(i) /\ PipelineStep(i)
  BY <1>2
     DEF PipelineStep, StartCount, StartWrite, Prepare, Stop, WaitStop,
         Undeploy, WaitUndeploy, Register, DeployAll, Deploy, StartUnits,
         CheckRunning, Discover, Check, StopOthers, WaitStopOthers,
         UndeployOthers, WaitUndeployOthers, Succeed, TaskFails, FleetStop,
         WaitForStop, FleetUndeploy, WaitForUndeploy, shared
<1>3. CASE CallbackStep(i)
  BY <1>3 DEF CallbackStep, WaitOver, WaitError, WaitExhausted, ErrorEvent,
              ErrorUndeploy, ReleaseLock, CallbackFails, shared
<1>4. CASE LockStep(i)
  BY <1>4 DEF LockStep, Submit, AcquireLock, LoseLock, GiveUpLock, shared
<1> QED BY <1>1, <1>2, <1>3, <1>4

\* Every step keeps both.
LEMMA SwitchStep ==
  ASSUME LockInv, Timely, CheckedRuns, Switched, [Next]_vars
  PROVE  CheckedRuns' /\ Switched'
<1> USE DEF LockInv
<1>a. SwitchTasks \cup {"discover", "check", "promote"}
        \subseteq Tasks \ {"start", "stop"}
  BY DEF Tasks, StartTasks, UndeployTasks, DeployTasks, SwitchTasks
<1>1. ASSUME NEW i \in Jobs, PipelineStep(i) \/ CallbackStep(i)
      PROVE  CheckedRuns' /\ Switched'
  <2>1. UNCHANGED req /\ \A j \in Jobs \ {i} : pc'[j] = pc[j]
    BY <1>1, OwnThreads
  <2>2. ASSUME CallbackStep(i) PROVE pc' = pc /\ pc[i] \notin Tasks
    BY <2>2
       DEF CallbackStep, WaitOver, WaitError, WaitExhausted, ErrorEvent,
           ErrorUndeploy, ReleaseLock, CallbackFails, OneThread, Sequential, Tasks,
           StartTasks, UndeployTasks, DeployTasks, SwitchTasks
  <2>3. ASSUME NEW j \in Jobs, j # i, pc[j] \in Tasks, IsCreate(j)
        PROVE  units'[Own(j)] = units[Own(j)] /\ wired'[App(j)] = wired[App(j)]
    BY <1>1, <2>3, JobFields, WorkFrame, WiredFrame DEF Busy
  <2>4. ASSUME NEW j \in Jobs, pc'[j] \in {"discover", "check", "promote"}
        PROVE  units'[Own(j)] \in {"running", "loaded"}
    <3>1. CASE j = i BY <1>1, <1>a, <2>2, <2>4, <3>1, OwnSwitch
    <3>2. CASE j # i
      <4>1. pc[j] \in Tasks /\ pc[j] \in DeployTasks
        BY <1>a, <2>1, <2>4, <3>2 DEF DeployTasks
      <4>2. IsCreate(j) BY <4>1 DEF Shape
      <4> QED BY <2>1, <2>3, <2>4, <3>2, <4>1, <4>2 DEF CheckedRuns
    <3> QED BY <3>1, <3>2
  <2>5. ASSUME NEW j \in Jobs, pc'[j] \in SwitchTasks \ {"succeed"}
        PROVE  wired'[App(j)] = req[j].version
    <3>1. CASE j = i BY <1>1, <1>a, <2>2, <2>5, <3>1, OwnSwitch
    <3>2. CASE j # i
      <4>1. pc[j] \in Tasks /\ pc[j] \in SwitchTasks \ {"succeed"}
        BY <1>a, <2>1, <2>5, <3>2
      <4>2. IsCreate(j) BY <4>1 DEF Shape
      <4> QED BY <2>1, <2>3, <2>5, <3>2, <4>1, <4>2 DEF Switched
    <3> QED BY <3>1, <3>2
  <2> QED BY <2>1, <2>4, <2>5 DEF CheckedRuns, Switched, Own, App
<1>2. ASSUME UNCHANGED <<req, wired>>,
             \A d \in Deployments :
               units[d] \in {"running", "loaded"} =>
                 units'[d] \in {"running", "loaded"},
             \A j \in Jobs : pc'[j] \in SwitchTasks \cup {"discover", "check", "promote"}
               => pc[j] = pc'[j]
      PROVE  CheckedRuns' /\ Switched'
  <2>1. CheckedRuns'
    <3> SUFFICES ASSUME NEW j \in Jobs,
                        pc'[j] \in {"discover", "check", "promote"}
                 PROVE  units'[Own(j)] \in {"running", "loaded"}
      BY <1>2 DEF CheckedRuns, Own
    <3>1. Own(j) \in Deployments
      BY <1>2, JobFields DEF Shape, DeployTasks
    <3> QED BY <1>2, <3>1 DEF CheckedRuns
  <2>2. Switched' BY <1>2 DEF Switched, App
  <2> QED BY <2>1, <2>2
<1>3. ASSUME NEW i \in Jobs, LockStep(i) PROVE CheckedRuns' /\ Switched'
  <2>1. UNCHANGED <<req, wired, units>>
    BY <1>3 DEF LockStep, Submit, AcquireLock, LoseLock, GiveUpLock, shared
  <2>2. \A j \in Jobs : pc'[j] = pc[j]
                        \/ pc'[j] \in {"lock", "abandoned", "start", "stop"}
    BY <1>3 DEF LockStep, Submit, AcquireLock, LoseLock, GiveUpLock, Goto, TypeOK
  <2> QED BY <1>2, <2>1, <2>2 DEF SwitchTasks
<1>4. ASSUME NEW a \in Apps, LockExpires(a) PROVE CheckedRuns' /\ Switched'
  BY <1>4, <1>2 DEF LockExpires, shared
<1>5. ASSUME NEW d \in Deployments, UnitsChange(d)
      PROVE  CheckedRuns' /\ Switched'
  <2>1. \A e \in Deployments : units[e] \in {"running", "loaded"} =>
                                 units'[e] \in {"running", "loaded"}
    BY <1>5 DEF UnitsChange, TypeOK, Active
  <2> QED BY <1>5, <1>2, <2>1 DEF UnitsChange
<1>6. CASE UNCHANGED vars BY <1>6, <1>2 DEF vars
<1> QED BY <1>1, <1>3, <1>4, <1>5, <1>6 DEF Next

\* Both are invariants of timely pipelines.
LEMMA SwitchInductive == ASSUME Timely PROVE Spec => [](CheckedRuns /\ Switched)
<1>1. Init => CheckedRuns /\ Switched
  BY DEF Init, CheckedRuns, Switched, SwitchTasks
<1>2. LockInv /\ CheckedRuns /\ Switched /\ [Next]_vars
        => (CheckedRuns /\ Switched)'
  BY SwitchStep
<1> QED BY <1>1, <1>2, LockInductive, PTL DEF Spec

\* When pipelines finish within the lease of their lock, the proxy is switched
\* only to a version whose units run, or ended by themselves since the last
\* check.
THEOREM SwitchedAfterCheck == ASSUME Timely PROVE Spec => WiredAfterCheck
<1>1. LockInv /\ CheckedRuns /\ [Next]_vars
        => [\A a \in Apps, v \in Versions :
              wired'[a] = v /\ wired[a] # v =>
                units[<<a, v>>] \in {"running", "loaded"}]_vars
  <2> SUFFICES ASSUME LockInv, CheckedRuns, [Next]_vars,
                      NEW a \in Apps, NEW v \in Versions,
                      wired'[a] = v, wired[a] # v
               PROVE  units[<<a, v>>] \in {"running", "loaded"}
    OBVIOUS
  <2> USE DEF LockInv
  <2>1. PICK j \in Jobs : Promote(j)
    <3>1. ASSUME NEW j \in Jobs, PipelineStep(j) PROVE Promote(j)
      BY <3>1
         DEF PipelineStep, StartCount, StartWrite, Prepare, Stop, WaitStop,
             Undeploy, WaitUndeploy, Register, DeployAll, Deploy, StartUnits,
             CheckRunning, Discover, Check, StopOthers, WaitStopOthers,
             UndeployOthers, WaitUndeployOthers, Succeed, TaskFails, FleetStop,
             WaitForStop, FleetUndeploy, WaitForUndeploy, shared
    <3>2. ASSUME NEW j \in Jobs PROVE ~LockStep(j) /\ ~CallbackStep(j)
      BY DEF LockStep, Submit, AcquireLock, LoseLock, GiveUpLock, CallbackStep,
             WaitOver, WaitError, WaitExhausted, ErrorEvent, ErrorUndeploy,
             ReleaseLock, CallbackFails, shared
    <3> QED BY <3>1, <3>2 DEF Next, LockExpires, UnitsChange, vars, shared
  <2>2. pc[j] = "promote" /\ a = App(j) /\ v = req[j].version
    BY <2>1 DEF Promote, WireProxy, Upstream, TypeOK
  <2> QED BY <2>2 DEF CheckedRuns, Own, App
<1> QED
  BY <1>1, SwitchInductive, LockInductive, PTL DEF Spec, WiredAfterCheck

\* When pipelines finish within the lease of their lock, the units that the
\* proxy routes to are taken down only by a job entitled to.
THEOREM TakenDownOnPurpose ==
  ASSUME Timely PROVE Spec => WiredTakenDownOnPurpose
<1> DEFINE Purpose ==
      \A d \in Deployments :
        /\ wired[d[1]] = d[2]
        /\ units[d] \in {"launched", "running"}
        /\ units'[d] \in {"stopping", "removing"}
        => \E j \in Jobs : TakesDown(j, d)
<1>1. LockInv /\ Switched /\ [Next]_vars => [Purpose]_vars
  <2> SUFFICES ASSUME LockInv, Switched, [Next]_vars,
                      NEW d \in Deployments, wired[d[1]] = d[2],
                      units[d] \in {"launched", "running"},
                      units'[d] \in {"stopping", "removing"}
               PROVE  \E j \in Jobs : TakesDown(j, d)
    OBVIOUS
  <2> USE DEF LockInv
  <2>1. PICK j \in Jobs : PipelineStep(j) \/ ErrorUndeploy(j)
    <3>1. ASSUME NEW j \in Jobs PROVE ~LockStep(j)
      BY DEF LockStep, Submit, AcquireLock, LoseLock, GiveUpLock, shared
    <3>2. ASSUME NEW j \in Jobs, CallbackStep(j) PROVE ErrorUndeploy(j)
      BY <3>2 DEF CallbackStep, WaitOver, WaitError, WaitExhausted, ErrorEvent,
                  ReleaseLock, CallbackFails, shared
    <3>3. ASSUME NEW e \in Deployments PROVE ~UnitsChange(e)
      BY DEF UnitsChange, TypeOK, Active
    <3> QED BY <3>1, <3>2, <3>3 DEF Next, LockExpires, vars, shared
  <2>2. ASSUME NEW ds, d \notin ds PROVE ~StopUnits(ds) /\ ~RemoveUnits(ds)
    BY <2>2 DEF StopUnits, RemoveUnits
  <2>3. CASE ErrorUndeploy(j)
    <3>1. d = Own(j) BY <2>2, <2>3 DEF ErrorUndeploy
    <3> QED BY <2>3, <3>1 DEF ErrorUndeploy, TakesDown, Busy, Callbacks
  <2>4. CASE Stop(j) \/ Undeploy(j)
    <3>1. pc[j] \in {"stop", "undeploy"} /\ d \in Scope(j)
      BY <2>2, <2>4 DEF Stop, Undeploy, FleetStop, FleetUndeploy
    <3> QED BY <3>1 DEF TakesDown, Busy, Tasks, UndeployTasks
  <2>5. CASE StopOthers(j) \/ UndeployOthers(j)
    <3>1. pc[j] \in SwitchTasks \ {"succeed"} /\ d \in Others(j)
      BY <2>2, <2>5
         DEF StopOthers, UndeployOthers, FleetStop, FleetUndeploy, SwitchTasks
    <3>2. d[1] = App(j) /\ d[2] # req[j].version
      BY <3>1 DEF Others, OfApp, Own, App
    <3> QED BY <3>1, <3>2 DEF Switched
  <2>6. CASE PipelineStep(j) /\ ~Stop(j) /\ ~Undeploy(j) /\ ~StopOthers(j)
             /\ ~UndeployOthers(j)
    <3>1. ASSUME NEW e \in Deployments PROVE ~SubmitUnits(e) /\ ~LaunchUnits(e)
      BY DEF SubmitUnits, LaunchUnits, TypeOK
    <3>2. Deploy(j) \/ StartUnits(j) => Own(j) \in Deployments
      BY JobFields DEF Deploy, StartUnits, Shape, DeployTasks
    <3> QED
      BY <2>6, <3>1, <3>2
         DEF PipelineStep, StartCount, StartWrite, Prepare, WaitStop,
             WaitUndeploy, Register, DeployAll, Deploy, StartUnits,
             CheckRunning, Discover, Check, Promote, WaitStopOthers,
             WaitUndeployOthers, Succeed, TaskFails, WaitForStop,
             WaitForUndeploy, shared
  <2> QED BY <2>1, <2>3, <2>4, <2>5, <2>6
<1> QED
  BY <1>1, SwitchInductive, LockInductive, PTL
     DEF Spec, WiredTakenDownOnPurpose, Purpose
-----------------------------------------------------------------------------
(* The limit of started deployments.                                       *)

\* The applications with a create between its count and its mark, whose
\* deployment is not counted yet.
Marking ==
  {a \in Apps : \E j \in Jobs :
     pc[j] = "starting" /\ App(j) = a /\ Own(j) \notin Started}

\* What is counted and what will be, by those that counted already.
StartBound ==
  /\ IsFiniteSet(Started)
  /\ Cardinality(Started) + Cardinality(Marking) < Limit + Cardinality(Apps)

\* The ways in which a step changes what is counted and what will be.
MarksFewer == Started' \subseteq Started /\ Marking' \subseteq Marking
MarkReset(d) ==
  Started' = Started \ {d} /\ Marking' \subseteq Marking \cup {d[1]}
Marks(d) ==
  /\ Started' = Started \cup {d}
  /\ d[1] \in Marking
  /\ Marking' \subseteq Marking \ {d[1]}

\* Nobody begins to mark, and what was counted of those that do still is.
LEMMA NoNewMarks ==
  ASSUME UNCHANGED req,
         \A i \in Jobs : pc'[i] = "starting" =>
            pc[i] = "starting" /\ (Own(i) \in Started => Own(i) \in Started')
  PROVE  Marking' \subseteq Marking
BY DEF Marking, Own, App

\* A create that is submitted again takes its own deployment out of the count.
LEMMA LockMarks ==
  ASSUME LockInv, NEW j \in Jobs, LockStep(j)
  PROVE  MarksFewer \/ \E d \in Started : MarkReset(d)
<1> USE DEF LockInv
<1>1. UNCHANGED req /\ \A i \in Jobs \ {j} : pc'[i] = pc[i]
  BY OwnThreads
<1>2. pc'[j] # "starting"
  BY DEF LockStep, Submit, AcquireLock, LoseLock, GiveUpLock, Goto, TypeOK
<1>3. CASE UNCHANGED doc
  <2>1. Started' = Started BY <1>3 DEF Started
  <2> QED BY <1>1, <1>2, <2>1, NoNewMarks DEF MarksFewer
<1>4. CASE doc' # doc
  <2>1. IsCreate(j) /\ doc' = [doc EXCEPT ![Own(j)] = "NEW"]
    BY <1>4 DEF LockStep, Submit, AcquireLock, LoseLock, GiveUpLock, shared
  <2>2. Own(j) \in Deployments BY <2>1, JobFields
  <2>3. Started' = Started \ {Own(j)} BY <2>1, <2>2 DEF Started, TypeOK
  <2>4. CASE Own(j) \in Started
    <3>1. Own(j)[1] = App(j) BY DEF Own, App
    <3>2. Marking' \subseteq Marking \cup {App(j)}
      <4> SUFFICES ASSUME NEW a \in Marking', a # App(j) PROVE a \in Marking
        OBVIOUS
      <4>1. PICK i \in Jobs :
              pc'[i] = "starting" /\ App(i)' = a /\ Own(i)' \notin Started'
        BY DEF Marking
      <4>2. pc[i] = "starting" /\ App(i) = a /\ Own(i) \notin Started'
        BY <4>1, <1>1, <1>2 DEF App, Own
      <4>3. Own(i) # Own(j) BY <4>2, <3>1 DEF Own, App
      <4>4. Own(i) \notin Started BY <4>2, <4>3, <2>3
      <4> QED BY <4>2, <4>4 DEF Marking
    <3> QED BY <2>3, <2>4, <3>1, <3>2 DEF MarkReset
  <2>5. CASE Own(j) \notin Started
    <3>1. Started' = Started BY <2>3, <2>5
    <3> QED BY <1>1, <1>2, <3>1, NoNewMarks DEF MarksFewer
  <2> QED BY <2>4, <2>5
<1> QED BY <1>3, <1>4

\* _start_deployment marks its deployment, if it has a document, and no other
\* create of the application is about to.
LEMMA StartMarks ==
  ASSUME LockInv, NEW j \in Jobs, StartWrite(j)
  PROVE  MarksFewer \/ \E d \in Deployments \ Started : Marks(d)
<1> USE DEF LockInv
<1>0. PipelineStep(j) BY DEF PipelineStep
<1>1. UNCHANGED req /\ \A i \in Jobs \ {j} : pc'[i] = pc[i]
  BY <1>0, OwnThreads
<1>2. pc[j] = "starting" /\ pc'[j] # "starting"
  BY DEF StartWrite, Goto, TypeOK
<1>3. IsCreate(j) /\ Own(j) \in Deployments /\ App(j) \in Apps
  BY <1>2, JobFields DEF Shape, StartTasks
<1>4. \A i \in Jobs : pc'[i] = "starting" => i # j /\ pc[i] = "starting"
  BY <1>1, <1>2
<1>5. CASE doc[Own(j)] \in {"ABSENT", "STARTED"}
  <2>1. Started' = Started
    BY <1>3, <1>5 DEF StartWrite, UpdateState, Started, TypeOK
  <2> QED BY <1>1, <1>4, <2>1, NoNewMarks DEF MarksFewer
<1>6. CASE doc[Own(j)] \notin {"ABSENT", "STARTED"}
  <2>1. Own(j) \notin Started BY <1>6 DEF Started
  <2>2. Started' = Started \cup {Own(j)}
    BY <1>3, <1>6 DEF StartWrite, UpdateState, Started, TypeOK
  <2>3. Own(j)[1] = App(j) BY DEF Own, App
  <2>4. App(j) \in Marking BY <1>2, <1>3, <2>1 DEF Marking
  <2>5. Marking' \subseteq Marking BY <1>1, <1>4, <2>2, NoNewMarks
  <2>6. App(j) \notin Marking'
    <3> SUFFICES ASSUME NEW i \in Jobs, pc'[i] = "starting", App(i)' = App(j)
                 PROVE  FALSE
      BY DEF Marking
    <3>1. i # j /\ pc[i] = "starting" /\ App(i) = App(j)
      BY <1>1, <1>4 DEF App
    <3>2. Busy(i) /\ Busy(j)
      BY <1>2, <3>1 DEF Busy, Tasks, StartTasks
    <3> QED BY <3>1, <3>2, Exclusion
  <2> QED BY <1>3, <2>1, <2>2, <2>3, <2>4, <2>5, <2>6 DEF Marks
<1> QED BY <1>5, <1>6

\* Other tasks and the callbacks mark nothing, and leave the deployments of the
\* creates that are about to mark theirs.
LEMMA OthersMark ==
  ASSUME LockInv, Timely, NEW j \in Jobs, PipelineStep(j) \/ CallbackStep(j),
         ~StartCount(j), ~StartWrite(j)
  PROVE  MarksFewer
<1> USE DEF LockInv
<1>1. UNCHANGED req /\ \A i \in Jobs \ {j} : pc'[i] = pc[i]
  BY OwnThreads
<1>2. \A d \in Deployments : doc'[d] = "STARTED" => doc[d] = "STARTED"
  <2>1. CASE PipelineStep(j) BY <2>1, TasksStore
  <2>2. CASE ErrorEvent(j)
    <3>1. Own(j) \in Deployments BY <2>2, JobFields DEF ErrorEvent, Shape
    <3> QED BY <2>2, <3>1 DEF ErrorEvent, UpdateState, TypeOK
  <2>3. CASE ErrorUndeploy(j) BY <2>3 DEF ErrorUndeploy, Decommission
  <2>4. CASE CallbackStep(j) /\ ~ErrorEvent(j) /\ ~ErrorUndeploy(j)
    BY <2>4 DEF CallbackStep, WaitOver, WaitError, WaitExhausted, ReleaseLock,
                CallbackFails, shared
  <2> QED BY <2>1, <2>2, <2>3, <2>4
<1>3. Started' \subseteq Started BY <1>2 DEF Started
<1>4. pc'[j] # "starting"
  <2>1. CASE CallbackStep(j)
    BY <2>1 DEF CallbackStep, WaitOver, WaitError, WaitExhausted, ErrorEvent,
                ErrorUndeploy, ReleaseLock, CallbackFails, OneThread, Sequential, Tasks,
                StartTasks
  <2>2. CASE PipelineStep(j)
    BY <2>2
       DEF PipelineStep, Prepare, Stop, WaitStop, Undeploy, WaitUndeploy,
           Register, DeployAll, Deploy, StartUnits, CheckRunning, Discover,
           Check, Promote, StopOthers, WaitStopOthers, UndeployOthers,
           WaitUndeployOthers, Succeed, TaskFails, FleetStop, WaitForStop,
           FleetUndeploy, WaitForUndeploy, Goto, Advance, TypeOK
  <2> QED BY <2>1, <2>2
<1>5. ASSUME NEW i \in Jobs, pc'[i] = "starting", Own(i) \in Started
      PROVE  Own(i) \in Started'
  <2>1. i # j /\ pc[i] = "starting" BY <1>1, <1>4, <1>5
  <2>2. Busy(i) /\ IsCreate(i)
    BY <2>1 DEF Busy, Shape, Tasks, StartTasks
  <2>3. Own(i) \in OfApp(App(i)) BY <2>2, JobFields
  <2> QED BY <1>5, <2>1, <2>2, <2>3, WorkFrame DEF Started
<1> QED BY <1>1, <1>3, <1>4, <1>5, NoNewMarks DEF MarksFewer

\* Each of these changes keeps the bound, and so does a count below the limit,
\* however many are marking then.
LEMMA BoundKept ==
  ASSUME IsFiniteSet(Apps), StartBound,
         \/ MarksFewer
         \/ \E d \in Started : MarkReset(d)
         \/ \E d \in Deployments \ Started : Marks(d)
         \/ UNCHANGED Started /\ Cardinality(Started) < Limit
  PROVE  StartBound'
<1> DEFINE s == Cardinality(Started)
           m == Cardinality(Marking)
<1>1. IsFiniteSet(Marking) /\ IsFiniteSet(Marking')
      /\ Cardinality(Marking') <= Cardinality(Apps)
  BY FS_Subset DEF Marking
<1>2. s \in Nat /\ m \in Nat /\ Cardinality(Apps) \in Nat /\ Limit \in Nat
      /\ Cardinality(Marking') \in Nat
  BY <1>1, FS_CardinalityType, LimitAssumption DEF StartBound
<1>3. s + m < Limit + Cardinality(Apps) BY DEF StartBound
<1>4. CASE MarksFewer
  <2>1. IsFiniteSet(Started') /\ Cardinality(Started') <= s
    BY <1>4, FS_Subset DEF MarksFewer, StartBound
  <2>2. Cardinality(Marking') <= m BY <1>1, <1>4, FS_Subset DEF MarksFewer
  <2>3. Cardinality(Started') \in Nat BY <2>1, FS_CardinalityType
  <2> HIDE DEF s, m
  <2>4. Cardinality(Started') + Cardinality(Marking') < Limit + Cardinality(Apps)
    BY <1>2, <1>3, <2>1, <2>2, <2>3
  <2> QED BY <2>1, <2>4 DEF StartBound
<1>5. CASE \E d \in Started : MarkReset(d)
  <2>1. PICK d \in Started : MarkReset(d) BY <1>5
  <2>2. IsFiniteSet(Started') /\ Cardinality(Started') = s - 1
    BY <2>1, FS_RemoveElement DEF MarkReset, StartBound
  <2>3. IsFiniteSet(Marking \cup {d[1]})
        /\ Cardinality(Marking \cup {d[1]}) <= m + 1
    <3>1. Cardinality(Marking \cup {d[1]}) = IF d[1] \in Marking THEN m ELSE m + 1
      BY <1>1, FS_AddElement
    <3> HIDE DEF m
    <3>2. Cardinality(Marking \cup {d[1]}) <= m + 1 BY <3>1, <1>2
    <3> QED BY <3>2, <1>1, FS_AddElement
  <2>4. Cardinality(Marking') <= Cardinality(Marking \cup {d[1]})
    BY <2>1, <2>3, FS_Subset DEF MarkReset
  <2>5. Cardinality(Marking \cup {d[1]}) \in Nat BY <2>3, FS_CardinalityType
  <2> HIDE DEF s, m
  <2>6. Cardinality(Started') + Cardinality(Marking') < Limit + Cardinality(Apps)
    BY <1>2, <1>3, <2>2, <2>3, <2>4, <2>5
  <2> QED BY <2>2, <2>6 DEF StartBound
<1>6. CASE \E d \in Deployments \ Started : Marks(d)
  <2>1. PICK d \in Deployments \ Started : Marks(d) BY <1>6
  <2>2. IsFiniteSet(Started') /\ Cardinality(Started') = s + 1
    BY <2>1, FS_AddElement DEF Marks, StartBound
  <2>3. IsFiniteSet(Marking \ {d[1]}) /\ Cardinality(Marking \ {d[1]}) = m - 1
    BY <1>1, <2>1, FS_RemoveElement DEF Marks
  <2>4. Cardinality(Marking') <= m - 1
    BY <2>1, <2>3, FS_Subset DEF Marks
  <2> HIDE DEF s, m
  <2>5. Cardinality(Started') + Cardinality(Marking') < Limit + Cardinality(Apps)
    BY <1>2, <1>3, <2>2, <2>4
  <2> QED BY <2>2, <2>5 DEF StartBound
<1>7. CASE UNCHANGED Started /\ Cardinality(Started) < Limit
  <2>1. Cardinality(Started') = s /\ IsFiniteSet(Started') /\ s < Limit
    BY <1>7 DEF StartBound
  <2> HIDE DEF s, m
  <2>2. Cardinality(Started') + Cardinality(Marking') < Limit + Cardinality(Apps)
    BY <1>1, <1>2, <2>1
  <2> QED BY <2>1, <2>2 DEF StartBound
<1> QED BY <1>4, <1>5, <1>6, <1>7

\* Every step keeps the bound.
LEMMA StartBoundStep ==
  ASSUME LockInv, Timely, Limit > 0, IsFiniteSet(Apps), StartBound, [Next]_vars
  PROVE  StartBound'
<1>1. ASSUME NEW j \in Jobs, LockStep(j) PROVE StartBound'
  BY <1>1, LockMarks, BoundKept
<1>2. ASSUME NEW j \in Jobs, PipelineStep(j) \/ CallbackStep(j)
      PROVE  StartBound'
  <2>1. CASE StartWrite(j) BY <2>1, StartMarks, BoundKept
  <2>2. CASE StartCount(j)
    <3>1. UNCHANGED Started BY <2>2 DEF StartCount, shared, Started
    <3>2. Cardinality(Started) < Limit BY <2>2 DEF StartCount
    <3> QED BY <3>1, <3>2, BoundKept
  <2>3. CASE ~StartWrite(j) /\ ~StartCount(j)
    BY <1>2, <2>3, OthersMark, BoundKept
  <2> QED BY <2>1, <2>2, <2>3
<1>3. ASSUME UNCHANGED <<req, pc, doc>> PROVE StartBound'
  <2>1. Started' = Started BY <1>3 DEF Started
  <2>2. Marking' = Marking BY <1>3, <2>1 DEF Marking, App, Own
  <2> QED BY <2>1, <2>2 DEF StartBound
<1>4. ASSUME NEW a \in Apps, LockExpires(a) PROVE StartBound'
  BY <1>4, <1>3 DEF LockExpires, shared
<1>5. ASSUME NEW d \in Deployments, UnitsChange(d) PROVE StartBound'
  BY <1>5, <1>3 DEF UnitsChange
<1>6. CASE UNCHANGED vars BY <1>6, <1>3 DEF vars
<1> QED BY <1>1, <1>2, <1>4, <1>5, <1>6 DEF Next

\* When pipelines finish within the lease of their lock, the deployments that
\* count against START_CONCURRENCY pass it by less than there are applications.
THEOREM StartsLimited ==
  ASSUME Timely, IsFiniteSet(Apps)
  PROVE  Spec => []StartedWithinLimit
<1>1. ASSUME Init, Limit > 0 PROVE StartBound
  <2>1. Started = {} BY <1>1 DEF Init, Started
  <2>2. Marking = {} BY <1>1 DEF Init, Marking
  <2>3. Cardinality(Apps) \in Nat /\ Limit \in Nat
    BY FS_CardinalityType, LimitAssumption
  <2> QED BY <1>1, <2>1, <2>2, <2>3, FS_EmptySet DEF StartBound
<1>2. (Limit > 0 => StartBound) /\ LockInv /\ [Next]_vars
        => (Limit > 0 => StartBound')
  BY StartBoundStep
<1>3. ASSUME Limit > 0 => StartBound PROVE StartedWithinLimit
  <2> SUFFICES ASSUME Limit > 0
               PROVE  Cardinality(Started) < Limit + Cardinality(Apps)
    BY DEF StartedWithinLimit
  <2>1. IsFiniteSet(Marking) BY FS_Subset DEF Marking
  <2>2. Cardinality(Started) \in Nat /\ Cardinality(Marking) \in Nat
        /\ Cardinality(Apps) \in Nat /\ Limit \in Nat
    BY <1>3, <2>1, FS_CardinalityType, LimitAssumption DEF StartBound
  <2> QED BY <1>3, <2>2 DEF StartBound
<1> QED
  <2> DEFINE Bounded == Limit > 0 => StartBound
  <2>1. Init => Bounded BY <1>1
  <2>2. Bounded /\ LockInv /\ [Next]_vars => Bounded' BY <1>2
  <2>3. Bounded => StartedWithinLimit BY <1>3
  <2> HIDE DEF Bounded
  <2> QED BY <2>1, <2>2, <2>3, LockInductive, PTL DEF Spec
=============================================================================
