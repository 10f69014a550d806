-------------------------- MODULE Recovery_proofs --------------------------
(***************************************************************************)
(* Proofs about Recovery for every set of jobs, applications, modes,       *)
(* configs and versions, whether or not creates read the clock within one  *)
(* millisecond, and wherever pipelines fail: the document of a drawn       *)
(* version is not overwritten later, an application is lost to the next    *)
(* recovery only in its switch, and clones replace what they were made of. *)
(*                                                                         *)
(* The argument: a promoted document is that of a run of create which is   *)
(* done (PromotedRun), and such a run takes no more steps, so that only    *)
(* the switch of another run, or one with the same id, can change it.      *)
(* While an id belongs to one run, the document follows the phases of that *)
(* run (OwnState); what a recovery finds settled is then settled for good  *)
(* (SourceSettled), and what the switch of the clone retires stays so      *)
(* until the clone is promoted (OthersRetired).                            *)
(***************************************************************************)
EXTENDS Recovery, TLAPS

DocType == [state : DocStates, config : Configs \cup {None}]
JobType ==
  [phase : Phases, app : Apps \cup {None}, config : Configs \cup {None},
   version : Versions \cup {None}, source : Deployments \cup {None}]

\* The phases after the create of a job.
Stages == Phases \ {"idle", "queued"}

\* What the fields of a run of create are in each phase.
Placed ==
  \A j \in Jobs :
    /\ job[j].phase # "idle" => job[j].app \in Apps
    /\ job[j].phase \in Stages \ {"failed"} => job[j].version \in Versions
    /\ job[j].phase = "queued" => job[j].version \in Named \cup {None}

\* A promoted document is that of a run of create that has succeeded.
PromotedRun ==
  \A d \in Deployments : doc[d].state = "PROMOTED" =>
    \E i \in Jobs : Own(i) = d /\ job[i].phase = "done"

DocInv == TypeOK /\ Placed /\ PromotedRun

\* A user or a recovery gives idle runs something to do.
Queued(i) ==
  /\ job[i] = Idle /\ job'[i].phase = "queued"
  /\ job'[i] \in JobType /\ job'[i].app \in Apps
  /\ job'[i].version \in Named \cup {None}
Queues ==
  /\ UNCHANGED <<clock, doc>>
  /\ job' \in [Jobs -> JobType]
  /\ \A i \in Jobs : job'[i] = job[i] \/ Queued(i)

\* A create of j that stores its document under the version v.
Creates(j, v) ==
  /\ job[j].phase = "queued" /\ job[j].app \in Apps
  /\ job[j].version \in {None, v}
  /\ v \in 1 .. MaxClock => v = clock
  /\ clock' \in 1 .. MaxClock + 1
  /\ job' \in [Jobs -> JobType]
  /\ \A i \in Jobs : i # j => job'[i] = job[i]
  /\ job'[j].phase = "created" /\ job'[j].version = v
  /\ job'[j].app = job[j].app /\ job'[j].source = job[j].source
  /\ doc' \in [Deployments -> DocType]
  /\ \A d \in Deployments : doc'[d] =
       IF d = <<job[j].app, v>> THEN [state |-> "NEW", config |-> job[j].config]
                                ELSE doc[d]

\* What every step of a job after its create does to the jobs ...
Moves(j) ==
  /\ clock' = clock
  /\ job[j].phase \notin {"idle", "done", "failed"}
  /\ job' \in [Jobs -> JobType]
  /\ \A i \in Jobs : i # j => job'[i] = job[i]
  /\ job'[j].phase \in Stages \ {"created"}
  /\ job[j].phase = "queued" => job'[j].phase = "failed"
  /\ job'[j].phase = "done" => job[j].phase = "switched"
  /\ job'[j].app = job[j].app /\ job'[j].version = job[j].version
  /\ job'[j].source = job[j].source

\* ... and to the documents.
Changes(j) ==
  /\ doc' \in [Deployments -> DocType]
  /\ \A d \in Deployments :
       /\ doc'[d].config = doc[d].config
       /\ \/ doc'[d].state = doc[d].state
          \/ /\ doc[d].state = "PROMOTED" /\ doc'[d].state = "DECOMMISSIONED"
             /\ d[1] = job[j].app /\ Switching(j)'
          \/ /\ d = Own(j) /\ job[j].phase \in {"created"} \cup Working
             /\ doc'[d].state \in {"STARTED", "PROMOTED", "FAILED"}
             /\ doc'[d].state = "PROMOTED" => job'[j].phase = "done"
  /\ Switching(j) =>
       \/ Switching(j)'
       \/ job'[j].phase = "failed"
       \/ job'[j].phase = "done" /\ doc'[Own(j)].state = "PROMOTED"

LaterStep(j) == Start(j) \/ Prepare(j) \/ Switch(j) \/ Succeed(j) \/ Fail(j)

-----------------------------------------------------------------------------
(* The steps.                                                              *)

\* Storing a state changes the state of the own document and nothing else.
LEMMA StoredDoc ==
  ASSUME TypeOK, NEW j \in Jobs, NEW s \in DocStates
  PROVE  /\ Stored(doc, j, s) \in [Deployments -> DocType]
         /\ \A d \in Deployments :
              /\ Stored(doc, j, s)[d].config = doc[d].config
              /\ Stored(doc, j, s)[d].state =
                   IF d = Own(j) THEN s ELSE doc[d].state
<1>1. \A d \in Deployments :
        Stored(doc, j, s)[d] =
          IF d = Own(j) THEN [doc[d] EXCEPT !.state = s] ELSE doc[d]
  BY DEF Stored, TypeOK
<1>2. \A d \in Deployments :
        doc[d] \in DocType
  BY DEF TypeOK, DocType
<1>3. \A d \in Deployments :
        [doc[d] EXCEPT !.state = s] = [state |-> s, config |-> doc[d].config]
  BY <1>2 DEF DocType
<1>4. Stored(doc, j, s) = [d \in Deployments |-> Stored(doc, j, s)[d]]
  BY DEF Stored, TypeOK
<1> QED BY <1>1, <1>2, <1>3, <1>4 DEF DocType

\* Retiring an application decommissions its promoted documents.
LEMMA RetiredDoc ==
  ASSUME TypeOK, NEW a
  PROVE  /\ Retired(a) \in [Deployments -> DocType]
         /\ \A d \in Deployments :
              /\ Retired(a)[d].config = doc[d].config
              /\ Retired(a)[d].state =
                   IF d[1] = a /\ doc[d].state = "PROMOTED"
                     THEN "DECOMMISSIONED" ELSE doc[d].state
<1>1. \A d \in Deployments :
        doc[d] \in DocType
  BY DEF TypeOK, DocType
<1>2. \A d \in Deployments :
        [doc[d] EXCEPT !.state = "DECOMMISSIONED"] =
          [state |-> "DECOMMISSIONED", config |-> doc[d].config]
  BY <1>1 DEF DocType
<1>3. "DECOMMISSIONED" \in DocStates BY DEF DocStates
<1> QED BY <1>1, <1>2, <1>3 DEF Retired, DocType

\* A request queues one job.
LEMMA PostQueues ==
  ASSUME TypeOK, NEW j \in Jobs, NEW a \in Apps, NEW c \in Configs,
         NEW v \in Named \cup {None}, Post(j, a, c, v)
  PROVE  Queues
<1> DEFINE new == [phase |-> "queued", app |-> a, config |-> c, version |-> v,
                   source |-> None]
<1>1. job' = [job EXCEPT ![j] = new] /\ job[j] = Idle
  BY DEF Post
<1>2. new \in JobType BY DEF JobType, Phases, Versions
<1>3. job \in [Jobs -> JobType] BY DEF TypeOK, JobType
<1> QED BY <1>1, <1>2, <1>3 DEF Queues, Queued, Post

\* A recovery queues clones of what it selected.
LEMMA RecoveryQueues ==
  ASSUME TypeOK, NEW p \in Recoveries, RecoverCluster(p)
  PROVE  Queues /\ \A i \in Jobs : job'[i] # job[i] =>
                     \E d \in Selected(p) : job'[i] = CloneDeployment(d)
<1>1. PICK f \in [Selected(p) -> {j \in Jobs : job[j] = Idle}] :
        job' = [j \in Jobs |->
            IF \E d \in Selected(p) : f[d] = j
              THEN CloneDeployment(CHOOSE d \in Selected(p) : f[d] = j)
              ELSE job[j]]
  BY DEF RecoverCluster
<1>2. job \in [Jobs -> JobType] BY DEF TypeOK, JobType
<1>3. ASSUME NEW d \in Selected(p)
      PROVE  /\ CloneDeployment(d) \in JobType
             /\ CloneDeployment(d).phase = "queued"
             /\ CloneDeployment(d).app \in Apps
             /\ CloneDeployment(d).version = None
  <2>1. d \in Deployments BY DEF Selected
  <2>2. d[1] \in Apps /\ doc[d].config \in Configs \cup {None}
    BY <2>1 DEF Deployments, TypeOK
  <2> QED BY <2>1, <2>2 DEF CloneDeployment, JobType, Phases
<1>4. ASSUME NEW i \in Jobs
      PROVE  \/ job'[i] = job[i]
             \/ /\ job[i] = Idle
                /\ \E d \in Selected(p) : job'[i] = CloneDeployment(d)
  <2>1. CASE \E d \in Selected(p) : f[d] = i
    <3>1. (CHOOSE d \in Selected(p) : f[d] = i) \in Selected(p) BY <2>1
    <3>2. job[i] = Idle BY <2>1, <1>1
    <3> QED BY <2>1, <3>1, <3>2, <1>1
  <2>2. CASE ~ \E d \in Selected(p) : f[d] = i BY <2>2, <1>1
  <2> QED BY <2>1, <2>2
<1>5. \A i \in Jobs : job'[i] = job[i] \/ Queued(i)
  BY <1>3, <1>4 DEF Queued
<1>6. job' \in [Jobs -> JobType]
  <2>1. \A i \in Jobs : job'[i] \in JobType BY <1>2, <1>5 DEF Queued
  <2>2. job' = [i \in Jobs |-> job'[i]] BY <1>1
  <2> QED BY <2>1, <2>2
<1> QED BY <1>4, <1>5, <1>6 DEF Queues, RecoverCluster

\* A create stores a document under the version its user chose or one that is
\* drawn from the clock.
LEMMA CreateSteps ==
  ASSUME TypeOK, Placed, NEW j \in Jobs, Create(j)
  PROVE  \E v \in Versions : Creates(j, v)
<1>1. job[j].phase = "queued" /\ job[j].app \in Apps BY DEF Create, Placed
<1>2. PICK v \in Versions : /\ CreateAs(j, v)
                            /\ job[j].version \in {None, v}
                            /\ v \in 1 .. MaxClock => v = clock
                            /\ clock' \in 1 .. MaxClock + 1
  <2>1. CASE job[j].version # None
    <3>1. job[j].version \in Named BY <2>1, <1>1 DEF Placed
    <3> QED BY <2>1, <3>1, NamedAssumption DEF Create, Versions, TypeOK
  <2>2. CASE job[j].version = None
    <3>1. clock \in 1 .. MaxClock
      BY <2>2, ClockAssumption DEF Create, TypeOK
    <3>2. CreateAs(j, clock) /\ clock' \in {clock, clock + 1}
      BY <2>2 DEF Create, ClockVersion
    <3> QED BY <2>2, <3>1, <3>2, ClockAssumption DEF Versions
  <2> QED BY <2>1, <2>2
<1>3. <<job[j].app, v>> \in Deployments BY <1>1 DEF Deployments
<1>4. "created" \in Phases /\ [state |-> "NEW", config |-> job[j].config] \in DocType
  BY DEF Phases, DocType, DocStates, TypeOK
<1>5. doc \in [Deployments -> DocType] /\ job \in [Jobs -> JobType]
  BY DEF TypeOK, DocType, JobType
<1>6. /\ doc' \in [Deployments -> DocType]
      /\ \A d \in Deployments : doc'[d] =
           IF d = <<job[j].app, v>>
             THEN [state |-> "NEW", config |-> job[j].config] ELSE doc[d]
  BY <1>2, <1>3, <1>4, <1>5 DEF CreateAs
<1>7. /\ job' = [job EXCEPT ![j].version = v, ![j].phase = "created"]
      /\ job' \in [Jobs -> JobType]
  BY <1>2, <1>4, <1>5 DEF CreateAs, JobType
<1>8. /\ \A i \in Jobs : i # j => job'[i] = job[i]
      /\ job'[j].phase = "created" /\ job'[j].version = v
      /\ job'[j].app = job[j].app /\ job'[j].source = job[j].source
  BY <1>7, <1>5 DEF JobType
<1> QED BY <1>1, <1>2, <1>6, <1>7, <1>8 DEF Creates

\* The steps of a job after its create.
LEMMA LaterSteps ==
  ASSUME TypeOK, Placed, NEW j \in Jobs, LaterStep(j)
  PROVE  Moves(j) /\ Changes(j)
<1>0. doc \in [Deployments -> DocType] /\ job \in [Jobs -> JobType]
  BY DEF TypeOK, DocType, JobType
<1>1. ASSUME NEW p \in Phases, Enter(j, p), UNCHANGED clock,
             job[j].phase \notin {"idle", "done", "failed"},
             p \in {"started", "deploying", "switched", "done", "failed"},
             job[j].phase = "queued" => p = "failed",
             p = "done" => job[j].phase = "switched"
      PROVE  Moves(j) /\ job'[j].phase = p
  <2>1. job' = [job EXCEPT ![j].phase = p] BY <1>1 DEF Enter
  <2>2. job' \in [Jobs -> JobType] BY <2>1, <1>0 DEF JobType
  <2>3. /\ \A i \in Jobs : i # j => job'[i] = job[i]
        /\ job'[j].phase = p /\ job'[j].app = job[j].app
        /\ job'[j].version = job[j].version /\ job'[j].source = job[j].source
    BY <2>1, <1>0 DEF JobType
  <2> QED BY <1>1, <2>2, <2>3 DEF Moves, Stages, Phases, Working
<1>2. ASSUME NEW s \in {"STARTED", "PROMOTED", "FAILED"},
             doc' = Stored(doc, j, s),
             job[j].phase \in {"created"} \cup Working,
             s = "PROMOTED" => job'[j].phase = "done",
             Switching(j) => s = "PROMOTED" \/ job'[j].phase = "failed"
      PROVE  Changes(j)
  <2>1. s \in DocStates /\ Own(j) \in Deployments
    BY <1>2 DEF DocStates, Placed, Own, Deployments, Stages, Phases, Working
  <2>2. /\ doc' \in [Deployments -> DocType]
        /\ \A d \in Deployments :
             /\ doc'[d].config = doc[d].config
             /\ doc'[d].state = IF d = Own(j) THEN s ELSE doc[d].state
    BY <1>2, <2>1, StoredDoc
  <2> QED BY <1>2, <2>1, <2>2 DEF Changes
<1>3. ASSUME doc' = doc,
             Switching(j) => Switching(j)' \/ job'[j].phase = "failed"
      PROVE  Changes(j)
  BY <1>0, <1>3 DEF Changes
<1>4. ASSUME doc' = Retired(job[j].app), Switching(j)' PROVE Changes(j)
  <2>1. /\ doc' \in [Deployments -> DocType]
        /\ \A d \in Deployments :
             /\ doc'[d].config = doc[d].config
             /\ doc'[d].state =
                  IF d[1] = job[j].app /\ doc[d].state = "PROMOTED"
                    THEN "DECOMMISSIONED" ELSE doc[d].state
    BY <1>4, RetiredDoc
  <2> QED BY <1>4, <2>1 DEF Changes
<1> USE DEF Phases, Working, Switching
<1>5. CASE Start(j)
  BY <1>5, <1>1, <1>2 DEF Start
<1>6. CASE Prepare(j)
  <2>1. Moves(j) /\ job'[j].phase = "deploying" BY <1>6, <1>1 DEF Prepare
  <2>2. Mode[job[j].app] = "red-green" => Switching(j)'
    BY <2>1 DEF Switching, Moves
  <2> QED BY <1>6, <1>3, <1>4, <2>1, <2>2 DEF Prepare
<1>7. CASE Switch(j)
  <2>1. Moves(j) /\ job'[j].phase = "switched" BY <1>7, <1>1 DEF Switch
  <2>2. Switching(j)' BY <2>1 DEF Switching
  <2> QED BY <1>7, <1>3, <1>4, <2>1, <2>2 DEF Switch
<1>8. CASE Succeed(j)
  <2>1. Moves(j) /\ job'[j].phase = "done" BY <1>8, <1>1 DEF Succeed
  <2> QED BY <1>8, <1>2, <2>1 DEF Succeed
<1>9. CASE Fail(j)
  <2>1. job[j].phase \in {"queued", "created"} \cup Working
    BY <1>9, FailsInAssumption DEF Fail
  <2>2. Moves(j) /\ job'[j].phase = "failed" BY <1>9, <2>1, <1>1 DEF Fail
  <2> QED BY <1>9, <1>2, <1>3, <2>2 DEF Fail
<1> QED BY <1>5, <1>6, <1>7, <1>8, <1>9 DEF LaterStep

\* Every step is one of these.
LEMMA Steps ==
  ASSUME TypeOK, Placed, [Next]_vars
  PROVE  \/ Queues
         \/ \E j \in Jobs, v \in Versions : Creates(j, v)
         \/ \E j \in Jobs : Moves(j) /\ Changes(j)
<1>1. CASE UNCHANGED vars
  BY <1>1 DEF vars, Queues, TypeOK, JobType
<1>2. ASSUME NEW j \in Jobs, JobStep(j)
      PROVE  \/ \E v \in Versions : Creates(j, v)
             \/ Moves(j) /\ Changes(j)
  BY <1>2, CreateSteps, LaterSteps DEF JobStep, LaterStep
<1>3. ASSUME NEW j \in Jobs, NEW a \in Apps, NEW c \in Configs,
             NEW v \in Named \cup {None}, Post(j, a, c, v)
      PROVE  Queues
  BY <1>3, PostQueues
<1>4. ASSUME NEW p \in Recoveries, RecoverCluster(p) PROVE Queues
  BY <1>4, RecoveryQueues
<1> QED BY <1>1, <1>2, <1>3, <1>4 DEF Next

-----------------------------------------------------------------------------
(* Documents.                                                              *)

\* A run keeps its id, and takes no step once it is done or has failed.
LEMMA RunsKeep ==
  ASSUME DocInv, [Next]_vars, NEW i \in Jobs, Own(i) \in Deployments
  PROVE  /\ Own(i)' = Own(i)
         /\ job[i].phase \in Stages => job'[i].phase \in Stages
         /\ job[i].phase \in {"done", "failed"} => job'[i] = job[i]
<1> USE DEF DocInv
<1>1. job[i].version \in Versions /\ job[i].version # None /\ job[i] # Idle
  BY NamedAssumption DEF Own, Deployments, Idle, Versions
<1>2. CASE Queues BY <1>1, <1>2 DEF Queues, Queued, Own
<1>3. ASSUME NEW j \in Jobs, NEW v \in Versions, Creates(j, v)
      PROVE  /\ Own(i)' = Own(i)
             /\ job[i].phase \in Stages => job'[i].phase \in Stages
             /\ job[i].phase \in {"done", "failed"} => job'[i] = job[i]
  BY <1>1, <1>3 DEF Creates, Own, Stages
<1>4. ASSUME NEW j \in Jobs, Moves(j)
      PROVE  /\ Own(i)' = Own(i)
             /\ job[i].phase \in Stages => job'[i].phase \in Stages
             /\ job[i].phase \in {"done", "failed"} => job'[i] = job[i]
  BY <1>4 DEF Moves, Own
<1> QED BY <1>2, <1>3, <1>4, Steps

\* The documents' invariant is inductive.
LEMMA DocsInductive ==
  /\ Init => DocInv
  /\ DocInv /\ [Next]_vars => DocInv'
<1>1. Init => DocInv
  <2> SUFFICES ASSUME Init PROVE DocInv OBVIOUS
  <2>1. /\ Idle \in JobType /\ Absent \in DocType
        /\ Idle.phase = "idle" /\ Absent.state = "ABSENT"
    BY DEF Idle, Absent, JobType, DocType, Phases, DocStates
  <2>2. TypeOK BY <2>1, ClockAssumption DEF Init, TypeOK, JobType, DocType
  <2>3. Placed BY <2>1 DEF Init, Placed, Stages
  <2>4. PromotedRun BY <2>1 DEF Init, PromotedRun
  <2> QED BY <2>2, <2>3, <2>4 DEF DocInv
<1>2. DocInv /\ [Next]_vars => DocInv'
  <2> SUFFICES ASSUME DocInv, [Next]_vars PROVE DocInv' OBVIOUS
  <2> USE DEF DocInv
  <2>1. \A d \in Deployments :
          (\E i \in Jobs : Own(i) = d /\ job[i].phase = "done") =>
            \E i \in Jobs : Own(i)' = d /\ job'[i].phase = "done"
    BY RunsKeep
  <2>2. CASE Queues
    <3>1. TypeOK' BY <2>2 DEF Queues, TypeOK, JobType
    <3>2. Placed' BY <2>2 DEF Queues, Queued, Placed, Stages
    <3>3. PromotedRun' BY <2>1, <2>2 DEF PromotedRun, Queues
    <3> QED BY <3>1, <3>2, <3>3
  <2>3. ASSUME NEW j \in Jobs, NEW v \in Versions, Creates(j, v) PROVE DocInv'
    <3>1. TypeOK' BY <2>3 DEF Creates, TypeOK, JobType, DocType
    <3>2. Placed' BY <2>3 DEF Creates, Placed, Stages
    <3>3. \A d \in Deployments :
            doc'[d].state = "PROMOTED" => doc[d].state = "PROMOTED"
      BY <2>3 DEF Creates
    <3>4. PromotedRun' BY <2>1, <3>3 DEF PromotedRun
    <3> QED BY <3>1, <3>2, <3>4
  <2>4. ASSUME NEW j \in Jobs, Moves(j), Changes(j) PROVE DocInv'
    <3>1. TypeOK' BY <2>4 DEF Moves, Changes, TypeOK, JobType, DocType
    <3>2. Placed'
      <4>1. ASSUME NEW i \in Jobs
            PROVE  /\ job'[i].phase # "idle" => job'[i].app \in Apps
                   /\ job'[i].phase \in Stages \ {"failed"} =>
                        job'[i].version \in Versions
                   /\ job'[i].phase = "queued" =>
                        job'[i].version \in Named \cup {None}
        <5>1. CASE i # j BY <2>4, <5>1 DEF Moves, Placed
        <5>2. CASE i = j
          <6>1. job[j].phase \in Phases BY DEF TypeOK
          <6> QED BY <2>4, <5>2, <6>1 DEF Moves, Placed, Stages
        <5> QED BY <5>1, <5>2
      <4> QED BY <4>1 DEF Placed
    <3>3. \A d \in Deployments : doc'[d].state = "PROMOTED" =>
            \/ doc[d].state = "PROMOTED"
            \/ Own(j)' = d /\ job'[j].phase = "done"
      BY <2>4 DEF Changes, Moves, Own
    <3>4. PromotedRun' BY <2>1, <3>3 DEF PromotedRun
    <3> QED BY <3>1, <3>2, <3>4
  <2> QED BY <2>2, <2>3, <2>4, Steps
<1> QED BY <1>1, <1>2

\* The document of a drawn version is not overwritten once the millisecond of
\* the version is over, by however many creates and recoveries at a time.
THEOREM NeverOverwritten == Spec => NothingOverwritten
<1> DEFINE Kept ==
      \A d \in Deployments : d[2] \in 1 .. MaxClock /\ d[2] < clock =>
        /\ doc'[d].config = doc[d].config
        /\ doc'[d].state = "NEW" => doc[d].state = "NEW"
<1>1. DocInv /\ [Next]_vars => [Kept]_vars
  <2> SUFFICES ASSUME DocInv, [Next]_vars PROVE Kept OBVIOUS
  <2> USE DEF DocInv
  <2>1. CASE Queues BY <2>1 DEF Queues
  <2>2. ASSUME NEW j \in Jobs, NEW v \in Versions, Creates(j, v) PROVE Kept
    <3>1. v \in 1 .. MaxClock => ~(v < clock)
      BY <2>2, ClockAssumption DEF Creates
    <3> QED BY <2>2, <3>1 DEF Creates
  <2>3. ASSUME NEW j \in Jobs, Moves(j), Changes(j) PROVE Kept
    BY <2>3 DEF Changes
  <2> QED BY <2>1, <2>2, <2>3, Steps
<1> QED BY <1>1, DocsInductive, PTL DEF Spec, NothingOverwritten

\* An application is lost to the next recovery only by a pipeline that fails
\* in its switch, or when a create takes the id of what is promoted.
THEOREM AppsStayRecoverable == Spec => LostOnlyInSwitch
<1> DEFINE Found ==
      \A a \in Apps : Recoverable(a) =>
        \/ Recoverable(a)'
        \/ \E j \in Jobs :
             job[j].app = a /\ Switching(j) /\ job'[j].phase = "failed"
        \/ \E v \in Versions :
             doc[<<a, v>>].state = "PROMOTED" /\ ~OneRun(<<a, v>>)'
<1>1. DocInv /\ [Next]_vars => [Found]_vars
  <2> SUFFICES
        ASSUME DocInv, [Next]_vars, NEW a \in Apps, Recoverable(a),
               \A j \in Jobs : job[j].app = a /\ Switching(j) =>
                                 job'[j].phase # "failed",
               \A v \in Versions : doc[<<a, v>>].state = "PROMOTED" =>
                                     OneRun(<<a, v>>)'
        PROVE  Recoverable(a)'
    OBVIOUS
  <2> USE DEF DocInv
  <2>1. \A v \in Versions : <<a, v>> \in Deployments BY DEF Deployments
  <2>2. CASE Queues
    <3>1. \A i \in Jobs : Switching(i) =>
            Switching(i)' /\ job'[i].app = job[i].app
      BY <2>2 DEF Queues, Queued, Switching, Idle
    <3> QED BY <2>2, <3>1 DEF Queues, Recoverable
  <2>3. \A v \in Versions : doc[<<a, v>>].state = "PROMOTED" =>
          \E i \in Jobs : /\ Own(i) = <<a, v>> /\ Own(i)' = <<a, v>>
                          /\ job[i].phase = "done"
                          /\ \A k \in Jobs : Own(k)' = <<a, v>> => k = i
    BY <2>1, RunsKeep DEF PromotedRun, OneRun
  <2>4. ASSUME NEW j \in Jobs, NEW v \in Versions, Creates(j, v)
        PROVE  Recoverable(a)'
    <3>1. \A i \in Jobs : Switching(i) =>
            Switching(i)' /\ job'[i].app = job[i].app
      BY <2>4 DEF Creates, Switching
    <3>2. \A w \in Versions :
            doc[<<a, w>>].state = "PROMOTED" => doc'[<<a, w>>].state = "PROMOTED"
      <4> SUFFICES ASSUME NEW w \in Versions, doc[<<a, w>>].state = "PROMOTED",
                          <<a, w>> = <<job[j].app, v>>
                   PROVE  FALSE
        BY <2>1, <2>4 DEF Creates
      <4>1. Own(j)' = <<a, w>> /\ job[j].phase # "done" BY <2>4 DEF Creates, Own
      <4> QED BY <2>3, <4>1
    <3>3. \A w \in Versions :
            doc'[<<a, w>>].state = "DECOMMISSIONED" =>
              doc[<<a, w>>].state = "DECOMMISSIONED"
      BY <2>1, <2>4 DEF Creates
    <3> QED BY <3>1, <3>2, <3>3 DEF Recoverable
  <2>5. ASSUME NEW j \in Jobs, Moves(j), Changes(j) PROVE Recoverable(a)'
    <3>1. CASE \E v \in Versions : doc[<<a, v>>].state = "PROMOTED"
      <4>1. PICK v \in Versions : doc[<<a, v>>].state = "PROMOTED" BY <3>1
      <4>2. Own(j) = <<a, v>> => job[j].phase = "done"
        BY <2>3, <2>5, <4>1 DEF Moves, Own
      <4>3. \/ doc'[<<a, v>>].state = "PROMOTED"
            \/ a = job[j].app /\ Switching(j)'
        BY <2>1, <2>5, <4>1, <4>2 DEF Changes, Working
      <4> QED BY <2>5, <4>3 DEF Moves, Recoverable
    <3>2. CASE \E i \in Jobs : job[i].app = a /\ Switching(i)
      <4>1. PICK i \in Jobs : job[i].app = a /\ Switching(i) BY <3>2
      <4>2. CASE i # j
        BY <2>5, <4>1, <4>2 DEF Moves, Switching, Recoverable
      <4>3. CASE i = j
        <5>1. Own(j) = <<a, job[j].version>> /\ job[j].version \in Versions
          BY <4>1, <4>3 DEF Own, Placed, Switching, Stages, Phases, Working
        <5> QED BY <2>5, <4>1, <4>3, <5>1 DEF Moves, Changes, Recoverable
      <4> QED BY <4>2, <4>3
    <3>3. CASE \A v \in Versions : doc[<<a, v>>].state # "DECOMMISSIONED"
      <4> SUFFICES ASSUME NEW v \in Versions,
                          doc'[<<a, v>>].state = "DECOMMISSIONED"
                   PROVE  Recoverable(a)'
        BY DEF Recoverable
      <4>1. a = job[j].app /\ Switching(j)' BY <2>1, <2>5, <3>3 DEF Changes
      <4> QED BY <2>5, <4>1 DEF Moves, Recoverable
    <3> QED BY <3>1, <3>2, <3>3 DEF Recoverable
  <2> QED BY <2>2, <2>4, <2>5, Steps
<1> QED BY <1>1, DocsInductive, PTL DEF Spec, LostOnlyInSwitch

-----------------------------------------------------------------------------
(* Clones.                                                                 *)

\* Recoveries ask for deployments that are not under way.
SettledOnly == RecoverStates \subseteq {"PROMOTED", "FAILED", "DECOMMISSIONED"}

DocHasRun ==
  \A d \in Deployments : doc[d].state # "ABSENT" =>
    \E i \in Jobs : Own(i) = d /\ job[i].phase \in Stages

\* A document that belongs to one run follows its phases.
OwnState ==
  \A i \in Jobs : OneRun(Own(i)) =>
    /\ job[i].phase = "created" => doc[Own(i)].state = "NEW"
    /\ job[i].phase \in Working => doc[Own(i)].state = "STARTED"

Exclusive ==
  \A i, j \in Jobs :
    job[i].phase \in Working /\ job[j].phase \in Working
    /\ job[i].app = job[j].app => i = j

OthersRetired ==
  \A j \in Jobs, d \in Deployments :
    Switching(j) /\ Mode[job[j].app] # "a/b" /\ d[1] = job[j].app =>
      doc[d].state # "PROMOTED"

\* What was cloned takes no more steps.
Settled(d) ==
  OneRun(d) => \E i \in Jobs : Own(i) = d /\ job[i].phase \in {"done", "failed"}
SourceSettled ==
  \A j \in Jobs : job[j].source # None =>
    /\ job[j].source \in Deployments
    /\ job[j].source[1] = job[j].app
    /\ Settled(job[j].source)

CloneInv ==
  /\ DocHasRun /\ OwnState /\ Exclusive /\ OthersRetired /\ SourceSettled
  /\ CloneReplacesSource

\* Where the document of a job is while it can change.
LEMMA OwnDeployment ==
  ASSUME DocInv, NEW j \in Jobs, job[j].phase \in {"created"} \cup Working
  PROVE  Own(j) \in Deployments /\ job[j].app \in Apps
BY DEF DocInv, Placed, Own, Deployments, Stages, Phases, Working

\* Runs never cease to share an id ...
LEMMA SharedStays ==
  ASSUME DocInv, [Next]_vars, NEW d \in Deployments, OneRun(d)'
  PROVE  OneRun(d)
BY RunsKeep DEF OneRun

\* ... and what is settled stays so.
LEMMA SettledStays ==
  ASSUME DocInv, [Next]_vars, NEW d \in Deployments, Settled(d)
  PROVE  Settled(d)'
<1>1. \A i \in Jobs : Own(i) = d /\ job[i].phase \in {"done", "failed"} =>
        Own(i)' = d /\ job'[i].phase \in {"done", "failed"}
  BY RunsKeep
<1> QED BY <1>1, SharedStays DEF Settled

\* Queued jobs change nothing, as long as what they clone is settled ...
LEMMA QueuesKeep ==
  ASSUME DocInv, CloneInv, [Next]_vars, Queues,
         \A i \in Jobs : Queued(i) =>
           \/ job'[i].source = None
           \/ /\ job'[i].source \in Deployments
              /\ job'[i].source[1] = job'[i].app
              /\ Settled(job'[i].source)
  PROVE  CloneInv'
<1> USE DEF CloneInv, Queues
<1>1. \A i \in Jobs : job'[i].phase \in Stages => job'[i] = job[i]
  BY DEF Queued, Stages
<1>2. {"created", "done"} \cup Working \subseteq Stages
  BY DEF Stages, Phases, Working
<1>3. DocHasRun' BY RunsKeep DEF DocHasRun
<1>4. OwnState'
  <2>1. ASSUME NEW i \in Jobs, job'[i].phase \in {"created"} \cup Working,
               OneRun(Own(i))'
        PROVE  OneRun(Own(i)) /\ job'[i] = job[i] /\ Own(i)' = Own(i)
    <3>1. job'[i] = job[i] /\ Own(i)' = Own(i) BY <1>1, <1>2, <2>1 DEF Own
    <3>2. OneRun(Own(i)) BY <2>1, <3>1, OwnDeployment, RunsKeep DEF OneRun
    <3> QED BY <3>1, <3>2
  <2> QED BY <2>1 DEF OwnState
<1>5. Exclusive' BY <1>1, <1>2 DEF Exclusive
<1>6. OthersRetired' BY <1>1, <1>2 DEF OthersRetired, Switching, Working
<1>7. SourceSettled'
  <2> SUFFICES ASSUME NEW i \in Jobs, job'[i].source # None
               PROVE  /\ job'[i].source \in Deployments
                      /\ job'[i].source[1] = job'[i].app
                      /\ Settled(job'[i].source)
    BY SettledStays DEF SourceSettled
  <2> QED BY DEF SourceSettled
<1>8. CloneReplacesSource'
  BY <1>1, <1>2, SharedStays DEF CloneReplacesSource, SourceSettled
<1> QED BY <1>3, <1>4, <1>5, <1>6, <1>7, <1>8

\* ... nor does a create that gets an id of its own, or one of others.
LEMMA CreateKeeps ==
  ASSUME DocInv, CloneInv, [Next]_vars, NEW j \in Jobs, NEW v \in Versions,
         Creates(j, v)
  PROVE  CloneInv'
<1> USE DEF CloneInv
<1> DEFINE own == <<job[j].app, v>>
<1>1. Own(j)' = own /\ own \in Deployments
  BY DEF Creates, Own, Deployments
<1>2. \A d \in Deployments : IF d = own THEN doc'[d].state = "NEW"
                                        ELSE doc'[d] = doc[d]
  BY DEF Creates
<1>3. \A i \in Jobs : i # j => job'[i] = job[i] /\ Own(i)' = Own(i)
  BY DEF Creates, Own
<1>4. /\ job'[j].phase = "created" /\ job'[j].app = job[j].app
      /\ job'[j].source = job[j].source
  BY DEF Creates
<1>5. DocHasRun'
  <2>1. "created" \in Stages BY DEF Stages, Phases
  <2> QED BY <2>1, <1>1, <1>2, <1>4, RunsKeep DEF DocHasRun
<1>6. OwnState'
  <2> SUFFICES ASSUME NEW i \in Jobs, OneRun(Own(i))', i # j,
                      job[i].phase \in {"created"} \cup Working
               PROVE  doc'[Own(i)'] = doc[Own(i)] /\ OneRun(Own(i))
    BY <1>1, <1>2, <1>3, <1>4 DEF OwnState, Working
  <2>1. Own(i) \in Deployments BY OwnDeployment
  <2>2. OneRun(Own(i)) BY <2>1, <1>3, RunsKeep DEF OneRun
  <2>3. Own(i) # own BY <1>1, <1>3 DEF OneRun
  <2> QED BY <2>1, <2>2, <2>3, <1>2, <1>3
<1>7. Exclusive' BY <1>3, <1>4 DEF Exclusive, Working
<1>8. OthersRetired' BY <1>2, <1>3, <1>4 DEF OthersRetired, Switching
<1>9. SourceSettled'
  <2>1. \A i \in Jobs : job'[i].source = job[i].source
                        /\ job'[i].app = job[i].app
    BY <1>3, <1>4
  <2> QED BY <2>1, SettledStays DEF SourceSettled
<1>10. CloneReplacesSource'
  BY <1>2, <1>3, <1>4, SharedStays DEF CloneReplacesSource, SourceSettled
<1> QED BY <1>5, <1>6, <1>7, <1>8, <1>9, <1>10

\* The steps of the pipelines keep what the clones rely on.
LEMMA LaterKeeps ==
  ASSUME DocInv, CloneInv, [Next]_vars, NEW j \in Jobs, LaterStep(j)
  PROVE  CloneInv'
<1> USE DEF CloneInv
<1>0. TypeOK /\ Placed BY DEF DocInv
<1>1. Moves(j) /\ Changes(j) BY <1>0, LaterSteps
<1>2. \A i \in Jobs : /\ i # j => job'[i] = job[i]
                      /\ job'[i].app = job[i].app
                      /\ job'[i].source = job[i].source
                      /\ Own(i)' = Own(i)
  BY <1>1 DEF Moves, Own
<1>3. DocHasRun'
  <2>1. Own(j) \in Deployments /\ job[j].phase \in {"created"} \cup Working =>
          job'[j].phase \in Stages
    BY <1>1 DEF Moves
  <2> QED BY <2>1, <1>1, <1>2, RunsKeep DEF DocHasRun, Changes
<1>4. OwnState'
  <2> SUFFICES ASSUME NEW i \in Jobs, OneRun(Own(i))'
               PROVE  /\ job'[i].phase = "created" => doc'[Own(i)].state = "NEW"
                      /\ job'[i].phase \in Working =>
                           doc'[Own(i)].state = "STARTED"
    BY <1>2 DEF OwnState
  <2>1. OneRun(Own(i)) BY <1>2 DEF OneRun
  <2>2. CASE i # j
    <3> SUFFICES ASSUME job[i].phase \in {"created"} \cup Working
                 PROVE  doc'[Own(i)].state = doc[Own(i)].state
      BY <2>1, <2>2, <1>2 DEF OwnState
    <3>1. Own(i) # Own(j) BY <2>1, <2>2 DEF OneRun
    <3>2. doc[Own(i)].state # "PROMOTED" BY <2>1 DEF OwnState
    <3> QED BY <3>1, <3>2, <1>1, OwnDeployment DEF Changes
  <2>3. CASE i = j /\ Start(j)
    <3>1. job'[j].phase = "started" /\ job[j].phase = "created"
      BY <2>3, <1>0 DEF Start, Enter, TypeOK
    <3>2. Own(j) \in Deployments BY <3>1, OwnDeployment
    <3>3. doc'[Own(j)].state = "STARTED"
      BY <2>3, <3>2, <1>0, StoredDoc DEF Start, DocStates
    <3> QED BY <2>3, <3>1, <3>3
  <2>4. CASE i = j /\ (Prepare(j) \/ Switch(j))
    <3>1. job[j].phase \in Working /\ job'[j].phase # "created"
      BY <2>4, <1>1 DEF Prepare, Switch, Working, Moves
    <3>2. Own(j) \in Deployments /\ doc[Own(j)].state = "STARTED"
      BY <2>1, <2>4, <3>1, OwnDeployment DEF OwnState
    <3>3. doc'[Own(j)].state = "STARTED"
      BY <2>4, <3>2, <1>0, RetiredDoc DEF Prepare, Switch
    <3> QED BY <2>4, <3>1, <3>3
  <2>5. CASE i = j /\ (Succeed(j) \/ Fail(j))
    BY <2>5, <1>0 DEF Succeed, Fail, Enter, TypeOK, Working
  <2> QED BY <2>2, <2>3, <2>4, <2>5 DEF LaterStep
<1>5. Exclusive'
  <2>1. CASE Start(j)
    BY <2>1, <1>2 DEF Start, Exclusive
  <2>2. CASE ~Start(j)
    <3>1. job'[j].phase \in Working => job[j].phase \in Working
      BY <2>2, <1>0
         DEF LaterStep, Prepare, Switch, Succeed, Fail, Enter, TypeOK, Working
    <3> QED BY <3>1, <1>2 DEF Exclusive
  <2> QED BY <2>1, <2>2
<1>6. \A d \in Deployments :
        doc'[d].state = "PROMOTED" /\ doc[d].state # "PROMOTED" =>
          /\ d = Own(j) /\ d[1] = job[j].app
          /\ job[j].phase = "switched" /\ job'[j].phase = "done"
  BY <1>1 DEF Changes, Moves, Own
<1>7. OthersRetired'
  <2> SUFFICES ASSUME NEW i \in Jobs, NEW d \in Deployments, Switching(i)',
                      Mode[job[i].app] # "a/b", d[1] = job[i].app,
                      doc'[d].state = "PROMOTED"
               PROVE  FALSE
    BY <1>2 DEF OthersRetired
  <2>1. CASE Switching(i)
    <3>1. doc[d].state # "PROMOTED" BY <2>1 DEF OthersRetired
    <3>2. job[i].phase \in Working /\ job'[i].phase # "done"
      BY <2>1 DEF Switching, Working
    <3> QED BY <3>1, <3>2, <1>6 DEF Exclusive, Working
  <2>2. CASE ~Switching(i)
    <3>1. i = j BY <2>2, <1>2 DEF Switching
    <3>2. job[j].app \in Apps
      BY <3>1, <1>0, <1>1 DEF Moves, Placed
    <3>3. doc' = Retired(job[j].app)
      BY <2>2, <3>1, <3>2, <1>0, ModeAssumption
         DEF LaterStep, Start, Prepare, Switch, Succeed, Fail, Enter, TypeOK,
             Switching
    <3> QED BY <3>1, <3>3, <1>0, RetiredDoc
  <2> QED BY <2>1, <2>2
<1>8. SourceSettled' BY <1>2, SettledStays DEF SourceSettled
<1>9. CloneReplacesSource'
  <2> SUFFICES ASSUME NEW i \in Jobs, NEW d \in Deployments,
                      job'[i].phase = "done", job[i].source = d,
                      Mode[job[i].app] # "a/b", OneRun(d)',
                      d[1] = job[i].app, Settled(d), job[i].source # None,
                      doc'[d].state = "PROMOTED"
               PROVE  FALSE
    <3>1. ASSUME NEW i \in Jobs, job[i].source # None,
                 job'[i].phase = "done", Mode[job[i].app] # "a/b",
                 OneRun(job[i].source)',
                 doc'[job[i].source].state = "PROMOTED"
          PROVE  \E d \in Deployments :
                   /\ job[i].source = d /\ OneRun(d)' /\ d[1] = job[i].app
                   /\ Settled(d) /\ doc'[d].state = "PROMOTED"
      BY <3>1, <1>2 DEF SourceSettled, OneRun
    <3> QED BY <3>1, <1>2 DEF CloneReplacesSource, OneRun
  <2>1. OneRun(d) BY SharedStays
  <2>2. doc[d].state # "PROMOTED"
    <3>1. CASE job[i].phase = "done" BY <3>1, <2>1 DEF CloneReplacesSource
    <3>2. CASE job[i].phase # "done"
      <4>1. i = j /\ Switching(j) BY <3>2, <1>1, <1>2 DEF Moves, Switching
      <4> QED BY <4>1 DEF OthersRetired
    <3> QED BY <3>1, <3>2
  <2>3. d = Own(j) /\ job[j].phase = "switched" BY <2>2, <1>6
  <2> QED BY <2>1, <2>3 DEF Settled, OneRun
<1> QED BY <1>3, <1>4, <1>5, <1>7, <1>8, <1>9

\* A promoted clone has replaced its source, with any number of recoveries and
\* creates at the same time, in both modes that replace what is there.
THEOREM ClonesReplace ==
  ASSUME SettledOnly
  PROVE  Spec => []CloneReplacesSource
<1>1. Init => CloneInv
  BY DEF Init, Idle, Absent, CloneInv, DocHasRun, OwnState, Exclusive,
         OthersRetired, SourceSettled, CloneReplacesSource, Switching, Working
<1>2. DocInv /\ CloneInv /\ [Next]_vars => CloneInv'
  <2> SUFFICES ASSUME DocInv, CloneInv, [Next]_vars PROVE CloneInv' OBVIOUS
  <2>0. TypeOK /\ Placed BY DEF DocInv
  <2>1. ASSUME NEW j \in Jobs, NEW a \in Apps, NEW c \in Configs,
               NEW v \in Named \cup {None}, Post(j, a, c, v)
        PROVE  CloneInv'
    <3>1. Queues BY <2>0, <2>1, PostQueues
    <3>2. \A i \in Jobs : Queued(i) => job'[i].source = None
      BY <2>0, <2>1 DEF Post, Queued, Idle, TypeOK
    <3> QED BY <3>1, <3>2, QueuesKeep
  <2>2. ASSUME NEW p \in Recoveries, RecoverCluster(p) PROVE CloneInv'
    <3>1. Queues /\ \A i \in Jobs : job'[i] # job[i] =>
                      \E d \in Selected(p) : job'[i] = CloneDeployment(d)
      BY <2>0, <2>2, RecoveryQueues
    <3>2. ASSUME NEW d \in Selected(p)
          PROVE  /\ d \in Deployments /\ Settled(d)
                 /\ CloneDeployment(d).source = d
                 /\ CloneDeployment(d).app = d[1]
      <4>1. /\ d \in Deployments
            /\ doc[d].state \in {"PROMOTED", "FAILED", "DECOMMISSIONED"}
        BY DEF Selected, Recoveries, SettledOnly
      <4>2. PICK i \in Jobs : Own(i) = d /\ job[i].phase \in Stages
        BY <4>1 DEF CloneInv, DocHasRun
      <4>3. OneRun(d) => job[i].phase \in {"done", "failed"}
        BY <4>1, <4>2 DEF CloneInv, OwnState, Stages, Phases
      <4> QED BY <4>1, <4>2, <4>3 DEF Settled, CloneDeployment
    <3>3. \A i \in Jobs : Queued(i) => job'[i] # job[i]
      BY DEF Queued, Idle
    <3> QED BY <3>1, <3>2, <3>3, QueuesKeep
  <2>3. ASSUME NEW j \in Jobs, JobStep(j) PROVE CloneInv'
    <3>1. CASE Create(j) BY <2>0, <3>1, CreateSteps, CreateKeeps
    <3>2. CASE LaterStep(j) BY <3>2, LaterKeeps
    <3> QED BY <2>3, <3>1, <3>2 DEF JobStep, LaterStep
  <2>4. CASE UNCHANGED vars
    <3>1. Queues /\ \A i \in Jobs : ~Queued(i)
      BY <2>0, <2>4 DEF vars, Queues, Queued, Idle, TypeOK, JobType
    <3> QED BY <3>1, QueuesKeep
  <2> QED BY <2>1, <2>2, <2>3, <2>4 DEF Next
<1>3. CloneInv => CloneReplacesSource BY DEF CloneInv
<1> QED BY <1>1, <1>2, <1>3, DocsInductive, PTL DEF Spec
=============================================================================
