--------------------------- MODULE SyncJobs_proofs ---------------------------
(***************************************************************************)
(* Proofs about SyncJobs for every set of executions, jobs and             *)
(* deployments: types; and, when runs finish within the lease of their     *)
(* lock (Timely), that no job replaces what it stored by something older.  *)
(*                                                                         *)
(* The argument: a run that may still write owns the lock of its job       *)
(* (RunLocked), so from its fetch to its write nobody else stores anything *)
(* in the field of that job but a reset; and what it fetched is as new as  *)
(* anything that was there to be fetched before (SnapshotsFresh).          *)
(***************************************************************************)
EXTENDS SyncJobs, TLAPS

\* A run that may still write owns the lock of its job.
RunLocked == \A e \in Executions : Working(e) => lock[kind[e]] = e

\* A version is not newer than what there is to be fetched.
NotNewer(v, w) == v = Reset \/ v <= w

\* What is stored is not newer than what there is to be fetched, nor than what
\* a run of the same job has fetched to replace it.
SnapshotsFresh ==
  /\ \A k \in Kinds, d \in Deployments : NotNewer(runtime[k][d], observed[k][d])
  /\ \A e \in Executions : pc[e] = "fetched" =>
       /\ fetched[e] <= observed[kind[e]][current[e]]
       /\ NotNewer(runtime[kind[e]][current[e]], fetched[e])

Inv == TypeOK /\ RunLocked /\ SnapshotsFresh

-----------------------------------------------------------------------------
(* Types.                                                                  *)

\* Types hold at the start.
LEMMA InitTypes == Init => TypeOK
BY MaxVersionAssumption DEF Init, TypeOK, DocStates

\* Every step keeps them.
LEMMA NextTypes == TypeOK /\ [Next]_vars => TypeOK'
<1> SUFFICES ASSUME TypeOK, [Next]_vars PROVE TypeOK'
  OBVIOUS
<1> USE DEF TypeOK, DocStates, Goto, run
<1>1. ASSUME NEW e \in Executions, ExecutionStep(e) PROVE TypeOK'
  <2>1. CASE Start(e) BY <2>1 DEF Start, JobLock!Grant
  <2>2. CASE List(e) BY <2>2 DEF List
  <2>3. CASE Fetch(e)
    <3>1. PICK d \in todo[e] :
            /\ current' = [current EXCEPT ![e] = d]
            /\ fetched' = [fetched EXCEPT ![e] = observed[kind[e]][d]]
      BY <2>3 DEF Fetch
    <3>2. d \in Deployments /\ observed[kind[e]][d] \in 0..MaxVersion OBVIOUS
    <3> QED BY <2>3, <3>1, <3>2 DEF Fetch
  <2>4. CASE Skip(e) BY <2>4 DEF Skip
  <2>5. CASE Write(e) BY <2>5 DEF Write, UpdateRuntime
  <2>6. CASE WriteFails(e) BY <2>6 DEF WriteFails
  <2>7. CASE Finish(e) BY <2>7 DEF Finish
  <2>8. CASE Release(e) BY <2>8 DEF Release, JobLock!Release
  <2>9. CASE Die(e) BY <2>9 DEF Die
  <2> QED BY <1>1, <2>1, <2>2, <2>3, <2>4, <2>5, <2>6, <2>7, <2>8, <2>9
          DEF ExecutionStep
<1>2. ASSUME NEW k \in Kinds, LockExpires(k) PROVE TypeOK'
  BY <1>2 DEF LockExpires, JobLock!Expire
<1>3. ASSUME NEW d \in Deployments, StateChange(d) PROVE TypeOK'
  BY <1>3 DEF StateChange, ResetRuntime
<1>4. ASSUME NEW d \in Deployments, Expire(d) PROVE TypeOK'
  BY <1>4 DEF Expire, ResetRuntime
<1>5. ASSUME NEW k \in Kinds, NEW d \in Deployments, Observe(k, d) PROVE TypeOK'
  <2>1. observed[k][d] + 1 \in 0..MaxVersion
    BY <1>5, MaxVersionAssumption DEF Observe
  <2> QED BY <1>5, <2>1 DEF Observe
<1>6. CASE UNCHANGED vars BY <1>6 DEF vars
<1> QED BY <1>1, <1>2, <1>3, <1>4, <1>5, <1>6 DEF Next, Environment

\* Every variable keeps its type.
THEOREM TypeCorrect == Spec => []TypeOK
BY InitTypes, NextTypes, PTL DEF Spec

-----------------------------------------------------------------------------
(* The invariant.                                                          *)

\* No run holds or has fetched anything at the start.
LEMMA InitInv == Init => Inv
<1> SUFFICES ASSUME Init PROVE Inv
  OBVIOUS
<1>1. TypeOK BY InitTypes
<1>2. RunLocked BY DEF Init, RunLocked, Working
<1>3. SnapshotsFresh BY DEF Init, SnapshotsFresh, NotNewer
<1> QED BY <1>1, <1>2, <1>3 DEF Inv

\* A lock passes on only when the run that owned it is over.
LEMMA NextRunLocked ==
  ASSUME Timely, TypeOK, RunLocked, [Next]_vars
  PROVE  RunLocked'
<1> USE DEF TypeOK, RunLocked, Working, Goto, run
<1>1. ASSUME NEW e \in Executions, ExecutionStep(e) PROVE RunLocked'
  <2>1. CASE Start(e)
    BY <2>1, NoExecutionAssumption DEF Start, JobLock!Grant
  <2>2. CASE List(e) BY <2>2 DEF List
  <2>3. CASE Fetch(e) BY <2>3 DEF Fetch
  <2>4. CASE Skip(e) BY <2>4 DEF Skip
  <2>5. CASE Write(e) BY <2>5 DEF Write
  <2>6. CASE WriteFails(e) BY <2>6 DEF WriteFails
  <2>7. CASE Finish(e) BY <2>7 DEF Finish
  <2>8. CASE Release(e) BY <2>8 DEF Release, JobLock!Release
  <2>9. CASE Die(e) BY <2>9 DEF Die
  <2> QED BY <1>1, <2>1, <2>2, <2>3, <2>4, <2>5, <2>6, <2>7, <2>8, <2>9
          DEF ExecutionStep
<1>2. ASSUME NEW k \in Kinds, LockExpires(k) PROVE RunLocked'
  BY <1>2 DEF LockExpires, JobLock!Expire
<1>3. CASE Environment
  BY <1>3 DEF Environment, StateChange, Expire, Observe
<1>4. CASE UNCHANGED vars BY <1>4 DEF vars
<1> QED BY <1>1, <1>2, <1>3, <1>4 DEF Next

\* A write concerns the run that writes and no other run of the job.
LEMMA WriteFresh ==
  ASSUME Inv, NEW e \in Executions, Write(e)
  PROVE  SnapshotsFresh'
<1> USE DEF Inv, TypeOK, Goto
<1>1. CASE doc[current[e]] = "ABSENT"
  BY <1>1 DEF Write, UpdateRuntime, SnapshotsFresh, NotNewer
<1>2. CASE doc[current[e]] # "ABSENT"
  <2>1. /\ pc[e] = "fetched"
        /\ runtime' = [runtime EXCEPT ![kind[e]][current[e]] = fetched[e]]
        /\ pc' = [pc EXCEPT ![e] = "next"]
        /\ UNCHANGED <<kind, current, fetched, observed>>
    BY <1>2 DEF Write, UpdateRuntime
  <2>2. ASSUME NEW k \in Kinds, NEW d \in Deployments
        PROVE  NotNewer(runtime'[k][d], observed'[k][d])
    <3>1. NotNewer(runtime[k][d], observed[k][d]) BY DEF SnapshotsFresh
    <3>2. fetched[e] <= observed[kind[e]][current[e]]
      BY <2>1 DEF SnapshotsFresh
    <3> QED BY <2>1, <3>1, <3>2 DEF NotNewer
  <2>3. ASSUME NEW f \in Executions, pc'[f] = "fetched"
        PROVE  /\ fetched'[f] <= observed'[kind'[f]][current'[f]]
               /\ NotNewer(runtime'[kind'[f]][current'[f]], fetched'[f])
    <3>1. f # e /\ pc[f] = "fetched" BY <2>1, <2>3
    <3>2. kind[f] # kind[e] BY <2>1, <3>1 DEF RunLocked, Working
    <3>3. runtime'[kind[f]][current[f]] = runtime[kind[f]][current[f]]
      BY <2>1, <3>2
    <3> QED BY <2>1, <3>1, <3>3 DEF SnapshotsFresh
  <2> QED BY <2>2, <2>3 DEF SnapshotsFresh
<1> QED BY <1>1, <1>2

\* Only the owner of the lock writes, and what there is gets only newer.
LEMMA NextSnapshotsFresh ==
  ASSUME Inv, [Next]_vars
  PROVE  SnapshotsFresh'
<1> USE DEF Inv, TypeOK, Goto, run
<1>1. ASSUME NEW e \in Executions, ExecutionStep(e) PROVE SnapshotsFresh'
  <2>1. CASE Start(e) BY <2>1 DEF Start, SnapshotsFresh, NotNewer
  <2>2. CASE List(e) BY <2>2 DEF List, SnapshotsFresh, NotNewer
  <2>3. CASE Fetch(e)
    <3>1. PICK d \in todo[e] :
            /\ current' = [current EXCEPT ![e] = d]
            /\ fetched' = [fetched EXCEPT ![e] = observed[kind[e]][d]]
      BY <2>3 DEF Fetch
    <3>2. /\ pc' = [pc EXCEPT ![e] = "fetched"]
          /\ UNCHANGED <<kind, runtime, observed>>
      BY <2>3 DEF Fetch
    <3>3. ASSUME NEW f \in Executions, pc'[f] = "fetched"
          PROVE  /\ fetched'[f] <= observed'[kind'[f]][current'[f]]
                 /\ NotNewer(runtime'[kind'[f]][current'[f]], fetched'[f])
      <4>1. CASE f = e
        <5>1. d \in Deployments /\ kind[e] \in Kinds OBVIOUS
        <5>2. NotNewer(runtime[kind[e]][d], observed[kind[e]][d])
          BY <5>1 DEF SnapshotsFresh
        <5>3. observed[kind[e]][d] \in Nat BY <5>1, MaxVersionAssumption
        <5>4. /\ fetched'[e] = observed[kind[e]][d] /\ current'[e] = d
              /\ kind' = kind /\ observed' = observed /\ runtime' = runtime
          BY <3>1, <3>2
        <5>5. fetched'[e] <= observed'[kind'[e]][current'[e]]
          BY <5>3, <5>4
        <5> QED BY <4>1, <5>2, <5>4, <5>5
      <4>2. CASE f # e BY <3>1, <3>2, <3>3, <4>2 DEF SnapshotsFresh
      <4> QED BY <4>1, <4>2
    <3> QED BY <3>2, <3>3 DEF SnapshotsFresh
  <2>4. CASE Skip(e) BY <2>4 DEF Skip, SnapshotsFresh, NotNewer
  <2>5. CASE Write(e) BY <2>5, WriteFresh
  <2>6. CASE WriteFails(e) BY <2>6 DEF WriteFails, SnapshotsFresh, NotNewer
  <2>7. CASE Finish(e) BY <2>7 DEF Finish, SnapshotsFresh, NotNewer
  <2>8. CASE Release(e) BY <2>8 DEF Release, SnapshotsFresh, NotNewer
  <2>9. CASE Die(e) BY <2>9 DEF Die, SnapshotsFresh, NotNewer
  <2> QED BY <1>1, <2>1, <2>2, <2>3, <2>4, <2>5, <2>6, <2>7, <2>8, <2>9
          DEF ExecutionStep
<1>2. ASSUME NEW k \in Kinds, LockExpires(k) PROVE SnapshotsFresh'
  BY <1>2 DEF LockExpires, SnapshotsFresh, NotNewer
<1>3. ASSUME NEW d \in Deployments, StateChange(d) \/ Expire(d)
      PROVE  SnapshotsFresh'
  <2>1. ResetRuntime(d) /\ UNCHANGED <<run, observed>>
    BY <1>3 DEF StateChange, Expire
  <2>2. \A k \in Kinds, x \in Deployments :
          runtime'[k][x] = IF x = d THEN Reset ELSE runtime[k][x]
    BY <2>1 DEF ResetRuntime
  <2> QED BY <2>1, <2>2 DEF SnapshotsFresh, NotNewer
<1>4. ASSUME NEW k \in Kinds, NEW d \in Deployments, Observe(k, d)
      PROVE  SnapshotsFresh'
  <2>1. \A kk \in Kinds, x \in Deployments :
          /\ observed[kk][x] \in Nat /\ observed'[kk][x] \in Nat
          /\ observed[kk][x] <= observed'[kk][x]
          /\ runtime[kk][x] = Reset \/ runtime[kk][x] \in Nat
    BY <1>4, MaxVersionAssumption DEF Observe
  <2>2. \A e \in Executions : fetched[e] \in Nat BY MaxVersionAssumption
  <2>3. UNCHANGED <<pc, kind, current, fetched, runtime>>
    BY <1>4 DEF Observe
  <2>4. \A kk \in Kinds, x \in Deployments :
          NotNewer(runtime'[kk][x], observed'[kk][x])
    BY <2>1, <2>3 DEF SnapshotsFresh, NotNewer
  <2>5. \A e \in Executions : pc[e] = "fetched" =>
          fetched[e] <= observed'[kind[e]][current[e]]
    BY <2>1, <2>2 DEF SnapshotsFresh
  <2> QED BY <2>3, <2>4, <2>5 DEF SnapshotsFresh
<1>5. CASE UNCHANGED vars BY <1>5 DEF vars, SnapshotsFresh, NotNewer
<1> QED BY <1>1, <1>2, <1>3, <1>4, <1>5 DEF Next, Environment

\* Every step keeps the invariant.
LEMMA NextInv == ASSUME Timely PROVE Inv /\ [Next]_vars => Inv'
BY NextTypes, NextRunLocked, NextSnapshotsFresh DEF Inv

-----------------------------------------------------------------------------
(* Snapshots do not go back.                                               *)

\* Only a write replaces one snapshot by another, and by a newer one.
LEMMA StepForward ==
  ASSUME Inv, [Next]_vars, NEW k \in Kinds, NEW d \in Deployments,
         runtime[k][d] # Reset, runtime'[k][d] # Reset
  PROVE  runtime'[k][d] >= runtime[k][d]
<1> USE DEF Inv, TypeOK
<1>0. runtime[k][d] \in Nat BY MaxVersionAssumption
<1>1. CASE runtime' = runtime BY <1>0, <1>1
<1>2. ASSUME NEW e \in Executions, Write(e)
      PROVE  runtime'[k][d] >= runtime[k][d]
  <2>1. CASE doc[current[e]] = "ABSENT"
    BY <1>0, <1>2, <2>1 DEF Write, UpdateRuntime
  <2>2. CASE doc[current[e]] # "ABSENT" /\ k = kind[e] /\ d = current[e]
    <3>1. runtime'[k][d] = fetched[e] BY <1>2, <2>2 DEF Write, UpdateRuntime
    <3>2. runtime[k][d] <= fetched[e]
      BY <1>2, <2>2 DEF Write, SnapshotsFresh, NotNewer
    <3>3. fetched[e] \in Nat BY MaxVersionAssumption
    <3> QED BY <1>0, <3>1, <3>2, <3>3
  <2>3. CASE doc[current[e]] # "ABSENT" /\ (k # kind[e] \/ d # current[e])
    <3>1. runtime' = [runtime EXCEPT ![kind[e]][current[e]] = fetched[e]]
      BY <1>2, <2>3 DEF Write, UpdateRuntime
    <3>2. runtime'[k][d] = runtime[k][d] BY <2>3, <3>1
    <3> QED BY <1>0, <3>2
  <2> QED BY <2>1, <2>2, <2>3
<1>3. ASSUME NEW x \in Deployments, ResetRuntime(x)
      PROVE  runtime'[k][d] >= runtime[k][d]
  <2>1. x # d BY <1>3 DEF ResetRuntime
  <2>2. runtime'[k][d] = runtime[k][d] BY <1>3, <2>1 DEF ResetRuntime
  <2> QED BY <1>0, <2>2
<1>4. ASSUME NEW e \in Executions, ExecutionStep(e), ~Write(e)
      PROVE  runtime' = runtime
  BY <1>4 DEF ExecutionStep, Start, List, Fetch, Skip, WriteFails, Finish,
              Release, Die
<1>5. ASSUME NEW kk \in Kinds, LockExpires(kk) PROVE runtime' = runtime
  BY <1>5 DEF LockExpires
<1>6. ASSUME NEW x \in Deployments, StateChange(x) \/ Expire(x)
      PROVE  ResetRuntime(x)
  BY <1>6 DEF StateChange, Expire
<1>7. ASSUME NEW kk \in Kinds, NEW x \in Deployments, Observe(kk, x)
      PROVE  runtime' = runtime
  BY <1>7 DEF Observe
<1>8. CASE UNCHANGED vars BY <1>1, <1>8 DEF vars
<1> QED BY <1>1, <1>2, <1>3, <1>4, <1>5, <1>6, <1>7, <1>8 DEF Next, Environment

\* A job never replaces what it stored by something it fetched earlier.
THEOREM SnapshotsForward == ASSUME Timely PROVE Spec => NoOlderSnapshot
<1>1. Inv /\ [Next]_vars =>
        [\A k \in Kinds, d \in Deployments :
           runtime[k][d] # Reset /\ runtime'[k][d] # Reset
           => runtime'[k][d] >= runtime[k][d]]_vars
  BY StepForward
<1> QED BY InitInv, NextInv, <1>1, PTL DEF Spec, NoOlderSnapshot
=============================================================================
