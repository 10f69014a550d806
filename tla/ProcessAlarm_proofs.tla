------------------------ MODULE ProcessAlarm_proofs ------------------------
(***************************************************************************)
(* The alarm of the process belongs to a call under way and goes off when  *)
(* the time of this call is over, for any number of greenlets.             *)
(*                                                                         *)
(* The second part is about Notifications, for every set of deployments    *)
(* and every configuration of their notifiers: a stored failure was        *)
(* announced, and an announced success is stored.                          *)
(***************************************************************************)
EXTENDS ProcessAlarm, AnnouncedStates, TLAPS

USE DEF Guarded, Retried

\* Timeouts lie within the bound on the clock.
LEMMA Timeouts == \A k \in Kinds : Seconds(k) \in 1..MaxTime
BY KindsAssumption, SecondsAssumption, MaxTimeAssumption DEF Seconds

\* A call sleeps only while it has tries left.
Napping == \A g \in Greenlets : pc[g] = "sleep" => attempts[g] < Tries

Types == TypeOK /\ Napping

\* Types are kept.
LEMMA TypesInductive ==
  /\ Init => Types
  /\ Types /\ [Next]_vars => Types'
<1> USE RetryAssumption, MaxTimeAssumption
<1>1. Init => Types BY DEF Init, TypeOK, Results, Types, Napping
<1>2. Types /\ [Next]_vars => Types'
  <2> SUFFICES ASSUME Types, [Next]_vars PROVE Types' OBVIOUS
  <2> USE DEF Types, TypeOK, Napping
  <2>1. ASSUME NEW g \in Greenlets, NEW how \in Results, Leave(g, how)
        PROVE  /\ pc' \in [Greenlets -> {"idle", "run", "sleep", "cleanup"}]
               /\ kind' \in [Greenlets -> Kinds]
               /\ attempts' \in [Greenlets -> 0..(Tries + 1)]
               /\ pause' \in [Greenlets -> 0..Delay]
               /\ result' \in [Greenlets -> Results]
               /\ Napping'
    BY <2>1 DEF Leave
  <2>2. ASSUME Elapse PROVE spent' \in [Greenlets -> 0..MaxTime]
    BY <2>2 DEF Elapse
  <2>3. ASSUME NEW g \in Greenlets, Call(g) PROVE Types'
    BY <2>3, Timeouts DEF Call, Results
  <2>4. ASSUME NEW g \in Greenlets, Finish(g) PROVE Types'
    BY <2>1, <2>4 DEF Finish, Results
  <2>5. ASSUME NEW g \in Greenlets, Retry(g) PROVE Types'
    BY <2>5 DEF Retry
  <2>6. ASSUME NEW g \in Greenlets, Wake(g) PROVE Types'
    <3>1. attempts[g] + 1 \in 0..(Tries + 1) BY <2>6 DEF Wake
    <3> QED BY <2>6, <3>1 DEF Wake
  <2>7. ASSUME NEW g \in Greenlets, Cancel(g) PROVE Types'
    BY <2>7 DEF Cancel
  <2>8. CASE Tick BY <2>2, <2>8 DEF Tick
  <2>9. CASE Expire
    <3>1. ASSUME NEW g \in Greenlets, HandleTimeout(g), Expire PROVE Types'
      BY <2>1, <2>2, <3>1 DEF HandleTimeout, Expire, Results
    <3> QED BY <2>9, <3>1 DEF Expire
  <2> QED
    BY <2>3, <2>4, <2>5, <2>6, <2>7, <2>8, <2>9 DEF Next, GreenletStep, vars
<1> QED BY <1>1, <1>2

\* All variables keep their types.
THEOREM TypeCorrect == Spec => []TypeOK
<1>1. Types => TypeOK BY DEF Types
<1> QED BY <1>1, TypesInductive, PTL DEF Spec

-----------------------------------------------------------------------------

\* A step leaves the alarm off, or with the call it was set for.
LEMMA AlarmStep ==
  ASSUME Types, AlarmOwned, [Next]_vars
  PROVE  AlarmOwned'
<1> USE DEF Types, TypeOK
<1> SUFFICES ASSUME alarm' > 0 PROVE \E h \in Greenlets : Due(h)'
  BY DEF AlarmOwned
<1>1. ASSUME NEW g \in Greenlets, Call(g) PROVE \E h \in Greenlets : Due(h)'
  <2>1. /\ kind'[g] \in Kinds /\ pc'[g] = "run" /\ spent'[g] = 0
        /\ alarm' = IF Guarded(kind'[g]) THEN Seconds(kind'[g]) ELSE alarm
    BY <1>1 DEF Call
  <2>2. CASE Guarded(kind'[g])
    <3>1. Seconds(kind'[g]) \in 1..MaxTime BY <2>1, Timeouts
    <3>2. Due(g)' BY <2>1, <2>2, <3>1 DEF Due, Inside, Seconds
    <3> QED BY <3>2
  <2>3. CASE ~Guarded(kind'[g])
    <3>1. PICK h \in Greenlets : Due(h) BY <2>1, <2>3 DEF AlarmOwned
    <3>2. h # g BY <1>1, <3>1 DEF Call, Due, Inside
    <3>3. Due(h)'
      BY <1>1, <2>1, <2>3, <3>1, <3>2 DEF Call, Due, Inside, Seconds
    <3> QED BY <3>3
  <2> QED BY <2>2, <2>3
<1>2. ASSUME NEW g \in Greenlets, Finish(g) \/ Retry(g) \/ Wake(g)
      PROVE  \E h \in Greenlets : Due(h)'
  <2>1. alarm' = alarm /\ kind' = kind /\ spent' = spent
    BY <1>2 DEF Finish, Leave, Retry, Wake
  <2>2. \A h \in Greenlets : Inside(h) => Inside(h)'
    BY <1>2 DEF Finish, Leave, Retry, Wake, Inside
  <2> QED BY <2>1, <2>2 DEF AlarmOwned, Due, Seconds
<1>3. ASSUME NEW g \in Greenlets, Cancel(g) PROVE FALSE
  BY <1>3 DEF Cancel
<1>4. CASE Tick
  <2>1. alarm > 0 /\ alarm' = alarm - 1 /\ kind' = kind /\ pc' = pc
    BY <1>4 DEF Tick
  <2>2. PICK h \in Greenlets : Due(h) BY <2>1 DEF AlarmOwned
  <2>3. spent[h] < MaxTime
    <3>1. Seconds(kind[h]) \in 1..MaxTime BY Timeouts
    <3>2. alarm \in 1..MaxTime /\ spent[h] \in 0..MaxTime BY <2>1
    <3> QED BY <2>2, <3>1, <3>2, MaxTimeAssumption DEF Due
  <2>4. spent'[h] = spent[h] + 1
    BY <1>4, <2>2, <2>3 DEF Tick, Elapse, Due, Inside
  <2>5. Seconds(kind[h]) \in Nat BY Timeouts
  <2> QED BY <2>1, <2>2, <2>4, <2>5 DEF Due, Inside, Seconds
<1>5. CASE Expire BY <1>5 DEF Expire
<1>6. CASE UNCHANGED vars
  BY <1>6 DEF vars, AlarmOwned, Due, Inside, Seconds
<1> QED
  BY <1>1, <1>2, <1>3, <1>4, <1>5, <1>6 DEF Next, GreenletStep

\* An alarm that is set is that of a call under way, and is due when the time
\* of this call is over, for any number of greenlets.
THEOREM AlarmSafety == Spec => []AlarmOwned
<1>1. Init => AlarmOwned BY DEF Init, AlarmOwned
<1> QED BY <1>1, TypesInductive, AlarmStep, PTL DEF Spec

-----------------------------------------------------------------------------
(* Notifications.                                                          *)

CONSTANTS Names, Settings
VARIABLES settings, stage, queue, sent, refused

N == INSTANCE Notifications

\* What is inductive: besides the two properties, what the stages between an
\* announcement and a write stand for.
StagesOf(d) ==
  /\ stage[d] = "new" => <<d, LEVEL_SUCCESS>> \notin announced
  /\ stage[d] = "told" => <<d, LEVEL_FAILED>> \in announced
  /\ stage[d] = "stored" => doc[d] = "PROMOTED"

DocsOK ==
  /\ stage \in [Deployments -> N!Stages]
  /\ doc \in [Deployments -> {"ABSENT", "NEW", "PROMOTED", "FAILED"}]

NoticesInv ==
  /\ DocsOK
  /\ \A d \in Deployments : StagesOf(d)
  /\ FailuresAnnounced /\ SuccessStored

\* What is to be shown of a single deployment.
OwnOK(d) ==
  /\ StagesOf(d)
  /\ doc[d] = "FAILED" => <<d, LEVEL_FAILED>> \in announced
  /\ <<d, LEVEL_SUCCESS>> \in announced =>
       \/ doc[d] = "PROMOTED"
       \/ doc[d] = "FAILED" /\ <<d, LEVEL_FAILED>> \in announced

\* NoticesInv, deployment by deployment.
LEMMA ByDeployment == NoticesInv <=> DocsOK /\ \A d \in Deployments : OwnOK(d)
BY DEF NoticesInv, OwnOK, FailuresAnnounced, SuccessStored

\* A task keeps its own deployment so, and announces and stores only that.
LEMMA TaskKeeps ==
  ASSUME NoticesInv, NEW d \in Deployments, N!TaskStep(d)
  PROVE  NoticesInv'
<1> USE DEF LEVEL_FAILED, LEVEL_SUCCESS, N!LEVEL_FAILED, N!LEVEL_SUCCESS,
            N!LEVEL_STARTED
<1>1. DocsOK'
  BY DEF NoticesInv, DocsOK, N!TaskStep, N!Create, N!Silence, N!Promote,
         N!TellSuccess, N!Fail, N!TellFailure, N!StoreFailure, N!Redeliver,
         N!CallbackFails, N!Goto, N!Store, N!Stages, N!mail
<1>2. ASSUME NEW e \in Deployments, e # d PROVE OwnOK(e)'
  <2>1. /\ stage'[e] = stage[e] /\ doc'[e] = doc[e]
        /\ \A level : <<e, level>> \in announced' <=> <<e, level>> \in announced
    BY <1>2
       DEF NoticesInv, DocsOK, N!TaskStep, N!Create, N!Silence, N!Promote,
           N!TellSuccess, N!Fail, N!TellFailure, N!StoreFailure, N!Redeliver,
           N!CallbackFails, N!Goto, N!Store, N!Announce, N!mail
  <2>2. OwnOK(e) BY ByDeployment
  <2> QED BY <2>1, <2>2 DEF OwnOK, StagesOf
<1>3. OwnOK(d)'
  <2>1. OwnOK(d) BY ByDeployment
  <2> USE <2>1 DEF OwnOK, StagesOf, NoticesInv, DocsOK, N!Goto
  <2>2. CASE N!Create(d) BY <2>2 DEF N!Create, N!Announce, N!Store
  <2>3. CASE N!Silence(d) BY <2>3 DEF N!Silence
  <2>4. CASE N!Promote(d) BY <2>4 DEF N!Promote, N!Store
  <2>5. CASE N!TellSuccess(d) BY <2>5 DEF N!TellSuccess, N!Announce
  <2>6. CASE N!Fail(d) BY <2>6 DEF N!Fail
  <2>7. CASE N!TellFailure(d) BY <2>7 DEF N!TellFailure, N!Announce
  <2>8. CASE N!StoreFailure(d) BY <2>8 DEF N!StoreFailure, N!Store
  <2>9. CASE N!Redeliver(d) BY <2>9 DEF N!Redeliver
  <2>10. CASE N!CallbackFails(d) BY <2>10 DEF N!CallbackFails
  <2> QED
    BY <2>2, <2>3, <2>4, <2>5, <2>6, <2>7, <2>8, <2>9, <2>10 DEF N!TaskStep
<1>4. \A e \in Deployments : OwnOK(e)' BY <1>2, <1>3
<1> QED BY <1>1, <1>4 DEF NoticesInv, OwnOK, FailuresAnnounced, SuccessStored

\* Delivering notices changes neither documents nor what was announced.
LEMMA MailKeeps ==
  ASSUME NoticesInv, UNCHANGED <<stage, doc, announced>> PROVE NoticesInv'
BY DEF NoticesInv, DocsOK, StagesOf, FailuresAnnounced, SuccessStored

\* The invariant holds.
LEMMA NoticesInductive == N!Spec => []NoticesInv
<1>1. N!Init => NoticesInv
  BY DEF N!Init, NoticesInv, DocsOK, N!Stages, StagesOf, FailuresAnnounced,
         SuccessStored
<1>2. NoticesInv /\ [N!Next]_(N!vars) => NoticesInv'
  <2> SUFFICES ASSUME NoticesInv, [N!Next]_(N!vars) PROVE NoticesInv' OBVIOUS
  <2>1. ASSUME NEW d \in Deployments, N!TaskStep(d) PROVE NoticesInv'
    BY <2>1, TaskKeeps
  <2>2. ASSUME NEW d \in Deployments, NEW level, N!MailStep(d, level) PROVE NoticesInv'
    BY <2>2, MailKeeps DEF N!MailStep, N!Notify, N!Post, N!PostFails
  <2>3. CASE UNCHANGED N!vars BY <2>3, MailKeeps DEF N!vars
  <2> QED BY <2>1, <2>2, <2>3 DEF N!Next
<1> QED BY <1>1, <1>2, PTL DEF N!Spec

\* Whatever is killed, run again or fails, no deployment is FAILED in the store
\* without its failure being announced.
THEOREM FailuresTold == N!Spec => []FailuresAnnounced
BY NoticesInductive, PTL DEF NoticesInv

\* Nor is a success announced that the store does not show, but for a failure
\* that is announced in turn.
THEOREM SuccessTold == N!Spec => []SuccessStored
BY NoticesInductive, PTL DEF NoticesInv
=============================================================================
