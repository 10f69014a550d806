----------------------- MODULE DistributedLock_proofs -----------------------
(***************************************************************************)
(* Proofs about DistributedLock for every set of callers, names and uuids  *)
(* and every time to live: types, the honoured lease, mutual exclusion     *)
(* within leases, and the implementation of LeasedLock.                    *)
(*                                                                         *)
(* LeaseHonoured is not inductive by itself.  It rests on two facts about  *)
(* uuids (no two callers in the service share one, and one that is not     *)
(* written yet is in no key) and on etcd's countdown of a live lease being *)
(* equal to the time left since the write.                                 *)
(***************************************************************************)
EXTENDS DistributedLock, TLAPS

ValuesKnown ==
  \A c \in Callers : pc[c] # "idle" <=> lock[c].value # NoValue

ValuesDistinct ==
  \A c, d \in Callers :
    c # d /\ pc[c] # "idle" => lock[c].value # lock[d].value

UnwrittenFresh ==
  \A c \in Callers, n \in Names :
    pc[c] \in {"writing", "refused"} => key[n] # lock[c].value

LeaseIsTTL ==
  \A c \in Callers :
    Working(c) /\ lease[c] > 0 => /\ key[lock[c].name] = lock[c].value
                                  /\ ttl[lock[c].name] = lease[c]

IInv ==
  TypeOK /\ ValuesKnown /\ ValuesDistinct /\ UnwrittenFresh /\ LeaseIsTTL

-----------------------------------------------------------------------------
\* A decrement stays within the bound.
LEMMA DecrementType ==
  ASSUME NEW k \in 0..LockTTL
  PROVE  Decrement(k) \in 0..LockTTL
BY LockTTLAssumption DEF Decrement

\* The initial state satisfies the inductive invariant.
LEMMA InitIInv == Init => IInv
BY LockTTLAssumption
   DEF Init, IInv, TypeOK, Steps, ValuesKnown, ValuesDistinct, UnwrittenFresh,
       LeaseIsTTL, Working

\* Every step of the specification preserves the types.
LEMMA TypeStep == TypeOK /\ [Next]_vars => TypeOK'
<1> SUFFICES ASSUME TypeOK, [Next]_vars PROVE TypeOK'
  OBVIOUS
<1> USE LockTTLAssumption DEF TypeOK, Steps
<1>1. CASE Tick
  BY <1>1, DecrementType DEF Tick
<1>2. ASSUME NEW c \in Callers, CallerStep(c) PROVE TypeOK'
  <2>1. CASE ApplyLock(c) BY <2>1 DEF ApplyLock
  <2>2. CASE EtcdWrite(c)
    <3>0. lock[c].name \in Names /\ lock[c].value \in Uuids \cup {NoValue}
      OBVIOUS
    <3>1. pc' \in [Callers -> Steps] /\ lock' = lock
      BY <2>2 DEF EtcdWrite
    <3>2. CASE Write(lock[c].name, lock[c].value) /\ lease' = [lease EXCEPT ![c] = LockTTL]
      <4>1. key' \in [Names -> Uuids \cup {NoValue}] BY <3>0, <3>2 DEF Write
      <4>2. ttl' \in [Names -> 0..LockTTL] BY <3>0, <3>2 DEF Write
      <4>3. lease' \in [Callers -> 0..LockTTL] BY <3>2
      <4> QED BY <3>1, <4>1, <4>2, <4>3
    <3>3. CASE UNCHANGED <<key, ttl, lease>> BY <3>1, <3>3
    <3> QED BY <2>2, <3>2, <3>3 DEF EtcdWrite
  <2>3. CASE ReturnLock(c) BY <2>3 DEF ReturnLock
  <2>4. CASE RaiseLocked(c) BY <2>4 DEF RaiseLocked, Leave
  <2>5. CASE ApplyFails(c) BY <2>5 DEF ApplyFails, Leave
  <2>6. CASE Release(c) BY <2>6 DEF Release
  <2>7. CASE ReleaseRuns(c)
    <3>1. (key \in [Names -> Uuids \cup {NoValue}] /\ ttl \in [Names -> 0..LockTTL])'
      BY <2>7 DEF ReleaseRuns, EtcdDelete
    <3>2. (/\ pc \in [Callers -> Steps]
           /\ lock \in [Callers -> [name : Names, value : Uuids \cup {NoValue}]]
           /\ lease \in [Callers -> 0..LockTTL])'
      BY <2>7 DEF ReleaseRuns, Leave
    <3> QED BY <3>1, <3>2
  <2>8. CASE ReleaseLost(c) BY <2>8 DEF ReleaseLost, Leave
  <2> QED
    BY <1>2, <2>1, <2>2, <2>3, <2>4, <2>5, <2>6, <2>7, <2>8 DEF CallerStep
<1>3. CASE UNCHANGED vars BY <1>3 DEF vars
<1> QED BY <1>1, <1>2, <1>3 DEF Next

\* A clock tick preserves the inductive invariant.
LEMMA TickStep == IInv /\ Tick => IInv'
<1> SUFFICES ASSUME IInv, Tick PROVE IInv'
  OBVIOUS
<1>1. TypeOK' BY TypeStep DEF IInv, Next
<1>2. ValuesKnown' BY DEF IInv, ValuesKnown, Tick
<1>3. ValuesDistinct' BY DEF IInv, ValuesDistinct, Tick
<1>4. UnwrittenFresh'
  BY NoValueAssumption DEF IInv, UnwrittenFresh, ValuesKnown, TypeOK, Tick
<1>5. LeaseIsTTL'
  <2> SUFFICES ASSUME NEW c \in Callers, Working(c)', lease'[c] > 0
               PROVE  /\ key'[lock'[c].name] = lock'[c].value
                      /\ ttl'[lock'[c].name] = lease'[c]
    BY DEF LeaseIsTTL
  <2>1. lock'[c] = lock[c] /\ Working(c) /\ lock[c].name \in Names
    BY DEF Working, Tick, IInv, TypeOK
  <2>2. lease[c] > 1 /\ lease'[c] = lease[c] - 1
    BY LockTTLAssumption DEF Tick, Decrement, IInv, TypeOK
  <2>3. key[lock[c].name] = lock[c].value /\ ttl[lock[c].name] = lease[c]
    BY <2>1, <2>2 DEF IInv, LeaseIsTTL, TypeOK
  <2> QED
    BY <2>1, <2>2, <2>3, LockTTLAssumption DEF Tick, Decrement, IInv, TypeOK
<1> QED BY <1>1, <1>2, <1>3, <1>4, <1>5 DEF IInv

\* A step of a caller preserves the inductive invariant.
LEMMA CallerStepIInv ==
  ASSUME NEW c \in Callers
  PROVE  IInv /\ CallerStep(c) => IInv'
<1> SUFFICES ASSUME IInv, CallerStep(c) PROVE IInv'
  OBVIOUS
<1>0. TypeOK /\ TypeOK' BY TypeStep DEF IInv, Next
<1> USE <1>0 DEF IInv
<1>1. CASE ApplyLock(c)
  <2>1. PICK n \in Names, v \in Uuids :
          Fresh(v) /\ lock' = [lock EXCEPT ![c] = [name |-> n, value |-> v]]
    BY <1>1 DEF ApplyLock
  <2>2. lock'[c].value = v /\ \A d \in Callers : d # c => lock'[d] = lock[d]
    BY <2>1 DEF TypeOK
  <2>3. pc'[c] = "writing" /\ \A d \in Callers : d # c => pc'[d] = pc[d]
    BY <1>1 DEF ApplyLock, TypeOK
  <2>4. key' = key /\ ttl' = ttl /\ lease' = lease
    BY <1>1 DEF ApplyLock
  <2>5. ValuesKnown'
    BY <2>2, <2>3, NoValueAssumption DEF ValuesKnown
  <2>6. ValuesDistinct'
    BY <2>1, <2>2, <2>3 DEF ValuesDistinct, Fresh
  <2>7. UnwrittenFresh'
    BY <2>1, <2>2, <2>3, <2>4 DEF UnwrittenFresh, Fresh
  <2>8. LeaseIsTTL'
    BY <2>2, <2>3, <2>4 DEF LeaseIsTTL, Working
  <2> QED BY <2>5, <2>6, <2>7, <2>8
<1>2. CASE EtcdWrite(c)
  <2> DEFINE n == lock[c].name
  <2>1. lock' = lock /\ n \in Names BY <1>2 DEF EtcdWrite, TypeOK
  <2>2. \A d \in Callers : d # c => pc'[d] = pc[d]
    BY <1>2 DEF EtcdWrite, TypeOK
  <2>3. pc[c] = "writing" /\ pc'[c] \in {"created", "refused"}
    BY <1>2 DEF EtcdWrite, TypeOK
  <2>4. ValuesKnown' /\ ValuesDistinct'
    BY <2>1, <2>2, <2>3 DEF ValuesKnown, ValuesDistinct
  <2>5. CASE PrevExistFalse(n)
    <3>1. /\ pc'[c] = "created" /\ lease'[c] = LockTTL
          /\ key'[n] = lock[c].value /\ ttl'[n] = LockTTL
          /\ \A m \in Names : m # n => key'[m] = key[m] /\ ttl'[m] = ttl[m]
          /\ \A d \in Callers : d # c => lease'[d] = lease[d]
      BY <1>2, <2>5 DEF EtcdWrite, PrevExistFalse, Write, TypeOK
    <3>2. UnwrittenFresh'
      BY <3>1, <2>1, <2>2, <2>3 DEF UnwrittenFresh, ValuesDistinct
    <3>3. LeaseIsTTL'
      <4> SUFFICES ASSUME NEW d \in Callers, Working(d)', lease'[d] > 0
                   PROVE  /\ key'[lock'[d].name] = lock'[d].value
                          /\ ttl'[lock'[d].name] = lease'[d]
        BY DEF LeaseIsTTL
      <4>1. CASE d = c BY <4>1, <3>1, <2>1
      <4>2. CASE d # c
        <5>1. Working(d) /\ lease[d] > 0 /\ lock[d].name \in Names
          BY <4>2, <2>2, <3>1 DEF Working, TypeOK
        <5>2. /\ key[lock[d].name] = lock[d].value
              /\ ttl[lock[d].name] = lease[d]
          BY <5>1 DEF LeaseIsTTL
        <5>3. lock[d].value # NoValue
          BY <5>1 DEF ValuesKnown, Working
        <5> QED
          BY <5>1, <5>2, <5>3, <4>2, <3>1, <2>1, <2>5 DEF PrevExistFalse
      <4> QED BY <4>1, <4>2
    <3> QED BY <2>4, <3>2, <3>3
  <2>6. CASE ~PrevExistFalse(n)
    <3>1. pc'[c] = "refused" /\ key' = key /\ ttl' = ttl /\ lease' = lease
      BY <1>2, <2>6 DEF EtcdWrite, TypeOK
    <3>2. UnwrittenFresh'
      BY <3>1, <2>1, <2>2, <2>3 DEF UnwrittenFresh
    <3>3. LeaseIsTTL'
      BY <3>1, <2>1, <2>2 DEF LeaseIsTTL, Working
    <3> QED BY <2>4, <3>2, <3>3
  <2> QED BY <2>5, <2>6
<1>3. ASSUME UNCHANGED <<key, ttl, lock, lease>>,
             ReturnLock(c) \/ Release(c)
      PROVE  IInv'
  BY <1>3
     DEF ReturnLock, Release, TypeOK, ValuesKnown, ValuesDistinct,
         UnwrittenFresh, LeaseIsTTL, Working
<1>4. ASSUME Leave(c), UNCHANGED <<key, ttl>> PROVE IInv'
  <2>1. /\ pc'[c] = "idle" /\ lock'[c].value = NoValue /\ lease'[c] = 0
        /\ \A d \in Callers : d # c => /\ pc'[d] = pc[d]
                                       /\ lock'[d] = lock[d]
                                       /\ lease'[d] = lease[d]
    BY <1>4 DEF Leave, TypeOK
  <2>2. ValuesKnown' BY <2>1 DEF ValuesKnown
  <2>3. ValuesDistinct' BY <2>1 DEF ValuesDistinct, ValuesKnown
  <2>4. UnwrittenFresh' BY <1>4, <2>1 DEF UnwrittenFresh
  <2>5. LeaseIsTTL' BY <1>4, <2>1 DEF LeaseIsTTL, Working
  <2> QED BY <2>2, <2>3, <2>4, <2>5
<1>5. ASSUME pc[c] = "deleting", EtcdDelete(c),
             Leave(c) \/ UNCHANGED <<pc, lock, lease>>
      PROVE  IInv'
  <2> DEFINE n == lock[c].name
  <2>0. /\ \A d \in Callers : d # c => /\ pc'[d] = pc[d]
                                       /\ lock'[d] = lock[d]
                                       /\ lease'[d] = lease[d]
        /\ \/ pc'[c] = "idle" /\ lock'[c].value = NoValue
           \/ pc'[c] = pc[c] /\ lock'[c] = lock[c]
        /\ n \in Names
    BY <1>5 DEF Leave, TypeOK
  <2>1. \A m \in Names :
          \/ key'[m] = key[m] /\ ttl'[m] = ttl[m]
          \/ key[m] = lock[c].value /\ key'[m] = NoValue
    BY <1>5, <2>0 DEF EtcdDelete, PrevValueIs, TypeOK
  <2>2. ValuesKnown' BY <2>0, <1>5 DEF ValuesKnown
  <2>3. ValuesDistinct' BY <2>0, <1>5 DEF ValuesDistinct, ValuesKnown
  <2>4. UnwrittenFresh'
    BY <2>0, <2>1, <1>5 DEF UnwrittenFresh, ValuesKnown
  <2>5. LeaseIsTTL'
    <3> SUFFICES ASSUME NEW d \in Callers, Working(d)', lease'[d] > 0
                 PROVE  /\ key'[lock'[d].name] = lock'[d].value
                        /\ ttl'[lock'[d].name] = lease'[d]
      BY DEF LeaseIsTTL
    <3>1. d # c BY <1>5, <2>0 DEF Working
    <3>2. Working(d) /\ lease[d] > 0 /\ lock[d].name \in Names
      BY <3>1, <2>0 DEF Working, TypeOK
    <3>3. /\ key[lock[d].name] = lock[d].value
          /\ ttl[lock[d].name] = lease[d]
      BY <3>2 DEF LeaseIsTTL
    <3>4. lock[c].value # lock[d].value
      BY <3>1, <1>5 DEF ValuesDistinct
    <3> QED BY <3>1, <3>2, <3>3, <3>4, <2>0, <2>1
  <2> QED BY <2>2, <2>3, <2>4, <2>5
<1> QED
  BY <1>1, <1>2, <1>3, <1>4, <1>5
     DEF CallerStep, ReturnLock, RaiseLocked, ApplyFails, Release, ReleaseRuns,
         ReleaseLost

\* IInv is an inductive invariant of the specification.
THEOREM Inductive == Spec => []IInv
<1>1. IInv /\ [Next]_vars => IInv'
  <2> SUFFICES ASSUME IInv, [Next]_vars PROVE IInv'
    OBVIOUS
  <2>1. CASE Tick BY <2>1, TickStep
  <2>2. ASSUME NEW c \in Callers, CallerStep(c) PROVE IInv'
    BY <2>2, CallerStepIInv
  <2>3. CASE UNCHANGED vars
    BY <2>3 DEF vars, IInv, TypeOK, ValuesKnown, ValuesDistinct,
                UnwrittenFresh, LeaseIsTTL, Working
  <2> QED BY <2>1, <2>2, <2>3 DEF Next
<1> QED BY InitIInv, <1>1, PTL DEF Spec

-----------------------------------------------------------------------------
\* Every reachable state of the lock service and of etcd is well typed.
THEOREM TypeCorrect == Spec => []TypeOK
BY Inductive, PTL DEF IInv

\* A caller keeps its key from the write to the release as long as its work
\* takes less than the time to live, whatever the others do or repeat.
THEOREM LeaseSafety == Spec => []LeaseHonoured
<1>1. IInv => LeaseHonoured BY DEF IInv, LeaseIsTTL, LeaseHonoured
<1> QED BY Inductive, <1>1, PTL

\* Two callers within their leases are never at work on one name.
THEOREM ExclusionWithinLease == Spec => []MutualExclusion
<1>1. IInv => MutualExclusion
  BY DEF IInv, LeaseIsTTL, ValuesDistinct, Working, MutualExclusion
<1> QED BY Inductive, <1>1, PTL

\* etcd's keys under LockService implement the abstract leased lock.
THEOREM Refinement == Spec => ImplementsLeasedLock
<1>1. Init => Abstract!Init
  BY DEF Init, Abstract!Init
<1>2. IInv /\ [Next]_vars => [Abstract!Next]_key
  <2> SUFFICES ASSUME IInv, [Next]_vars
               PROVE  Abstract!Next \/ UNCHANGED key
    OBVIOUS
  <2>1. CASE Tick
    <3> DEFINE expired == {n \in Names : ttl[n] = 1}
    <3>1. Abstract!Expire(expired)
      BY <2>1 DEF Tick, Abstract!Expire, IInv, TypeOK
    <3> QED BY <3>1 DEF Abstract!Next
  <2>2. ASSUME NEW c \in Callers, EtcdWrite(c) PROVE Abstract!Next \/ UNCHANGED key
    <3>1. lock[c].name \in Names /\ lock[c].value \in Uuids
      BY <2>2 DEF EtcdWrite, IInv, TypeOK, ValuesKnown
    <3>2. Abstract!Grant(lock[c].name, lock[c].value) \/ UNCHANGED key
      BY <2>2 DEF EtcdWrite, PrevExistFalse, Write, Abstract!Grant
    <3> QED BY <3>1, <3>2 DEF Abstract!Next
  <2>3. ASSUME NEW c \in Callers, ReleaseRuns(c)
        PROVE  Abstract!Next \/ UNCHANGED key
    <3>1. lock[c].name \in Names /\ lock[c].value \in Uuids
      BY <2>3 DEF ReleaseRuns, IInv, TypeOK, ValuesKnown
    <3>2. Abstract!Release(lock[c].name, lock[c].value)
      BY <2>3 DEF ReleaseRuns, EtcdDelete, PrevValueIs, Abstract!Release
    <3> QED BY <3>1, <3>2 DEF Abstract!Next
  <2> QED
    BY <2>1, <2>2, <2>3
       DEF Next, CallerStep, ApplyLock, ReturnLock, RaiseLocked, ApplyFails,
           Release, ReleaseLost, vars
<1> QED
  BY <1>1, <1>2, Inductive, PTL DEF Spec, ImplementsLeasedLock, Abstract!Spec
=============================================================================
