-------------------------- MODULE DistributedLock --------------------------
(***************************************************************************)
(* LockService (services/distributed_lock.py) over etcd.  A lock is a key  *)
(* that apply_lock creates with a random uuid as its value and a time to   *)
(* live, by a write that fails when the key exists (prevExist=False).      *)
(* release deletes the key only if it still has that value (prevValue).    *)
(*                                                                         *)
(* A request to etcd and its answer are separate steps: the key may expire *)
(* between them, an answer or a whole request may be lost, and a release   *)
(* may run again, because its celery task is redelivered when its worker   *)
(* dies before acknowledging it (CELERY_ACKS_LATE).                        *)
(*                                                                         *)
(* An operator called Mutant_... is a deliberately wrong version of the    *)
(* definition that follows it and is used nowhere: a property that still   *)
(* holds when it takes the place of that definition would be vacuous.      *)
(***************************************************************************)
EXTENDS Naturals

CONSTANTS
  Callers,  \* concurrent executions of code that uses a LockService
  Names,    \* resources: application names, or job names
  Uuids,    \* values uuid.uuid4() can return
  LockTTL,  \* lock_ttl of the service, in ticks of the clock
  NoValue   \* the value of a key that does not exist

ASSUME LockTTLAssumption == LockTTL \in Nat \ {0}
ASSUME NoValueAssumption == NoValue \notin Uuids

VARIABLES
  key,      \* etcd: the value of each lock key, or NoValue
  ttl,      \* etcd: ticks until each key is removed, 0 without a key
  pc,       \* where each caller is in apply_lock or release
  lock,     \* each caller's lock dictionary: the name and the value
  lease     \* history: ticks left of LockTTL since each caller's write

vars == <<key, ttl, pc, lock, lease>>

Steps == {"idle", "writing", "created", "refused", "held", "deleting"}

TypeOK ==
  /\ key \in [Names -> Uuids \cup {NoValue}]
  /\ ttl \in [Names -> 0..LockTTL]
  /\ pc \in [Callers -> Steps]
  /\ lock \in [Callers -> [name : Names, value : Uuids \cup {NoValue}]]
  /\ lease \in [Callers -> 0..LockTTL]

Init ==
  /\ key = [n \in Names |-> NoValue]
  /\ ttl = [n \in Names |-> 0]
  /\ pc = [c \in Callers |-> "idle"]
  /\ lock \in [Callers -> [name : Names, value : {NoValue}]]
  /\ lease = [c \in Callers |-> 0]

-----------------------------------------------------------------------------
(* Helpers.                                                                *)

\* uuid4 never repeats a value that anything still refers to.
Fresh(v) ==
  /\ \A n \in Names : key[n] # v
  /\ \A c \in Callers : lock[c].value # v

\* The condition prevExist=False puts on a write.
Mutant_AlwaysCreates(n) == n \in Names
PrevExistFalse(n) == key[n] = NoValue

\* The effect of a write with ttl=lock_ttl.
Mutant_WriteWithoutTTL(n, v) ==
  /\ key' = [key EXCEPT ![n] = v]
  /\ ttl' = [ttl EXCEPT ![n] = 0]
Write(n, v) ==
  /\ key' = [key EXCEPT ![n] = v]
  /\ ttl' = [ttl EXCEPT ![n] = LockTTL]

\* The condition prevValue=value puts on a delete: an absent key (KeyError) or
\* another value (ValueError) changes nothing.
Mutant_DeletesAnyValue(n, v) == key[n] # NoValue
PrevValueIs(n, v) == key[n] = v

\* The caller is back outside the service and refers to no value.
Leave(c) ==
  /\ pc' = [pc EXCEPT ![c] = "idle"]
  /\ lock' = [lock EXCEPT ![c].value = NoValue]
  /\ lease' = [lease EXCEPT ![c] = 0]

-----------------------------------------------------------------------------
(* apply_lock.                                                             *)

\* apply_lock draws the value and sends the write.
ApplyLock(c) ==
  /\ pc[c] = "idle"
  /\ \E n \in Names, v \in Uuids :
       /\ Fresh(v)
       /\ lock' = [lock EXCEPT ![c] = [name |-> n, value |-> v]]
  /\ pc' = [pc EXCEPT ![c] = "writing"]
  /\ UNCHANGED <<key, ttl, lease>>

\* etcd executes write(key, value, ttl=lock_ttl, prevExist=False).
EtcdWrite(c) ==
  LET n == lock[c].name IN
  /\ pc[c] = "writing"
  /\ \/ /\ PrevExistFalse(n)
        /\ Write(n, lock[c].value)
        /\ lease' = [lease EXCEPT ![c] = LockTTL]
        /\ pc' = [pc EXCEPT ![c] = "created"]
     \/ /\ ~PrevExistFalse(n)
        /\ pc' = [pc EXCEPT ![c] = "refused"]
        /\ UNCHANGED <<key, ttl, lease>>
  /\ UNCHANGED lock

\* apply_lock returns the lock dictionary.
ReturnLock(c) ==
  /\ pc[c] = "created"
  /\ pc' = [pc EXCEPT ![c] = "held"]
  /\ UNCHANGED <<key, ttl, lock, lease>>

\* etcd answered KeyError: apply_lock raises ResourceLockedException.
RaiseLocked(c) ==
  /\ pc[c] = "refused"
  /\ Leave(c)
  /\ UNCHANGED <<key, ttl>>

\* The request or its answer is lost: another exception leaves apply_lock, so
\* the caller has no dictionary, but the key may have been created.
ApplyFails(c) ==
  /\ pc[c] \in {"writing", "created", "refused"}
  /\ Leave(c)
  /\ UNCHANGED <<key, ttl>>

-----------------------------------------------------------------------------
(* release.                                                                *)

\* The caller's work is over: release(lock) sends the delete.
Release(c) ==
  /\ pc[c] = "held"
  /\ pc' = [pc EXCEPT ![c] = "deleting"]
  /\ UNCHANGED <<key, ttl, lock, lease>>

\* etcd executes delete(key, prevValue=value).
EtcdDelete(c) ==
  LET n == lock[c].name IN
  IF PrevValueIs(n, lock[c].value)
    THEN /\ key' = [key EXCEPT ![n] = NoValue]
         /\ ttl' = [ttl EXCEPT ![n] = 0]
    ELSE UNCHANGED <<key, ttl>>

\* release returns, or its task is delivered again and deletes once more.
ReleaseRuns(c) ==
  /\ pc[c] = "deleting"
  /\ EtcdDelete(c)
  /\ \/ Leave(c)
     \/ UNCHANGED <<pc, lock, lease>>

\* The release never reaches etcd; the key is left to its time to live.
ReleaseLost(c) ==
  /\ pc[c] = "deleting"
  /\ Leave(c)
  /\ UNCHANGED <<key, ttl>>

-----------------------------------------------------------------------------
(* Time.                                                                   *)

Decrement(k) == IF k = 0 THEN 0 ELSE k - 1

\* One tick of the clock; etcd removes the keys whose time has come.
Tick ==
  /\ ttl' = [n \in Names |-> Decrement(ttl[n])]
  /\ key' = [n \in Names |-> IF ttl[n] = 1 THEN NoValue ELSE key[n]]
  /\ lease' = [c \in Callers |-> Decrement(lease[c])]
  /\ UNCHANGED <<pc, lock>>

CallerStep(c) ==
  \/ ApplyLock(c) \/ EtcdWrite(c) \/ ReturnLock(c)
  \/ RaiseLocked(c) \/ ApplyFails(c)
  \/ Release(c) \/ ReleaseRuns(c) \/ ReleaseLost(c)

Next == Tick \/ \E c \in Callers : CallerStep(c)

Spec == Init /\ [][Next]_vars

\* Time passes; nothing is assumed of the callers, which may die anywhere.
FairSpec == Spec /\ WF_vars(Tick)

-----------------------------------------------------------------------------
(* Properties.                                                             *)

\* A caller works under its lock from the creation of the key to the release.
Working(c) == pc[c] \in {"created", "held"}

\* The promise of the class comment: a caller whose work takes less than the
\* time to live is the only one, for its key keeps its value all that time.
\* Nobody else's write, and no late or repeated release of an earlier holder
\* whose lock expired, takes the key away.
LeaseHonoured ==
  \A c \in Callers :
    Working(c) /\ lease[c] > 0 => key[lock[c].name] = lock[c].value

\* Two callers are never both at work within their leases on one name.
MutualExclusion ==
  \A c, d \in Callers :
    /\ Working(c) /\ lease[c] > 0
    /\ Working(d) /\ lease[d] > 0
    /\ lock[c].name = lock[d].name
    => c = d

\* No lock is for ever: every key is removed or replaced in the end, even the
\* one whose creator never learned that it exists, or died holding it.
LocksEnd ==
  \A n \in Names, v \in Uuids : key[n] = v ~> key[n] # v

\* The etcd keys behave as an abstract leased lock owned by the uuids: a key
\* never passes from one value to another without being absent in between.
Abstract == INSTANCE LeasedLock WITH
  Owners <- Uuids, NoOwner <- NoValue, owner <- key

ImplementsLeasedLock == Abstract!Spec
=============================================================================
