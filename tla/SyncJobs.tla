------------------------------ MODULE SyncJobs ------------------------------
(***************************************************************************)
(* The periodic jobs sync_promoted_units and sync_promoted_upstreams of    *)
(* tasks/deployment.py.  A run of a job takes the lock of the job, lists   *)
(* the promoted deployments and, for one after the other, fetches what     *)
(* fleet or yoda knows of it and stores that in its document               *)
(* (services/deployment.py).  Meanwhile the pipelines change the states of *)
(* the documents, every change of state resets the runtime information,    *)
(* and fleet and yoda change what there is to be fetched.                  *)
(*                                                                         *)
(* An execution is a slot for a run of a job; it is free again when the    *)
(* run is over.  What a run fetches is abstracted to a version number,     *)
(* which the environment counts up.  A run that finds the lock taken ends  *)
(* without an effect and is no step.  The deployment is read, its units    *)
(* or upstreams are fetched and the result is written in two steps,        *)
(* because the first does not depend on anything that changes.             *)
(*                                                                         *)
(* Operators called Mutant_... are wrong on purpose and used nowhere; see  *)
(* DistributedLock.                                                        *)
(***************************************************************************)
EXTENDS Naturals

CONSTANTS
  Executions,   \* slots for concurrent runs
  Kinds,        \* the jobs, each with a lock and a field of its own
  Deployments,  \* deployment ids
  MaxVersion,   \* bound on the changes of what there is to be fetched
  Timely,       \* TRUE: a run finishes within the lease of its lock
  NoExecution,  \* owner of a free lock
  Reset         \* runtime information after a change of state

ASSUME MaxVersionAssumption == MaxVersion \in Nat
ASSUME TimelyAssumption == Timely \in BOOLEAN
ASSUME NoExecutionAssumption == NoExecution \notin Executions
ASSUME ResetAssumption == Reset \notin 0..MaxVersion

VARIABLES
  pc,        \* where each execution is
  kind,      \* the job it runs
  todo,      \* deployments it still has to synchronize
  current,   \* the deployment it synchronizes
  fetched,   \* what it fetched for that
  lock,      \* the execution that owns the lock of each job, or NoExecution
  doc,       \* state of each deployment document
  runtime,   \* the field of each job in each document
  observed   \* what there is to be fetched by each job for each deployment

run == <<pc, kind, todo, current, fetched>>
vars == <<run, lock, doc, runtime, observed>>

DocStates ==
  {"ABSENT", "NEW", "STARTED", "PROMOTED", "FAILED", "DECOMMISSIONED"}

TypeOK ==
  /\ pc \in [Executions -> {"idle", "list", "next", "fetched", "release"}]
  /\ kind \in [Executions -> Kinds]
  /\ todo \in [Executions -> SUBSET Deployments]
  /\ current \in [Executions -> Deployments]
  /\ fetched \in [Executions -> 0..MaxVersion]
  /\ lock \in [Kinds -> Executions \cup {NoExecution}]
  /\ doc \in [Deployments -> DocStates]
  /\ runtime \in [Kinds -> [Deployments -> 0..MaxVersion \cup {Reset}]]
  /\ observed \in [Kinds -> [Deployments -> 0..MaxVersion]]

Init ==
  /\ pc = [e \in Executions |-> "idle"]
  /\ kind \in [Executions -> Kinds]
  /\ todo = [e \in Executions |-> {}]
  /\ current \in [Executions -> Deployments]
  /\ fetched = [e \in Executions |-> 0]
  /\ lock = [k \in Kinds |-> NoExecution]
  /\ doc = [d \in Deployments |-> "ABSENT"]
  /\ runtime = [k \in Kinds |-> [d \in Deployments |-> Reset]]
  /\ observed = [k \in Kinds |-> [d \in Deployments |-> 0]]

JobLock == INSTANCE LeasedLock WITH
  Names <- Kinds, Owners <- Executions, NoOwner <- NoExecution, owner <- lock

Goto(e, step) == pc' = [pc EXCEPT ![e] = step]

-----------------------------------------------------------------------------
(* A run of a job.                                                         *)

\* _get_job_lock returned a lock.
Start(e) ==
  /\ pc[e] = "idle"
  /\ \E k \in Kinds : JobLock!Grant(k, e) /\ kind' = [kind EXCEPT ![e] = k]
  /\ Goto(e, "list")
  /\ UNCHANGED <<todo, current, fetched, doc, runtime, observed>>

\* filter_deployments(state=PROMOTED).  The finally clause waits for the whole
\* list of results; it would not wait for a generator.
Mutant_ListsLazily(e) ==
  /\ pc[e] = "list"
  /\ todo' = [todo EXCEPT ![e] = {d \in Deployments : doc[d] = "PROMOTED"}]
  /\ JobLock!Release(kind[e], e)
  /\ Goto(e, "next")
  /\ UNCHANGED <<kind, current, fetched, doc, runtime, observed>>
List(e) ==
  /\ pc[e] = "list"
  /\ todo' = [todo EXCEPT ![e] = {d \in Deployments : doc[d] = "PROMOTED"}]
  /\ Goto(e, "next")
  /\ UNCHANGED <<kind, current, fetched, lock, doc, runtime, observed>>

\* get_deployment found the document; its units or upstreams are fetched.
Fetch(e) ==
  /\ pc[e] = "next"
  /\ \E d \in todo[e] :
       /\ doc[d] # "ABSENT"
       /\ current' = [current EXCEPT ![e] = d]
       /\ fetched' = [fetched EXCEPT ![e] = observed[kind[e]][d]]
  /\ Goto(e, "fetched")
  /\ UNCHANGED <<kind, todo, lock, doc, runtime, observed>>

\* The document is gone, or the fetch fails and the error is ignored.
Skip(e) ==
  /\ pc[e] = "next"
  /\ \E d \in todo[e] : todo' = [todo EXCEPT ![e] = @ \ {d}]
  /\ UNCHANGED <<pc, kind, current, fetched, lock, doc, runtime, observed>>

\* update_runtime_units or update_runtime_upstreams: sets one field of the
\* document if there is a document, whatever its state is by now.
Mutant_SetsOnce(k, d, v) ==
  runtime' = IF doc[d] = "ABSENT" \/ runtime[k][d] # Reset
               THEN runtime ELSE [runtime EXCEPT ![k][d] = v]
UpdateRuntime(k, d, v) ==
  runtime' = IF doc[d] = "ABSENT" THEN runtime
                                  ELSE [runtime EXCEPT ![k][d] = v]

Write(e) ==
  /\ pc[e] = "fetched"
  /\ UpdateRuntime(kind[e], current[e], fetched[e])
  /\ todo' = [todo EXCEPT ![e] = @ \ {current[e]}]
  /\ Goto(e, "next")
  /\ UNCHANGED <<kind, current, fetched, lock, doc, observed>>

\* The update fails and the error is ignored.
WriteFails(e) ==
  /\ pc[e] = "fetched"
  /\ todo' = [todo EXCEPT ![e] = @ \ {current[e]}]
  /\ Goto(e, "next")
  /\ UNCHANGED <<kind, current, fetched, lock, doc, runtime, observed>>

\* All deployments are synchronized, or the list could not be read; the
\* finally clause queues _release_lock.
Finish(e) ==
  /\ pc[e] = "list" \/ (pc[e] = "next" /\ todo[e] = {})
  /\ Goto(e, "release")
  /\ UNCHANGED <<kind, todo, current, fetched, lock, doc, runtime, observed>>

\* _release_lock runs.
Release(e) ==
  /\ pc[e] = "release"
  /\ JobLock!Release(kind[e], e)
  /\ Goto(e, "idle")
  /\ UNCHANGED <<kind, todo, current, fetched, doc, runtime, observed>>

\* The worker dies, or _release_lock is lost: the lock stays behind.  The
\* redelivered job finds it taken and ends.
Die(e) ==
  /\ pc[e] # "idle"
  /\ Goto(e, "idle")
  /\ UNCHANGED <<kind, todo, current, fetched, lock, doc, runtime, observed>>

-----------------------------------------------------------------------------
(* The rest of the cluster.                                                *)

\* The run may still write.
Working(e) == pc[e] \in {"list", "next", "fetched"}

\* The lease of the lock of a job runs out; of a timely run, after its end.
LockExpires(k) ==
  /\ lock[k] # NoExecution
  /\ Timely => ~(Working(lock[k]) /\ kind[lock[k]] = k)
  /\ JobLock!Expire({k})
  /\ UNCHANGED <<run, doc, runtime, observed>>

\* The effect of create_deployment (s = "NEW"), of update_state and, on a
\* promoted deployment, of update_state_bulk: the state of the document is set
\* and its runtime information is reset, even if the state was the same.
ResetRuntime(d) ==
  runtime' = [k \in Kinds |-> [runtime[k] EXCEPT ![d] = Reset]]
StateChange(d) ==
  /\ \E s \in DocStates \ {"ABSENT"} :
       /\ doc[d] = "ABSENT" => s = "NEW"
       /\ s = "DECOMMISSIONED" => doc[d] = "PROMOTED"
       /\ doc' = [doc EXCEPT ![d] = s]
  /\ ResetRuntime(d)
  /\ UNCHANGED <<run, lock, observed>>

\* The time to live of a document of a deployment that is not promoted is over.
Expire(d) ==
  /\ doc[d] \notin {"ABSENT", "PROMOTED"}
  /\ doc' = [doc EXCEPT ![d] = "ABSENT"]
  /\ ResetRuntime(d)
  /\ UNCHANGED <<run, lock, observed>>

\* Units or upstreams change.
Observe(k, d) ==
  /\ observed[k][d] < MaxVersion
  /\ observed' = [observed EXCEPT ![k][d] = @ + 1]
  /\ UNCHANGED <<run, lock, doc, runtime>>

ExecutionStep(e) ==
  \/ Start(e) \/ List(e) \/ Fetch(e) \/ Skip(e) \/ Write(e) \/ WriteFails(e)
  \/ Finish(e) \/ Release(e) \/ Die(e)

Environment ==
  \E d \in Deployments :
    \/ StateChange(d) \/ Expire(d)
    \/ \E k \in Kinds : Observe(k, d)

Next ==
  \/ \E e \in Executions : ExecutionStep(e)
  \/ \E k \in Kinds : LockExpires(k)
  \/ Environment

Spec == Init /\ [][Next]_vars

\* Celery beat starts a job again and again, a run that lives moves on, and
\* leases run out.  Of all attempts to list, fetch and write, not every single
\* one fails; nothing else is assumed of workers, fleet, yoda and the store.
Fairness ==
  /\ \A e \in Executions :
       WF_vars(ExecutionStep(e) /\ pc[e] # "idle" /\ (pc' # pc \/ todo' # todo))
  /\ \A k \in Kinds :
       /\ SF_vars(\E e \in Executions : Start(e) /\ kind'[e] = k)
       /\ SF_vars(\E e \in Executions : List(e) /\ kind[e] = k)
       /\ WF_vars(LockExpires(k))
       /\ \A d \in Deployments :
            /\ SF_vars(\E e \in Executions :
                         Fetch(e) /\ kind[e] = k /\ current'[e] = d)
            /\ SF_vars(\E e \in Executions :
                         Write(e) /\ kind[e] = k /\ current[e] = d)

FairSpec == Spec /\ Fairness

-----------------------------------------------------------------------------
(* Properties.                                                             *)

\* As long as runs finish within the lease of their lock, a job never replaces
\* what it stored by something it fetched earlier: the lock keeps a second run
\* of the job from overtaking the first between its fetch and its write, and
\* the two jobs leave each other's field alone.
NoOlderSnapshot ==
  [][\A k \in Kinds, d \in Deployments :
       runtime[k][d] # Reset /\ runtime'[k][d] # Reset
       => runtime'[k][d] >= runtime[k][d]]_vars

\* Once nothing changes any more, the documents of the promoted deployments
\* come to show what there is, although runs die holding the lock and write
\* what has been overtaken.
RuntimeConverges ==
  <>[][~Environment]_vars =>
    \A k \in Kinds, d \in Deployments :
      <>[](doc[d] = "PROMOTED" => runtime[k][d] = observed[k][d])

\* The jobs synchronize "all promoted deployments", and runtime information is
\* "reset ... during state change" (update_state): the document of any other
\* deployment has none.
OnlyPromotedHaveRuntime ==
  \A k \in Kinds, d \in Deployments :
    runtime[k][d] # Reset => doc[d] = "PROMOTED"
=============================================================================
