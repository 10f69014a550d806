---------------------------- MODULE TaskResults ----------------------------
(***************************************************************************)
(* How the end of a create is learned from the results of its tasks: by    *)
(* async_wait (tasks/common.py, tasks/util.py), whose verdict starts the   *)
(* callbacks that clean up and release the lock, and by TaskClient         *)
(* (services/task_client.py), which answers the requests of the API.       *)
(*                                                                         *)
(* A task that starts others returns the result of the last of them, which *)
(* refers to the results before it in its chain (parent).  What has to be  *)
(* followed is therefore a tree that grows while it is read.  The tasks    *)
(* here are those of create, cut down to one of each shape: a chain with a *)
(* task that returns a chain, whose last task returns the body of a chord, *)
(* which returns a task.                                                   *)
(*                                                                         *)
(* A task that fails has started nothing: starting others is the last      *)
(* thing the tasks do.  A result, once ready, does not change.             *)
(*                                                                         *)
(* Operators called Mutant_... are wrong on purpose and used nowhere; see  *)
(* DistributedLock.                                                        *)
(***************************************************************************)
EXTENDS Naturals, FiniteSets

CONSTANTS
  Header,      \* the tasks of the chord: one _fleet_deploy for each template
  MaxLost,     \* bound on messages that the broker drops
  ChordBreaks  \* TRUE: Celery may fail to start the body of a chord

ASSUME MaxLostAssumption == MaxLost \in Nat
ASSUME ChordBreaksAssumption == ChordBreaks \in BOOLEAN

VARIABLES
  state,    \* state of the result of each task
  raised,   \* the task whose error async_wait raised
  request,  \* where each request of the API is in TaskClient.ready
  answer    \* its answer: status and output, a value or an error

vars == <<state, raised, request, answer>>

None == "none"

\* The tasks async_wait waits for.
Pipeline ==
  Header \cup {"_fleet_stop", "_deploy_all", "_fleet_start_and_wait",
               "_promote_success"}

Tasks ==
  Pipeline \cup {"create", "_using_lock", "_start_deployment",
                 "_pre_create_undeploy", "async_wait"}

\* Templates have names of their own.
ASSUME HeaderAssumption ==
  /\ Header # {} /\ IsFiniteSet(Header)
  /\ \A h \in Header :
       h \notin {"_fleet_stop", "_deploy_all", "_fleet_start_and_wait",
                "_promote_success", "create", "_using_lock",
                "_start_deployment", "_pre_create_undeploy", "async_wait",
                None, "value", "not_ready"}

\* The task before it in its chain.
Parent ==
  [t \in Tasks \cup {None} |->
     CASE t = "_pre_create_undeploy" -> "_start_deployment"
       [] t = "async_wait" -> "_pre_create_undeploy"
       [] t = "_deploy_all" -> "_fleet_stop"
       [] OTHER -> None]

\* The task whose result it returns; None for a plain value.
Returns ==
  [t \in Tasks \cup {None} |->
     CASE t = "create" -> "_using_lock"
       [] t = "_using_lock" -> "async_wait"
       [] t = "_pre_create_undeploy" -> "_deploy_all"
       [] t = "_deploy_all" -> "_fleet_start_and_wait"
       [] t = "_fleet_start_and_wait" -> "_promote_success"
       [] OTHER -> None]

\* The tasks it starts.
Starts(t) ==
  CASE t = "create" -> {"_using_lock"}
    [] t = "_using_lock" -> {"_start_deployment"}
    [] t = "_pre_create_undeploy" -> {"_fleet_stop"}
    [] t = "_deploy_all" -> Header
    [] t = "_fleet_start_and_wait" -> {"_promote_success"}
    [] OTHER -> {}

Body == "_fleet_start_and_wait"

Clients == {"status", "wait"}

TypeOK ==
  /\ state \in [Tasks -> {"absent", "queued", "running", "retrying", "success",
                          "failure", "chord_error", "lost"}]
  /\ raised \in Pipeline \cup {None, "not_ready"}
  /\ request \in [Clients -> {"idle", "find", "follow", "answered"}]
  /\ answer \in
       [Clients -> [status : {None, "PENDING", "FAILURE", "READY", "raised"},
                    output : {None, "value", "error"}]]

NoAnswer == [status |-> None, output |-> None]

Init ==
  /\ state = [t \in Tasks |-> IF t = "create" THEN "queued" ELSE "absent"]
  /\ raised = None
  /\ request = [c \in Clients |-> "idle"]
  /\ answer = [c \in Clients |-> NoAnswer]

\* AsyncResult.failed and AsyncResult.ready
Failed(t) == state[t] \in {"failure", "chord_error"}
Ready(t) == state[t] = "success" \/ Failed(t)
Pending(t) == state[t] \in {"absent", "queued", "running", "lost"}

Waiting(t) == state[t] \in {"queued", "retrying"}

-----------------------------------------------------------------------------
(* The tasks.                                                              *)

Becomes(ts, new) == state' = [t \in Tasks |-> IF t \in ts THEN new ELSE state[t]]

\* A task runs and queues the tasks it starts.
Begin(t) ==
  /\ t # "async_wait"
  /\ Waiting(t)
  /\ state' = [u \in Tasks |-> IF u = t THEN "running"
                               ELSE IF u \in Starts(t) THEN "queued"
                               ELSE state[u]]
  /\ UNCHANGED <<raised, request, answer>>

\* It ends, and the next task of its chain is queued.
End(t) ==
  /\ state[t] = "running"
  /\ state' = [u \in Tasks |-> IF u = t THEN "success"
                               ELSE IF Parent[u] = t THEN "queued"
                               ELSE state[u]]
  /\ UNCHANGED <<raised, request, answer>>

Fail(t) ==
  /\ t # "async_wait"
  /\ Waiting(t)
  /\ Becomes({t}, "failure")
  /\ UNCHANGED <<raised, request, answer>>

\* _using_lock finds the application locked.
Retry ==
  /\ state["_using_lock"] = "queued"
  /\ Becomes({"_using_lock"}, "retrying")
  /\ UNCHANGED <<raised, request, answer>>

\* celery.chord_unlock: when the whole header is ready the body is queued, or
\* gets a ChordError if one of the header failed.
UnlockChord ==
  /\ state[Body] = "absent"
  /\ \A t \in Header : Ready(t)
  /\ \/ /\ \E t \in Header : Failed(t)
        /\ Becomes({Body}, "chord_error")
     \/ /\ \A t \in Header : ~Failed(t)
        /\ Becomes({Body}, "queued")
     \/ ChordBreaks /\ Becomes({Body}, "chord_error")
  /\ UNCHANGED <<raised, request, answer>>

\* A message is older than MESSAGES_TTL when a worker would take it.
Drop(t) ==
  /\ state[t] = "queued"
  /\ Cardinality({u \in Tasks : state[u] = "lost"}) < MaxLost
  /\ Becomes({t}, "lost")
  /\ UNCHANGED <<raised, request, answer>>

-----------------------------------------------------------------------------
(* async_wait.                                                             *)

Mutant_ReportsChordError(t) == IF Failed(t) THEN t ELSE None

\* check_or_raise_task_exception: the task whose error it raises, or None.
\* For a ChordError that is the first failed task of the header, if any.
Raises(t) ==
  IF state[t] = "failure" THEN t
  ELSE IF state[t] = "chord_error" /\ \E h \in Header : Failed(h)
  THEN CHOOSE h \in Header : Failed(h)
  ELSE None

Mutant_ChecksHeaders(task) ==
  LET check[t \in Tasks \cup {None}] ==
        IF t = None THEN None
        ELSE IF Raises(t) # None THEN Raises(t)
        ELSE IF t = Body /\ \E h \in Header : Failed(h)
        THEN CHOOSE h \in Header : Failed(h)
        ELSE check[Parent[t]]
  IN check[task]

\* _check_error: the same for a result and those before it in its chain.  The
\* parent of the body of a chord is a GroupResult, where this ends.
CheckError(task) ==
  LET check[t \in Tasks \cup {None}] ==
        IF t = None THEN None
        ELSE IF Raises(t) # None THEN Raises(t)
        ELSE check[Parent[t]]
  IN check[task]

Mutant_ResultOfFirst(task) ==
  IF CheckError(task) # None THEN CheckError(task)
  ELSE IF Ready(task) THEN "value"
  ELSE "not_ready"

\* simple_result: "value", "not_ready" or the task whose error it raises.  The
\* ChordError of a chord whose header did not fail is returned like a value.
SimpleResult(task) ==
  LET result[t \in Tasks \cup {None}] ==
        IF t = None THEN "value"
        ELSE IF CheckError(t) # None THEN CheckError(t)
        ELSE IF state[t] = "chord_error" THEN "value"
        ELSE IF state[t] = "success" THEN result[Returns[t]]
        ELSE "not_ready"
  IN result[task]

\* The task before async_wait passes its value on to it.
Verdict == SimpleResult(Returns["_pre_create_undeploy"])

WaitRetries ==
  /\ state["async_wait"] = "queued"
  /\ Verdict = "not_ready"
  /\ Becomes({"async_wait"}, "retrying")
  /\ UNCHANGED <<raised, request, answer>>

WaitEnds ==
  /\ Waiting("async_wait")
  /\ Verdict # "not_ready"
  /\ IF Verdict = "value"
     THEN Becomes({"async_wait"}, "success") /\ UNCHANGED raised
     ELSE Becomes({"async_wait"}, "failure") /\ raised' = Verdict
  /\ UNCHANGED <<request, answer>>

Working == \E t \in Pipeline : Waiting(t) \/ state[t] = "running"

UnlockDue == state[Body] = "absent" /\ \A t \in Header : Ready(t)

Mutant_WaitsWithoutEnd == FALSE /\ UNCHANGED vars

\* The retries of async_wait are used up.  They outlast everything that the
\* tasks wait for (TaskRetries!AsyncWaitOutlasts), so nothing is at work then.
WaitExhausted ==
  /\ state["async_wait"] = "retrying"
  /\ Verdict = "not_ready"
  /\ ~Working /\ ~UnlockDue
  /\ Becomes({"async_wait"}, "failure")
  /\ raised' = "not_ready"
  /\ UNCHANGED <<request, answer>>

-----------------------------------------------------------------------------
(* TaskClient.ready for the result of create: a request for the status of  *)
(* the task (views/task.py), and one that waits for the end and raises     *)
(* errors (views/application.py).                                          *)

Ask(c) ==
  /\ request[c] = "idle"
  /\ c = "wait" => Ready("create")
  /\ request' = [request EXCEPT ![c] = "find"]
  /\ UNCHANGED <<state, raised, answer>>

\* The parents of a pending task, up to the first that failed.
FailedParent[t \in Tasks \cup {None}] ==
  IF t = None THEN None
  ELSE IF Failed(t) THEN t
  ELSE FailedParent[Parent[t]]

Mutant_IgnoresParents(task) ==
  LET find[t \in Tasks \cup {None}] ==
        IF t = None THEN None
        ELSE IF Failed(t) THEN t
        ELSE IF state[t] = "success" THEN find[Returns[t]]
        ELSE None
  IN find[task]

Mutant_RetryIsFailure(task) ==
  LET find[t \in Tasks \cup {None}] ==
        IF t = None THEN None
        ELSE IF Failed(t) \/ state[t] = "retrying" THEN t
        ELSE IF Pending(t) THEN FailedParent[Parent[t]]
        ELSE IF state[t] = "success" THEN find[Returns[t]]
        ELSE None
  IN find[task]

\* find_error_task
FindErrorTask(task) ==
  LET find[t \in Tasks \cup {None}] ==
        IF t = None THEN None
        ELSE IF Failed(t) THEN t
        ELSE IF Pending(t) THEN FailedParent[Parent[t]]
        ELSE IF state[t] = "success" THEN find[Returns[t]]
        ELSE None
  IN find[task]

Reply(c, status, output) ==
  /\ request' = [request EXCEPT ![c] = "answered"]
  /\ answer' = [answer EXCEPT ![c] = [status |-> status, output |-> output]]

Raise(c) == Reply(c, "raised", None)

\* What async_wait raises is a TaskExecutionException already, unless it is
\* that the result is not ready; ready raises only what it has to wrap.
IsTaskExecutionException(t) == t = "async_wait" /\ raised # "not_ready"

\* raise_error has no effect on an error of async_wait: the request gets it as a
\* value and goes on.
RaisesFound(c, t) == c = "wait" /\ ~IsTaskExecutionException(t)

Find(c) ==
  /\ request[c] = "find"
  /\ LET found == FindErrorTask("create")
     IN  IF found = None
         THEN request' = [request EXCEPT ![c] = "follow"] /\ UNCHANGED answer
         ELSE IF RaisesFound(c, found) THEN Raise(c)
         ELSE Reply(c, "FAILURE", "error")
  /\ UNCHANGED <<state, raised>>

\* The loop of ready over results that are results.  An error is a result like
\* a value.  With propagate, get raises it, and also those of the parents.
Follow[t \in Tasks \cup {None}] ==
  IF t = None THEN "value"
  ELSE IF Failed(t) THEN "error"
  ELSE IF state[t] = "success" THEN Follow[Returns[t]]
  ELSE IF FailedParent[Parent[t]] # None THEN "parent_failed"
  ELSE "not_ready"

\* The status is READY when there is a result, be it an error of a task that
\* failed after find_error_task has looked.
FollowForStatus ==
  /\ request["status"] = "follow"
  /\ IF Follow["create"] \in {"value", "error"}
     THEN Reply("status", "READY", Follow["create"])
     ELSE Reply("status", "PENDING", None)
  /\ UNCHANGED <<state, raised>>

FollowToEnd ==
  /\ request["wait"] = "follow"
  /\ \/ Follow["create"] = "value" /\ Reply("wait", "READY", "value")
     \/ Follow["create"] \in {"error", "parent_failed"} /\ Raise("wait")
  /\ UNCHANGED <<state, raised>>

\* DEFAULT_GET_TIMEOUT is over before the end.
TimesOut ==
  /\ request["wait"] = "follow"
  /\ Follow["create"] = "not_ready"
  /\ Raise("wait")
  /\ UNCHANGED <<state, raised>>

\* Someone asks for the status again.
AskAgain ==
  /\ request["status"] = "answered"
  /\ request' = [request EXCEPT !["status"] = "idle"]
  /\ UNCHANGED <<state, raised, answer>>

-----------------------------------------------------------------------------

TaskStep(t) == Begin(t) \/ End(t) \/ Fail(t)

WaitStep == WaitRetries \/ WaitEnds \/ WaitExhausted

StatusStep ==
  Ask("status") \/ Find("status") \/ FollowForStatus \/ AskAgain

WaitingRequestStep ==
  Ask("wait") \/ Find("wait") \/ FollowToEnd \/ TimesOut

Next ==
  \/ \E t \in Tasks : TaskStep(t) \/ Drop(t)
  \/ Retry \/ UnlockChord
  \/ WaitStep
  \/ StatusStep \/ WaitingRequestStep

Spec == Init /\ [][Next]_vars

\* Workers take messages that are not dropped and tasks end, chord_unlock and
\* async_wait are retried, and the status is asked for again and again.
Fairness ==
  /\ \A t \in Tasks : WF_vars(TaskStep(t))
  /\ WF_vars(UnlockChord)
  /\ WF_vars(WaitStep)
  /\ WF_vars(StatusStep)

FairSpec == Spec /\ Fairness

-----------------------------------------------------------------------------
(* Properties.                                                             *)

Ended == Ready("async_wait")

\* The callbacks start only when nothing of the pipeline is at work or will be
\* (deployment.py:313): no branch of a chord is left running when another one
\* failed (tasks/util.py:24), and no task that is started later is overlooked.
NoEarlyVerdict == Ended => ~Working /\ ~UnlockDue

\* async_wait succeeds only after the last task of the pipeline
\* (tasks/util.py:31).  It takes a ChordError for a value when no task of the
\* header failed, so this needs that Celery starts the bodies of its chords.
SuccessMeansDone ==
  state["async_wait"] = "success" => state["_promote_success"] = "success"

\* async_wait fails with the error of a task that failed itself, never with one
\* that only reports the failure of another; or else a message was dropped
\* (tasks/util.py:11).
VerdictExplained ==
  state["async_wait"] = "failure" =>
    \/ raised \in Pipeline /\ state[raised] = "failure"
    \/ raised = "not_ready" /\ \E t \in Pipeline : state[t] = "lost"

\* An answer with an error or with a value, of a request for the status or of
\* one that waited for the end, is not contradicted by what happens later
\* (task_client.py:43).  It is the output that counts: an answer may say READY
\* and have the error of a failed task for its output, as the status is taken
\* from find_error_task, which looked before (task_client.py:44, 57-66).
AnswerFinal ==
  \A c \in Clients :
    /\ answer[c].output = "value" => state["async_wait"] = "success"
    /\ answer[c].output = "error" =>
         state["async_wait"] # "success" /\ ~Waiting("async_wait")

\* When a message of the pipeline is dropped (celeryconfig.py:12), async_wait
\* fails in the end and so starts the callbacks, if its own message arrives.
LossReported ==
  \A t \in Pipeline :
    state[t] = "lost" ~> state["async_wait"] \in {"failure", "lost"}

\* Whoever asks for the status of a failed create often enough gets the answer
\* FAILURE, though what he asks for is a task that will never run
\* (task_client.py:27).  The first answer may be READY with the error.
FailureVisible ==
  (\E t \in Tasks \ Pipeline : Failed(t)) ~> answer["status"].status = "FAILURE"
=============================================================================
