---------------------------- MODULE ProcessAlarm ----------------------------
(***************************************************************************)
(* The decorators @timeout and @retry of util.py and the calls they guard: *)
(* the health checks (services/health.py), TaskClient.ready                *)
(* (services/task_client.py) and simple_result (tasks/util.py).  @timeout  *)
(* uses the alarm of the process, of which there is one, and the signal    *)
(* handler raises TimeoutError in the code that happens to run.  API       *)
(* processes run many greenlets at a time, so that several calls may be    *)
(* under way; they are switched wherever a call waits.                     *)
(*                                                                         *)
(* Time is counted in seconds by Tick, and goes on while calls wait or     *)
(* sleep.  TimeoutError is not among the errors that any retry is for.     *)
(*                                                                         *)
(* Operators called Mutant_... are wrong on purpose and used nowhere; see  *)
(* DistributedLock.                                                        *)
(***************************************************************************)
EXTENDS Naturals

CONSTANTS
  Greenlets,      \* greenlets of the process
  Kinds,          \* the calls they make
  HealthSeconds,  \* HEALTH_TIMEOUT_SECONDS
  ReadySeconds,   \* timeout of TaskClient.ready
  Tries, Delay,   \* arguments of @retry
  MaxTime         \* bound on the time counted for a call

ASSUME KindsAssumption == Kinds \subseteq {"health", "ready", "simple_result"}
ASSUME SecondsAssumption ==
  HealthSeconds \in Nat \ {0} /\ ReadySeconds \in Nat \ {0}
ASSUME RetryAssumption == Tries \in Nat \ {0} /\ Delay \in Nat
ASSUME MaxTimeAssumption ==
  MaxTime \in Nat /\ MaxTime > HealthSeconds /\ MaxTime > ReadySeconds

VARIABLES
  alarm,     \* seconds until the alarm of the process, 0 when there is none
  pc,        \* where each greenlet is in its call
  kind,      \* the call it makes
  attempts,  \* executions of the function so far, at most Tries + 1
  pause,     \* seconds it still sleeps
  spent,     \* seconds since the call began, at most MaxTime
  result     \* how its last call ended

vars == <<alarm, pc, kind, attempts, pause, spent, result>>

Results == {"none", "value", "error", "timeout", "stray"}

TypeOK ==
  /\ alarm \in 0..MaxTime
  /\ pc \in [Greenlets -> {"idle", "run", "sleep", "cleanup"}]
  /\ kind \in [Greenlets -> Kinds]
  /\ attempts \in [Greenlets -> 0..(Tries + 1)]
  /\ pause \in [Greenlets -> 0..Delay]
  /\ spent \in [Greenlets -> 0..MaxTime]
  /\ result \in [Greenlets -> Results]

Guarded(k) == k \in {"health", "ready"}
Retried(k) == k \in {"ready", "simple_result"}

Seconds(k) == IF k = "health" THEN HealthSeconds ELSE ReadySeconds

Init ==
  /\ alarm = 0
  /\ pc = [g \in Greenlets |-> "idle"]
  /\ kind \in [Greenlets -> Kinds]
  /\ attempts = [g \in Greenlets |-> 0]
  /\ pause = [g \in Greenlets |-> 0]
  /\ spent = [g \in Greenlets |-> 0]
  /\ result = [g \in Greenlets |-> "none"]

-----------------------------------------------------------------------------
(* A call.                                                                 *)

\* wrapper: installs the handler, sets the alarm and calls the function.
Call(g) ==
  /\ pc[g] = "idle"
  /\ \E k \in Kinds :
       /\ kind' = [kind EXCEPT ![g] = k]
       /\ alarm' = IF Guarded(k) THEN Seconds(k) ELSE alarm
  /\ pc' = [pc EXCEPT ![g] = "run"]
  /\ attempts' = [attempts EXCEPT ![g] = 1]
  /\ spent' = [spent EXCEPT ![g] = 0]
  /\ result' = [result EXCEPT ![g] = "none"]
  /\ UNCHANGED pause

Mutant_CleanupOnSuccess(g, how) ==
  /\ pc' = [pc EXCEPT ![g] = IF Guarded(kind[g]) /\ how = "value"
                             THEN "cleanup" ELSE "idle"]
  /\ result' = [result EXCEPT ![g] = how]
  /\ UNCHANGED <<kind, attempts, pause>>

\* The function is left, with a value or an exception.
Leave(g, how) ==
  /\ pc' = [pc EXCEPT ![g] = IF Guarded(kind[g]) THEN "cleanup" ELSE "idle"]
  /\ result' = [result EXCEPT ![g] = how]
  /\ UNCHANGED <<kind, attempts, pause>>

\* The function returns or fails with an error that is not retried.
Finish(g) ==
  /\ pc[g] = "run"
  /\ \E how \in {"value", "error"} : Leave(g, how)
  /\ UNCHANGED <<alarm, spent>>

\* The function fails with a retried error.  function_retry sleeps unless the
\* tries are used up; then it goes on without a pause.
Retry(g) ==
  /\ pc[g] = "run"
  /\ Retried(kind[g])
  /\ IF attempts[g] < Tries
     THEN /\ pc' = [pc EXCEPT ![g] = "sleep"]
          /\ pause' = [pause EXCEPT ![g] = Delay]
          /\ UNCHANGED attempts
     ELSE /\ attempts' = [attempts EXCEPT ![g] = Tries + 1]
          /\ UNCHANGED <<pc, pause>>
  /\ UNCHANGED <<alarm, kind, spent, result>>

Wake(g) ==
  /\ pc[g] = "sleep"
  /\ pause[g] = 0
  /\ pc' = [pc EXCEPT ![g] = "run"]
  /\ attempts' = [attempts EXCEPT ![g] = @ + 1]
  /\ UNCHANGED <<alarm, kind, pause, spent, result>>

\* finally: signal.alarm(0)
Cancel(g) ==
  /\ pc[g] = "cleanup"
  /\ alarm' = 0
  /\ pc' = [pc EXCEPT ![g] = "idle"]
  /\ UNCHANGED <<kind, attempts, pause, spent, result>>

-----------------------------------------------------------------------------
(* Time.                                                                   *)

Elapse ==
  spent' = [g \in Greenlets |->
              IF pc[g] # "idle" /\ spent[g] < MaxTime THEN spent[g] + 1
                                                       ELSE spent[g]]

Tick ==
  /\ alarm # 1
  /\ alarm' = IF alarm = 0 THEN 0 ELSE alarm - 1
  /\ pause' = [g \in Greenlets |-> IF pause[g] = 0 THEN 0 ELSE pause[g] - 1]
  /\ Elapse
  /\ UNCHANGED <<pc, kind, attempts, result>>

Mutant_RetriesTimeouts(g) ==
  \/ /\ pc[g] # "idle"
     /\ IF Retried(kind[g]) THEN UNCHANGED <<pc, kind, attempts, pause, result>>
                            ELSE Leave(g, "timeout")
  \/ /\ pc[g] = "idle"
     /\ result' = [result EXCEPT ![g] = "stray"]
     /\ UNCHANGED <<pc, kind, attempts, pause>>

\* _handle_timeout raises TimeoutError in whatever greenlet g runs: in its
\* call, or in code that makes no such call.  (_check of a health check turns
\* it into the status failed.)
HandleTimeout(g) ==
  \/ pc[g] # "idle" /\ Leave(g, "timeout")
  \/ /\ pc[g] = "idle"
     /\ result' = [result EXCEPT ![g] = "stray"]
     /\ UNCHANGED <<pc, kind, attempts, pause>>

Expire ==
  /\ alarm = 1
  /\ alarm' = 0
  /\ Elapse
  /\ \E g \in Greenlets : HandleTimeout(g)

GreenletStep(g) ==
  \/ Call(g)
  \/ Finish(g)
  \/ Retry(g)
  \/ Wake(g)
  \/ Cancel(g)

Next == Tick \/ Expire \/ \E g \in Greenlets : GreenletStep(g)

Spec == Init /\ [][Next]_vars

\* Time passes and cleanup does not wait for anything.  The functions that are
\* called may wait for ever or fail for ever.
Fairness ==
  /\ WF_vars(Tick \/ Expire)
  /\ \A g \in Greenlets : WF_vars(Cancel(g))

FairSpec == Spec /\ Fairness

-----------------------------------------------------------------------------
(* Properties.                                                             *)

Inside(g) == Guarded(kind[g]) /\ pc[g] # "idle"

\* The alarm is the one of the call g.
Due(g) == Inside(g) /\ spent[g] + alarm = Seconds(kind[g])

\* An alarm that is set is that of a call under way, due when the time of this
\* call is over: no call leaves one behind for code that comes after it,
\* however it ended, and no alarm goes off early (util.py:72-86).  This does
\* not say that TimeoutError hits the call whose time is over: nothing in the
\* code makes it so, and greenlets that share the alarm of their process
\* cancel and take each other's.
AlarmOwned == alarm > 0 => \E g \in Greenlets : Due(g)

\* Another greenlet makes a call with a timeout, which replaces the alarm and
\* cancels it, or it has taken the TimeoutError, in a call or outside.
Disturbed(g) ==
  \E h \in Greenlets \ {g} : Inside(h) \/ result[h] \in {"timeout", "stray"}

\* "Decorator that applies timeout" (util.py:64): a call whose alarm is set
\* ends, though its function may never return and function_retry never gives
\* up, unless another greenlet takes the alarm or its error away from it.
CallsEnd ==
  \A g \in Greenlets : alarm > 0 /\ Due(g) ~> ~Inside(g) \/ Disturbed(g)
=============================================================================
