---------------------------- MODULE TaskRetries ----------------------------
(***************************************************************************)
(* How long a blue-green create takes and how it gives up: the retries of  *)
(* the tasks of tasks/deployment.py with the settings of conf/appconfig.py *)
(* and of the deployment.  A task that waits for something calls           *)
(* self.retry with a countdown until the number of its retries is over     *)
(* max_retries, and then raises what it waited for; a task that uses fleet *)
(* does the same, on the same counter, when fleet is out of reach.         *)
(*                                                                         *)
(* Times are seconds.  Only countdowns and the attempts of the deployment  *)
(* check take time.  A chord takes as long as one of its tasks, which run  *)
(* side by side.  Tasks without retries are left out of the chain.         *)
(*                                                                         *)
(* Operators called Mutant_... are wrong on purpose and used nowhere; see  *)
(* DistributedLock.                                                        *)
(***************************************************************************)
EXTENDS Integers, Sequences

CONSTANTS
  StopTimeout,       \* deployment.stop.timeout, an interval
  StopRetries,       \* deployment.stop.check-retries
  CheckTimeout,      \* deployment.check.timeout, an interval
  Attempts,          \* deployment.check.attempts
  StartConcurrency,  \* the setting: a number and the type of its value
  StartedCounts,     \* how many started deployments a count may find
  FleetErrors        \* TRUE: fleet may be out of reach

VARIABLES
  at,        \* the task of the chain that is queued or running
  retries,   \* request.retries of that task
  waited,    \* time since its first execution
  elapsed,   \* time since the lock was asked for, then since it was granted,
             \* then since the deployment got a START_CONCURRENCY slot
  outcome    \* "running", "done", "gave_up" or "unreachable"

vars == <<at, retries, waited, elapsed, outcome>>

-----------------------------------------------------------------------------
(* Intervals and settings.                                                 *)

Milliseconds == [ms |-> 1, s |-> 1000, m |-> 60000, h |-> 3600000,
                 d |-> 86400000, w |-> 604800000]

Intervals == [n : Nat, unit : DOMAIN Milliseconds]

ToMilliseconds(interval) == interval.n * Milliseconds[interval.unit]

Seconds(interval) == ToMilliseconds(interval) \div 1000

TASK_SETTINGS ==
  [SSH_RETRIES |-> 10, SSH_RETRY_DELAY |-> 10,
   CHECK_RUNNING_RETRIES |-> 30, CHECK_RUNNING_RETRY_DELAY |-> 30,
   CHECK_DISCOVERY_RETRIES |-> 20, CHECK_DISCOVERY_RETRY_DELAY |-> 30,
   LOCK_RETRIES |-> 120, LOCK_RETRY_DELAY |-> 60,
   DEPLOYMENT_WAIT_RETRIES |-> 240, DEPLOYMENT_WAIT_RETRY_DELAY |-> 60,
   CHECK_NODE_RETRY_DELAY |-> 10,
   DEPLOYMENT_STOP_MIN_CHECK_RETRY_DELAY |-> 2,
   DEFAULT_DEPLOYMENT_STOP_CHECK_RETRIES |-> 10,
   START_CONCURRENCY_RETRIES |-> 60, START_CONCURRENCY_RETRY_DELAY |-> 60]

DEFAULT_STOP_TIMEOUT == [n |-> 30, unit |-> "s"]

DEFAULT_LOCK_TTL == 3600

ASSUME StopAssumption == StopTimeout \in Intervals /\ StopRetries \in Nat
ASSUME CheckAssumption == CheckTimeout \in Intervals /\ Attempts \in Nat
ASSUME ConcurrencyAssumption ==
  StartConcurrency \in [type : {"int", "str"}, n : Nat]
ASSUME CountsAssumption == StartedCounts \subseteq Nat
ASSUME FleetAssumption == FleetErrors \in BOOLEAN

-----------------------------------------------------------------------------
(* The tasks: whether they use fleet, whether they wait for something and  *)
(* then with how many retries (max) after which countdown (delay), the     *)
(* countdown before they start, and how long an attempt lasts.             *)

Task(name) ==
  [name |-> name, fleet |-> FALSE, waits |-> FALSE, max |-> 0, delay |-> 0,
   countdown |-> 0, lasts |-> 0, grace |-> 0]

Waiting(name, max, delay) ==
  [Task(name) EXCEPT !.waits = TRUE, !.max = max, !.delay = delay]

UsingLock ==
  Waiting("using_lock", TASK_SETTINGS.LOCK_RETRIES,
          TASK_SETTINGS.LOCK_RETRY_DELAY)

StartDeployment ==
  Waiting("start_deployment", TASK_SETTINGS.START_CONCURRENCY_RETRIES,
          TASK_SETTINGS.START_CONCURRENCY_RETRY_DELAY)

FleetStop == [Task("fleet_stop") EXCEPT !.fleet = TRUE]

\* Zero retries are no value and are replaced by the default.
StopCheckRetries(checkRetries) ==
  IF checkRetries = 0 THEN TASK_SETTINGS.DEFAULT_DEPLOYMENT_STOP_CHECK_RETRIES
                      ELSE checkRetries

Mutant_IntervalWithoutRemainder(timeout, checkRetries) ==
  LET least == TASK_SETTINGS.DEPLOYMENT_STOP_MIN_CHECK_RETRY_DELAY
      share == Seconds(timeout) \div StopCheckRetries(checkRetries)
  IN  IF share > least THEN share ELSE least

\* check_interval of _wait_for_stop.
CheckInterval(timeout, checkRetries) ==
  LET least == TASK_SETTINGS.DEPLOYMENT_STOP_MIN_CHECK_RETRY_DELAY
      share == Seconds(timeout) \div StopCheckRetries(checkRetries) + 1
  IN  IF share > least THEN share ELSE least

WaitForStop(timeout, checkRetries) ==
  [Waiting("wait_for_stop", StopCheckRetries(checkRetries) + 1,
           CheckInterval(timeout, checkRetries))
   EXCEPT !.fleet = TRUE, !.grace = Seconds(timeout)]

FleetUndeploy == [Task("fleet_undeploy") EXCEPT !.fleet = TRUE]

WaitForUndeploy == [Waiting("wait_for_undeploy", 5, 5) EXCEPT !.fleet = TRUE]

FleetDeploy == [Task("fleet_deploy") EXCEPT !.fleet = TRUE]

FleetStart == [Task("fleet_start") EXCEPT !.fleet = TRUE]

FleetCheckDeploy ==
  [Waiting("fleet_check_deploy", TASK_SETTINGS.CHECK_RUNNING_RETRIES,
           TASK_SETTINGS.CHECK_RUNNING_RETRY_DELAY)
   EXCEPT !.fleet = TRUE]

CheckDiscover ==
  Waiting("check_discover", TASK_SETTINGS.CHECK_DISCOVERY_RETRIES,
          TASK_SETTINGS.CHECK_DISCOVERY_RETRY_DELAY)

Mutant_TimeoutInMilliseconds ==
  [Waiting("check_node", Attempts - 1, TASK_SETTINGS.CHECK_NODE_RETRY_DELAY)
   EXCEPT !.lasts = ToMilliseconds(CheckTimeout)]

\* A failed attempt lasts at most as long as the timeout of the request.
CheckNode ==
  [Waiting("check_node", Attempts - 1, TASK_SETTINGS.CHECK_NODE_RETRY_DELAY)
   EXCEPT !.lasts = Seconds(CheckTimeout)]

\* Traffic is given a minute to move before the others are stopped.
StopOthers == [FleetStop EXCEPT !.countdown = 60]

\* _pre_create_undeploy does not pass on what the deployment says about its
\* stop; _promote_deployment does.
Chain ==
  << UsingLock, StartDeployment,
     FleetStop, WaitForStop(DEFAULT_STOP_TIMEOUT, 0),
     FleetUndeploy, WaitForUndeploy,
     FleetDeploy, FleetStart, FleetCheckDeploy, CheckDiscover, CheckNode,
     StopOthers, WaitForStop(StopTimeout, StopRetries),
     FleetUndeploy, WaitForUndeploy >>

Current == Chain[at]

-----------------------------------------------------------------------------
(* Steps.                                                                  *)

Init ==
  /\ at = 1
  /\ retries = 0
  /\ waited = 0
  /\ elapsed = 0
  /\ outcome = "running"

\* self.retry(exc, max_retries=max, countdown=delay) after an attempt that
\* lasted so long.
Retry(max, delay, lasted, reason) ==
  /\ IF retries + 1 > max
     THEN /\ outcome' = reason
          /\ waited' = waited + lasted
          /\ elapsed' = elapsed + lasted
          /\ UNCHANGED retries
     ELSE /\ retries' = retries + 1
          /\ waited' = waited + lasted + delay
          /\ elapsed' = elapsed + lasted + delay
          /\ UNCHANGED outcome
  /\ UNCHANGED at

\* The next task of the chain, or the end of it.
Advance ==
  /\ retries' = 0
  /\ waited' = 0
  /\ IF at = Len(Chain)
     THEN outcome' = "done" /\ UNCHANGED <<at, elapsed>>
     ELSE /\ at' = at + 1
          /\ elapsed' = IF at \in {1, 2} THEN 0
                      ELSE elapsed + Chain[at + 1].countdown
          /\ UNCHANGED outcome

\* used_concurrency >= concurrency.  In Python 2 every number is less than
\* every string, and os.getenv returns a string.
SlotsTaken(used) ==
  StartConcurrency.type = "int" /\ StartConcurrency.n > 0
    /\ used >= StartConcurrency.n

CountStarted ==
  /\ outcome = "running"
  /\ Current.name = "start_deployment"
  /\ \E used \in StartedCounts :
       IF SlotsTaken(used)
       THEN Retry(Current.max, Current.delay, 0, "gave_up")
       ELSE Advance

Passes ==
  /\ outcome = "running"
  /\ Current.name # "start_deployment"
  /\ Advance

NotYet ==
  /\ outcome = "running"
  /\ Current.name # "start_deployment"
  /\ Current.waits
  /\ Retry(Current.max, Current.delay, Current.lasts, "gave_up")

FleetFails ==
  /\ FleetErrors
  /\ outcome = "running"
  /\ Current.fleet
  /\ Retry(TASK_SETTINGS.SSH_RETRIES, TASK_SETTINGS.SSH_RETRY_DELAY, 0,
           "unreachable")

Next == CountStarted \/ Passes \/ NotYet \/ FleetFails

Spec == Init /\ [][Next]_vars

-----------------------------------------------------------------------------
(* Properties.                                                             *)

\* The variables have their types.
TypeOK ==
  /\ at \in 1..Len(Chain)
  /\ {retries, waited, elapsed} \subseteq Nat
  /\ outcome \in {"running", "done", "gave_up", "unreachable"}

\* The comment of LockService asks that "the processing must finish during
\* this timeframe", the lease of the application lock (deployment.py:286).  The
\* waits of all tasks together fit the lease, unless the deployment queues
\* for a START_CONCURRENCY slot or asks for longer timeouts of its own.
WaitsFitLease == at > 2 => elapsed <= DEFAULT_LOCK_TTL

\* async_wait exhausts its retries only after every wait of the chain it
\* watches, a slot of START_CONCURRENCY included, has come to its end: the
\* callbacks do not start because the pipeline is slow (deployment.py:308).
AsyncWaitOutlasts ==
  LET allowed == TASK_SETTINGS.DEPLOYMENT_WAIT_RETRIES
                   * TASK_SETTINGS.DEPLOYMENT_WAIT_RETRY_DELAY
      slot == StartDeployment.max * StartDeployment.delay
  IN  /\ at = 2 => elapsed < allowed
      /\ at > 2 => elapsed + slot < allowed

\* A job gives up the lock of its application (deployment.py:288) only after a
\* time in which a lock that a dead job left behind has expired.
LockWaitOutlastsLease ==
  at = 1 /\ outcome = "gave_up" => elapsed >= DEFAULT_LOCK_TTL

\* Whoever waits for somebody else, with a limit of its own, waits as long as
\* that may take: the lease for the pipeline, async_wait for the pipeline and
\* its slot, and the next job for a lease that nobody will release.
WaitsFit == WaitsFitLease /\ AsyncWaitOutlasts /\ LockWaitOutlastsLease

\* _wait_for_stop (deployment.py:620) fails with NodeNotStopped only after the
\* timeout that it was given: the interval is the timeout divided by the
\* retries without its remainder, and the number of retries makes up for it.
\* Fleet errors use the same counter and each take SSH_RETRY_DELAY, so this
\* needs a check interval that is not longer (PatientWithFleet in the proofs);
\* with a longer one, or with the default timeout for a redeployed version
\* where the deployment asks for more, the time is not granted.
StopTimeGranted ==
  Current.name = "wait_for_stop" /\ outcome = "gave_up"
    => waited >= Current.grace
=============================================================================
