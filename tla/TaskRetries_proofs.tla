------------------------- MODULE TaskRetries_proofs -------------------------
(***************************************************************************)
(* For every stop timeout and every number of check retries: a deployment  *)
(* has its timeout before _wait_for_stop fails; and whoever waits for      *)
(* somebody else waits long enough, as long as what the deployment sets    *)
(* leaves the tasks with fixed settings their part of the lease.           *)
(*                                                                         *)
(* The arguments: what a task waited is at least its retries times its     *)
(* interval (IInv), and what the chain took is at most the budgets of the  *)
(* tasks before and what the retries so far took of the current one (SInv).*)
(***************************************************************************)
EXTENDS TaskRetries, TLAPS

\* Rounding down is made up for by the second added to each interval.
LEMMA Share ==
  ASSUME NEW t \in Nat, NEW c \in Nat \ {0}
  PROVE  /\ t \div c \in Nat
         /\ c * (t \div c) + c > t
<1>1. t \div c \in Int /\ t % c \in 0..(c - 1) OBVIOUS
<1>2. t = c * (t \div c) + (t % c) OBVIOUS
<1>3. c * (t \div c) + c > t BY <1>1, <1>2
<1>4. t \div c >= 0 OBVIOUS
<1> QED BY <1>1, <1>3, <1>4

\* An interval is a number of whole seconds.
LEMMA SecondsType == \A i \in Intervals : Seconds(i) \in Nat
<1> SUFFICES ASSUME NEW i \in Intervals PROVE Seconds(i) \in Nat OBVIOUS
<1>1. i.n \in Nat /\ i.unit \in {"ms", "s", "m", "h", "d", "w"}
  BY DEF Intervals, Milliseconds
<1>2. Milliseconds[i.unit] \in Nat BY <1>1 DEF Milliseconds
<1>3. \A a, b \in Nat : a * b \in Nat OBVIOUS
<1>4. ToMilliseconds(i) \in Nat BY <1>1, <1>2, <1>3 DEF ToMilliseconds
<1>5. \A m \in Nat : m \div 1000 \in Nat OBVIOUS
<1> QED BY <1>4, <1>5 DEF Seconds

-----------------------------------------------------------------------------
(* The two waits for a stop, and the chain.                                *)

\* The retries of _wait_for_stop, each after its interval, take at least the
\* timeout.
LEMMA RetriesTakeTheTimeout ==
  ASSUME NEW t \in Intervals, NEW r \in Nat
  PROVE  LET task == WaitForStop(t, r)
         IN  /\ task.max \in Nat
             /\ task.delay \in Nat
             /\ task.grace \in Nat
             /\ task.lasts = 0
             /\ task.max * task.delay >= task.grace
<1> DEFINE c == StopCheckRetries(r)
           s == Seconds(t)
           i == CheckInterval(t, r)
<1>1. c \in Nat \ {0} BY DEF StopCheckRetries, TASK_SETTINGS
<1>2. s \in Nat BY SecondsType
<1>3. s \div c \in Nat /\ c * (s \div c) + c > s BY <1>1, <1>2, Share
<1>4. i \in Nat /\ i >= s \div c + 1
  <2>1. TASK_SETTINGS.DEPLOYMENT_STOP_MIN_CHECK_RETRY_DELAY = 2
    BY DEF TASK_SETTINGS
  <2> HIDE DEF c, s
  <2>2. i = IF s \div c + 1 > 2 THEN s \div c + 1 ELSE 2
    BY <2>1 DEF CheckInterval, c, s
  <2> QED BY <2>2, <1>3
<1>5. (c + 1) * i >= s
  <2> HIDE DEF c, s, i
  <2>1. \A a, b, d \in Nat : b >= d => a * b >= a * d OBVIOUS
  <2>2. c * i >= c * (s \div c + 1) BY <2>1, <1>1, <1>3, <1>4
  <2>3. c * (s \div c + 1) = c * (s \div c) + c BY <1>1, <1>3
  <2>4. (c + 1) * i = c * i + i BY <1>1, <1>4
  <2>5. c * i \in Nat /\ c * (s \div c) \in Nat
    <3>1. \A a, b \in Nat : a * b \in Nat OBVIOUS
    <3> QED BY <3>1, <1>1, <1>3, <1>4
  <2> QED BY <2>2, <2>3, <2>4, <2>5, <1>1, <1>2, <1>3, <1>4
<1>6. LET task == WaitForStop(t, r)
      IN  /\ task.max = c + 1
          /\ task.delay = i
          /\ task.grace = s
          /\ task.lasts = 0
  BY DEF WaitForStop, Waiting, Task
<1> QED
  <2> HIDE DEF c, s, i
  <2> QED BY <1>1, <1>2, <1>4, <1>5, <1>6

\* Where the chain waits for a stop, and that its times are numbers.
LEMMA Tasks ==
  ASSUME NEW n \in 1..Len(Chain)
  PROVE  /\ Chain[n].countdown \in Nat
         /\ Chain[n].lasts \in Nat
         /\ Chain[n].delay \in Nat
         /\ Chain[n].max \in Int
         /\ Chain[n].name = "wait_for_stop" =>
              \/ Chain[n] = WaitForStop(DEFAULT_STOP_TIMEOUT, 0)
              \/ Chain[n] = WaitForStop(StopTimeout, StopRetries)
<1>1. n \in 1..15 BY DEF Chain
<1>2. DEFAULT_STOP_TIMEOUT \in Intervals
  BY DEF DEFAULT_STOP_TIMEOUT, Intervals, Milliseconds
<1>3. CASE n \in {4, 13}
  <2>1. \/ Chain[n] = WaitForStop(DEFAULT_STOP_TIMEOUT, 0)
        \/ Chain[n] = WaitForStop(StopTimeout, StopRetries)
    BY <1>3 DEF Chain
  <2>2. Chain[n].countdown = 0 BY <2>1 DEF WaitForStop, Waiting, Task
  <2> QED BY <2>1, <2>2, <1>2, RetriesTakeTheTimeout, StopAssumption
<1>4. CASE n \notin {4, 13}
  <2>1. Seconds(CheckTimeout) \in Nat /\ Attempts \in Nat
    BY SecondsType, CheckAssumption
  <2>2. Chain[n] \in
          {UsingLock, StartDeployment, FleetStop, FleetUndeploy,
           WaitForUndeploy, FleetDeploy, FleetStart, FleetCheckDeploy,
           CheckDiscover, CheckNode, StopOthers}
    BY <1>1, <1>4 DEF Chain
  <2> DEFINE Times(task) ==
        /\ task.countdown \in Nat /\ task.lasts \in Nat /\ task.delay \in Nat
        /\ task.max \in Int /\ task.name # "wait_for_stop"
  <2>3. Times(UsingLock) /\ Times(StartDeployment) /\ Times(CheckDiscover)
    BY DEF UsingLock, StartDeployment, CheckDiscover, Waiting, Task,
           TASK_SETTINGS
  <2>4. Times(FleetStop) /\ Times(StopOthers) /\ Times(FleetUndeploy)
        /\ Times(FleetDeploy) /\ Times(FleetStart)
    BY DEF FleetStop, StopOthers, FleetUndeploy, FleetDeploy, FleetStart, Task
  <2>5. Times(WaitForUndeploy) /\ Times(FleetCheckDeploy)
    BY DEF WaitForUndeploy, FleetCheckDeploy, Waiting, Task, TASK_SETTINGS
  <2>6. Times(CheckNode)
    BY <2>1 DEF CheckNode, Waiting, Task, TASK_SETTINGS
  <2> HIDE DEF Times
  <2>7. Times(Chain[n]) BY <2>2, <2>3, <2>4, <2>5, <2>6
  <2> QED BY <2>7 DEF Times
<1> QED BY <1>3, <1>4

-----------------------------------------------------------------------------
(* The invariant.                                                          *)

\* While a deployment is waited for to stop, each retry so far has taken the
\* interval.
Paced ==
  Current.name = "wait_for_stop" =>
    /\ waited >= retries * Current.delay
    /\ outcome = "gave_up" => retries >= Current.max

\* Fleet errors do not use up retries faster than that.
PatientWithFleet ==
  FleetErrors =>
    /\ CheckInterval(StopTimeout, StopRetries) <= TASK_SETTINGS.SSH_RETRY_DELAY
    /\ CheckInterval(DEFAULT_STOP_TIMEOUT, 0) <= TASK_SETTINGS.SSH_RETRY_DELAY

IInv == TypeOK /\ Paced

\* The first task has waited for nothing.
LEMMA InitInv == ASSUME Init PROVE IInv
<1>1. 1 \in 1..Len(Chain) /\ Chain[1] = UsingLock BY DEF Chain
<1>2. UsingLock.name = "using_lock" BY DEF UsingLock, Waiting, Task
<1> QED BY <1>1, <1>2 DEF Init, IInv, TypeOK, Paced, Current

\* The next task starts afresh.
LEMMA AdvanceKeeps ==
  ASSUME IInv, Advance, outcome = "running"
  PROVE  IInv'
<1>1. Len(Chain) = 15 BY DEF Chain
<1>2. at \in 1..15 BY <1>1 DEF IInv, TypeOK
<1>3. CASE at = Len(Chain)
  <2>1. TypeOK' BY <1>1, <1>3 DEF Advance, IInv, TypeOK
  <2>2. Paced'
    <3>1. Chain[15] = WaitForUndeploy BY DEF Chain
    <3>2. WaitForUndeploy.name = "wait_for_undeploy"
      BY DEF WaitForUndeploy, Waiting, Task
    <3>3. Current' = WaitForUndeploy
      BY <1>1, <1>3, <3>1 DEF Advance, Current
    <3> QED BY <3>2, <3>3 DEF Paced
  <2> QED BY <2>1, <2>2 DEF IInv
<1>4. CASE at # Len(Chain)
  <2>1. at' \in 1..Len(Chain) /\ at + 1 \in 1..Len(Chain) /\ at' = at + 1
    BY <1>1, <1>2, <1>4 DEF Advance
  <2>2. Chain[at'].countdown \in Nat /\ Chain[at'].delay \in Nat
    BY <2>1, Tasks
  <2>3. TypeOK' BY <1>4, <2>1, <2>2 DEF Advance, IInv, TypeOK
  <2>4. Current' = Chain[at'] BY DEF Current
  <2>5. retries' = 0 /\ waited' = 0 /\ outcome' = "running"
    BY <1>4 DEF Advance
  <2>6. retries' * Current'.delay = 0 BY <2>2, <2>4, <2>5
  <2>7. Paced' BY <2>5, <2>6 DEF Paced
  <2> QED BY <2>3, <2>7 DEF IInv
<1> QED BY <1>3, <1>4

\* A retry after at least the interval keeps the pace, and one that is refused
\* comes after all retries that the task has.
LEMMA RetryKeeps ==
  ASSUME IInv, outcome = "running",
         NEW max \in Int, NEW delay \in Nat, NEW lasted \in Nat,
         NEW reason \in {"gave_up", "unreachable"},
         Retry(max, delay, lasted, reason),
         Current.name = "wait_for_stop" => delay >= Current.delay,
         Current.name = "wait_for_stop" /\ reason = "gave_up"
           => max = Current.max
  PROVE  IInv'
<1>1. at' = at /\ Current' = Current BY DEF Retry, Current
<1>2. at \in 1..Len(Chain) /\ retries \in Nat /\ waited \in Nat
      /\ elapsed \in Nat
  BY DEF IInv, TypeOK
<1>3. TypeOK' BY <1>1, <1>2 DEF Retry, IInv, TypeOK
<1>4. ASSUME Current.name = "wait_for_stop" PROVE Paced'
  <2>1. Current.delay \in Nat /\ Current.max \in Int
    BY <1>2, Tasks DEF Current
  <2> DEFINE d == Current.delay
             m == Current.max
  <2>2. waited >= retries * d BY <1>4 DEF IInv, Paced
  <2>3. delay >= d BY <1>4
  <2>4. d \in Nat /\ m \in Int BY <2>1
  <2>5. Paced' <=> /\ waited' >= retries' * d
                   /\ outcome' = "gave_up" => retries' >= m
    BY <1>1, <1>4 DEF Paced
  <2> HIDE DEF d
  <2>6. (retries + 1) * d = retries * d + d /\ retries * d \in Int
    <3>1. \A a, b \in Nat : (a + 1) * b = a * b + b /\ a * b \in Int OBVIOUS
    <3> QED BY <3>1, <1>2, <2>4
  <2>7. CASE retries + 1 > max
    <3>1. waited' >= retries' * d
      BY <1>2, <2>2, <2>6, <2>7 DEF Retry
    <3>2. outcome' = "gave_up" => retries' >= m
      BY <1>2, <1>4, <2>4, <2>7 DEF Retry
    <3> QED BY <3>1, <3>2, <2>5
  <2>8. CASE ~(retries + 1 > max)
    <3>1. waited' = waited + lasted + delay /\ retries' = retries + 1
          /\ outcome' = outcome
      BY <2>8 DEF Retry
    <3>2. waited' >= retries' * d BY <3>1, <1>2, <2>2, <2>3, <2>4, <2>6
    <3> QED BY <3>1, <3>2, <2>5
  <2> QED BY <2>7, <2>8
<1>5. ASSUME Current.name # "wait_for_stop" PROVE Paced'
  BY <1>1, <1>5 DEF Paced
<1> QED BY <1>3, <1>4, <1>5 DEF IInv

\* A retry adds its interval and counts.
LEMMA StepInv ==
  ASSUME PatientWithFleet, IInv, [Next]_vars
  PROVE  IInv'
<1>1. at \in 1..Len(Chain) BY DEF IInv, TypeOK
<1>2. Current.delay \in Nat /\ Current.max \in Int /\ Current.lasts \in Nat
  BY <1>1, Tasks DEF Current
<1>3. CASE CountStarted
  <2>1. CASE Advance BY <1>3, <2>1, AdvanceKeeps DEF CountStarted
  <2>2. CASE Retry(Current.max, Current.delay, 0, "gave_up")
    <3>1. Current.name # "wait_for_stop" BY <1>3 DEF CountStarted
    <3> QED BY <1>2, <1>3, <2>2, <3>1, RetryKeeps DEF CountStarted
  <2> QED BY <1>3, <2>1, <2>2 DEF CountStarted
<1>4. CASE Passes
  BY <1>4, AdvanceKeeps DEF Passes
<1>5. CASE NotYet
  <2>1. Current.delay >= Current.delay BY <1>2
  <2> QED BY <1>2, <1>5, <2>1, RetryKeeps DEF NotYet
<1>6. CASE FleetFails
  <2>1. TASK_SETTINGS.SSH_RETRIES \in Int
        /\ TASK_SETTINGS.SSH_RETRY_DELAY \in Nat
    BY DEF TASK_SETTINGS
  <2>2. Current.name = "wait_for_stop"
          => TASK_SETTINGS.SSH_RETRY_DELAY >= Current.delay
    <3>1. SUFFICES ASSUME Current.name = "wait_for_stop"
                   PROVE  TASK_SETTINGS.SSH_RETRY_DELAY >= Current.delay
      OBVIOUS
    <3>2. \A t, r : WaitForStop(t, r).delay = CheckInterval(t, r)
      BY DEF WaitForStop, Waiting, Task
    <3>3. \/ Current.delay = CheckInterval(StopTimeout, StopRetries)
          \/ Current.delay = CheckInterval(DEFAULT_STOP_TIMEOUT, 0)
      BY <1>1, <3>1, <3>2, Tasks DEF Current
    <3> QED BY <1>2, <1>6, <2>1, <3>3 DEF FleetFails, PatientWithFleet
  <2>3. Retry(TASK_SETTINGS.SSH_RETRIES, TASK_SETTINGS.SSH_RETRY_DELAY, 0,
              "unreachable") /\ outcome = "running"
    BY <1>6 DEF FleetFails
  <2> HIDE DEF TASK_SETTINGS
  <2> QED BY <2>1, <2>2, <2>3, RetryKeeps
<1>7. CASE UNCHANGED vars
  BY <1>7 DEF vars, IInv, TypeOK, Paced, Current
<1> QED BY <1>3, <1>4, <1>5, <1>6, <1>7 DEF Next

\* _wait_for_stop fails only after the timeout of the stop, for every timeout
\* and every number of check retries, if fleet can be reached or if the
\* countdown after fleet errors is not shorter than the interval.
THEOREM StopTime ==
  ASSUME PatientWithFleet
  PROVE  Spec => []StopTimeGranted
<1>1. IInv => StopTimeGranted
  <2>1. SUFFICES ASSUME IInv, Current.name = "wait_for_stop",
                        outcome = "gave_up"
                 PROVE  waited >= Current.grace
    BY DEF StopTimeGranted
  <2>2. at \in 1..Len(Chain) BY <2>1 DEF IInv, TypeOK
  <2>3. DEFAULT_STOP_TIMEOUT \in Intervals
    BY DEF DEFAULT_STOP_TIMEOUT, Intervals, Milliseconds
  <2>4. \E t \in Intervals, r \in Nat : Current = WaitForStop(t, r)
    BY <2>1, <2>2, <2>3, Tasks, StopAssumption DEF Current
  <2>5. /\ Current.max \in Nat /\ Current.delay \in Nat
        /\ Current.grace \in Nat
        /\ Current.max * Current.delay >= Current.grace
    BY <2>4, RetriesTakeTheTimeout
  <2>6. retries \in Nat /\ waited \in Nat /\ retries >= Current.max
        /\ waited >= retries * Current.delay
    BY <2>1 DEF IInv, TypeOK, Paced
  <2>7. \A a, b, c \in Nat : a >= b => a * c >= b * c /\ a * c \in Nat
    OBVIOUS
  <2>8. retries * Current.delay >= Current.max * Current.delay
        /\ retries * Current.delay \in Nat
    BY <2>5, <2>6, <2>7
  <2>9. \A a, b \in Nat : a * b \in Nat OBVIOUS
  <2> QED BY <2>5, <2>6, <2>8, <2>9
<1> QED BY <1>1, InitInv, StepInv, PTL DEF Spec

-----------------------------------------------------------------------------
(* How long everything takes.                                              *)

Larger(a, b) == IF a > b THEN a ELSE b

\* The most that a task is retried, each retry with its attempt, and in all.
\* Both reasons to retry use one counter: one may begin where the other one
\* would have ended.
MostRetries(task) ==
  Larger(IF task.waits THEN task.max ELSE 0,
         IF task.fleet THEN TASK_SETTINGS.SSH_RETRIES ELSE 0)
RetryTime(task) ==
  Larger(task.lasts + task.delay,
         IF task.fleet THEN TASK_SETTINGS.SSH_RETRY_DELAY ELSE 0)
Budget(task) == MostRetries(task) * RetryTime(task) + task.lasts

\* The tasks whose times a deployment sets itself.
OwnBudget == Budget(CheckNode) + Budget(WaitForStop(StopTimeout, StopRetries))

\* The time since the lock was granted and a slot was found until the first
\* execution of each task, and, last, until the end.
Before ==
  << 0, 0, 0, 100, 210, 310, 410, 510, 610, 1510, 2110,
     2170 + Budget(CheckNode), 2270 + Budget(CheckNode), 2270 + OwnBudget,
     2370 + OwnBudget, 2470 + OwnBudget >>

\* Each task has its budget, and the wait for the lock takes its time.
Spending ==
  /\ retries <= MostRetries(Current)
  /\ outcome = "running" => elapsed <= Before[at] + retries * RetryTime(Current)
  /\ outcome # "running" => elapsed <= Before[at] + Budget(Current)
  /\ at = 1 =>
       /\ elapsed = retries * Current.delay
       /\ outcome = "gave_up" => retries >= Current.max

SInv == TypeOK /\ Spending

\* What the deployment sets leaves the rest of the lease to the others.
Modest == 2470 + OwnBudget <= DEFAULT_LOCK_TTL

\* Budgets are numbers, and one for each retry is within them.
LEMMA BudgetType ==
  ASSUME NEW task, task.waits \in BOOLEAN, task.fleet \in BOOLEAN,
         task.max \in Int, task.lasts \in Nat, task.delay \in Nat
  PROVE  /\ MostRetries(task) \in Int
         /\ RetryTime(task) \in Nat
         /\ RetryTime(task) >= task.lasts + task.delay
         /\ task.fleet => RetryTime(task) >= TASK_SETTINGS.SSH_RETRY_DELAY
         /\ task.fleet => MostRetries(task) >= TASK_SETTINGS.SSH_RETRIES
         /\ task.waits => MostRetries(task) >= task.max
         /\ MostRetries(task) >= 0
BY DEF MostRetries, RetryTime, Larger, TASK_SETTINGS

\* What the tasks of the chain are.
LEMMA TaskTypes ==
  ASSUME NEW n \in 1..Len(Chain)
  PROVE  /\ Chain[n].waits \in BOOLEAN
         /\ Chain[n].fleet \in BOOLEAN
         /\ Chain[n].name = "start_deployment" => n = 2
<1>1. n \in 1..15 BY DEF Chain
<1> DEFINE Kinds(task) ==
      /\ task.waits \in BOOLEAN /\ task.fleet \in BOOLEAN
      /\ task.name # "start_deployment"
<1>2. Kinds(UsingLock) /\ Kinds(CheckDiscover) /\ Kinds(CheckNode)
  BY DEF UsingLock, CheckDiscover, CheckNode, Waiting, Task
<1>3. Kinds(FleetStop) /\ Kinds(StopOthers) /\ Kinds(FleetUndeploy)
      /\ Kinds(FleetDeploy) /\ Kinds(FleetStart)
  BY DEF FleetStop, StopOthers, FleetUndeploy, FleetDeploy, FleetStart, Task
<1>4. Kinds(WaitForUndeploy) /\ Kinds(FleetCheckDeploy)
      /\ \A t, r : Kinds(WaitForStop(t, r))
  BY DEF WaitForUndeploy, FleetCheckDeploy, WaitForStop, Waiting, Task
<1>5. CASE n = 2
  BY <1>5 DEF Chain, StartDeployment, Waiting, Task
<1>6. CASE n # 2
  <2>1. Chain[n] \in
          {UsingLock, FleetStop, WaitForStop(DEFAULT_STOP_TIMEOUT, 0),
           FleetUndeploy, WaitForUndeploy, FleetDeploy, FleetStart,
           FleetCheckDeploy, CheckDiscover, CheckNode, StopOthers,
           WaitForStop(StopTimeout, StopRetries)}
    BY <1>1, <1>6 DEF Chain
  <2> HIDE DEF Kinds
  <2>2. Kinds(Chain[n]) BY <2>1, <1>2, <1>3, <1>4
  <2> QED BY <2>2 DEF Kinds
<1> QED BY <1>5, <1>6

\* What the provers need to know of the tasks of a chain, with the bounds of
\* BudgetType.
LEMMA TaskBudgets ==
  ASSUME NEW n \in 1..Len(Chain)
  PROVE  /\ MostRetries(Chain[n]) \in Nat
         /\ RetryTime(Chain[n]) \in Nat
         /\ Budget(Chain[n]) \in Nat
         /\ RetryTime(Chain[n]) >= Chain[n].lasts + Chain[n].delay
         /\ Chain[n].waits => MostRetries(Chain[n]) >= Chain[n].max
         /\ Chain[n].fleet =>
              /\ RetryTime(Chain[n]) >= TASK_SETTINGS.SSH_RETRY_DELAY
              /\ MostRetries(Chain[n]) >= TASK_SETTINGS.SSH_RETRIES
<1> DEFINE task == Chain[n]
<1>1. /\ task.waits \in BOOLEAN /\ task.fleet \in BOOLEAN /\ task.max \in Int
      /\ task.lasts \in Nat /\ task.delay \in Nat
  BY Tasks, TaskTypes
<1> HIDE DEF task
<1>2. /\ MostRetries(task) \in Int
      /\ RetryTime(task) \in Nat
      /\ RetryTime(task) >= task.lasts + task.delay
      /\ task.fleet => RetryTime(task) >= TASK_SETTINGS.SSH_RETRY_DELAY
      /\ task.fleet => MostRetries(task) >= TASK_SETTINGS.SSH_RETRIES
      /\ task.waits => MostRetries(task) >= task.max
      /\ MostRetries(task) >= 0
  BY <1>1, BudgetType
<1>3. Budget(task) \in Nat
  <2>1. \A a, b, c \in Nat : a * b + c \in Nat OBVIOUS
  <2> QED BY <1>1, <1>2, <2>1 DEF Budget
<1> QED BY <1>2, <1>3 DEF task

\* The budgets of the tasks with the settings of the code.
LEMMA FixedBudgets ==
  /\ \A task \in {FleetStop, FleetUndeploy, FleetDeploy, FleetStart, StopOthers} :
       Budget(task) = 100
  /\ Budget(WaitForStop(DEFAULT_STOP_TIMEOUT, 0)) = 110
  /\ Budget(WaitForUndeploy) = 100
  /\ Budget(FleetCheckDeploy) = 900
  /\ Budget(CheckDiscover) = 600
<1> USE DEF Budget, MostRetries, RetryTime, Larger, TASK_SETTINGS
<1>1. \A task \in {FleetStop, FleetUndeploy, FleetDeploy, FleetStart, StopOthers} :
        ~task.waits /\ task.fleet /\ task.delay = 0 /\ task.lasts = 0
  BY DEF FleetStop, StopOthers, FleetUndeploy, FleetDeploy, FleetStart, Task
<1>2. \A task \in {FleetStop, FleetUndeploy, FleetDeploy, FleetStart, StopOthers} :
        Budget(task) = 100
  BY <1>1
<1>3. WaitForUndeploy.waits /\ WaitForUndeploy.fleet /\ WaitForUndeploy.max = 5
      /\ WaitForUndeploy.delay = 5 /\ WaitForUndeploy.lasts = 0
  BY DEF WaitForUndeploy, Waiting, Task
<1>4. FleetCheckDeploy.waits /\ FleetCheckDeploy.fleet
      /\ FleetCheckDeploy.max = 30 /\ FleetCheckDeploy.delay = 30
      /\ FleetCheckDeploy.lasts = 0
  BY DEF FleetCheckDeploy, Waiting, Task
<1>5. CheckDiscover.waits /\ ~CheckDiscover.fleet /\ CheckDiscover.max = 20
      /\ CheckDiscover.delay = 30 /\ CheckDiscover.lasts = 0
  BY DEF CheckDiscover, Waiting, Task
<1> DEFINE stop == WaitForStop(DEFAULT_STOP_TIMEOUT, 0)
<1>6. Seconds(DEFAULT_STOP_TIMEOUT) = 30
  BY DEF Seconds, ToMilliseconds, DEFAULT_STOP_TIMEOUT, Milliseconds
<1>7. StopCheckRetries(0) = 10 /\ CheckInterval(DEFAULT_STOP_TIMEOUT, 0) = 4
  BY <1>6 DEF StopCheckRetries, CheckInterval
<1>8. stop.waits /\ stop.fleet /\ stop.max = 11 /\ stop.delay = 4
      /\ stop.lasts = 0
  BY <1>7 DEF WaitForStop, Waiting, Task
<1> HIDE DEF stop
<1>9. Budget(WaitForUndeploy) = 100 BY <1>3
<1>10. Budget(FleetCheckDeploy) = 900 BY <1>4
<1>11. Budget(CheckDiscover) = 600 BY <1>5
<1>12. Budget(stop) = 110 BY <1>8
<1> HIDE DEF Budget
<1> QED BY <1>2, <1>9, <1>10, <1>11, <1>12 DEF stop

\* After the first two tasks each begins when those before it have used their
\* budgets.
LEMMA BeforeAdds ==
  ASSUME NEW n \in 3..15
  PROVE  /\ Before[n] \in Nat /\ Before[n + 1] \in Nat
         /\ Before[n + 1] >= Before[n] + Budget(Chain[n])
                              + (IF n = 15 THEN 0 ELSE Chain[n + 1].countdown)
         /\ Before[n + 1] <= 2470 + OwnBudget
<1> DEFINE C == Budget(CheckNode)
           W == Budget(WaitForStop(StopTimeout, StopRetries))
           D == Budget(WaitForStop(DEFAULT_STOP_TIMEOUT, 0))
<1>0. Len(Chain) = 15 BY DEF Chain
<1>1. C \in Nat /\ W \in Nat
  <2>1. Budget(Chain[11]) \in Nat /\ Budget(Chain[13]) \in Nat
    BY <1>0, TaskBudgets
  <2>2. Chain[11] = CheckNode /\ Chain[13] = WaitForStop(StopTimeout, StopRetries)
    BY DEF Chain
  <2> QED BY <2>1, <2>2
<1>2. /\ Chain[3] = FleetStop
      /\ Chain[4] = WaitForStop(DEFAULT_STOP_TIMEOUT, 0)
      /\ Chain[5] = FleetUndeploy /\ Chain[6] = WaitForUndeploy
      /\ Chain[7] = FleetDeploy /\ Chain[8] = FleetStart
      /\ Chain[9] = FleetCheckDeploy /\ Chain[10] = CheckDiscover
      /\ Chain[11] = CheckNode /\ Chain[12] = StopOthers
      /\ Chain[13] = WaitForStop(StopTimeout, StopRetries)
      /\ Chain[14] = FleetUndeploy /\ Chain[15] = WaitForUndeploy
  BY DEF Chain
<1>3. /\ Budget(Chain[3]) = 100 /\ Budget(Chain[4]) = 110
      /\ Budget(Chain[5]) = 100 /\ Budget(Chain[6]) = 100
      /\ Budget(Chain[7]) = 100 /\ Budget(Chain[8]) = 100
      /\ Budget(Chain[9]) = 900 /\ Budget(Chain[10]) = 600
      /\ Budget(Chain[11]) = C /\ Budget(Chain[12]) = 100
      /\ Budget(Chain[13]) = W
      /\ Budget(Chain[14]) = 100 /\ Budget(Chain[15]) = 100
  BY <1>2, FixedBudgets
<1>4. \A m \in 4..15 : Chain[m].countdown = IF m = 12 THEN 60 ELSE 0
  <2>1. /\ FleetUndeploy.countdown = 0 /\ WaitForUndeploy.countdown = 0
        /\ FleetDeploy.countdown = 0 /\ FleetStart.countdown = 0
        /\ FleetCheckDeploy.countdown = 0 /\ CheckDiscover.countdown = 0
        /\ CheckNode.countdown = 0 /\ StopOthers.countdown = 60
        /\ \A t, r : WaitForStop(t, r).countdown = 0
    BY DEF FleetUndeploy, WaitForUndeploy, FleetDeploy, FleetStart,
           FleetCheckDeploy, CheckDiscover, CheckNode, StopOthers, FleetStop,
           WaitForStop, Waiting, Task
  <2> QED BY <2>1, <1>2
<1>5. OwnBudget = C + W BY DEF OwnBudget
<1>6. Before = << 0, 0, 0, 100, 210, 310, 410, 510, 610, 1510, 2110,
                  2170 + C, 2270 + C, 2270 + (C + W), 2370 + (C + W),
                  2470 + (C + W) >>
  BY <1>5 DEF Before
<1> HIDE DEF C, W
<1>7. n \in {3, 4, 5, 6, 7, 8, 9, 10, 11, 12, 13, 14, 15} OBVIOUS
<1>8. CASE n \in 3..6 BY <1>1, <1>3, <1>4, <1>5, <1>6, <1>8
<1>9. CASE n \in 7..10 BY <1>1, <1>3, <1>4, <1>5, <1>6, <1>9
<1>10. CASE n \in 11..15 BY <1>1, <1>3, <1>4, <1>5, <1>6, <1>10
<1> QED BY <1>7, <1>8, <1>9, <1>10

-----------------------------------------------------------------------------
(* The steps.                                                              *)

\* Nothing is spent at the start.
LEMMA SpendingInit == ASSUME Init PROVE SInv
<1>1. 1 \in 1..Len(Chain) /\ Chain[1] = UsingLock BY DEF Chain
<1>2. MostRetries(Chain[1]) \in Nat /\ RetryTime(Chain[1]) \in Nat
      /\ Chain[1].delay \in Nat
  BY <1>1, TaskBudgets, Tasks
<1>3. Before[1] = 0 BY DEF Before
<1>4. 0 * RetryTime(Chain[1]) = 0 /\ 0 * Chain[1].delay = 0 BY <1>2
<1>5. at = 1 /\ retries = 0 /\ elapsed = 0 /\ outcome = "running" BY DEF Init
<1>6. Current = Chain[1] BY <1>5 DEF Current
<1>7. Spending BY <1>2, <1>3, <1>4, <1>5, <1>6 DEF Spending
<1> QED BY <1>1, <1>5, <1>7 DEF Init, SInv, TypeOK

\* The next task begins with its retries, before which all others had theirs.
LEMMA SpendingAdvance ==
  ASSUME SInv, Advance, outcome = "running"
  PROVE  SInv'
<1>1. Len(Chain) = 15 BY DEF Chain
<1>2. at \in 1..15 /\ elapsed \in Nat /\ retries \in Nat
  BY <1>1 DEF SInv, TypeOK
<1> DEFINE m == MostRetries(Current)
           r == RetryTime(Current)
<1>3. m \in Nat /\ r \in Nat /\ Current.lasts \in Nat
      /\ Budget(Current) = m * r + Current.lasts
  BY <1>1, <1>2, TaskBudgets, Tasks DEF Current, Budget
<1>4. retries <= m /\ elapsed <= Before[at] + retries * r
  BY DEF SInv, Spending
<1> HIDE DEF m, r
<1>5. retries * r <= m * r /\ retries * r \in Nat /\ m * r \in Nat
  <2>1. \A a, b, c \in Nat : a <= b => a * c <= b * c OBVIOUS
  <2>2. \A a, b \in Nat : a * b \in Nat OBVIOUS
  <2> QED BY <1>2, <1>3, <1>4, <2>1, <2>2
<1>6. at \in 3..15 => elapsed <= Before[at] + Budget(Current)
  <2>1. at \in 3..15 => Before[at] \in Nat BY BeforeAdds
  <2> QED BY <1>2, <1>3, <1>4, <1>5, <2>1
<1>7. CASE at = 15
  <2>1. at' = at /\ elapsed' = elapsed /\ outcome' = "done" /\ retries' = 0
        /\ waited' = 0
    BY <1>1, <1>7 DEF Advance
  <2>2. Current' = Current BY <2>1 DEF Current
  <2>3. TypeOK' BY <2>1 DEF SInv, TypeOK
  <2>4. MostRetries(Current) \in Nat BY <1>3 DEF m
  <2>5. Spending' BY <1>6, <1>7, <2>1, <2>2, <2>4 DEF Spending
  <2> QED BY <2>3, <2>5 DEF SInv
<1>8. CASE at # 15
  <2>1. at' = at + 1 /\ retries' = 0 /\ waited' = 0 /\ outcome' = "running"
        /\ elapsed' = IF at \in {1, 2} THEN 0
                      ELSE elapsed + Chain[at + 1].countdown
    BY <1>1, <1>8 DEF Advance
  <2>2. at' \in 2..15 /\ Current' = Chain[at'] BY <1>2, <1>8, <2>1 DEF Current
  <2>3. MostRetries(Chain[at']) \in Nat /\ RetryTime(Chain[at']) \in Nat
        /\ Chain[at'].countdown \in Nat
    BY <1>1, <2>2, TaskBudgets, Tasks
  <2>4. TypeOK' BY <1>1, <1>2, <2>1, <2>2, <2>3 DEF SInv, TypeOK
  <2>5. elapsed' <= Before[at']
    <3>1. CASE at \in {1, 2}
      <4>1. Before[2] = 0 /\ Before[3] = 0 BY DEF Before
      <4> QED BY <2>1, <3>1, <4>1
    <3>2. CASE at \in 3..14
      <4>1. /\ Before[at] \in Nat /\ Before[at + 1] \in Nat
            /\ Before[at + 1] >= Before[at] + Budget(Chain[at])
                                  + Chain[at + 1].countdown
        BY <3>2, BeforeAdds
      <4>2. Budget(Current) \in Nat /\ Current = Chain[at]
        BY <1>3, <1>5 DEF Current
      <4> QED BY <1>2, <1>6, <2>1, <2>3, <3>2, <4>1, <4>2
    <3> QED BY <1>2, <1>8, <3>1, <3>2
  <2>6. 0 * RetryTime(Chain[at']) = 0 BY <2>3
  <2>7. Before[at'] \in Nat
    <3>1. Before[2] = 0 BY DEF Before
    <3> QED BY <2>2, <3>1, BeforeAdds
  <2>8. Spending'
    BY <2>1, <2>2, <2>3, <2>5, <2>6, <2>7 DEF Spending
  <2> QED BY <2>4, <2>8 DEF SInv
<1> QED BY <1>7, <1>8

\* A retry takes no longer than planned, and a task is not retried more often.
LEMMA SpendingRetry ==
  ASSUME SInv, outcome = "running",
         NEW max \in Int, NEW delay \in Nat, NEW lasted \in Nat,
         NEW reason \in {"gave_up", "unreachable"},
         Retry(max, delay, lasted, reason),
         max <= MostRetries(Current), lasted <= Current.lasts,
         lasted + delay <= RetryTime(Current),
         at = 1 => /\ lasted = 0 /\ delay = Current.delay
                   /\ max = Current.max
  PROVE  SInv'
<1>1. at' = at /\ Current' = Current BY DEF Retry, Current
<1>2. at \in 1..Len(Chain) /\ retries \in Nat /\ waited \in Nat
      /\ elapsed \in Nat
  BY DEF SInv, TypeOK
<1>3. TypeOK' BY <1>1, <1>2 DEF Retry, SInv, TypeOK
<1> DEFINE m == MostRetries(Current)
           r == RetryTime(Current)
           d == Current.delay
           b == Before[at]
<1>4. m \in Nat /\ r \in Nat /\ Current.lasts \in Nat /\ d \in Nat
      /\ Budget(Current) = m * r + Current.lasts
  BY <1>2, TaskBudgets, Tasks DEF Current, Budget
<1>5. b \in Nat
  <2>1. Len(Chain) = 15 BY DEF Chain
  <2>2. Before[1] = 0 /\ Before[2] = 0 BY DEF Before
  <2> QED BY <1>2, <2>1, <2>2, BeforeAdds
<1>6. /\ retries <= m
      /\ elapsed <= b + retries * r
      /\ at = 1 => elapsed = retries * d
  BY DEF SInv, Spending
<1>7. /\ max <= m /\ lasted + delay <= r
      /\ at = 1 => lasted = 0 /\ delay = d /\ max = Current.max
  OBVIOUS
<1>8. Spending' <=>
        /\ retries' <= m
        /\ outcome' = "running" => elapsed' <= b + retries' * r
        /\ outcome' # "running" => elapsed' <= b + Budget(Current)
        /\ at = 1 => /\ elapsed' = retries' * d
                     /\ outcome' = "gave_up" => retries' >= Current.max
  BY <1>1 DEF Spending
<1> HIDE DEF m, r, d, b
<1>9. /\ retries * r <= m * r
      /\ retries * r \in Nat /\ m * r \in Nat /\ retries * d \in Nat
      /\ (retries + 1) * r = retries * r + r
      /\ (retries + 1) * d = retries * d + d
  <2>1. \A x, y, z \in Nat : x <= y => x * z <= y * z OBVIOUS
  <2>2. \A x, y \in Nat : x * y \in Nat OBVIOUS
  <2>3. \A x, y \in Nat : (x + 1) * y = x * y + y OBVIOUS
  <2> QED BY <1>2, <1>4, <1>6, <2>1, <2>2, <2>3
<1>10. CASE retries + 1 > max
  <2>1. retries' = retries /\ outcome' = reason /\ elapsed' = elapsed + lasted
    BY <1>10 DEF Retry
  <2>2. elapsed' <= b + Budget(Current)
    BY <1>2, <1>4, <1>5, <1>6, <1>9, <2>1
  <2>3. at = 1 => elapsed' = retries' * d /\ retries' >= Current.max
    BY <1>2, <1>4, <1>6, <1>7, <1>9, <1>10, <2>1
  <2>4. Spending' BY <1>6, <1>8, <2>1, <2>2, <2>3
  <2> QED BY <1>3, <2>4 DEF SInv
<1>11. CASE ~(retries + 1 > max)
  <2>1. retries' = retries + 1 /\ outcome' = outcome
        /\ elapsed' = elapsed + lasted + delay
    BY <1>11 DEF Retry
  <2>2. retries' <= m BY <1>2, <1>4, <1>7, <1>11, <2>1
  <2>3. elapsed' <= b + retries' * r
    BY <1>2, <1>4, <1>5, <1>6, <1>7, <1>9, <2>1
  <2>4. at = 1 => elapsed' = retries' * d
    BY <1>2, <1>4, <1>6, <1>7, <1>9, <2>1
  <2>5. Spending' BY <1>8, <2>1, <2>2, <2>3, <2>4
  <2> QED BY <1>3, <2>5 DEF SInv
<1> QED BY <1>10, <1>11

\* Every step spends within the budget of its task.
LEMMA SpendingStep ==
  ASSUME SInv, [Next]_vars
  PROVE  SInv'
<1>1. Len(Chain) = 15 /\ Chain[1] = UsingLock /\ Chain[2] = StartDeployment
  BY DEF Chain
<1>2. at \in 1..Len(Chain) BY DEF SInv, TypeOK
<1>3. /\ Current.delay \in Nat /\ Current.max \in Int /\ Current.lasts \in Nat
      /\ MostRetries(Current) \in Nat /\ RetryTime(Current) \in Nat
      /\ RetryTime(Current) >= Current.lasts + Current.delay
      /\ Current.waits => MostRetries(Current) >= Current.max
      /\ Current.fleet =>
           /\ RetryTime(Current) >= TASK_SETTINGS.SSH_RETRY_DELAY
           /\ MostRetries(Current) >= TASK_SETTINGS.SSH_RETRIES
  BY <1>2, Tasks, TaskBudgets DEF Current
<1>4. CASE CountStarted
  <2>1. CASE Advance BY <1>4, <2>1, SpendingAdvance DEF CountStarted
  <2>2. CASE Retry(Current.max, Current.delay, 0, "gave_up")
    <3>1. at = 2 /\ Current = StartDeployment
      BY <1>1, <1>2, <1>4, TaskTypes DEF CountStarted, Current
    <3>2. Current.waits BY <3>1 DEF StartDeployment, Waiting, Task
    <3>3. 0 + Current.delay <= RetryTime(Current) /\ 0 <= Current.lasts
      BY <1>3
    <3> QED BY <1>3, <1>4, <2>2, <3>1, <3>2, <3>3, SpendingRetry DEF CountStarted
  <2> QED BY <1>4, <2>1, <2>2 DEF CountStarted
<1>5. CASE Passes BY <1>5, SpendingAdvance DEF Passes
<1>6. CASE NotYet
  <2>1. at = 1 => Current.lasts = 0
    BY <1>1 DEF Current, UsingLock, Waiting, Task
  <2>2. Current.waits /\ outcome = "running"
        /\ Retry(Current.max, Current.delay, Current.lasts, "gave_up")
    BY <1>6 DEF NotYet
  <2>3. Current.lasts <= Current.lasts
        /\ Current.lasts + Current.delay <= RetryTime(Current)
        /\ Current.max <= MostRetries(Current)
    BY <1>3, <2>2
  <2> QED BY <1>3, <2>1, <2>2, <2>3, SpendingRetry
<1>7. CASE FleetFails
  <2>1. at # 1
    <3>1. UsingLock.fleet = FALSE BY DEF UsingLock, Waiting, Task
    <3>2. Current.fleet BY <1>7 DEF FleetFails
    <3> QED BY <1>1, <3>1, <3>2 DEF Current
  <2>2. Current.fleet /\ outcome = "running"
        /\ Retry(TASK_SETTINGS.SSH_RETRIES, TASK_SETTINGS.SSH_RETRY_DELAY, 0,
                 "unreachable")
    BY <1>7 DEF FleetFails
  <2>3. TASK_SETTINGS.SSH_RETRIES \in Int
        /\ TASK_SETTINGS.SSH_RETRY_DELAY \in Nat
    BY DEF TASK_SETTINGS
  <2> HIDE DEF TASK_SETTINGS
  <2>4. 0 + TASK_SETTINGS.SSH_RETRY_DELAY <= RetryTime(Current)
        /\ 0 <= Current.lasts /\ TASK_SETTINGS.SSH_RETRIES <= MostRetries(Current)
    BY <1>3, <2>2, <2>3
  <2> QED BY <2>1, <2>2, <2>3, <2>4, SpendingRetry
<1>8. CASE UNCHANGED vars
  BY <1>8 DEF vars, SInv, TypeOK, Spending, Current
<1> QED BY <1>4, <1>5, <1>6, <1>7, <1>8 DEF Next

\* Whoever waits for somebody else waits long enough, for every stop timeout,
\* check timeout and number of attempts that together leave 2470 seconds of the
\* lease to the tasks with fixed settings.
THEOREM WaitsFitEachOther ==
  ASSUME Modest
  PROVE  Spec => []WaitsFit
<1>1. ASSUME SInv PROVE WaitsFit
  <2>1. Len(Chain) = 15 BY DEF Chain
  <2>2. at \in 1..15 /\ elapsed \in Nat /\ retries \in Nat
    BY <1>1, <2>1 DEF SInv, TypeOK
  <2> DEFINE m == MostRetries(Current)
             r == RetryTime(Current)
  <2>3. m \in Nat /\ r \in Nat /\ Current.lasts \in Nat
        /\ Budget(Current) = m * r + Current.lasts
    BY <2>1, <2>2, TaskBudgets, Tasks DEF Current, Budget
  <2>4. elapsed <= Before[at] + Budget(Current)
    <3>1. retries <= m BY <1>1 DEF SInv, Spending
    <3>2. \/ elapsed <= Before[at] + retries * r
          \/ elapsed <= Before[at] + Budget(Current)
      BY <1>1 DEF SInv, Spending
    <3>3. Before[at] \in Nat
      <4>1. Before[1] = 0 /\ Before[2] = 0 BY DEF Before
      <4> QED BY <2>2, <4>1, BeforeAdds
    <3> HIDE DEF m, r
    <3>4. retries * r <= m * r /\ retries * r \in Nat /\ m * r \in Nat
      <4>1. \A x, y, z \in Nat : x <= y => x * z <= y * z OBVIOUS
      <4>2. \A x, y \in Nat : x * y \in Nat OBVIOUS
      <4> QED BY <2>2, <2>3, <3>1, <4>1, <4>2
    <3> QED BY <2>2, <2>3, <3>2, <3>3, <3>4
  <2>5. at > 2 => elapsed <= DEFAULT_LOCK_TTL
    <3> SUFFICES ASSUME at \in 3..15 PROVE elapsed <= DEFAULT_LOCK_TTL
      BY <2>2
    <3>1. /\ Before[at] \in Nat /\ Before[at + 1] \in Nat
          /\ Before[at + 1] >= Before[at] + Budget(Chain[at])
                               + (IF at = 15 THEN 0 ELSE Chain[at + 1].countdown)
          /\ Before[at + 1] <= 2470 + OwnBudget
      BY BeforeAdds
    <3>2. at # 15 => Chain[at + 1].countdown \in Nat BY <2>1, Tasks
    <3>3. Budget(Chain[at]) \in Nat BY <2>1, TaskBudgets
    <3>4. OwnBudget \in Nat
      <4>1. /\ Budget(Chain[11]) \in Nat /\ Budget(Chain[13]) \in Nat
        BY <2>1, TaskBudgets
      <4>2. Chain[11] = CheckNode /\ Chain[13] = WaitForStop(StopTimeout, StopRetries)
        BY DEF Chain
      <4> QED BY <4>1, <4>2 DEF OwnBudget
    <3>5. 2470 + OwnBudget <= 3600 BY DEF Modest, DEFAULT_LOCK_TTL
    <3>6. elapsed <= Before[at] + Budget(Chain[at]) BY <2>4 DEF Current
    <3> QED
      BY <2>2, <3>1, <3>2, <3>3, <3>4, <3>5, <3>6 DEF DEFAULT_LOCK_TTL
  <2>6. at = 2 => elapsed <= 3600
    <3>1. Before[2] = 0 BY DEF Before
    <3>2. Budget(StartDeployment) = 3600
      BY DEF Budget, MostRetries, RetryTime, Larger, TASK_SETTINGS,
             StartDeployment, Waiting, Task
    <3>3. Chain[2] = StartDeployment BY DEF Chain
    <3> QED BY <2>2, <2>4, <3>1, <3>2, <3>3 DEF Current
  <2>7. WaitsFitLease BY <2>5 DEF WaitsFitLease
  <2>8. AsyncWaitOutlasts
    <3>1. StartDeployment.max = 60 /\ StartDeployment.delay = 60
      BY DEF StartDeployment, Waiting, Task, TASK_SETTINGS
    <3>2. TASK_SETTINGS.DEPLOYMENT_WAIT_RETRIES = 240
          /\ TASK_SETTINGS.DEPLOYMENT_WAIT_RETRY_DELAY = 60
      BY DEF TASK_SETTINGS
    <3> QED
      BY <2>2, <2>5, <2>6, <3>1, <3>2 DEF AsyncWaitOutlasts, DEFAULT_LOCK_TTL
  <2>9. LockWaitOutlastsLease
    <3> SUFFICES ASSUME at = 1, outcome = "gave_up"
                 PROVE  elapsed >= DEFAULT_LOCK_TTL
      BY DEF LockWaitOutlastsLease
    <3>1. Current = UsingLock BY DEF Current, Chain
    <3>2. Current.max = 120 /\ Current.delay = 60
      BY <3>1 DEF UsingLock, Waiting, Task, TASK_SETTINGS
    <3>3. elapsed = retries * 60 /\ retries >= 120
      BY <1>1, <3>2 DEF SInv, Spending
    <3> QED BY <2>2, <3>3 DEF DEFAULT_LOCK_TTL
  <2> QED BY <2>7, <2>8, <2>9 DEF WaitsFit
<1> QED BY <1>1, SpendingInit, SpendingStep, PTL DEF Spec

\* The defaults of the code are modest: they leave more than 800 seconds.
LEMMA DefaultsAreModest ==
  ASSUME StopTimeout = DEFAULT_STOP_TIMEOUT, StopRetries = 0,
         CheckTimeout = [n |-> 10, unit |-> "s"], Attempts = 10
  PROVE  Modest
<1>1. Seconds(CheckTimeout) = 10
  BY DEF Seconds, ToMilliseconds, Milliseconds
<1>2. ~CheckNode.fleet /\ CheckNode.waits /\ CheckNode.max = 9
      /\ CheckNode.delay = 10 /\ CheckNode.lasts = 10
  BY <1>1 DEF CheckNode, Waiting, Task, TASK_SETTINGS
<1>3. Budget(CheckNode) = 190
  BY <1>2 DEF Budget, MostRetries, RetryTime, Larger
<1> QED BY <1>3, FixedBudgets DEF Modest, OwnBudget, DEFAULT_LOCK_TTL
=============================================================================
