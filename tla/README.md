# Formal models of cluster-deployer

TLA+ modules that model the core of cluster-deployer, TLC configurations that
check them on small instances, and TLAPS proofs of the properties that matter
most, for all instances.

    tlc -config <run>.cfg <MC module>.tla
    tlapm <module>_proofs.tla

## 1. The system

cluster-deployer deploys versions of applications as fleet units, checks them,
switches the yoda proxy to them and takes old versions down.  It is a set of
Celery tasks; a REST API queues them.  Everything that lasts is in other
services: locks in etcd, documents in MongoDB, units in fleet, routes in yoda
(etcd), tasks and results in the broker and the result backend.

| component | source | state | operations | talks to |
|---|---|---|---|---|
| LockService | `services/distributed_lock.py` | etcd keys with a value and a time to live | `apply_lock`, `release` | etcd |
| Deployment pipelines | `tasks/deployment.py` | which task of a job runs, which callback | `create`, `delete` and the chains of tasks they queue | all others |
| async_wait, results | `tasks/common.py`, `tasks/util.py` | results of tasks | `async_wait`, `simple_result`, `_check_error` | result backend |
| Deployment store | `services/storage/` | a document per deployment: state, runtime information, expiry | `create_deployment`, `update_state`, `update_state_bulk`, `filter_deployments`, `update_runtime_*` | MongoDB |
| Proxy service | `services/proxy.py` | upstreams, hosts, listeners | `register_upstreams`, `wire_proxy`, `get_discovered_nodes` | yoda |
| Periodic jobs | `tasks/deployment.py`, `services/deployment.py` | a lock per job | `sync_promoted_units`, `sync_promoted_upstreams` | store, fleet, yoda |
| Deployment service | `services/deployment.py` | none | `apply_defaults`, `clone_deployment` | none |
| Recovery | `tasks/deployment.py` | none | `recover_cluster` | store, create |
| Task client | `services/task_client.py` | none | `ready`, `find_error_task` | result backend |
| Notifications | `tasks/notification.py` | none | `notify`, `notify_hipchat`, `notify_slack`, `notify_github` | chats, GitHub |
| Retry, timeout, intervals | `util.py`, retries of tasks in `tasks/deployment.py` | the alarm of the process, the retry counter of each task | `retry`, `timeout`, `dict_merge`, `to_milliseconds`, `self.retry` | none |
| Configuration | `conf/` | none | settings read by all | environment |
| REST API, health, security | `views/`, `services/` | none | requests, status, decryption | task client, other services |

### How a deployment goes

`create` stores the document as `NEW` and queues `_using_lock`, which takes the
lock of the application (retried while it is taken) and queues the pipeline:

    _start_deployment             counts STARTED documents, marks its own STARTED
    _pre_create_undeploy          blue-green: this version, red-green: all versions
      _fleet_stop, _wait_for_stop, _fleet_undeploy, _wait_for_undeploy
    _register_upstreams
    _deploy_all                   ends here if the app template is disabled
      _fleet_deploy (chord), _fleet_start_and_wait, _fleet_start (chord)
      _fleet_check_deploy, _check_discover, _check_deployment, _check_node (chord)
    _promote_deployment           wires the proxy
      _fleet_stop, ... of the other versions (blue-green only)
    _promote_success              marks the document PROMOTED

`delete` takes the lock and runs the four undeploy tasks.  Beside the pipeline
`async_wait` polls its result.  On success its link `_release_lock` runs; on an
error `_deployment_error_event` (FAILED), `_fleet_undeploy` and `_release_lock`
do, each only if the one before it succeeded.

### What is hard

* *Time.*  A lock is a lease.  Nothing renews it and nothing asks whether it
  is still owned; waiting for a slot of START_CONCURRENCY, for fleet and for
  `async_wait` may each take longer than the lease.
* *Two threads per job.*  The callbacks start when `async_wait` sees the end
  or an error of the pipeline, or exhausts its own retries.
* *At-least-once tasks.*  With `CELERY_ACKS_LATE`, and because tasks retry
  themselves after a fleet error half-way through, any task may take effect
  and run again, or be lost.
* *Check-then-act* on the store (START_CONCURRENCY), on fleet (enough units
  run, then the proxy is switched) and in the periodic jobs (fetch, then write).
* *Partial failure.*  Any task and any callback can fail for good.
* *One counter.*  The retries of a task after a fleet error and those for what
  it waits for are one number, compared with two maxima.
* *One alarm.*  `@timeout` uses the alarm of the process; API processes and
  workers run many greenlets.
* *A tree of results that grows while it is read.*  A task returns the result of
  what it queued; whether a pipeline ended or failed must be found out by walking
  parents, values, chords and their headers.
* *Defaults applied twice.*  A recovery sends a stored deployment, with all that
  was filled in, through `apply_defaults` again, under a version from the clock.

`PROJECT.json` lists the hazards one by one, each at its line, with the
properties that guard against it, or why none does yet.

### What makes each component correct

* LockService: a holder within its lease is the only one, no late or repeated
  release takes the lock from another holder, and no lock is for ever.
* Pipelines: jobs of an application exclude each other; documents follow their
  life cycle; outside a/b deployments there is one promoted version; the proxy
  is switched to a checked version under a registered name and what it routes
  to is not taken down by the switch; slots and locks are given back; every job
  ends.
* async_wait: no callback before the pipeline ended, success only after its last
  task, failure with the error of the task that failed.
* Task client: an answer stays true, and a failure is seen by who asks.
* Retries: waits fit the lease, what is promised attempts or time gets it.
* Timeouts: no alarm outlives its call or goes off early, and a call that has the
  alarm for itself ends, however often it is retried.
* Recovery: no create starts the life of an older document anew, a clone takes the
  place of its source, an application stays visible to the next recovery but for
  failures in the switch.
* Deployment service: settings win over defaults at any depth, every default is
  there, ports agree, a clone is the same deployment.
* Notifications: the store and the notices do not contradict each other, and a
  failure is heard.
* Periodic jobs: newer information is not replaced by older; what is stored
  becomes right once the cluster is quiet.

## 2. The modules

| module | what it is |
|---|---|
| `LeasedLock` | what LockService promises: grant when free, release by the owner, expiry |
| `DistributedLock` | `apply_lock` and `release` against etcd, request and answer apart; implements `LeasedLock` |
| `DeploymentLifecycle` | how the state of a document may change |
| `DeploymentPipeline` | `create` and `delete` with all their tasks and callbacks, on the locks (actions of `LeasedLock`), documents, units, upstreams and routes; implements `DeploymentLifecycle` |
| `TaskRetries` | retry counters, countdowns and timeouts of the tasks of a create, with the settings of `conf/appconfig.py` |
| `TaskResults` | results of the tasks of a create; `async_wait` and `TaskClient.ready` reading them |
| `Recovery` | `recover_cluster` next to creates, on the documents and the clock |
| `Defaults` | `dict_merge`, `apply_defaults`, `clone_deployment` as functions on dictionaries |
| `AnnouncedStates` | documents and the notices about them, and what they must agree on |
| `Notifications` | the notices of a deployment, from the task that announces to the service that receives |
| `ProcessAlarm` | `@timeout` and `@retry` on the alarm of a process with greenlets |
| `SyncJobs` | the periodic jobs, on their locks (`LeasedLock`) and the runtime information in the documents |
| `MC...` | constants and symmetry for TLC |
| `..._proofs` | theorems and proofs |

Operators named `Mutant_...` stand before the definition they are a wrong
version of, and are used nowhere.  Putting one in place of its definition must
break the property that `PROJECT.json` pairs it with; this shows that the
property depends on that piece of code.

### DistributedLock

`key` and `ttl` are the etcd keys, `pc` and `lock` say where each caller is and
what dictionary it has, `lease` is a history variable: the time left since the
write of a caller took effect.  `ApplyLock` is the code up to the request,
`EtcdWrite` the execution of `write(..., prevExist=False)` in etcd,
`ReturnLock`, `RaiseLocked` and `ApplyFails` the three ways out of
`apply_lock`; `Release`, `ReleaseRuns` and `ReleaseLost` are the release, which
may be executed more than once.  A name stands for a lock key; uuids are drawn
from a set and may be drawn again when nobody refers to them any more.

### DeploymentPipeline

A job is one call of `create` or `delete` with a request (application, version,
mode, whether the app template is enabled, whether there is a discover check).
`pc[j]` is the task of its pipeline that is queued or running, `cb[j]` the
callback side.  Each task is an action of the same name:

* a task that changes something either finishes, or takes effect and runs again
  (`Advance`, and the partial effects in `FleetStop` and `FleetUndeploy`);
* a task that waits is enabled when what it waits for is the case; that it gives
  up is `TaskFails`, which covers every exception of every task;
* `_start_deployment` is two steps, `StartCount` and `StartWrite`, because it
  accesses the store twice;
* `WaitOver`, `WaitError`, `WaitExhausted` are the verdicts of `async_wait`;
  `ErrorEvent`, `ErrorUndeploy`, `ReleaseLock` the callbacks, and
  `CallbackFails` the failure of one, after which the chain ends.

Abstractions: the units of a deployment (all templates, all nodes) are one, and
so a chord of tasks is one step; fleet carries out requests whenever it likes
(`UnitsChange`); a deployment check takes no step of its own beyond passing;
`running` means enough units.  The lock value (uuid) is the job.  Notifications
and events are left out.  The mode `custom` behaves as `a/b` does and is left
out of `Modes`.

The class comment of LockService asks that "the processing must finish during this
timeframe".  `Overruns` is the set of jobs that do not: the lease of their lock may
run out while they are busy, and `async_wait`, which gives up after four times the
lease, may exhaust its retries.  `Timely` says that there is no such job.

### TaskRetries

`Chain` is the list of the tasks of a blue-green create that retry, as records:
what they wait for (`max`, `delay`), whether fleet errors are retried (`fleet`),
how long an attempt lasts and what countdown they start with.  `Passes`, `NotYet`
and `FleetFails` are the ways an attempt may go; `Retry` is `self.retry`, with the
one counter of the task.  `CountStarted` is `_start_deployment`, which compares
with a setting that may be a string.  `elapsed` is time since the lock was
granted.  The settings are those of the code; what a deployment may set itself
(stop timeout and check retries, check timeout and attempts) is a constant.

`DeploymentPipeline` abstracts all this to "a task waits or fails"; `TaskRetries`
justifies its `Timely` for deployments that wait for no slot (`WaitsFitLease`)
and that `async_wait` outlasts the pipeline (`AsyncWaitOutlasts`), which
`TaskResults!WaitExhausted` uses.

### TaskResults

`state` is the state of the result of each task, `Parent` and `Returns` the two
ways from a result to another one: the task before it in its chain, and the
result that is its value.  The tasks are one of each shape that `create` has, with
as many tasks in the chord (`Header`) as there are templates.
`CheckError`, `SimpleResult`, `FindErrorTask` and `Follow` are the recursions of
`_check_error`, `simple_result`, `find_error_task` and `ready`, evaluated on the
tree as it is at that moment; a request finds and follows in two steps (`Find`,
`FollowForStatus`), as the results change in between.  An answer has a status and an
output, and the status is not made to fit: a task that fails between the two steps
is answered as `READY` with its error for output, as in the code.  Celery's part (`Begin`,
`End`, `Fail`, `UnlockChord`, `Drop`) is external: it is what the code relies on.

### Recovery

A job is one run of `create`, in phases that are separated where documents
change.  `RecoverCluster` clones all documents that its parameters select into
idle jobs in one step, as the code queues them as one group.  `ClockVersion` is
the version from the clock, which may stand still or move on with each draw
(`SameMillisecond`), so that two creates may get the same one; users may also
choose a version (`Named`), the same one as often as they like.  A later draw never
gets a smaller version: clocks that are set back are not modelled.

### Defaults

A nested dictionary is the function from the paths of its leaves to their values,
and an empty dictionary is a leaf (`EmptyDict`).  `Merge` therefore says in two
sets of paths (`Kept`, `Added`) what `dict_merge` does by recursion, at any depth,
and can be reasoned about without induction; `MCDefaults` checks that it is the
recursion of `util.py` for all trees of depth two (`MergeIsNested`).  Each step of
`apply_defaults` is an operator; their composition is the action `Create`, and
`Recover` and `Recreate` are a recovery.  The properties compare what comes out
with the request path by path, and with the defaults.

`Shaped` and `Fits` are the shape of `schemas/app-version-v1.json`: where there is
a value and where a dictionary.  Requests have that shape, which is more than the
schema checks: its pattern for templates stands under `properties`, so that no
template is checked, and some definitions do not say `object`.  Such requests are
not modelled; nor are hosts with several locations, or a location without a port.

### Notifications

`queue` are messages that are taken in any order and may be redelivered;
`announced` is a history.  Announcing and storing are separate steps wherever
the code may be killed between them.  `Names` are the notifiers a configuration
mentions; only those of `Notifiers` have a task.

### ProcessAlarm

A greenlet is in its call (`run`), sleeps before a retry (`sleep`) or is about to
cancel the alarm (`cleanup`).  `Call` replaces the alarm and `Cancel` clears it,
whoever set it; `Expire` raises the error in any greenlet, inside its call or
not.  Greenlets are switched between any two steps, as those of uwsgi and of the
worker may be (`etc/supervisor/conf.d/supervisord.conf.template`).  The functions
called may wait for ever.

### SyncJobs

An execution is a slot for a run of one of the two jobs: it takes the lock,
lists promoted deployments, fetches and writes for each, and queues the release.
Fetching and writing are separate; errors of either are ignored by the code and
so only skip the deployment.  What there is to be fetched is a number that the
environment counts up (`MaxVersion` bounds it); documents change state and lose
their runtime information at any time, or expire.

## 3. The runs

| run | instance | checks | result |
|---|---|---|---|
| `lock` | 3 callers, 1 name, 5 uuids, lease of 2 ticks, fair clock | `LeaseHonoured`, `MutualExclusion`, `ImplementsLeasedLock`, `LocksEnd` | holds |
| `pipeline_safety` | 3 jobs, 1 application, 2 versions, Limit 1, timely | `TypeOK`, `AtMostOnePromoted`, `StartedWithinLimit`, `SlotsAccountedFor`, `NewAccountedFor`, `ImplementsLifecycle`, `WiredTakenDownOnPurpose`, `WiredAfterCheck` | holds |
| `pipeline_live` | 2 jobs, one of which overruns, 1 application, 2 versions, Limit 1, fair | `ProcessingLocked`, `WiredIsRegistered`, `LockFreed`, `JobsSettle` | holds |
| `pipeline_redgreen` | red-green creates, timely | `WiredIsRegistered` | violated |
| `sync` | 2 executions of 1 job, 1 deployment, 3 versions, timely, fair | `NoOlderSnapshot`, `RuntimeConverges` | holds |
| `sync_stale` | 1 execution | `OnlyPromotedHaveRuntime` | violated |
| `retries` | the settings of the code, stop timeout 59 s, 0 to 4 started deployments, limit 3, fleet errors | `WaitsFit`, `StopTimeGranted` | holds |
| `alarm` | 2 greenlets, 3 kinds of calls, timeouts of 3 s and 6 s, fair clock | `AlarmOwned`, `CallsEnd` | holds |
| `results` | 11 tasks, a chord of 2, at most 2 messages lost, fair | `NoEarlyVerdict`, `SuccessMeansDone`, `VerdictExplained`, `AnswerFinal`, `LossReported`, `FailureVisible` | holds |
| `recovery` | 4 jobs, a blue-green and a red-green application, 3 milliseconds that creates may share, 1 chosen version, failures anywhere | `CloneReplacesSource`, `NothingOverwritten`, `LostOnlyInSwitch` | holds |
| `defaults` | 1920 requests | `DefaultsBelowSettings`, `PortsAgree`, `TasksFindTemplates`, `RecoveredAlike` | holds |
| `notices` | 1 deployment, 2 names, 3 configurations, fair | `FailuresAnnounced`, `SuccessStored`, `FailuresHeard` | holds |

`WaitsFit` is the conjunction of `WaitsFitLease`, `AsyncWaitOutlasts` and
`LockWaitOutlastsLease`, and `DefaultsBelowSettings` that of `UserSettingsWin` and
`DefaultsFill`.

### What the violations show

* `pipeline_redgreen`: `_promote_deployment` does not pass the mode to
  `wire_proxy`, so a deployment that is not blue-green registers
  `<app>-<port>` and is wired to `<app>-<version>-<port>`.
* `sync_stale`: a run writes what it fetched while the deployment was promoted
  into a document that left that state meanwhile; later runs pass it over.

### What the properties do not hold of

The constants of the modules reach further than the passing runs, and some
properties except a case in which the code does not do what one would wish.  The
models show the following; it is how the code behaves.  The comments of the
properties say what they except and which constants they need.

* `ProcessingLocked` speaks of the jobs that do not overrun; the properties that
  rest on it for all jobs are checked with no such job (`Timely`).  Nothing renews
  a lease: the lock of a job that still works expires, and the next job works
  beside it.  The lease is 3600 s (`DEFAULT_LOCK_TTL`; the comment in
  `distributed_lock.py` says 600 s), and waiting for a slot alone may take 3600 s.
* A strict limit.  With two applications the creates count the started
  deployments before either marks its own, and no lock is common to them.
  `StartedWithinLimit` therefore bounds the started deployments by the limit and
  the applications beside the own one; TLC finds two started deployments with a
  limit of one and two applications, so the bound is sharp.  A limit from the
  environment is a string, with which no number compares as greater or
  equal in Python 2, so it limits nothing (`SlotsTaken`).
* `StopTimeGranted` with fleet errors and a check interval longer than 10 s:
  `_wait_for_stop` has as many retries as fit its timeout, and up to ten fleet
  errors, 10 s each, use the same counter.  Apart from this, `_pre_create_undeploy`
  calls `_wait_for_stop` without the stop of the deployment, so a version that is
  replaced by itself gets the default of 30 s; the schema documents 120 s.
* Timeouts of a process with several greenlets.  A call replaces the alarm of the
  call of another greenlet, cancels it when it ends, or takes its error; `TimeoutError`
  is also raised in code that made no such call (`stray`).  The call that lost its
  alarm may then wait for ever, or repeat its function for ever.  No property says
  that a timeout hits the call it is meant for, since it does not; `CallsEnd` is about
  the calls to which none of this happens (`Disturbed`), and `AlarmOwned` about what
  holds with any number of greenlets.
* The tries of `function_retry`: after its last one it does not leave its loop, so
  that only the timeout around it ends the call (`Retry`).
* `SuccessMeansDone` with `ChordBreaks`: a `ChordError` counts as a failure only if a
  header task failed; one that Celery raises for another reason is returned as a
  value, and `async_wait` succeeds though the rest of the pipeline never ran.
* `ready` raises only errors that are not a `TaskExecutionException` yet; the others
  are returned, to a request that asked for them to be raised (`RaisesFound`).
* The status of an answer.  `ready` sets `READY` before it looks for a failed task
  (`task_client.py:44`) and changes it only if it finds one.  What fails between
  that search and the walk along the results (`task_client.py:57-66`) is answered
  as `READY`, with the error for output.  `AnswerFinal` is therefore about outputs, and
  `FailureVisible` says that who asks again is told `FAILURE`.
* One version for two creates.  A version is the millisecond of the clock
  (`deployment.py:281`), and a recovery of two versions of an application queues two
  creates at once; if both read the same millisecond, the second overwrites the
  document of the first, and both pipelines work on one deployment.  So do creates
  with a version that their users chose.  `NothingOverwritten` therefore begins when
  the millisecond is over, and `CloneReplacesSource` and `LostOnlyInSwitch` except
  documents of two runs (`OneRun`).
* "If not specified, all apps are recovered" (`schemas/recovery-v1.json:8`).  Between
  the decommissioning of the promoted versions and its own promotion a pipeline may
  fail: in blue-green mode in `_wait_for_undeploy` or `_promote_success`, in red-green
  mode in all that follows `_pre_create_undeploy`.  Then no version of the
  application is promoted and the next recovery does not find it, though its proxy
  may route to the new one.  `LostOnlyInSwitch` says that an application is
  lost in no other way, but for a create over the promoted document.
* `CloneReplacesSource` in a/b mode, where nothing retires the source.

### What holds, and why it is not obvious

`LeaseHonoured` fails if the release compared nothing: the holder of an expired
lock would take the key of the next one.  `ProcessingLocked` relates three
threads (pipeline, callbacks, lease); it needs that no callback starts before the
last task of the nested chains, and that the late release of a job whose lock
expired leaves the lock of the next job alone, so `pipeline_live` checks it beside
a job that overruns.  `AtMostOnePromoted` and `ImplementsLifecycle`
survive failures between destroying units and decommissioning documents, and a
create of the same version submitted at any moment, because only `_promote_success`
promotes and everything on its way there was repeated until it succeeded.
`WiredTakenDownOnPurpose` and `WiredAfterCheck` relate the proxy to units that
fleet, tasks and clean-ups change; the first deliberately allows the clean-up of
a failed create to destroy the version the proxy was just switched to, because
that is what `create` asks for.  `SlotsAccountedFor` says that a slot is
occupied only by a deployment at work, but for two leaks that the code has: a
disabled app template, and a failed error callback.  `NewAccountedFor` is its
counterpart for documents that are stored and never begun.

`NoEarlyVerdict` needs the shape of the recursion: `_check_error` walks only from
a result to its parents, so that a failed header task of a chord is not reported
while the others still run, and the `ChordError` of the body, which comes when all
are ready, is.  `VerdictExplained` in turn needs that the header *is* searched
once it came.  `AnswerFinal` relates an answer, given in two steps, to all that
happens later.  `WaitsFitLease` adds up every retry of every task, in the worst
order; the sum is near the lease, and a longer delay would break it.
`LostOnlyInSwitch` holds with creates and recoveries of the same application at
once, as the lock of the application keeps the switch of one apart from the failure
of another, and an error callback marks its own document only.  `CloneReplacesSource`
survives a failed switch and repeated recoveries, as a source, once it is retired, is
promoted again by nobody but a run that shares its id.  `RecoveredAlike` holds although the clone's templates, environment and
upstreams hold what was computed: whatever is computed again is merged below what
is there.  `SuccessStored` depends on the order in `_promote_success`, and
`FailuresAnnounced` on the opposite order in `_deployment_error_event`.

### Bounds

Three callers are a holder, one whose lock expired and a third that takes it;
five uuids make `ApplyLock` possible in every state, and two ticks separate a
fresh lease from one about to end.  Three jobs are one with the lock, one whose
lease or callbacks are left over and one that waits; with one application they
contend, and locks of different applications do not interact, other than through
the limit.  Two versions are the old and
the new; every operator on versions distinguishes only the own, the others and
all.  Two runs of a job are needed for one to overtake the other; each writes a
field of its own document by document, so one document suffices for
`NoOlderSnapshot`, and versions 0, 1, 2 have an older, a newer and a newest
snapshot.  Jobs are symmetric in `pipeline_safety` and `recovery`; the runs with
liveness properties use no symmetry.

* `pipeline_safety` requests creates of two versions in the two modes that retire
  others, one without a check and one without an app template, and both deletes.
  With a limit of one a single deployment fills it, and a redelivered
  `_start_deployment` meets its own.  `pipeline_live` has a blue-green create,
  an a/b create that ends at its disabled app template, and a delete of all
  versions; two jobs are one that hangs or dies with the lock and one that waits for
  it, and as one of them overruns both may work at once.
* `TaskRetries` has no bound of its own: counters end with the settings, which are
  those of the code.  59 s is a stop timeout that its interval does not divide.
* `ProcessAlarm`: two greenlets are the one whose call is looked at and the one that
  replaces, cancels or takes its alarm.  The run stops counting the time of a call at
  `MaxTime` = 8 s, above both timeouts, so that a call that is too long is seen as such.  Three tries with two
  seconds between them are used up before the longer timeout and not before the
  shorter one.
* `TaskResults` has a chord of two tasks (one fails, one runs) and loses at most
  two messages (the proofs need neither bound); chains are cut to one task of each shape, since the recursions
  treat every link alike.
* `Recovery`: four runs of create are two versions and their two clones,
  or a version, its clone and two creates beside them; three milliseconds
  are one that is over, one that is shared and one to come.  Pipelines fail in every
  phase.  With one config the clause of `NothingOverwritten` on configs says
  nothing; it is proved for any configs.  `RecoverStates` are the states that
  recoveries ask for: those that a deployment ends with, but `DECOMMISSIONED`,
  which the proofs include; asking for NEW or STARTED deployments would clone
  what is under way.
* `Defaults` takes one of two to four choices for each part of a request, and all
  combinations; after a recovery a deployment may be recovered again.  Among the
  choices are those where defaults and settings meet: a disabled app template, an
  upstream with settings for a port that nothing exposes, an empty stop timeout,
  a port that is no number.
* `Notifications`: deployments do not interact, so one is enough; three
  configurations are the defaults, one without levels and with an unknown name,
  and one whose chat has no url.

Jobs, creates and requests are finitely many and each comes to an end, so
`DeploymentPipeline`, `TaskRetries`, `Recovery`, `Defaults` and `Notifications` may
stop: their runs do not check for deadlock.  The other models do.

### Fairness

* `DistributedLock`: only the clock (weak).  Callers may die anywhere.
* `DeploymentPipeline`: every thread of a job moves on in the end (weak), since
  every task has a maximum of retries after which it raises, and the broker
  delivers queued tasks; `_start_deployment` is not redelivered for ever
  (strong, `StartWrite`), since redelivery needs another death of a worker;
  leases run out (weak).  Fleet is assumed to do nothing at all.
* `SyncJobs`: beat starts each job again and again, a living run moves on,
  leases run out, and of infinitely many attempts to list, fetch or write for a
  deployment not all fail (strong).  Any number of runs may die or fail.
* `ProcessAlarm`: the clock, and `finally: signal.alarm(0)`, which waits for
  nothing (weak).  Functions may hang or be retried for ever.
* `TaskResults`: tasks run and end, chord_unlock and `async_wait` are retried, a
  client asks again and again (weak): these retry by a message to themselves or
  by polling.  Messages that are dropped are not retried.
* `Notifications`: a message is not redelivered for ever (strong), since each
  redelivery needs another death of a worker.  Services may refuse everything.

## 4. The proofs

All for arbitrary constants that satisfy the named assumptions of the modules.

* `DistributedLock_proofs`: `TypeCorrect`, `LeaseSafety` (`LeaseHonoured`),
  `ExclusionWithinLease` (`MutualExclusion`), `Refinement`
  (`ImplementsLeasedLock`).  The properties are not inductive.  The
  strengthening `IInv` adds two facts about uuids (callers inside the service
  have different ones, and one that is not written yet is in no key) and that
  etcd's countdown of a live lease equals the time left since the write; then no
  tick, write or delete of another caller can take the key away.
* `DeploymentPipeline_proofs`: `TypeCorrect`, and every safety and action
  property of the pipeline's passing runs.  `PipelinesLocked` (`ProcessingLocked`)
  holds whatever jobs overrun.  Under `Timely`: `SinglePromotion`
  (`AtMostOnePromoted`), `SlotsHeld` (`SlotsAccountedFor`), `NewHeld`
  (`NewAccountedFor`), `Refinement` (`ImplementsLifecycle`), `SwitchedAfterCheck`
  (`WiredAfterCheck`), `TakenDownOnPurpose` (`WiredTakenDownOnPurpose`).
  `ProcessingLocked` needs
  `Shape` (which threads go with which requests) and `TimelySequential` (the
  callbacks of a job that does not overrun begin after its pipeline); together
  they are `LeaseInv`.  Every task moves its control in one of few ways
  (`Control`), so the lock invariant is proved from that and not task by task.  Under
  `Timely` it holds for all jobs (`LockInv`), and all else rests on that.
  `AtMostOnePromoted` needs `OthersRetired`: from its own `_fleet_undeploy` to `_promote_success` a job sees no other version promoted,
  as no other job is busy with the application.  `Refinement` needs in addition
  that a job under way has a stored document that is not yet promoted (`UnderWay`,
  `Stored`); `SwitchedAfterCheck` that the units of a job between check and switch
  run (`CheckedRuns`).  `StartsLimited` (`StartedWithinLimit`) counts: the started
  deployments and the applications with a create between its count and its mark
  (`Marking`) are together at most the limit and all applications but one
  (`StartBound`), as the locks let one such create of each application be.
  `RoutesRegistered` (`WiredIsRegistered`) needs no `Timely` either, but that all
  creates are blue-green (`AllBlueGreen`): what a job registered stays
  registered (`LaterRegistered`).
* `SyncJobs_proofs`: `TypeCorrect`; under `Timely`, `SnapshotsForward`
  (`NoOlderSnapshot`).  The invariant: a run that may still write owns the lock
  of its job, what is stored is not newer than what there is, and what a run
  fetched is between the two.

* `TaskRetries_proofs`: `StopTime` (`StopTimeGranted`) for every stop timeout and
  number of check retries, under `PatientWithFleet` (fleet is not out of reach, or
  the check interval is not longer than the countdown after fleet errors; TLC finds
  a counterexample for a stop timeout of ten minutes, so this is needed).  The
  invariant `Paced`: what was waited is at least the retries times the interval;
  the arithmetic is that `timeout // n + 1`, taken n + 1 times, is at least the
  timeout.  `WaitsFitEachOther` (`WaitsFit`) under `Modest`: the tasks with fixed
  settings may take 2470 s of the lease of 3600 s, whatever fails and is retried,
  and what a deployment sets for its check and its stop must fit in the rest; the
  defaults take 300 s (`DefaultsAreModest`).  The invariant `SInv`: what the chain
  took is at most the budgets of the tasks before (`Before`) and, of the current
  one, its retries so far times the longest way to a retry.
* `ProcessAlarm_proofs`: `TypeCorrect`, and `AlarmSafety` (`AlarmOwned`) for any number
  of greenlets: of the call that set the alarm last, the alarm and the time spent
  add up to its timeout, and whoever leaves a call clears the alarm.
* `Recovery_proofs`: `NeverOverwritten` (`NothingOverwritten`) and
  `AppsStayRecoverable` (`LostOnlyInSwitch`) without assumptions, so also for creates
  in the same millisecond, chosen versions and failures anywhere.  Their invariant
  is `DocInv`: a queued job has no version or a chosen one, so that what it is going
  to draw is not below the clock (`Placed`), and what is promoted was promoted by a
  run that is done (`PromotedRun`).  Every step queues jobs, stores one new
  document or moves one job (`Steps`), and the theorems are proved from these.  `ClonesReplace` (`CloneReplacesSource`) needs `SettledOnly`:
  recoveries ask for no deployments under way.  Its invariant `CloneInv` adds that
  one pipeline of an application works at a time (`Exclusive`), that others are not
  promoted during its switch (`OthersRetired`), and that the source of a clone has
  ended and, if no other run shares its id, stays so (`SourceSettled`).
* `TaskResults_proofs`: `TypeCorrect`, `VerdictIsLate` (`NoEarlyVerdict`),
  `FailureIsExplained` (`VerdictExplained`), `AnswersStand` (`AnswerFinal`) for any
  number of templates and dropped messages and whether or not chords break, and
  `SuccessIsEarned` (`SuccessMeansDone`) if they do not (`~ChordBreaks`; see section
  3).  The recursions follow chains of at most four links, so that a function which
  satisfies their equation exists (`Recursion`) and the four walks can be unfolded
  (`VerdictIs`, `FoundFailed`, `Followed`).  The invariant: a task is there when and
  only when what starts it has run (`Growth`), and the body of the chord comes after
  its whole header (`BodyAfterHeader`).  So a verdict that is not "not ready" leaves
  nothing at work (`VerdictSettles`), and an open one with nothing at work means a
  dropped message (`LossBlocks`).
* `ProcessAlarm_proofs` also holds the proofs about `Notifications`, which is an
  instance `N` there; its properties are those of `AnnouncedStates`: `FailuresTold` (`FailuresAnnounced`), `SuccessTold` (`SuccessStored`), for any
  deployments and configurations, from what is announced and stored in each stage.
* `Defaults_proofs`: `StaysShaped`, and all four properties, for any set of keys and
  any requests of the schema's shape (`RequestsAssumption`: also without a state,
  and with no format fields in the names of git): `DefaultsBelow`
  (`DefaultsBelowSettings`), `PortsAgreed` (`PortsAgree`), `TasksFind`
  (`TasksFindTemplates`), `RecoversAlike` (`RecoveredAlike`).  The argument follows
  `apply_defaults`.  Lemmas on paths and on `Merge`, `Put` and `Only` say what they
  keep, what they add and what they leave alone (`Grows`, `Agree`), and that they
  preserve the shape; with it, no value is above the paths that the code mentions
  (`Firm`) and nothing is beneath those that hold values (`Atomic`), so defaults
  cannot be kept out by something odd on their way.  A lemma `...Stage` for each
  step of the code puts these together; `ApplyStage`, `PortsStage`,
  `SettingsStage` and `FillStage` are about all of `apply_defaults`.  The first
  three theorems follow from them with `TInv` (shape, and whether there is a
  schedule and an app template, are what they were in the request).
  `RecoversAlike` needs more, as applying defaults twice must be applying them
  once: `Fixed` says what a deployment must be for every step to leave it alone,
  `CreateStage` that `create` stores such ones, and `RecoverStage` that a clone of
  one is completed to what it was cloned from, but for the version (`Like`).  On
  the way it differs in more than that (`Near`): with a schedule, the defaults of
  git-quay bring back the template of a yoda-register, and the schedule drops it
  again.  So each recovery starts from the same clone, and `RInv` is inductive.

  What had to be excepted is a finding of the proof: `get_exposed_ports` makes an
  upstream of any port (`deployment.py:299-300`), and the schema lets a listener
  have any.  If it is no number, the deployment is stored and runs, but its
  runtime upstreams are never synchronized and each recovery is refused, where
  `int()` meets the upstream (`deployment.py:44`).
  `RecoveredAlike` names this case (`"web"`).

Every invariant and action property of the passing runs is proved, some of them
under the assumptions named above.  Only model-checked are the liveness properties
(`LocksEnd`, `LockFreed`, `JobsSettle`, `RuntimeConverges`, `CallsEnd`,
`LossReported`, `FailureVisible`, `FailuresHeard`), which depend on fairness and so
are outside what the prover handles; and `MergeIsNested`, since a proof that a
recursion computes `Merge` would be an induction over data.

## 5. Not modelled

* A redelivered task that had queued its successor already, so that two copies
  of the rest of a chain run.
* Units of single templates and nodes.  That a failing task of a chord leaves no
  other at work when the callbacks start is `NoEarlyVerdict`.
* The contents of a proxy: hosts with several locations, listeners, ACLs.  An
  application has one route.
* Celery itself: how `chord_unlock` gives up, how results expire.
* Events, which are written beside every step and read by nobody.
* Security (decryption has no state), the media types, schemas, paging and error
  pages of the API, what the health checks ask of other services, addresses,
  credentials and logging: input and output.

## 6. Plan

Done: the modules of section 2 and the theorems of section 4.  What is left, in
the order of what it would add:

1. The wiring of a proxy with several hosts and listeners: `wire_proxy` makes its
   requests to yoda one after the other, so that a task which fails half-way and
   is retried leaves routes of two versions.
2. `ChordDeploy`: the units of the templates of one deployment, as a refinement of
   `Deploy` and `StartUnits`.
3. Redelivered tasks with two successors.
