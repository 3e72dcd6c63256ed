# Active-Monitor: a verification project

Active-Monitor is a Kubernetes controller that runs Argo workflows periodically
(`HealthCheck` objects), records their verdicts, and runs a remedy workflow when
one fails. This directory holds TLA+ models of its controller, the TLC
configurations that check them on small instances, and proofs, checked by TLAPS,
of the properties that matter most for every instance. `HCC` below stands for
`src/internal/controllers/healthcheck_controller.go`.

## 1. Inventory

| Component | Code | State | Operations |
|---|---|---|---|
| Scheduling loop | HCC 132-304, 476-571, 607-757, 1445-1485 | API object (spec, `status.finishedAt`), work queue, `RepeatTimersByName`, goroutines of workers and of `AfterFunc` closures | `Reconcile`, `processHealthCheck`, `watchWorkflowReschedule`, the closure of `createSubmitWorkflowHelper` |
| `TimerLock` and what it guards | HCC 132-163, 508-510, 746-752, 900-950, 1033-1072, 1480-1485; `cmd/main.go` 110-116 | `RWMutex`, `RepeatTimersByName`, `workflowLabels` | label merge, label copy, timer lookup, rescheduling |
| Remedy and status record | HCC 629-727, 759-874, 1445-1463 | counters, `remedyFinishedAt`, run limit, reset interval | decide on a remedy, run it, record it, reset |
| Polling and backoff | HCC 575-639, 783-853 | the workflow, pauses and timeout of `iebackoff` | poll until a verdict or the timeout |
| RBAC | HCC 111-129, 302-474, 1128-1443 | ServiceAccounts, (Cluster)Roles, bindings | create for a run, delete after a remedy |
| Parsing and artifact sources | HCC 876-1126, `internal/store` | the decoded document, deadlines, defaults | read, decode, set defaults |
| Custom metrics | `internal/metrics/collector.go` | map of gauges, `RWMutex` | `CreateDynamicPrometheusMetric` |
| Manager | `cmd/main.go` | flags, leader election, caches | start the controller |

**How they interact.** controller-runtime's work queue hands a key to one of
`MaxParallel` workers, never the same key to two. The worker reads the object,
decides, creates a workflow, polls it, perhaps runs the remedy in the same way,
writes the status and registers an `AfterFunc` timer under the HealthCheck's
*name*. When the timer fires, its closure does the same from the creation of the
workflow on, outside the queue and its workers, and outside the `recover` of
`processOrRecoverHealthCheck`. Each status write comes back as a watch event
that queues the key again; `finishedAt` together with the entry in
`RepeatTimersByName` tells that worker that there is nothing to do.

**What is hard.** A worker and a closure of one HealthCheck can be in flight
together, each with a snapshot of its own; entries of the map outlive their
timers; an error means a requeue in a worker and the end of the chain in a
closure; timers live in memory only; locks are not released in `defer`, so a
panic in a critical section keeps them; the labels of all HealthChecks share one
map. `PROJECT.json` lists the hazards, each at its line.

**What makes each component correct.**
The loop: no timer escapes the map; an entry can be trusted; a next run is never
lost; a live periodic check runs again and again, a deleted one comes to rest, a
paused one does not run. The lock: no map is used while it is written; the lock
is always given back; a workflow gets its own labels. The remedy: totals add up,
the limit is a limit, `remedyFinishedAt` is known where it is dereferenced. RBAC:
a running workflow has its permissions, a finished remedy leaves none, and what
users made is not touched (but for a swap under a deletion). Polling: verdicts are true, a workflow that ends in
time is judged by its own phase, and every watch ends.

## 2. Modules

| Module | Models | Proofs |
|---|---|---|
| `HealthCheckScheduler` | the scheduling loop | `HealthCheckScheduler_proofs` |
| `TimerLock` | the critical sections and the maps under them | `TimerLock_proofs`; `LockPromise_proofs`: it implements `PeriodicCheck`, too |
| `PeriodicCheck` | what the scheduling loop promises (abstract specification) | `PeriodicCheck_proofs`: what the promise means; `SchedulerPromise_proofs`: the loop implements it |
| `RemedyStatus` | the status record, the decision on a remedy, and writes of snapshots | `RemedyStatus_proofs`, with the proof that it implements `StatusLedger` |
| `StatusLedger` | what the record promises of runs that follow one another (abstract specification) | in `RemedyStatus_proofs` |
| `WorkflowRBAC` | the RBAC objects of workflows and remedies, call by call | `WorkflowRBAC_proofs` |
| `WorkflowWatch` | the polls of one workflow, their limits, and its deadline | `WorkflowWatch_proofs` |
| `MC...` | constants for TLC | |

The modules describe one program from several sides and share the names of its
steps. The scheduler abstracts the record to `finishedAt`, a critical section
to one step, the creation of RBAC objects to a part of `Submit` that may fail, and
a watch to its possible outcomes; each of the others opens one of these up and
leaves the rest out.

### HealthCheckScheduler

A *worker* is named by its HealthCheck (the queue guarantees there is one at
most), a *helper* is the identity of an `AfterFunc` closure. `pc` says where a
thread is, `job` is the snapshot it holds, `since` the age of the time value it
will write or compare (`now`, `finishedAt`), `left` the rest of a timer's delay.

| Code | Actions |
|---|---|
| `Reconcile` (HCC 166-188) | `StartReconcile`, `Cancel` |
| `processHealthCheck` (225-292) | `Decide`, `RecordStopped`, then `Submit` |
| end of `processOrRecoverHealthCheck` (189-223) | `Return` / `Finished`, `Fail`, `Panic` |
| closure (479-500) | `Fire`, then `Submit` |
| `createSubmitWorkflow`, with the worker's RBAC | `Submit` |
| polling and verdict (607-727) | `Watch` |
| `processRemedyWorkflow`, `watchRemedyWorkflow` | `RunRemedy`, `DeleteRemedyRBAC` |
| `updateHealthCheckStatus` after a run (729-744) | `Persist` |
| rescheduling under the lock (746-752) | `Arm` |

`RepeatTimersByName[n]` is `"nil"` (no entry), a helper (an armed timer), or
`"spent"` (a timer that fired or was stopped: the code never removes an entry, and
the guard at HCC 264 cannot tell the difference). The map is made, as in
`NewHealthCheckReconciler`; that `cmd/main.go` does not make it is the
subject of `TimerLock`. `Get` returns the object's current state: that the
informer's cache may be behind is the subject of `RemedyStatus`. A workflow and its
pods are the answers polling may get: a verdict (the backoff's timeout is `Failed`),
not found, or an error. `Faults` names the calls that may fail, per kind of
thread; `Events` what users and the cluster may do.

Bounds. `MaxAge` stands for "this many seconds or more": only comparisons with
`repeatAfterSec <= MaxAge` read an age. Two closures per HealthCheck in the runs
that have one HealthCheck are enough for one running and one armed, and a
worker beside them; `Arm` takes a free closure or that of the thread it replaces.
In every run `MaxAge` and `repeatAfterSec` are 1: an end is recent or not, a timer
due or not. More seconds would add states between the two, but no comparison with
another answer; the proofs cover any.
Where there is one closure per HealthCheck, a worker and a closure are still
concurrent.

Fairness. Threads run and due timers fire (weak fairness); the work queue is
FIFO and every worker's polling ends at its timeout, so a queued key is started
even though others take workers in between (strong fairness of
`StartReconcile`). `Arm` never waits in the code; here it may have to wait for
one of the finitely many `Helper`, hence strong fairness. Time passes. Nothing
is assumed of users or faults.

### PeriodicCheck

The promise, for a reader who does not want to know how it is kept: a HealthCheck
that is wanted (it exists, is not being deleted, and is periodic) always has a
*claim*: the controller is told to look at it, its timer is armed, or a run goes
on; and claims come from claims. A run starts only from the queue or a timer; a
timer is armed only by a run; a worker that looks may drop the key only if another
claim remains. `HealthCheckScheduler` ends with the mapping (`Wanted`, `Claims`):
`told` is the key in the queue or a worker that has not decided, `timer` is an armed
closure, `run` is a thread from the submission to the next timer. `KeepsThePromise`
is the abstract specification as a property of the loop.

`NobodyIsForgotten` and `NothingComesFromNothing` say what the promise is worth.
They are proved of `PeriodicCheck` itself, whose steps a reader can take in at a
glance, and hold of whatever implements it. Two modules do, each where the other
abstracts: the scheduler with its clocks, edits, deletions and crashes, but with
each critical section as one step; `TimerLock` with the sections in small steps,
but without clocks. What they share about the promise (which changes of a
HealthCheck's claims are a `Look`, a `Work` or a `Fire`) are lemmas of
`PeriodicCheck_proofs`, which both proofs reach by `INSTANCE`.

### TimerLock

The same threads, with the clocks left out and each critical section split into
taking the lock (`Begin...`) and using the map and giving it back (`End...`).
`writer` is the thread that holds the write lock or waits for readers to leave
(Go's `RWMutex` keeps new readers out from then on). A panic inside a section
(`EndLabels` on an empty document, `EndArm` with `MapMade = FALSE`) ends the
worker and leaves `writer` as it is; on a closure's goroutine it ends the process.
A label source is a set of possible contents: something that is not decoded, an
empty document, or labels. A `Dispensable` HealthCheck may be deleted or paused;
without clocks a pause is one more way for a decision to end without a run.

The closures of one HealthCheck run one at a time here; that several can run is
the scheduler's concern and adds nothing to mutual exclusion. `GetTimerByName` is
called before a decision, twice at a deletion (find, then stop), and with the
empty name after a failed status write. `workflowLabels` has no bound but the
set of labels in the sources.

`TimerLock` ends with a mapping of its own to `PeriodicCheck`: a worker on its way to
a timer, waiting for the read lock or inside it (`Deciding`), still counts as
`told`; a thread that waits for the write lock with the next timer in its hand
still counts as `run`.

`NobodyWaitsInACircle` says what of the absence of deadlock is a matter of states:
who waits outside waits for the writer (who may be gone, if a panic or a return left
the lock behind), and the writer at the door for the readers. It is an invariant of its
own because TLC's deadlock check would not see it: while two threads wait for each
other the queue still takes events.

`OwnLabelsAttached` compares the copy a workflow is created with and what its source
asked for, although the lock is free between the merge into the shared map and the
copy. Each label asked for is there; its value is the source's own unless another
source gives the same label another value (`Undisputed`). Where sources dispute, the
code does attach the other's value, and the property does not say otherwise.

Bounds. `LockSafety.cfg` gives the two HealthChecks sources that agree on one label and
dispute another; the source of the second may be empty, and it has a remedy.
`LockFair.cfg` has one that cannot be read, next to one whose source is plain.

Fairness. Goroutines run, timers fire, keys are served; taking a lock is strongly
fair because `sync.RWMutex` starves neither readers nor writers.

### RemedyStatus

One HealthCheck. A run (`Run`: worker or closure) reads status and spec
(`Begin`), works on that `copy`, and writes it back whole.

| Code | Actions and operators |
|---|---|
| `Get` in `Reconcile` and in the closure, from the cache; the paused branch, which writes its copy back | `Begin`, `Deliver` |
| no workflow, or it cannot be polled (617-622) | `GiveUp` |
| success, with the reset of the remedy's values (635-661) | `Pass`, `Passed`, `RemedyReset` |
| failure, limit, reset interval (662-722) | `Fail`, `Failed`, `Limited`, `BelowLimit` |
| `processRemedyWorkflow` (759-786) | `StartRemedy`, `Cleanup` |
| `watchRemedyWorkflow` (788-874) | `LoseRemedy`, `CountRemedy`, `WriteRemedy` |
| `updateHealthCheckStatus` (1445-1462), at the end of a run (729-744) | `Overwrite`, `Write` |

All reads come from the informer's cache (`cached`), also the one in
`updateHealthCheckStatus` that fetches the version to update. So the API server
refuses the update as a conflict while the cache is behind, and a run whose retries
end before `Deliver` loses its write. With `"stale"` in `Faults` the cache lags as
long as it likes; without it, it follows at once. An edit that is delivered late
is an edit that came late, so one version behind is enough.

Times are kept as ages; all of them age together in `Tick`. A nil
`remedyFinishedAt` is `Never`. The counters are the code's own; `verdicts`,
`remedyVerdicts`, `started`, `sinceRemedy`, `pending` and `unrecorded` are history,
which the actions write and never read for a decision: remedies that were started, the
time since the last one, a remedy that is not in the status yet, and those since the
reset that never got there. The panic of HCC 690 is a disjunct of
`Fail`: it ends the run of a worker, or the process. A write that is left out
because the copy says the object is being deleted, and one that fails, are the
same here: the status stays. The status is a subresource, so that the `Update`
at HCC 213 does not write it.

Bounds. `MaxAge` is one more than every `remedyResetInterval`, which is all an age
is compared with. `MaxVerdicts` ends the counting: five verdicts in
`RemedyRuns.cfg` are enough to reach a limit of two, wait for the reset, and reach
it again; three in `RemedyOverlap.cfg` are enough for a count that is reset under
a run that still holds it. That run leaves out the paused branch, which
`RemedyRuns.cfg` has, and identifies states (`RecordView`) that differ only in
the history of remedies: nothing reads it but `WithinLimit`, which is not checked there.

A limit. HCC 679 asks for a limit *and* a reset interval, and runs the remedy at every
failure if either is missing; README.md:24 of the repository says that only a limit
that is not set means "always". The code and its documentation disagree there.
`Limited` is the code's condition, so `WithinLimit` is about limits with a reset
interval and says nothing of the others: a HealthCheck with `remedyRunsLimit` alone has
no limit. Where the limit counts, what is counted is the status: a remedy whose verdict
was lost with a crash, an error or a failed write is not in it, and each of those
(`unrecorded`) is one remedy more. `WithinLimit` allows these and no other.

### StatusLedger

The promise of the record: four counters, and two steps. A run that succeeded is one
more `passed`, and may forget the remedies; one that failed is one more `failed`,
with at most one remedy more, and may forget those before it. There is no copy, no
cache and no second write. `KeepsALedger` says that `RemedyStatus` implements it when
its runs are in turn (`InTurn`), although a run reads the status minutes before it writes
it, writes it twice when it had a remedy, and may lose either write, stop in between,
or see the spec change. It is stronger than that no counter goes back: a write of the
remedy without the failure that caused it, a second write that counts
again, or half a reset, are no step of the ledger.

### WorkflowRBAC

A *run* is a worker or a closure; `job` is its snapshot of the spec, whether it
works for the check or its remedy, and which of the three objects (ServiceAccount,
role, binding) comes next. `objects` is what the API server has, by kind, name
and namespace. The names are made from that of the ServiceAccount alone, which is
why runs share objects.

| Code | Actions and operators |
|---|---|
| `processHealthCheck`, the checks of HCC 311-330 | `StartWorker`, `Rejected`, `remedySa` |
| the closure, which makes no objects (479-494) | `Fire` |
| the `Get` of each `create...` function, whatever its error | `Lookup` |
| its `Create` | `Create`, then `Made` (the next object) |
| `createSubmitWorkflow`, `createSubmitRemedyWorkflow` | `Submit` |
| polling, and the decision on a remedy | `WatchCheck` |
| the end of `watchRemedyWorkflow` (773-779) | `WatchRemedy` |
| the `Get` and the label in each `Delete...` function | `Find`, `Managed` |
| its `Delete`, by name | `Delete`, then `Deleted` |
| status write and next timer | `Finish` |
| users: `Edit`, `MakeOwn` (an object without the label, new or in the place of the controller's); `Crash` | |

Each object takes two calls, each an action, and every call may fail. An error or a
crash leaves what was made. `Granted` asks that all three objects exist and that
those the controller made say what this account needs: an object that exists
is "re-used" whatever it says, so a user's own may say anything.

Bounds: two HealthChecks with one run each, three account names, two namespaces,
both levels. Both share one account; their remedies take the suffixed name and
one of their own, so `-remedy`, both kinds of roles, and two objects a user has
made first all occur. An edit takes the remedy or its account away.

A user may delete what the controller made and put an object of their own in its place,
also between the `Get` that reads the label and the `Delete` by name. That deletion
the code cannot avoid: `swapped` records where it may come, and `UserObjectsSurvive`
says that no other step changes or deletes what a user made.

The other properties rest on `Separate`, and each part of it is
what the code needs: runs of a HealthCheck do not overlap (the cleanup of one
would take the objects of the other), edits keep the account of the check (a
closure makes no objects), accounts that share an object agree on what it says
(two namespaces do not: a ClusterRoleBinding is found by name alone), and
remedies of different HealthChecks have accounts apart.

### WorkflowWatch

One watch of one workflow, by `watchWorkflowReschedule` or `watchRemedyWorkflow`,
with a clock in seconds.

| Code | Actions and operators |
|---|---|
| `computeBackoffParams` (575-596), the limits at 791-799 | `maxTime`, `minTime`, `timeout` |
| deadlines and defaults of the parser (979-1006, 1107-1120) | `timeout`, `deadline` |
| `Get` of the workflow, not found, another error (613-622) | `Poll` |
| verdicts and the override at the timeout (624-665, 811-853) | `Judge`, `Stop` |
| `ieTimer.Next` | `Pause`, `Wake` |
| Argo and the cluster | `Begin`, `End`, `Enforce`, `Remove`, `Tick` |

A watch is fixed by its spec, its kind, and four facts (`Watches`): whether the
template could be parsed (HCC 504 ignores the error, submits an empty workflow
that never runs, and the timeout may stay 0), the same for the remedy's template,
whether the workflow is in the namespace where the watch looks for it (a remedy is
polled in that of the health check), and which of two readings of `iebackoff` holds.
That library and Argo are not in the repository: a pause is any between the
limits, the constructor may refuse limits that make no sense, and the timeout
is looked at before or after a pause. A check is polled elsewhere too, if the
namespace in its spec was edited before its timer fired (HCC 494, 617). The user's `BackoffMax`, `BackoffMin` and
timeouts are not negative.

Bounds: eight specs, with timeouts of 0 to 6 seconds, so that `Timeout/2` and
`Timeout/60` are clamped, limits above and below each other, and timeouts
longer and shorter than `RepeatAfterSec` occur; `Timeout/60` above one second occurs
only in the proofs. A pause and the poll after it are late by at most `Lag`
each, a workflow outlives its deadline by at most `Grace`; the clock stops at
`Horizon`, twice the longest timeout, which is why `WatchFair.cfg` does not check
for deadlock. After the verdict only a workflow that still runs is followed
(`Followed`), and polls are counted only until they are too many (`Counted`).

Fairness: time passes, the goroutine polls and wakes, and Argo enforces
`activeDeadlineSeconds`. A workflow need not begin, nor end by itself.

## 3. Runs

| Run | Question | Answer |
|---|---|---|
| `scheduler_one_check` | Can edits, deletion, faults of the worker, crashes or concurrency orphan a timer, leave a dead entry, or lose the next run? Does the loop implement `PeriodicCheck`? | No; yes (662,472 states) |
| `scheduler_all_faults` | Does an armed timer stay in the map if anything may fail or panic, and names are shared? | Yes |
| `scheduler_fair` | Does a live periodic check keep running, and does a deleted one come to rest? | Yes |
| `lock_safety` | Is the lock a lock, and are labels one's own, also when an empty source panics under it? | Yes; yes, but for labels two sources dispute (the lock may stay taken) |
| `lock_fair` | Is the lock given back, do threads wait in a circle, and is anyone kept out for ever? Does the loop keep its promise also between the steps of a critical section? | Yes; no; no; yes |
| `remedy_overlap` | Can overlapping runs, with reads from a cache that lags, count a verdict twice, or lose the time of a counted remedy? | No (1.5 million states) |
| `remedy_runs` | Is each run one entry of `StatusLedger`, and is the limit a limit, for runs that do not overlap? | Yes; yes, with a reset interval, and with one more for each remedy that was not recorded |
| `rbac_separate` | Does a watched workflow have its permissions, does a finished remedy leave nothing, do users keep their objects (but for one swapped in under a deletion), under errors, crashes, edits and neighbours with the same account? | Yes (686,520 states) |
| `workflow_watch` | Are verdicts true and in time, polls bounded, and does every watch end? | Yes (1.8 million states) |
| `timer_map_not_made` | Does the shipped reconciler run checks periodically? | No: HCC 751 panics under the lock |
| `paused_by_edit` | Does pausing a check stop it? | No |
| `cron_schedule` | Does a cron check wait for its schedule? | No |

`lock_fair` has one HealthCheck that may be deleted next to one that may not: the
first brings in `cancel`, `stop` and timers that are stopped, of the second it is
asked that it runs for ever.

`EndArm` without the map (`MapMade = FALSE`) occurs only in `timer_map_not_made`;
the proofs about `TimerLock` cover both values.

`KeepsALedger` and `WithinLimit` are claimed for runs that do not overlap and read the
current object (`InTurn`). Both are what the code needs: of two runs in flight the one
that writes last takes back the other's verdict, and a run that starts from an old
version of the status takes back that of the run before it. A remedy created in another
namespace than the health-check workflow (HCC 683 passes the latter's), one whose write
failed, or one that was running when the process died, is never counted: `unrecorded`.
A negative `remedyRunsLimit` is excluded.

Type invariants are run for themselves only where a plausible bug would break them
(`lock_safety`, `workflow_watch`). The others are conjuncts of the inductive
invariants the runs check (`ReliableInv`, `LimitInv`, `SeparateInv`), and are proved.

`ReliableInv` and the invariants it implies are checked where `Reliable` holds;
`Reliable` lists what the code needs to lose no run, and each of its conjuncts is
necessary: distinct names, one workflow namespace in all specs, no errors on a
timer's goroutine and no workflow garbage-collected under it, no failing `Get`,
garbage collection or recovered panic in a worker, no re-creation of a
deleted name. (A submission that fails in a closure is logged at HCC 489 and
nothing follows: the check has no timer, no queued key, and waits for an edit or
a restart.) Errors of a worker's other calls, crashes, edits, deletions and
events are allowed.

## 4. Proofs

For any sets of HealthChecks, names, closures and specs, any `MaxAge`,
`MaxParallel`, and any faults and events unless stated:

* `TypeCorrectness`, `NoOrphanedTimer`: from the inductive invariant `TimersInv`.
  `EveryArmedTimerIsRegistered` alone is not inductive: `Arm` stops what the map
  names, so one must know that what it names is armed and belongs to the same
  name (`EveryRegisteredTimerIsArmed`), and that threads at work hold a snapshot
  (`SnapshotsOK`).
* `NoRunIsLost`, `EntriesCanBeTrusted`: `Reliable` implies
  `[]NextRunGuaranteed` and `[]RegisteredTimerIsLive`. The two need each other:
  `Decide` may drop a run because the entry can be trusted, and the entry can be
  trusted because each closure that ends arms a successor. The strengthening
  `ReliableInv` adds that a worker whose key is *not* queued works from the
  current spec, that a snapshot seen as being deleted stays right, that everyone polls in the
  namespace of the workflow, and that nothing is known of an object before it
  exists. The proof splits `ReliableInv` into one invariant per HealthCheck
  (`OwnInv`): with distinct names each action concerns only one.
* `LockTypes`, `MapsAreGuarded`: the discipline of `RWMutex` (`LockInv`) is kept
  even by a section that panics.
* `NobodyLeavesWithTheLock`: if the map was made and no source is empty
  (`NothingPanics`), the lock is held only by threads in its sections or at the door.
* `NobodyIsStuck`: with the same assumption, who waits for the lock waits for a thread
  that may go on or for one that waits for such threads alone. It needs `LockInv`
  (who is in `readers` is reading, so is not at a door) and `LockIsGivenBack` (there is
  a thread behind `writer`); neither alone implies it.
* `OwnLabels`: for any sources, faults and panics, a workflow is created with each label
  its source asks for, and with its own value of each that is not disputed.
  `SourcesInv`: each label in the shared map is some source's, so an undisputed one
  cannot have changed between the merge and the copy.

* `RecordTypes`, `NotCountedTwice`, `NeverNilDereferenced`: from `RecordInv`, for any
  number of overlapping runs, faults, crashes and old reads. A nil time at the limit can
  only be excluded by knowing of *every copy* that its totals add up and that a
  counted remedy has a time (`Consistent`), since any of them may become the status.
  The last theorem assumes limits that are not negative (`LimitsAreCounts`).
* `RunsAreEntries`: with `InTurn`, `RemedyStatus` implements `StatusLedger`. The
  invariant behind the step simulation is `LedgerInv`: the cache shows the object, and
  at every place of a run its copy is the status it has read, with nothing, with its own
  verdict, or with its verdict and that of its remedy, added to what was there or to a
  reset (`Seen`). That a copy is never behind the status is not enough: it has
  to be known what the copy may be ahead by, or the second of the two writes
  could not be told from another entry. After the first write the copy is the status
  again, so the second one is a stutter.
* `CountersOnlyGrow`, `RemediesAreForFailures`: proved of `StatusLedger`, two steps
  on four numbers, and brought down through `RunsAreEntries`: the counters of the runs
  never go back, no write counts two of them, and there are no more remedies than
  failed runs, also when writes of earlier runs were lost (which `NotCountedTwice`,
  an inequality about the whole past, could not tell).
* `LimitHolds`: with `InTurn` and `LimitsAreCounts`, whatever fails, dies or is edited.
  `LimitInv`: what was started since the reset is what the status counts, and the
  unrecorded ones, and the one that is pending; the copy that is about to start one is
  below its limit or the last recorded one is longer ago than the reset interval; and
  the age in the record is the real age (`Timed`).

* `ReliableInvariant`, `PromiseIsKept`: `Reliable` implies that the loop implements
  `PeriodicCheck`. The proof is a step simulation: under `ReliableInv` every
  action of a thread maps to `Look`, `Fire` or `Work` of its HealthCheck, every event
  to `Ask`, or to nothing; `ReliableInv` is needed where a claim goes, to know that
  another one is there.
* `NothingStartsByItself`: that each claim of the loop has a cause, through
  `PromiseIsKept`. (The two facts about `PeriodicCheck` alone it rests on follow from
  the guards of the specification and say nothing about the code; they are lemmas.)
* `PromiseIsKept` of `LockPromise_proofs`: if nothing is `Faulty` and no section
  panics (`NothingPanics`), `TimerLock` implements `PeriodicCheck`. The invariant
  behind it is `LoopInv`: an entry of the map of a HealthCheck that is not deleted has
  an armed timer or a closure at work, so a decision that finds one may drop its key;
  and nobody is on the way to stop that timer. Faults are left out because a fault on
  a closure's goroutine does break the promise (`Reliable`).
* `ObjectTypes`, `UsersKeepTheirs`: for any HealthChecks, accounts, faults and events,
  shared accounts included. The second needs to know that a run that is about to delete
  by name has seen the label, or that a user has put an object there since.
* `SeparateInvariant`, `Permitted`, `CleanupSucceeds`, `CleanedUp`: from
  `SeparateInv`, for any HealthChecks, accounts, faults and events that satisfy
  `Separate`. None of the
  properties is inductive: that the objects of a watched workflow are still there
  needs to know what every other run has still to delete (`Progress`), that
  they say the right thing needs it of every object the controller made (`Says`),
  and that a closure may submit at once needs the objects of the check to stay
  while its timer is armed. The cleanup deletes by name what it has seen one call
  before; `Separate` gives that nobody else deletes it.
* `WatchTypes`, `NoFalseVerdict`, `NoLateVerdict`, `WatchBound`, `PollsBound`,
  `NothingRunsOn`: for any timeouts, intervals, limits, deadlines and delays. They rest
  on when the next poll is due: `wake` is at least one second after the last
  one, at most the longest pause, and the time is declared over only at the timeout.
  `PollsBound` is sharper than a poll a second: `BackoffMin` is kept as well, where the
  limits leave it room. Its invariant (`Pace`) relates the number of polls, times the
  shortest pause, to when the next one is due.

Only model-checked: `RunsPeriodically`, `DeletedComesToRest`, `WatchEnds` and the
lock's liveness (liveness under fairness is outside the prover's reach), and the
violations.

## 5. What is not modelled

* Custom metrics: `CreateDynamicPrometheusMetric` has no caller in the program,
  only tests.
* The staleness of the informer's cache in the scheduler, where a `Get` returns the
  current object. With a cache older than the controller's own write, `finishedAt` is
  read too old and a run may start twice. (What it does to the record is in
  `RemedyStatus`.)
* Leader election, flags, probes and TLS (wiring of controller-runtime); events,
  logs and Prometheus counters; the HTTP client of the URL source; podGC and other
  data meant for Argo; manifests, CRD and examples; generated deep copies; the text
  of statuses.
* A spec that is rejected on every attempt (no `level`, a remedy without
  ServiceAccount) appears as a failing submission in the scheduler, and in full in
  `WorkflowRBAC`.
* Negative intervals, timeouts and limits.

## 6. Where the properties end

The code does not do the following, and the properties above are stated so that
they do not claim it. A run is lost when a submission or any later call fails on
a timer's goroutine (`Reliable`). A workflow gets every
label any HealthCheck left in the shared map, also those its source does not ask for, and
of a label two sources dispute the value that was merged last (`Undisputed`). Overlapping
runs of one HealthCheck, or remedies of two under one account, delete each
other's permissions, and an edit of the account takes effect for a closure only
after a worker has made the new objects (`Separate`). A workflow that ends in
the second half of its time may be recorded as `Failed` although it succeeded
(`JudgedIfInTime`). A run that reads a status older than the last write takes
the verdict in it back (`InTurn`). A remedy in another namespace than its health
check is never found. A remedy that is not recorded is run again, and a limit without a
reset interval is none (`WithinLimit`). An object a user puts in the place of the
controller's may be deleted for it (`UserObjectsSurvive`). Each of these would be the place to start if the code
changes: drop the assumption, run TLC, and repair the proof.
