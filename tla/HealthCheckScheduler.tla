------------------------ MODULE HealthCheckScheduler ------------------------
(***************************************************************************)
(* The scheduling loop of the HealthCheck controller                       *)
(* (internal/controllers/healthcheck_controller.go).                       *)
(*                                                                         *)
(* Two kinds of thread run the same code:                                  *)
(*                                                                         *)
(*   - a WORKER of controller-runtime's pool runs Reconcile for a          *)
(*     HealthCheck taken from the work queue; the queue never hands out a  *)
(*     key that is being processed, so a worker is named by its HealthCheck*)
(*   - a HELPER is the closure given to time.AfterFunc                     *)
(*     (createSubmitWorkflowHelper); it runs on a goroutine of its own when*)
(*     its timer fires.                                                    *)
(*                                                                         *)
(* Both submit a workflow, poll it until it has a verdict, perhaps run the *)
(* remedy, write the status and arm the timer of the next run.  What they  *)
(* share is the API object, and RepeatTimersByName: one *time.Timer per    *)
(* HealthCheck NAME.  A step of this module is a piece of the code between *)
(* two calls another thread can interleave with.                           *)
(***************************************************************************)
EXTENDS Integers, FiniteSets

CONSTANTS
  HealthCheck,   \* the HealthCheck objects (a namespace and a name each)
  Name,          \* metadata.name values
  NameOf,        \* [HealthCheck -> Name]: two namespaces may use one name
  Helper,        \* identities of AfterFunc closures
  HcOf,          \* [Helper -> HealthCheck]: whose closure it is; the closures
                 \* of one HealthCheck bound those alive at a time
  Specs,         \* the specs a user may give a HealthCheck
  MaxParallel,   \* MaxConcurrentReconciles
  MaxAge,        \* an age of MaxAge stands for "MaxAge or older"
  CronDelays,    \* seconds to the next tick of a cron schedule
  Faults,        \* <<thread kind, point>> pairs where a call may fail
  Events,        \* what users and the cluster may do
  NoSpec, NoJob  \* no snapshot, no closure

Thread == HealthCheck \cup Helper
Hc(t) == IF t \in Helper THEN HcOf[t] ELSE t
Kind(t) == IF t \in Helper THEN "timer" ELSE "worker"
May(t, point) == <<Kind(t), point>> \in Faults

\* metadata.namespace of the workflow, RepeatAfterSec, Schedule.Cron # "",
\* Workflow.Resource # nil and ~RemedyWorkflow.IsEmpty().
SpecFields == [resource : BOOLEAN, ns : STRING, repeatAfterSec : Int,
               cron : BOOLEAN, remedy : BOOLEAN]

ASSUME NamesAssumption == NameOf \in [HealthCheck -> Name]
ASSUME ThreadsAssumption ==
  /\ HealthCheck \cap Helper = {}
  /\ {"nil", "spent"} \cap Helper = {}
  /\ HcOf \in [Helper -> HealthCheck]
ASSUME SpecsAssumption ==
  /\ Specs \subseteq SpecFields
  /\ NoSpec \notin SpecFields
  /\ NoJob \notin [ns : STRING, spec : SpecFields \cup {NoSpec},
                   deleting : BOOLEAN]
ASSUME BoundsAssumption ==
  /\ MaxAge \in Nat \ {0}
  /\ CronDelays \subseteq 1..MaxAge
  /\ \A s \in Specs : s.repeatAfterSec <= MaxAge

VARIABLES
  obj,      \* obj[h]: life of the API object
  spec,     \* spec[h]: its spec
  age,      \* age[h]: seconds since status.finishedAt, MaxAge when nil
  queue,    \* keys of the work queue waiting for a worker
  RepeatTimersByName,  \* per name: "nil", an armed timer, or one "spent"
                       \* (fired or stopped; the entry is never removed)
  pc,       \* pc[t]: where a thread is
  job,      \* job[t]: the snapshot it works from
  since,    \* since[t]: age of the time value it holds
  left      \* left[c]: seconds until the timer of helper c fires

api   == <<obj, spec, age>>
local == <<job, since, left>>
vars  == <<obj, spec, age, queue, RepeatTimersByName, pc, job, since, left>>

Exists(h) == obj[h] \in {"live", "terminating"}
Live(h)   == obj[h] = "live"

\* The specs that the documentation says run again and again.
Periodic(s) == s.resource /\ (s.repeatAfterSec > 0 \/ s.cron)
\* "workflows can be paused by setting repeatAfterSec to <= 0"
Paused(s) == s.repeatAfterSec <= 0 /\ ~s.cron

Busy == {h \in HealthCheck : pc[h] # "idle"}
HelpersOf(h) == {c \in Helper : pc[c] # "idle" /\ HcOf[c] = h}

\* Where a thread holds a time value that Tick must age.
Stamped == {"decide", "stop", "remedy", "cleanup", "persist"}

Older(a) == IF a < MaxAge THEN a + 1 ELSE MaxAge

\* What client.Get copies: the spec and whether deletionTimestamp is set.
Snapshot(h) == [ns |-> spec[h].ns, spec |-> spec[h],
                deleting |-> obj[h] = "terminating"]

-----------------------------------------------------------------------------
(* How a thread stops. *)

\* The worker of h, or a helper, is done and keeps nothing.
Idle(t) ==
  /\ pc' = [pc EXCEPT ![t] = "idle"]
  /\ job' = [job EXCEPT ![t] = NoJob]
  /\ since' = [since EXCEPT ![t] = 0]

\* Reconcile returns without an error from processHealthCheck: the object is
\* read and written once more (spec only: status is a subresource, so nothing
\* changes), and an error there puts the key back.
Finished(h) ==
  \/ Exists(h) /\ queue' = queue
  \/ (~Exists(h) \/ May(h, "final")) /\ queue' = queue \cup {h}

\* processHealthCheck returns nil, or the closure returns.
Return(t) ==
  /\ Idle(t)
  /\ IF t \in Helper THEN UNCHANGED queue ELSE Finished(t)

\* processHealthCheck returns an error: the key is requeued, unless the error
\* is the "StorageError: invalid object" of a deleted object.  A closure logs
\* its error and returns: nothing runs it again.
Fail(t) ==
  /\ Idle(t)
  /\ \/ t \in Helper /\ UNCHANGED queue
     \/ t \notin Helper /\ queue' = queue \cup {t}
     \/ t \notin Helper /\ ~Exists(t) /\ UNCHANGED queue

\* The process dies and comes back: threads and timers are lost, and the
\* first list of the informer queues every object that exists.
Restart ==
  /\ pc' = [t \in Thread |-> "idle"]
  /\ job' = [t \in Thread |-> NoJob]
  /\ since' = [t \in Thread |-> 0]
  /\ left' = [c \in Helper |-> 0]
  /\ RepeatTimersByName' = [n \in Name |-> "nil"]
  /\ queue' = {h \in HealthCheck : Exists(h)}
  /\ UNCHANGED api

\* Mutant of Panic: the closure recovers, too, and is not run again.
PanicRecoveredByAll(t) ==
  Idle(t) /\ UNCHANGED <<api, queue, RepeatTimersByName, left>>

\* A panic: recovered in the worker, which then reports success without the
\* final write; on the goroutine of a closure nothing recovers it.
Panic(t) ==
  IF t \in Helper THEN Restart
  ELSE Idle(t) /\ UNCHANGED <<api, queue, RepeatTimersByName, left>>

\* Status().Update writes the whole snapshot status, finishedAt included, and
\* the change comes back as a watch event.
WriteFinishedAt(t) ==
  LET h == Hc(t) IN
  /\ age' = [age EXCEPT ![h] = since[t]]
  /\ queue' = queue \cup {h}
  /\ UNCHANGED <<obj, spec>>

-----------------------------------------------------------------------------
(* Reconcile and processHealthCheck: workers only. *)

Goto(t, label) == pc' = [pc EXCEPT ![t] = label]

\* Get succeeds; or the object is gone; or the API server fails, which the
\* code treats as a deletion before returning the error.
StartReconcile(h) ==
  /\ h \in queue /\ pc[h] = "idle" /\ Cardinality(Busy) < MaxParallel
  /\ queue' = queue \ {h}
  /\ \/ /\ Exists(h)
        /\ Goto(h, "decide")
        /\ job' = [job EXCEPT ![h] = Snapshot(h)]
        /\ since' = [since EXCEPT ![h] = age[h]]
     \/ ~Exists(h) /\ Goto(h, "cancel") /\ UNCHANGED <<job, since>>
     \/ May(h, "get") /\ Goto(h, "cancelErr") /\ UNCHANGED <<job, since>>
  /\ UNCHANGED <<api, RepeatTimersByName, left>>

\* Mutants of Running: the lookup uses another key and finds nothing, or
\* finds the timers of other HealthChecks.
RunningNothing(n) == {}
RunningAnything(n) == {RepeatTimersByName[m] : m \in Name} \cap Helper

\* The timer registered under a name, when Stop still has something to stop.
Running(n) == {RepeatTimersByName[n]} \cap Helper

\* Mutant of IgnoreNotFound: Reconcile returns err as it is.
ReportNotFound(h) == {h}

\* ignoreNotFound(err): an error other than NotFound puts the key back.
IgnoreNotFound(h) == IF pc[h] = "cancelErr" THEN {h} ELSE {}

\* if GetTimerByName(name) != nil { GetTimerByName(name).Stop() }
Cancel(h) ==
  LET n == NameOf[h]
      over == {h} \cup Running(n) IN
  /\ pc[h] \in {"cancel", "cancelErr"}
  /\ RepeatTimersByName' =
       IF Running(n) = {} THEN RepeatTimersByName
       ELSE [RepeatTimersByName EXCEPT ![n] = "spent"]
  /\ pc' = [t \in Thread |-> IF t \in over THEN "idle" ELSE pc[t]]
  /\ job' = [t \in Thread |-> IF t \in over THEN NoJob ELSE job[t]]
  /\ left' = [c \in Helper |-> IF c \in over THEN 0 ELSE left[c]]
  /\ queue' = queue \cup IgnoreNotFound(h)
  /\ UNCHANGED <<api, since>>

\* Mutant of AlreadyScheduled: no look at RepeatTimersByName.
FinishedRecently(h) == since[h] < job[h].spec.repeatAfterSec

\* "Workflow already executed, and there is repeat schedule"
AlreadyScheduled(h) ==
  /\ since[h] < job[h].spec.repeatAfterSec
  /\ RepeatTimersByName[NameOf[h]] # "nil"

\* A cron schedule becomes a delay, in the snapshot only; one that does not
\* parse is an error.
SetCronDelay(h) ==
  \E d \in CronDelays :
    job' = [job EXCEPT ![h] = [@ EXCEPT !.spec.repeatAfterSec = d]]

Decide(h) ==
  LET s == job[h].spec IN
  /\ pc[h] = "decide"
  /\ \/ ~s.resource /\ Return(h)
     \/ /\ s.resource
        /\ since' = [since EXCEPT ![h] = 0]
        /\ UNCHANGED queue
        /\ \/ Paused(s) /\ Goto(h, "stop") /\ UNCHANGED job
           \/ /\ s.repeatAfterSec <= 0 /\ s.cron
              /\ Goto(h, "submit") /\ SetCronDelay(h)
           \/ /\ s.repeatAfterSec > 0 /\ ~AlreadyScheduled(h)
              /\ Goto(h, "submit") /\ UNCHANGED job
     \/ /\ s.resource /\ s.repeatAfterSec > 0 /\ AlreadyScheduled(h)
        /\ Return(h)
     \/ /\ s.resource /\ s.repeatAfterSec <= 0 /\ s.cron
        /\ May(h, "cron") /\ Fail(h)
  /\ UNCHANGED <<api, RepeatTimersByName, left>>

\* Status "Stopped", finishedAt = the time of the decision; the timer is left
\* alone.  A write of the same second again changes nothing and makes no event.
RecordStopped(h) ==
  /\ pc[h] = "stop"
  /\ \/ /\ Exists(h) /\ Idle(h)
        /\ age' = [age EXCEPT ![h] = since[h]]
        /\ queue' = queue \cup {h} \/ (age[h] = since[h] /\ queue' = queue)
        /\ UNCHANGED <<obj, spec>>
     \/ (~Exists(h) \/ May(h, "persist")) /\ Fail(h) /\ UNCHANGED api
  /\ UNCHANGED <<RepeatTimersByName, left>>

-----------------------------------------------------------------------------
(* createSubmitWorkflowHelper: the closure a timer runs. *)

\* The timer fires and the closure reads its HealthCheck again: a new spec,
\* but the workflow namespace of the run that armed the timer.
Fire(c) ==
  LET h == HcOf[c] IN
  /\ pc[c] = "armed" /\ left[c] = 0
  /\ RepeatTimersByName' = [n \in Name |->
       IF RepeatTimersByName[n] = c THEN "spent" ELSE RepeatTimersByName[n]]
  /\ \/ /\ Exists(h) /\ Goto(c, "submit")
        /\ job' = [job EXCEPT ![c] = [Snapshot(h) EXCEPT !.ns = job[c].ns]]
        /\ UNCHANGED since
     \/ (~Exists(h) \/ May(c, "get")) /\ Idle(c)
  /\ UNCHANGED <<api, queue, left>>

-----------------------------------------------------------------------------
(* Both kinds of thread: createSubmitWorkflow, watchWorkflowReschedule. *)

\* The workflow is created in the namespace of the spec (by a worker, after
\* the RBAC of the health check).  Only a closure can find no resource here.
\* A closure whose submission fails polls a workflow without a name, which
\* is an error at once.
Submit(t) ==
  /\ pc[t] = "submit"
  /\ \/ ~job[t].spec.resource /\ Panic(t)
     \/ /\ job[t].spec.resource /\ Goto(t, "watch")
        /\ UNCHANGED <<api, queue, RepeatTimersByName, local>>
     \/ /\ May(t, "submit") /\ Fail(t)
        /\ UNCHANGED <<api, RepeatTimersByName, left>>

\* Polling ends when the workflow is not found (never created in this
\* namespace, or garbage-collected), on an error, or with a verdict: the
\* backoff's timeout counts as Failed.  A failed run may need the remedy.
Watch(t) ==
  LET j == job[t] IN
  /\ pc[t] = "watch"
  /\ \/ (j.ns # j.spec.ns \/ ~Exists(Hc(t)) \/ May(t, "gone")) /\ Return(t)
     \/ May(t, "poll") /\ Fail(t)
     \/ /\ j.ns = j.spec.ns
        /\ \/ Goto(t, "persist")
           \/ j.spec.remedy /\ Goto(t, "remedy")
        /\ since' = [since EXCEPT ![t] = 0]
        /\ UNCHANGED <<queue, job>>
  /\ UNCHANGED <<api, RepeatTimersByName, left>>

\* The remedy: skipped at its run limit; or run, its verdict written with the
\* snapshot's status; or run without a write (its workflow is not found, or
\* the snapshot was already being deleted); or failed.
RunRemedy(t) ==
  LET j == job[t] IN
  /\ pc[t] = "remedy"
  /\ \/ /\ Goto(t, "persist") \/ Goto(t, "cleanup")
        /\ UNCHANGED <<api, queue, RepeatTimersByName, local>>
     \/ /\ ~j.deleting /\ Exists(Hc(t))
        /\ WriteFinishedAt(t) /\ Goto(t, "cleanup")
        /\ UNCHANGED <<RepeatTimersByName, local>>
     \/ /\ (~j.deleting /\ ~Exists(Hc(t))) \/ May(t, "remedy")
        /\ Fail(t) /\ UNCHANGED <<api, RepeatTimersByName, left>>
     \/ May(t, "panic") /\ Panic(t)

\* deleteRBACForWorkflow
DeleteRemedyRBAC(t) ==
  /\ pc[t] = "cleanup"
  /\ \/ Goto(t, "persist") /\ UNCHANGED <<queue, job, since>>
     \/ May(t, "remedy") /\ Fail(t)
  /\ UNCHANGED <<api, RepeatTimersByName, left>>

\* updateHealthCheckStatus, unless the snapshot was already being deleted.
\* On an error the code looks for the timer of the EMPTY name, finds none and
\* so stops nothing.
Persist(t) ==
  LET j == job[t] IN
  /\ pc[t] = "persist"
  /\ \/ j.deleting /\ Return(t) /\ UNCHANGED api
     \/ /\ ~j.deleting /\ Exists(Hc(t))
        /\ WriteFinishedAt(t) /\ Goto(t, "arm")
        /\ since' = [since EXCEPT ![t] = 0]
        /\ UNCHANGED job
     \/ /\ ~j.deleting /\ (~Exists(Hc(t)) \/ May(t, "persist"))
        /\ Fail(t) /\ UNCHANGED api
  /\ UNCHANGED <<RepeatTimersByName, left>>

\* Under TimerLock: stop the timer registered under the name, register a new
\* one.  AfterFunc fires at once for a delay that is not positive.  The ended
\* thread and the stopped closure leave their identities free.
Arm(t) ==
  LET j == job[t]
      n == NameOf[Hc(t)]
      over == {t} \cup Running(n)
      after == IF j.spec.repeatAfterSec > 0 THEN j.spec.repeatAfterSec ELSE 0
  IN
  /\ pc[t] = "arm"
  /\ \E c \in {x \in Helper : HcOf[x] = Hc(t)
                               /\ (pc[x] = "idle" \/ x \in over)} :
       /\ RepeatTimersByName' = [RepeatTimersByName EXCEPT ![n] = c]
       /\ pc' = [x \in Thread |-> IF x = c THEN "armed"
                                  ELSE IF x \in over THEN "idle" ELSE pc[x]]
       /\ job' = [x \in Thread |->
            IF x = c THEN [j EXCEPT !.spec = NoSpec]
            ELSE IF x \in over THEN NoJob ELSE job[x]]
       /\ left' = [x \in Helper |-> IF x = c THEN after
                                    ELSE IF x \in over THEN 0 ELSE left[x]]
  /\ IF t \in Helper THEN UNCHANGED queue ELSE Finished(t)
  /\ UNCHANGED <<api, since>>

-----------------------------------------------------------------------------
(* Users, the cluster, time. *)

\* Mutant of Notify: a predicate filters the event out.
NotifyNobody(h) == UNCHANGED <<queue, RepeatTimersByName, pc, local>>

\* An event of the watch on HealthCheck queues the key.
Notify(h) ==
  /\ queue' = queue \cup {h}
  /\ UNCHANGED <<RepeatTimersByName, pc, local>>

Create(h) ==
  /\ obj[h] = "unborn" \/ (obj[h] = "deleted" /\ "recreate" \in Events)
  /\ obj' = [obj EXCEPT ![h] = "live"]
  /\ \E s \in Specs : spec' = [spec EXCEPT ![h] = s]
  /\ age' = [age EXCEPT ![h] = MaxAge]
  /\ Notify(h)

\* deletionTimestamp is set; a finalizer keeps the object for a while.
Terminate(h) ==
  /\ "terminate" \in Events /\ Live(h)
  /\ obj' = [obj EXCEPT ![h] = "terminating"]
  /\ Notify(h) /\ UNCHANGED <<spec, age>>

Delete(h) ==
  /\ "delete" \in Events /\ Exists(h)
  /\ obj' = [obj EXCEPT ![h] = "deleted"]
  /\ Notify(h) /\ UNCHANGED <<spec, age>>

Edit(h) ==
  /\ "edit" \in Events /\ Exists(h)
  /\ \E s \in Specs \ {spec[h]} : spec' = [spec EXCEPT ![h] = s]
  /\ Notify(h) /\ UNCHANGED <<obj, age>>

\* A change the controller does not care about, or a periodic resync.
Touch(h) ==
  /\ "touch" \in Events /\ Exists(h)
  /\ Notify(h) /\ UNCHANGED api

Crash == "crash" \in Events /\ Restart

\* One second passes.  Nothing obliges a due timer to run before it.
Tick ==
  /\ age' = [h \in HealthCheck |-> Older(age[h])]
  /\ since' = [t \in Thread |->
       IF pc[t] \in Stamped THEN Older(since[t]) ELSE since[t]]
  /\ left' = [c \in Helper |-> IF left[c] > 0 THEN left[c] - 1 ELSE 0]
  /\ UNCHANGED <<obj, spec, queue, RepeatTimersByName, pc, job>>

-----------------------------------------------------------------------------
\* The operator may start in a cluster that already has HealthChecks.
Init ==
  /\ obj \in [HealthCheck -> {"unborn", "live"}]
  /\ spec \in [HealthCheck -> Specs]
  /\ age \in [HealthCheck -> {0, MaxAge}]
  /\ queue = {h \in HealthCheck : Exists(h)}
  /\ RepeatTimersByName = [n \in Name |-> "nil"]
  /\ pc = [t \in Thread |-> "idle"]
  /\ job = [t \in Thread |-> NoJob]
  /\ since = [t \in Thread |-> 0]
  /\ left = [c \in Helper |-> 0]

Worker(h) == \/ Cancel(h) \/ Decide(h) \/ RecordStopped(h)
Run(t) == \/ Submit(t) \/ Watch(t) \/ RunRemedy(t) \/ DeleteRemedyRBAC(t)
          \/ Persist(t) \/ Arm(t)
User(h) == \/ Create(h) \/ Terminate(h) \/ Delete(h) \/ Edit(h) \/ Touch(h)

Next ==
  \/ \E h \in HealthCheck : StartReconcile(h) \/ Worker(h) \/ User(h)
  \/ \E c \in Helper : Fire(c)
  \/ \E t \in Thread : Run(t)
  \/ Crash
  \/ Tick

Spec == Init /\ [][Next]_vars

\* Threads run, time passes, due timers fire.  The work queue is FIFO and its
\* workers never wait for ever (polling ends by its timeout), so a key that
\* keeps finding a free worker is started, even if others take it in between.
\* The code's Arm never waits; only the finite Helper can make it wait here for
\* a free closure, so it gets strong fairness.
Fairness ==
  /\ \A h \in HealthCheck : SF_vars(StartReconcile(h)) /\ WF_vars(Worker(h))
  /\ \A c \in Helper : WF_vars(Fire(c))
  /\ \A t \in Thread : WF_vars(Run(t)) /\ SF_vars(Arm(t))
  /\ WF_vars(Tick)

FairSpec == Spec /\ Fairness

-----------------------------------------------------------------------------
(* Properties. *)

PcLabel == {"idle", "armed", "cancel", "cancelErr", "decide", "stop", "submit",
            "watch", "remedy", "cleanup", "persist", "arm"}
Job == [ns : STRING, spec : SpecFields \cup {NoSpec}, deleting : BOOLEAN]

\* The types of the variables; a thread that does nothing holds nothing.
TypeOK ==
  /\ obj \in [HealthCheck -> {"unborn", "live", "terminating", "deleted"}]
  /\ spec \in [HealthCheck -> Specs]
  /\ age \in [HealthCheck -> 0..MaxAge]
  /\ queue \subseteq HealthCheck
  /\ RepeatTimersByName \in [Name -> Helper \cup {"nil", "spent"}]
  /\ pc \in [Thread -> PcLabel]
  /\ job \in [Thread -> Job \cup {NoJob}]
  /\ since \in [Thread -> 0..MaxAge]
  /\ left \in [Helper -> 0..MaxAge]

\* No timer is orphaned: every armed timer is the one registered under the name
\* of its HealthCheck.  An orphan could never be stopped again (Cancel and Arm
\* stop what the map names), so each would start one more chain of runs that
\* renews itself.
EveryArmedTimerIsRegistered ==
  \A c \in Helper :
    pc[c] = "armed" => RepeatTimersByName[NameOf[HcOf[c]]] = c

\* A HealthCheck's map entry is trusted by AlreadyScheduled: as long as the
\* object lives, an entry means that some closure is still armed or running for
\* it.  Entries outlive their timers, so this needs every way a closure can
\* end to leave a successor.
RegisteredTimerIsLive ==
  \A h \in HealthCheck :
    Live(h) /\ RepeatTimersByName[NameOf[h]] # "nil" => HelpersOf(h) # {}

\* The next run of a live periodic HealthCheck is never lost: its key is queued,
\* a worker has it, or a closure is armed or running for it.  Otherwise nothing
\* runs it until an event that has nothing to do with its schedule (an edit, a
\* restart, the resync of the informer cache hours later).
NextRunGuaranteed ==
  \A h \in HealthCheck :
    Live(h) /\ Periodic(spec[h]) =>
      h \in queue \/ pc[h] # "idle" \/ HelpersOf(h) # {}

\* "The HealthCheck workflow is run periodically": a HealthCheck that stays live
\* and periodic has its workflow submitted again and again.
Submitting(h) == pc[h] = "submit" \/ \E c \in HelpersOf(h) : pc[c] = "submit"
RunsPeriodically ==
  \A h \in HealthCheck :
    <>[](Live(h) /\ Periodic(spec[h])) => []<>Submitting(h)

\* When a HealthCheck is deleted for good, its timers and runs come to an end,
\* also those whose thread had already passed every check of the deletion.
DeletedComesToRest ==
  \A h \in HealthCheck :
    <>[](obj[h] = "deleted") =>
      <>[](pc[h] = "idle" /\ HelpersOf(h) = {})

\* "workflows can be paused by setting repeatAfterSec to <= 0": no thread starts
\* a run while the spec says the HealthCheck is paused.
PausedStartsNothing ==
  [][\A t \in Thread :
       pc[t] # "submit" /\ pc'[t] = "submit" => ~Paused(job'[t].spec)]_vars

\* A cron HealthCheck runs at the times of its schedule: a run does not start
\* while the timer for its next run is still counting down.
CronWaitsForItsTimer ==
  [][\A h \in HealthCheck :
       pc[h] = "decide" /\ pc'[h] = "submit" /\ job[h].spec.cron =>
         ~\E c \in HelpersOf(h) : pc[c] = "armed" /\ left[c] > 0]_vars

-----------------------------------------------------------------------------
(* The inductive invariants behind the safety properties. *)

\* A thread at work holds a snapshot, an armed closure its namespace.
Working == {"decide", "stop", "submit", "watch", "remedy", "cleanup", "persist",
            "arm"}
SnapshotsOK ==
  \A t \in Thread :
    /\ pc[t] \in Working =>
         job[t] \in Job /\ job[t].spec # NoSpec
           /\ job[t].spec.repeatAfterSec <= MaxAge
    /\ pc[t] = "armed" => job[t] \in Job

\* The converse of EveryArmedTimerIsRegistered: what the map says is running is
\* armed, and belongs to a HealthCheck of that name.
EveryRegisteredTimerIsArmed ==
  \A n \in Name : \A c \in Running(n) :
    pc[c] = "armed" /\ NameOf[HcOf[c]] = n

TimersInv == /\ TypeOK
             /\ SnapshotsOK
             /\ EveryArmedTimerIsRegistered
             /\ EveryRegisteredTimerIsArmed

\* The environment in which no run is lost; without any one of these the code
\* can lose one.
Reliable ==
  /\ \A g, h \in HealthCheck : NameOf[g] = NameOf[h] => g = h
  /\ \A s1, s2 \in Specs : s1.ns = s2.ns
  /\ \A p \in {"get", "submit", "poll", "gone", "remedy", "persist"} :
       <<"timer", p>> \notin Faults
  /\ \A p \in {"get", "gone", "panic"} : <<"worker", p>> \notin Faults
  /\ "recreate" \notin Events

\* Nothing is known of an object before it is created.
UnbornIsUnknown ==
  \A h \in HealthCheck : obj[h] = "unborn" =>
    /\ h \notin queue /\ pc[h] = "idle" /\ HelpersOf(h) = {}
    /\ RepeatTimersByName[NameOf[h]] = "nil"

\* A worker that is not told of a change (its key is not queued) works from the
\* spec the object has; who holds the snapshot of an object that was being
\* deleted, or found none, is right for ever; and everyone polls in the
\* namespace where the workflow is created.
SnapshotsCurrent ==
  /\ \A h \in HealthCheck : Live(h) /\ h \notin queue =>
       /\ pc[h] = "decide" => job[h].spec = spec[h]
       /\ pc[h] = "stop" => ~Periodic(spec[h])
  /\ \A h \in HealthCheck :
       /\ pc[h] # "cancelErr"
       /\ pc[h] = "cancel" => ~Live(h)
       /\ pc[h] = "submit" => job[h].spec.resource
  /\ \A t \in Thread : \A s \in Specs :
       /\ pc[t] \in Working \cup {"armed"} => job[t].ns = s.ns
       /\ pc[t] \in Working => job[t].spec.ns = s.ns
       /\ pc[t] \in Working /\ job[t].deleting => ~Live(Hc(t))

ReliableInv == /\ TimersInv
               /\ UnbornIsUnknown
               /\ SnapshotsCurrent
               /\ RegisteredTimerIsLive
               /\ NextRunGuaranteed

-----------------------------------------------------------------------------
(* The promise this module keeps. *)

Wanted == [h \in HealthCheck |-> Live(h) /\ Periodic(spec[h])]

\* Where a worker has not started a run.
Deciding == {"cancel", "cancelErr", "decide", "stop"}

\* The key is queued or a worker is about to decide; a closure is armed; a thread
\* is between the submission and the timer of the next run.
Told(h) == h \in queue \/ pc[h] \in Deciding
TimerArmed(h) == \E c \in HelpersOf(h) : pc[c] = "armed"
RunGoesOn(h) ==
  \/ pc[h] \notin Deciding \cup {"idle"}
  \/ \E c \in HelpersOf(h) : pc[c] # "armed"

Claims == [h \in HealthCheck |->
  {x \in {"told", "timer", "run"} : \/ x = "told" /\ Told(h)
                                    \/ x = "timer" /\ TimerArmed(h)
                                    \/ x = "run" /\ RunGoesOn(h)}]

Promise == INSTANCE PeriodicCheck WITH wanted <- Wanted, claims <- Claims

\* Runs come from the queue or from a timer, timers from runs, and a live periodic
\* HealthCheck always has one of the three: whatever overlaps, fails or is edited,
\* and however often the process dies.
KeepsThePromise == Promise!Spec

=============================================================================
