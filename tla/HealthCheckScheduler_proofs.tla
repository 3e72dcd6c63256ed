-------------------- MODULE HealthCheckScheduler_proofs --------------------
(***************************************************************************)
(* Proofs about HealthCheckScheduler, for any number of HealthChecks,      *)
(* names, closures, specs and workers.                                     *)
(***************************************************************************)
EXTENDS HealthCheckScheduler, TLAPS

\* A snapshot a thread may work from.
GoodJob(j) == /\ j \in Job /\ j.spec # NoSpec /\ j.spec \in SpecFields
              /\ j.spec.repeatAfterSec <= MaxAge

\* Snapshot copies a spec the user gave the object.
LEMMA SnapshotIsGood ==
  ASSUME TypeOK, NEW h \in HealthCheck
  PROVE  GoodJob(Snapshot(h))
<1>1. spec[h] \in Specs
  BY DEF TypeOK
<1>2. spec[h] \in SpecFields /\ spec[h] # NoSpec /\ spec[h].repeatAfterSec <= MaxAge
  BY <1>1, SpecsAssumption, BoundsAssumption
<1>3. spec[h].ns \in STRING
  BY <1>2 DEF SpecFields
<1> QED
  BY <1>2, <1>3 DEF Snapshot, GoodJob, Job

\* What SnapshotsOK says of a thread at work.
LEMMA WorkingHasGoodJob ==
  ASSUME SnapshotsOK, NEW t \in Thread, pc[t] \in Working
  PROVE  GoodJob(job[t])
<1>1. job[t] \in Job /\ job[t].spec # NoSpec /\ job[t].spec.repeatAfterSec <= MaxAge
  BY DEF SnapshotsOK
<1>2. job[t].spec \in SpecFields
  BY <1>1 DEF Job
<1> QED
  BY <1>1, <1>2 DEF GoodJob

\* The steps that move one thread between labels other than "armed" and leave
\* the timers alone: most of the code.
LEMMA LocalStep ==
  ASSUME TimersInv, NEW t \in Thread, pc[t] # "armed",
         NEW l \in PcLabel \ {"armed"}, pc' = [pc EXCEPT ![t] = l],
         NEW j \in Job \cup {NoJob}, job' = [job EXCEPT ![t] = j],
         l \in Working => GoodJob(j),
         since' \in [Thread -> 0..MaxAge],
         obj' \in [HealthCheck -> {"unborn", "live", "terminating", "deleted"}],
         spec' = spec, age' \in [HealthCheck -> 0..MaxAge],
         queue' \subseteq HealthCheck,
         UNCHANGED <<RepeatTimersByName, left>>
  PROVE  TimersInv'
<1> USE DEF TimersInv
<1>1. TypeOK'
  BY DEF TypeOK
<1>2. SnapshotsOK'
  <2> SUFFICES ASSUME NEW u \in Thread
               PROVE  /\ pc'[u] \in Working =>
                           job'[u] \in Job /\ job'[u].spec # NoSpec
                             /\ job'[u].spec.repeatAfterSec <= MaxAge
                      /\ pc'[u] = "armed" => job'[u] \in Job
    BY DEF SnapshotsOK
  <2>1. CASE u = t
    BY <2>1 DEF TypeOK, GoodJob
  <2>2. CASE u # t
    <3>1. pc'[u] = pc[u] /\ job'[u] = job[u]
      BY <2>2 DEF TypeOK
    <3> QED
      BY <3>1 DEF SnapshotsOK
  <2> QED
    BY <2>1, <2>2
<1>3. \A c \in Helper : pc'[c] = "armed" <=> pc[c] = "armed"
  BY DEF TypeOK, Thread
<1>4. EveryArmedTimerIsRegistered'
  BY <1>3 DEF EveryArmedTimerIsRegistered
<1>5. EveryRegisteredTimerIsArmed'
  BY <1>3 DEF EveryRegisteredTimerIsArmed, Running
<1> QED
  BY <1>1, <1>2, <1>4, <1>5

-----------------------------------------------------------------------------
(* The timers: every armed closure is registered, and conversely. *)

\* Workers, closures and map values are different things.
LEMMA ThreadsAreDistinct ==
  /\ \A h \in HealthCheck : h \in Thread /\ h \notin Helper
  /\ \A c \in Helper : c \in Thread /\ c # "nil" /\ c # "spent"
  /\ \A t \in Thread : Hc(t) \in HealthCheck /\ NameOf[Hc(t)] \in Name
  /\ \A c \in Helper : Hc(c) = HcOf[c]
BY ThreadsAssumption, NamesAssumption DEF Thread, Hc

\* The ends of a thread: what Idle, Return and Fail do to the variables.
LEMMA EndStep ==
  ASSUME TimersInv, NEW t \in Thread, pc[t] # "armed", Idle(t),
         queue' \subseteq HealthCheck,
         obj' = obj, spec' = spec, age' \in [HealthCheck -> 0..MaxAge],
         UNCHANGED <<RepeatTimersByName, left>>
  PROVE  TimersInv'
<1>1. since' \in [Thread -> 0..MaxAge]
  BY BoundsAssumption DEF TimersInv, TypeOK, Idle
<1>2. "idle" \in PcLabel \ {"armed"} /\ "idle" \notin Working
  BY DEF PcLabel, Working
<1> QED
  BY <1>1, <1>2, LocalStep DEF Idle, TimersInv, TypeOK

\* Return and Fail end the thread and queue only HealthChecks.
LEMMA EndQueue ==
  ASSUME TimersInv, NEW t \in Thread, Return(t) \/ Fail(t)
  PROVE  queue' \subseteq HealthCheck /\ Idle(t)
BY DEF TimersInv, TypeOK, Return, Fail, Finished, Thread

\* The status write keeps the types of what it writes.
LEMMA WriteFinishedAtTypes ==
  ASSUME TimersInv, NEW t \in Thread, WriteFinishedAt(t)
  PROVE  /\ age' \in [HealthCheck -> 0..MaxAge] /\ queue' \subseteq HealthCheck
         /\ obj' = obj /\ spec' = spec
BY ThreadsAreDistinct DEF TimersInv, TypeOK, WriteFinishedAt

\* After a restart there is no timer, registered or armed.
LEMMA RestartStep ==
  ASSUME TimersInv, Restart
  PROVE  TimersInv'
<1>1. TypeOK'
  BY BoundsAssumption DEF TimersInv, TypeOK, Restart, api, PcLabel
<1>2. SnapshotsOK'
  BY DEF SnapshotsOK, Restart, Working
<1>3. EveryArmedTimerIsRegistered'
  BY ThreadsAreDistinct DEF EveryArmedTimerIsRegistered, Restart
<1>4. EveryRegisteredTimerIsArmed'
  BY ThreadsAreDistinct DEF EveryRegisteredTimerIsArmed, Running, Restart
<1> QED
  BY <1>1, <1>2, <1>3, <1>4 DEF TimersInv

\* A recovered panic ends a worker, another one the process.
LEMMA PanicStep ==
  ASSUME TimersInv, NEW t \in Thread, pc[t] # "armed", Panic(t)
  PROVE  TimersInv'
<1>1. CASE t \in Helper
  BY <1>1, RestartStep DEF Panic
<1>2. CASE t \notin Helper
  BY <1>2, EndStep DEF Panic, TimersInv, TypeOK, api
<1> QED
  BY <1>1, <1>2

\* Reconcile takes a key and a snapshot; it touches no timer.
LEMMA StartReconcileStep ==
  ASSUME TimersInv, NEW h \in HealthCheck, StartReconcile(h)
  PROVE  TimersInv'
<1> USE ThreadsAreDistinct
<1>1. /\ pc[h] # "armed" /\ queue' \subseteq HealthCheck
      /\ UNCHANGED <<obj, spec, age, RepeatTimersByName, left>>
  BY DEF StartReconcile, TimersInv, TypeOK, api
<1>2. CASE Exists(h) /\ Goto(h, "decide") /\ job' = [job EXCEPT ![h] = Snapshot(h)]
           /\ since' = [since EXCEPT ![h] = age[h]]
  <2>1. GoodJob(Snapshot(h)) /\ Snapshot(h) \in Job
    BY SnapshotIsGood DEF TimersInv, GoodJob
  <2>2. since' \in [Thread -> 0..MaxAge] /\ "decide" \in PcLabel \ {"armed"}
    BY <1>2 DEF TimersInv, TypeOK, PcLabel
  <2> QED
    BY <1>1, <1>2, <2>1, <2>2, LocalStep DEF Goto, TimersInv, TypeOK
<1>3. ASSUME NEW l \in {"cancel", "cancelErr"}, Goto(h, l), UNCHANGED <<job, since>>
      PROVE  TimersInv'
  <2>1. job' = [job EXCEPT ![h] = job[h]] /\ job[h] \in Job \cup {NoJob}
    BY <1>3 DEF TimersInv, TypeOK
  <2>2. l \in PcLabel \ {"armed"} /\ l \notin Working
    BY DEF PcLabel, Working
  <2>3. since' \in [Thread -> 0..MaxAge]
    BY <1>3 DEF TimersInv, TypeOK
  <2> QED
    BY <1>1, <1>3, <2>1, <2>2, <2>3, LocalStep DEF Goto, TimersInv, TypeOK
<1> QED
  BY <1>2, <1>3 DEF StartReconcile

\* The timer Cancel stops is the one it finds, which leaves the map entry spent.
LEMMA CancelStep ==
  ASSUME TimersInv, NEW h \in HealthCheck, Cancel(h)
  PROVE  TimersInv'
<1> DEFINE n == NameOf[h]
           over == {h} \cup Running(n)
<1> USE ThreadsAreDistinct
<1>1. n \in Name /\ over \subseteq Thread /\ Running(n) \subseteq Helper
  BY NamesAssumption DEF Running
<1>2. /\ pc' = [t \in Thread |-> IF t \in over THEN "idle" ELSE pc[t]]
      /\ job' = [t \in Thread |-> IF t \in over THEN NoJob ELSE job[t]]
      /\ left' = [c \in Helper |-> IF c \in over THEN 0 ELSE left[c]]
      /\ \A m \in Name : RepeatTimersByName'[m] =
            IF m = n /\ Running(n) # {} THEN "spent" ELSE RepeatTimersByName[m]
      /\ queue' \subseteq HealthCheck
  BY DEF Cancel, IgnoreNotFound, TimersInv, TypeOK
<1>3. TypeOK'
  <2>1. pc' \in [Thread -> PcLabel] /\ job' \in [Thread -> Job \cup {NoJob}]
    BY <1>2 DEF TimersInv, TypeOK, PcLabel
  <2>2. left' \in [Helper -> 0..MaxAge]
    BY <1>2, BoundsAssumption DEF TimersInv, TypeOK
  <2>3. RepeatTimersByName' \in [Name -> Helper \cup {"nil", "spent"}]
    BY DEF Cancel, IgnoreNotFound, TimersInv, TypeOK
  <2> QED
    BY <1>2, <2>1, <2>2, <2>3 DEF Cancel, IgnoreNotFound, TimersInv, TypeOK, api
<1>4. SnapshotsOK'
  BY <1>2 DEF TimersInv, SnapshotsOK, Working
<1>5. EveryArmedTimerIsRegistered'
  <2> SUFFICES ASSUME NEW c \in Helper, pc'[c] = "armed"
               PROVE  RepeatTimersByName'[NameOf[HcOf[c]]] = c
    BY DEF EveryArmedTimerIsRegistered
  <2>1. c \notin over /\ pc[c] = "armed"
    BY <1>2
  <2>2. RepeatTimersByName[NameOf[HcOf[c]]] = c
    BY <2>1 DEF TimersInv, EveryArmedTimerIsRegistered
  <2>3. NameOf[HcOf[c]] # n
    BY <2>1, <2>2 DEF Running
  <2> QED
    BY <1>2, <2>2, <2>3
<1>6. EveryRegisteredTimerIsArmed'
  <2> SUFFICES ASSUME NEW m \in Name, NEW c \in Helper, RepeatTimersByName'[m] = c
               PROVE  pc'[c] = "armed" /\ NameOf[HcOf[c]] = m
    BY DEF EveryRegisteredTimerIsArmed, Running
  <2>1. RepeatTimersByName[m] = c /\ ~(m = n /\ Running(n) # {})
    BY <1>2
  <2>2. pc[c] = "armed" /\ NameOf[HcOf[c]] = m
    BY <2>1 DEF TimersInv, EveryRegisteredTimerIsArmed, Running
  <2>3. c \notin over
    BY <1>1, <2>1, <2>2 DEF Running, TimersInv, EveryRegisteredTimerIsArmed
  <2> QED
    BY <1>2, <2>2, <2>3
<1> QED
  BY <1>3, <1>4, <1>5, <1>6 DEF TimersInv

\* processHealthCheck up to its decision touches no timer.
LEMMA DecideStep ==
  ASSUME TimersInv, NEW h \in HealthCheck, Decide(h)
  PROVE  TimersInv'
<1> USE ThreadsAreDistinct
<1>1. /\ pc[h] # "armed" /\ UNCHANGED <<obj, spec, age, RepeatTimersByName, left>>
      /\ GoodJob(job[h]) /\ age' \in [HealthCheck -> 0..MaxAge]
  BY WorkingHasGoodJob DEF Decide, TimersInv, TypeOK, Working, api
<1>2. CASE Return(h) \/ Fail(h)
  BY <1>1, <1>2, EndQueue, EndStep DEF TimersInv, TypeOK
<1>3. ASSUME NEW l \in {"stop", "submit"}, Goto(h, l), UNCHANGED queue,
             since' = [since EXCEPT ![h] = 0],
             NEW j \in Job, GoodJob(j), job' = [job EXCEPT ![h] = j]
      PROVE  TimersInv'
  <2>1. since' \in [Thread -> 0..MaxAge]
    BY <1>3, BoundsAssumption DEF TimersInv, TypeOK
  <2>2. l \in PcLabel \ {"armed"}
    BY DEF PcLabel
  <2> QED
    BY <1>1, <1>3, <2>1, <2>2, LocalStep DEF Goto, TimersInv, TypeOK
<1>4. job[h] \in Job /\ job = [job EXCEPT ![h] = job[h]]
  BY <1>1 DEF GoodJob, TimersInv, TypeOK
<1>5. CASE SetCronDelay(h)
  <2>1. PICK d \in CronDelays :
          job' = [job EXCEPT ![h] = [@ EXCEPT !.spec.repeatAfterSec = d]]
    BY <1>5 DEF SetCronDelay
  <2> DEFINE s == [job[h].spec EXCEPT !.repeatAfterSec = d]
             j == [job[h] EXCEPT !.spec = s]
  <2>2. s \in SpecFields /\ s.repeatAfterSec <= MaxAge
    BY <1>1, BoundsAssumption DEF GoodJob, SpecFields
  <2>3. j \in Job /\ GoodJob(j)
    BY <1>1, <2>2, SpecsAssumption DEF GoodJob, Job
  <2>4. job' = [job EXCEPT ![h] = j]
    BY <2>1 DEF TimersInv, TypeOK
  <2> QED
    BY <1>2, <1>3, <1>4, <1>1, <2>3, <2>4 DEF Decide
<1> QED
  BY <1>1, <1>2, <1>3, <1>4, <1>5 DEF Decide

\* The write of a paused check touches no timer.
LEMMA RecordStoppedStep ==
  ASSUME TimersInv, NEW h \in HealthCheck, RecordStopped(h)
  PROVE  TimersInv'
<1> USE ThreadsAreDistinct
<1>1. pc[h] # "armed" /\ UNCHANGED <<obj, spec, RepeatTimersByName, left>>
  BY DEF RecordStopped, api
<1>2. CASE Fail(h) /\ UNCHANGED api
  BY <1>1, <1>2, EndQueue, EndStep DEF TimersInv, TypeOK, api
<1>3. CASE /\ Idle(h) /\ queue' \subseteq HealthCheck
           /\ age' = [age EXCEPT ![h] = since[h]]
  <2>1. since[h] \in 0..MaxAge
    BY DEF TimersInv, TypeOK, Thread
  <2>2. age' \in [HealthCheck -> 0..MaxAge]
    BY <1>3, <2>1 DEF TimersInv, TypeOK
  <2> QED
    BY <1>1, <1>3, <2>2, EndStep
<1> QED
  BY <1>2, <1>3 DEF RecordStopped, TimersInv, TypeOK

\* A timer that fires leaves a spent entry behind.
LEMMA FireStep ==
  ASSUME TimersInv, NEW c \in Helper, Fire(c)
  PROVE  TimersInv'
<1> USE ThreadsAreDistinct
<1> DEFINE h == HcOf[c]
           j == [Snapshot(h) EXCEPT !.ns = job[c].ns]
<1>1. /\ pc[c] = "armed" /\ h \in HealthCheck /\ job[c] \in Job
      /\ UNCHANGED <<obj, spec, age, queue, left>>
  BY DEF Fire, TimersInv, SnapshotsOK, api
<1>2. GoodJob(j) /\ j \in Job /\ NoJob \in Job \cup {NoJob}
  <2>1. GoodJob(Snapshot(h))
    BY <1>1, SnapshotIsGood DEF TimersInv
  <2> QED
    BY <1>1, <2>1 DEF GoodJob, Job
<1>3. PICK l \in {"submit", "idle"}, k \in Job \cup {NoJob} :
        /\ pc' = [pc EXCEPT ![c] = l]
        /\ job' = [job EXCEPT ![c] = k]
        /\ l = "submit" => GoodJob(k)
  BY <1>2 DEF Fire, Goto, Idle
<1>4. since' \in [Thread -> 0..MaxAge]
  BY BoundsAssumption DEF Fire, Idle, TimersInv, TypeOK
<1>5. RepeatTimersByName' = [n \in Name |->
        IF RepeatTimersByName[n] = c THEN "spent" ELSE RepeatTimersByName[n]]
  BY DEF Fire
<1>6. TypeOK'
  BY <1>1, <1>3, <1>4, <1>5 DEF TimersInv, TypeOK, PcLabel
<1>7. \A t \in Thread : t # c => pc'[t] = pc[t] /\ job'[t] = job[t]
  BY <1>3 DEF TimersInv, TypeOK
<1>8. pc'[c] = l /\ job'[c] = k
  BY <1>3 DEF TimersInv, TypeOK
<1>9. SnapshotsOK'
  <2> SUFFICES ASSUME NEW t \in Thread
               PROVE  /\ pc'[t] \in Working =>
                           job'[t] \in Job /\ job'[t].spec # NoSpec
                             /\ job'[t].spec.repeatAfterSec <= MaxAge
                      /\ pc'[t] = "armed" => job'[t] \in Job
    BY DEF SnapshotsOK
  <2>1. CASE t = c
    BY <2>1, <1>3, <1>8 DEF GoodJob, Working
  <2>2. CASE t # c
    BY <2>2, <1>7 DEF TimersInv, SnapshotsOK
  <2> QED
    BY <2>1, <2>2
<1>10. EveryArmedTimerIsRegistered'
  BY <1>5, <1>7, <1>8 DEF TimersInv, EveryArmedTimerIsRegistered
<1>11. EveryRegisteredTimerIsArmed'
  BY <1>5, <1>7 DEF TimersInv, EveryRegisteredTimerIsArmed, Running
<1> QED
  BY <1>6, <1>9, <1>10, <1>11 DEF TimersInv

\* Moving on to another label of Working, with the same snapshot.
LEMMA MoveOn ==
  ASSUME TimersInv, NEW t \in Thread, pc[t] \in Working,
         NEW l \in Working, Goto(t, l), UNCHANGED job,
         since' \in [Thread -> 0..MaxAge],
         UNCHANGED <<obj, spec, RepeatTimersByName, left>>,
         age' \in [HealthCheck -> 0..MaxAge], queue' \subseteq HealthCheck
  PROVE  TimersInv'
<1>1. GoodJob(job[t]) /\ job[t] \in Job
  BY WorkingHasGoodJob DEF TimersInv, GoodJob
<1>2. job' = [job EXCEPT ![t] = job[t]] /\ l \in PcLabel \ {"armed"} /\ pc[t] # "armed"
  BY DEF TimersInv, TypeOK, Working, PcLabel
<1> QED
  BY <1>1, <1>2, LocalStep DEF Goto, TimersInv, TypeOK

\* Ending by Return or Fail in one of the steps of Run.
LEMMA EndRun ==
  ASSUME TimersInv, NEW t \in Thread, pc[t] \in Working,
         Return(t) \/ Fail(t), UNCHANGED <<api, RepeatTimersByName, left>>
  PROVE  TimersInv'
<1>1. pc[t] # "armed" /\ obj' = obj /\ spec' = spec /\ age' = age
  BY DEF Working, api
<1> QED
  BY <1>1, EndQueue, EndStep DEF TimersInv, TypeOK

\* createSubmitWorkflow touches no timer.
LEMMA SubmitStep ==
  ASSUME TimersInv, NEW t \in Thread, Submit(t)
  PROVE  TimersInv'
<1>1. pc[t] \in Working /\ pc[t] # "armed" /\ "watch" \in Working
  BY DEF Submit, Working
<1>2. CASE Panic(t)
  BY <1>1, <1>2, PanicStep
<1>3. CASE Goto(t, "watch") /\ UNCHANGED <<api, queue, RepeatTimersByName, local>>
  BY <1>1, <1>3, MoveOn DEF TimersInv, TypeOK, api, local
<1>4. CASE Fail(t) /\ UNCHANGED <<api, RepeatTimersByName, left>>
  BY <1>1, <1>4, EndRun
<1> QED
  BY <1>2, <1>3, <1>4 DEF Submit

\* The polling loop touches no timer.
LEMMA WatchStep ==
  ASSUME TimersInv, NEW t \in Thread, Watch(t)
  PROVE  TimersInv'
<1>1. /\ pc[t] \in Working /\ "persist" \in Working /\ "remedy" \in Working
      /\ UNCHANGED <<api, RepeatTimersByName, left>>
  BY DEF Watch, Working
<1>2. CASE Return(t) \/ Fail(t)
  BY <1>1, <1>2, EndRun
<1>3. CASE /\ Goto(t, "persist") \/ Goto(t, "remedy")
           /\ since' = [since EXCEPT ![t] = 0] /\ UNCHANGED <<queue, job>>
  <2>1. since' \in [Thread -> 0..MaxAge]
    BY <1>3, BoundsAssumption DEF TimersInv, TypeOK
  <2> QED
    BY <1>1, <1>3, <2>1, MoveOn DEF TimersInv, TypeOK, api
<1> QED
  BY <1>2, <1>3 DEF Watch

\* processRemedyWorkflow touches no timer.
LEMMA RunRemedyStep ==
  ASSUME TimersInv, NEW t \in Thread, RunRemedy(t)
  PROVE  TimersInv'
<1>1. pc[t] \in Working /\ pc[t] # "armed" /\ "persist" \in Working /\ "cleanup" \in Working
  BY DEF RunRemedy, Working
<1>2. CASE /\ Goto(t, "persist") \/ Goto(t, "cleanup")
           /\ UNCHANGED <<api, queue, RepeatTimersByName, local>>
  BY <1>1, <1>2, MoveOn DEF TimersInv, TypeOK, api, local
<1>3. CASE /\ WriteFinishedAt(t) /\ Goto(t, "cleanup")
           /\ UNCHANGED <<RepeatTimersByName, local>>
  BY <1>1, <1>3, MoveOn, WriteFinishedAtTypes DEF TimersInv, TypeOK, local
<1>4. CASE Fail(t) /\ UNCHANGED <<api, RepeatTimersByName, left>>
  BY <1>1, <1>4, EndRun
<1>5. CASE Panic(t)
  BY <1>1, <1>5, PanicStep
<1> QED
  BY <1>2, <1>3, <1>4, <1>5 DEF RunRemedy

\* deleteRBACForWorkflow touches no timer.
LEMMA DeleteRemedyRBACStep ==
  ASSUME TimersInv, NEW t \in Thread, DeleteRemedyRBAC(t)
  PROVE  TimersInv'
<1>1. /\ pc[t] \in Working /\ "persist" \in Working
      /\ UNCHANGED <<api, RepeatTimersByName, left>>
  BY DEF DeleteRemedyRBAC, Working
<1>2. CASE Goto(t, "persist") /\ UNCHANGED <<queue, job, since>>
  BY <1>1, <1>2, MoveOn DEF TimersInv, TypeOK, api
<1>3. CASE Fail(t)
  BY <1>1, <1>3, EndRun
<1> QED
  BY <1>2, <1>3 DEF DeleteRemedyRBAC

\* updateHealthCheckStatus touches no timer.
LEMMA PersistStep ==
  ASSUME TimersInv, NEW t \in Thread, Persist(t)
  PROVE  TimersInv'
<1>1. pc[t] \in Working /\ "arm" \in Working /\ UNCHANGED <<RepeatTimersByName, left>>
  BY DEF Persist, Working
<1>2. CASE (Return(t) \/ Fail(t)) /\ UNCHANGED api
  BY <1>1, <1>2, EndRun
<1>3. CASE /\ WriteFinishedAt(t) /\ Goto(t, "arm")
           /\ since' = [since EXCEPT ![t] = 0] /\ UNCHANGED job
  <2>1. since' \in [Thread -> 0..MaxAge]
    BY <1>3, BoundsAssumption DEF TimersInv, TypeOK
  <2> QED
    BY <1>1, <1>3, <2>1, MoveOn, WriteFinishedAtTypes
<1> QED
  BY <1>2, <1>3 DEF Persist

\* Stopping the old timer and registering the new one under one lock leaves
\* exactly the new one armed for the name.
LEMMA ArmStep ==
  ASSUME TimersInv, NEW t \in Thread, Arm(t)
  PROVE  TimersInv'
<1> USE ThreadsAreDistinct
<1> DEFINE n == NameOf[Hc(t)]
           over == {t} \cup Running(n)
           s == job[t].spec
           after == IF s.repeatAfterSec > 0 THEN s.repeatAfterSec ELSE 0
           k == [job[t] EXCEPT !.spec = NoSpec]
<1>1. GoodJob(job[t]) /\ n \in Name /\ UNCHANGED <<obj, spec, age, since>>
  BY WorkingHasGoodJob DEF Arm, TimersInv, Working, api
<1>2. k \in Job
  BY <1>1 DEF GoodJob, Job
<1>3. after \in 0..MaxAge
  <2>1. s.repeatAfterSec \in Int /\ s.repeatAfterSec <= MaxAge /\ MaxAge \in Nat
    BY <1>1, BoundsAssumption DEF GoodJob, SpecFields
  <2> QED
    BY <2>1
<1>4. PICK c \in Helper :
        /\ HcOf[c] = Hc(t) /\ (pc[c] = "idle" \/ c \in over)
        /\ RepeatTimersByName' = [RepeatTimersByName EXCEPT ![n] = c]
        /\ pc' = [x \in Thread |-> IF x = c THEN "armed"
                                   ELSE IF x \in over THEN "idle" ELSE pc[x]]
        /\ job' = [x \in Thread |-> IF x = c THEN k
                                    ELSE IF x \in over THEN NoJob ELSE job[x]]
        /\ left' = [x \in Helper |-> IF x = c THEN after
                                     ELSE IF x \in over THEN 0 ELSE left[x]]
  BY DEF Arm
<1>5. queue' \subseteq HealthCheck
  BY DEF Arm, Finished, TimersInv, TypeOK, Thread
<1>6. TypeOK'
  <2>1. pc' \in [Thread -> PcLabel]
    BY <1>4 DEF TimersInv, TypeOK, PcLabel
  <2>2. job' \in [Thread -> Job \cup {NoJob}]
    BY <1>2, <1>4 DEF TimersInv, TypeOK
  <2>3. left' \in [Helper -> 0..MaxAge]
    <3>1. 0 \in 0..MaxAge /\ left \in [Helper -> 0..MaxAge]
      BY BoundsAssumption DEF TimersInv, TypeOK
    <3> HIDE DEF after, over
    <3> QED
      BY <1>3, <1>4, <3>1
  <2>4. RepeatTimersByName' \in [Name -> Helper \cup {"nil", "spent"}]
    BY <1>1, <1>4 DEF TimersInv, TypeOK
  <2> QED
    BY <1>1, <1>5, <2>1, <2>2, <2>3, <2>4 DEF TimersInv, TypeOK
<1>7. SnapshotsOK'
  <2> SUFFICES ASSUME NEW x \in Thread
               PROVE  /\ pc'[x] \in Working =>
                           job'[x] \in Job /\ job'[x].spec # NoSpec
                             /\ job'[x].spec.repeatAfterSec <= MaxAge
                      /\ pc'[x] = "armed" => job'[x] \in Job
    BY DEF SnapshotsOK
  <2>1. CASE x = c
    BY <2>1, <1>2, <1>4 DEF Working
  <2>2. CASE x # c /\ x \in over
    BY <2>2, <1>4 DEF Working
  <2>3. CASE x # c /\ x \notin over
    BY <2>3, <1>4 DEF TimersInv, SnapshotsOK
  <2> QED
    BY <2>1, <2>2, <2>3
<1>8. \A m \in Name : RepeatTimersByName'[m] =
        IF m = n THEN c ELSE RepeatTimersByName[m]
  BY <1>1, <1>4 DEF TimersInv, TypeOK
<1>9. EveryArmedTimerIsRegistered'
  <2> SUFFICES ASSUME NEW x \in Helper, pc'[x] = "armed"
               PROVE  RepeatTimersByName'[NameOf[HcOf[x]]] = x
    BY DEF EveryArmedTimerIsRegistered
  <2>1. CASE x = c
    BY <2>1, <1>1, <1>4, <1>8
  <2>2. CASE x # c
    <3>1. x \notin over /\ pc[x] = "armed"
      BY <2>2, <1>4
    <3>2. RepeatTimersByName[NameOf[HcOf[x]]] = x
      BY <3>1 DEF TimersInv, EveryArmedTimerIsRegistered
    <3>3. NameOf[HcOf[x]] # n /\ NameOf[HcOf[x]] \in Name
      BY <3>1, <3>2 DEF Running
    <3> QED
      BY <3>2, <3>3, <1>8
  <2> QED
    BY <2>1, <2>2
<1>10. EveryRegisteredTimerIsArmed'
  <2> SUFFICES ASSUME NEW m \in Name, NEW x \in Helper, RepeatTimersByName'[m] = x
               PROVE  pc'[x] = "armed" /\ NameOf[HcOf[x]] = m
    BY DEF EveryRegisteredTimerIsArmed, Running
  <2>1. CASE m = n
    BY <2>1, <1>4, <1>8
  <2>2. CASE m # n
    <3>1. RepeatTimersByName[m] = x
      BY <2>2, <1>8
    <3>2. pc[x] = "armed" /\ NameOf[HcOf[x]] = m
      BY <3>1 DEF TimersInv, EveryRegisteredTimerIsArmed, Running
    <3>3. x \notin Running(n)
      BY <1>1, <2>2, <3>2 DEF TimersInv, EveryRegisteredTimerIsArmed
    <3>4. x # t
      BY <3>2 DEF Arm
    <3>5. pc'[x] = "armed"
      BY <3>2, <3>3, <3>4, <1>4
    <3> QED
      BY <3>2, <3>5
  <2> QED
    BY <2>1, <2>2
<1> QED
  BY <1>6, <1>7, <1>9, <1>10 DEF TimersInv

\* What users do to the objects touches no timer.
LEMMA UserStep ==
  ASSUME TimersInv, NEW h \in HealthCheck, User(h)
  PROVE  TimersInv'
<1>1. /\ UNCHANGED <<RepeatTimersByName, pc, job, since, left>>
      /\ queue' \subseteq HealthCheck
  BY DEF User, Create, Terminate, Delete, Edit, Touch, Notify, local,
         TimersInv, TypeOK
<1>2. /\ obj' \in [HealthCheck -> {"unborn", "live", "terminating", "deleted"}]
      /\ spec' \in [HealthCheck -> Specs]
      /\ age' \in [HealthCheck -> 0..MaxAge]
  BY BoundsAssumption DEF User, Create, Terminate, Delete, Edit, Touch, api,
         TimersInv, TypeOK
<1>3. TypeOK'
  BY <1>1, <1>2 DEF TimersInv, TypeOK
<1> QED
  BY <1>1, <1>3 DEF TimersInv, SnapshotsOK, EveryArmedTimerIsRegistered,
                    EveryRegisteredTimerIsArmed, Running

\* Time only counts ages up and delays down.
LEMMA TickStep ==
  ASSUME TimersInv, Tick
  PROVE  TimersInv'
<1>1. \A a \in 0..MaxAge : Older(a) \in 0..MaxAge
  BY BoundsAssumption DEF Older
<1>2. age' \in [HealthCheck -> 0..MaxAge] /\ since' \in [Thread -> 0..MaxAge]
  BY <1>1 DEF Tick, TimersInv, TypeOK
<1>3. left' \in [Helper -> 0..MaxAge]
  <2>1. \A a \in 0..MaxAge : (IF a > 0 THEN a - 1 ELSE 0) \in 0..MaxAge
    BY BoundsAssumption
  <2> QED
    BY <2>1 DEF Tick, TimersInv, TypeOK
<1>4. TypeOK'
  BY <1>2, <1>3 DEF Tick, TimersInv, TypeOK
<1> QED
  BY <1>4 DEF Tick, TimersInv, SnapshotsOK, EveryArmedTimerIsRegistered,
              EveryRegisteredTimerIsArmed, Running

\* A process starts without timers.
LEMMA TimersInit == Init => TimersInv
<1> SUFFICES ASSUME Init PROVE TimersInv
  OBVIOUS
<1>1. TypeOK
  <2>1. 0 \in 0..MaxAge /\ MaxAge \in 0..MaxAge
    BY BoundsAssumption
  <2> QED
    BY <2>1 DEF Init, TypeOK, PcLabel
<1>2. SnapshotsOK /\ EveryArmedTimerIsRegistered /\ EveryRegisteredTimerIsArmed
  BY ThreadsAreDistinct DEF Init, SnapshotsOK, Working, EveryArmedTimerIsRegistered,
     EveryRegisteredTimerIsArmed, Running
<1> QED
  BY <1>1, <1>2 DEF TimersInv

\* TimersInv is inductive.
LEMMA TimersNext == TimersInv /\ [Next]_vars => TimersInv'
<1> SUFFICES ASSUME TimersInv, [Next]_vars PROVE TimersInv'
  OBVIOUS
<1>1. ASSUME NEW h \in HealthCheck, StartReconcile(h) \/ Worker(h) \/ User(h)
      PROVE  TimersInv'
  BY <1>1, StartReconcileStep, CancelStep, DecideStep, RecordStoppedStep, UserStep
     DEF Worker
<1>2. ASSUME NEW c \in Helper, Fire(c)
      PROVE  TimersInv'
  BY <1>2, FireStep
<1>3. ASSUME NEW t \in Thread, Run(t)
      PROVE  TimersInv'
  BY <1>3, SubmitStep, WatchStep, RunRemedyStep, DeleteRemedyRBACStep,
     PersistStep, ArmStep DEF Run
<1>4. CASE Crash
  BY <1>4, RestartStep DEF Crash
<1>5. CASE Tick
  BY <1>5, TickStep
<1>6. CASE UNCHANGED vars
  BY <1>6 DEF vars, TimersInv, TypeOK, SnapshotsOK, EveryArmedTimerIsRegistered,
              EveryRegisteredTimerIsArmed, Running
<1> QED
  BY <1>1, <1>2, <1>3, <1>4, <1>5, <1>6 DEF Next

\* The inductive invariant of the timers holds of every run.
LEMMA TimersInvariant == Spec => []TimersInv
BY TimersInit, TimersNext, PTL DEF Spec

\* The variables keep their types, whatever fails and whatever users do.
THEOREM TypeCorrectness == Spec => []TypeOK
<1>1. TimersInv => TypeOK
  BY DEF TimersInv
<1> QED
  BY <1>1, TimersInvariant, PTL

\* No timer is ever orphaned: crashes, failing calls, edits, deletions, names
\* used in two namespaces and any number of overlapping runs included, every
\* armed timer is the one the map names, so that it can be stopped.
THEOREM NoOrphanedTimer == Spec => []EveryArmedTimerIsRegistered
<1>1. TimersInv => EveryArmedTimerIsRegistered
  BY DEF TimersInv
<1> QED
  BY <1>1, TimersInvariant, PTL

-----------------------------------------------------------------------------
(* No run is lost.  ReliableInv is a statement about each HealthCheck on its *)
(* own, and a step disturbs only that of one HealthCheck.                    *)

\* What a thread of g may hold.
HoldsCurrent(t, g) ==
  \A s \in Specs :
    /\ pc[t] \in Working \cup {"armed"} => job[t].ns = s.ns
    /\ pc[t] \in Working => job[t].spec.ns = s.ns
    /\ pc[t] \in Working /\ job[t].deleting => ~Live(g)

WorkerCurrent(g) ==
  /\ Live(g) /\ g \notin queue =>
       /\ pc[g] = "decide" => job[g].spec = spec[g]
       /\ pc[g] = "stop" => ~Periodic(spec[g])
  /\ pc[g] # "cancelErr"
  /\ pc[g] = "cancel" => ~Live(g)
  /\ pc[g] = "submit" => job[g].spec.resource

Unknown(g) ==
  obj[g] = "unborn" =>
    /\ g \notin queue /\ pc[g] = "idle" /\ HelpersOf(g) = {}
    /\ RepeatTimersByName[NameOf[g]] = "nil"

OwnTimerLive(g) ==
  Live(g) /\ RepeatTimersByName[NameOf[g]] # "nil" => HelpersOf(g) # {}

OwnNextRun(g) ==
  Live(g) /\ Periodic(spec[g]) =>
    g \in queue \/ pc[g] # "idle" \/ HelpersOf(g) # {}

OwnInv(g) == /\ Unknown(g) /\ WorkerCurrent(g)
             /\ \A t \in Thread : Hc(t) = g => HoldsCurrent(t, g)
             /\ OwnTimerLive(g) /\ OwnNextRun(g)

\* ReliableInv, one HealthCheck at a time.
LEMMA OwnInvs == ReliableInv <=> TimersInv /\ \A g \in HealthCheck : OwnInv(g)
BY ThreadsAreDistinct
   DEF ReliableInv, UnbornIsUnknown, SnapshotsCurrent, RegisteredTimerIsLive,
       NextRunGuaranteed, OwnInv, Unknown, WorkerCurrent, HoldsCurrent,
       OwnTimerLive, OwnNextRun

\* The same in the next state.
LEMMA OwnInvsPrimed ==
  ASSUME TimersInv', \A g \in HealthCheck : OwnInv(g)'
  PROVE  ReliableInv'
BY ThreadsAreDistinct
   DEF ReliableInv, UnbornIsUnknown, SnapshotsCurrent, RegisteredTimerIsLive,
       NextRunGuaranteed, OwnInv, Unknown, WorkerCurrent, HoldsCurrent,
       OwnTimerLive, OwnNextRun

\* A step that changes nothing of h keeps what holds of h.
LEMMA OthersKeep ==
  ASSUME TimersInv, NEW h \in HealthCheck, OwnInv(h),
         obj'[h] = obj[h], spec'[h] = spec[h], h \in queue' <=> h \in queue,
         RepeatTimersByName'[NameOf[h]] = RepeatTimersByName[NameOf[h]],
         \A t \in Thread : Hc(t) = h => pc'[t] = pc[t] /\ job'[t] = job[t]
  PROVE  OwnInv(h)'
<1> USE ThreadsAreDistinct
<1>1. Hc(h) = h /\ pc'[h] = pc[h] /\ job'[h] = job[h]
  BY DEF Hc
<1>2. HelpersOf(h)' = HelpersOf(h)
  BY DEF HelpersOf
<1> QED
  BY <1>1, <1>2 DEF OwnInv, Unknown, WorkerCurrent, HoldsCurrent, OwnTimerLive,
     OwnNextRun, Live

\* A step of one thread of g, or of the user of g.
OnlyConcerns(g) ==
  /\ \A h \in HealthCheck \ {g} :
       /\ obj'[h] = obj[h] /\ spec'[h] = spec[h]
       /\ h \in queue' <=> h \in queue
       /\ RepeatTimersByName'[NameOf[h]] = RepeatTimersByName[NameOf[h]]
  /\ \A t \in Thread : Hc(t) # g => pc'[t] = pc[t] /\ job'[t] = job[t]

\* A step that concerns only g has to be checked only for g.
LEMMA OneCheckStep ==
  ASSUME ReliableInv, TimersInv', NEW g \in HealthCheck, OnlyConcerns(g), OwnInv(g)'
  PROVE  ReliableInv'
<1> SUFFICES ASSUME NEW h \in HealthCheck, h # g PROVE OwnInv(h)'
  BY OwnInvsPrimed
<1> QED
  BY OwnInvs, OthersKeep DEF OnlyConcerns

\* How a thread that leaves the timers alone keeps what holds of its g.
LEMMA LocalKeeps ==
  ASSUME ReliableInv, TimersInv', NEW t \in Thread,
         pc[t] # "idle", pc[t] # "armed", obj' = obj, spec' = spec,
         queue' = queue \/ queue' = queue \cup {Hc(t)},
         RepeatTimersByName' = RepeatTimersByName,
         NEW l \in PcLabel \ {"armed", "cancel", "cancelErr", "decide"},
         pc' = [pc EXCEPT ![t] = l],
         NEW j, job' = [job EXCEPT ![t] = j],
         l \in Working => /\ j.ns = job[t].ns /\ j.spec.ns = job[t].spec.ns
                         /\ j.deleting = job[t].deleting /\ pc[t] \in Working,
         l = "submit" => j.spec.resource,
         l = "stop" => t \in queue' \/ ~Live(t) \/ ~Periodic(spec[t]),
         l = "idle" /\ t \in Helper => ~Live(Hc(t)),
         l = "idle" /\ t \notin Helper =>
           t \in queue' \/ ~Live(t) \/ ~Periodic(spec[t]) \/ HelpersOf(t) # {}
  PROVE  ReliableInv'
<1> USE ThreadsAreDistinct
<1> DEFINE g == Hc(t)
<1>0. g \in HealthCheck /\ g = Hc(t) /\ (t \notin Helper => t = g)
  BY DEF Hc
<1> HIDE DEF g
<1>1. OwnInv(g) /\ HoldsCurrent(t, g)
  BY <1>0, OwnInvs DEF OwnInv
<1>2. pc \in [Thread -> PcLabel] /\ job \in [Thread -> Job \cup {NoJob}]
  BY OwnInvs DEF TimersInv, TypeOK
<1>3. /\ pc'[t] = l /\ job'[t] = j
      /\ \A u \in Thread \ {t} : pc'[u] = pc[u] /\ job'[u] = job[u]
  BY <1>2
<1>4. OnlyConcerns(g)
  BY <1>0, <1>3 DEF OnlyConcerns
<1>5. g \in queue => g \in queue'
  OBVIOUS
<1>6. t = g \/ t \in Helper
  BY <1>0
<1>7. obj[g] # "unborn"
  BY <1>0, <1>1, <1>6 DEF OwnInv, Unknown, HelpersOf
<1>8. WorkerCurrent(g)'
  <2>1. CASE t = g
    BY <2>1, <1>3 DEF WorkerCurrent, Live, Periodic
  <2>2. CASE t # g
    BY <2>2, <1>1, <1>3, <1>5 DEF OwnInv, WorkerCurrent, Live, Periodic
  <2> QED
    BY <2>1, <2>2
<1>9. ASSUME NEW u \in Thread, Hc(u) = g PROVE HoldsCurrent(u, g)'
  <2>1. CASE u = t
    BY <2>1, <1>1, <1>3 DEF HoldsCurrent, Live
  <2>2. CASE u # t
    <3>1. HoldsCurrent(u, g)
      BY <1>1, <1>9 DEF OwnInv
    <3> QED
      BY <2>2, <3>1, <1>3 DEF HoldsCurrent, Live
  <2> QED
    BY <2>1, <2>2
<1>10. Live(g) => HelpersOf(g) = {} \/ HelpersOf(g)' # {}
  <2>1. CASE t \in Helper /\ l # "idle"
    BY <2>1, <1>0, <1>3 DEF HelpersOf
  <2>2. CASE t \in Helper /\ l = "idle"
    BY <2>2, <1>0
  <2>3. CASE t \notin Helper
    BY <2>3, <1>3 DEF HelpersOf
  <2> QED
    BY <2>1, <2>2, <2>3
<1>11. OwnTimerLive(g)'
  BY <1>1, <1>10 DEF OwnInv, OwnTimerLive, Live
<1>12. OwnNextRun(g)'
  <2>1. CASE t = g /\ l # "idle"
    BY <2>1, <1>3 DEF OwnNextRun
  <2>2. CASE t = g /\ l = "idle"
    BY <2>2, <1>0, <1>10 DEF OwnNextRun, Live, Periodic
  <2>3. CASE t # g
    BY <2>3, <1>1, <1>3, <1>5, <1>10 DEF OwnInv, OwnNextRun, Live, Periodic
  <2> QED
    BY <2>1, <2>2, <2>3
<1>13. Unknown(g)'
  BY <1>7 DEF Unknown
<1> QED
  BY <1>0, <1>4, <1>8, <1>9, <1>11, <1>12, <1>13, OneCheckStep DEF OwnInv

\* The types the following lemmas use most.
LEMMA ReliableTypes ==
  ASSUME ReliableInv
  PROVE  /\ TimersInv /\ pc \in [Thread -> PcLabel]
         /\ job \in [Thread -> Job \cup {NoJob}]
BY DEF ReliableInv, TimersInv, TypeOK

\* A thread ends: a closure only when its object is not live, a worker only
\* when the key is queued or there is nothing to be lost.
NothingLost(h) == ~Live(h) \/ ~Periodic(spec[h]) \/ HelpersOf(h) # {}

\* Such an end loses no run.
LEMMA IdleKeeps ==
  ASSUME ReliableInv, TimersInv', NEW t \in Thread, pc[t] # "idle", pc[t] # "armed",
         Idle(t), queue' = queue \/ queue' = queue \cup {Hc(t)},
         UNCHANGED <<obj, spec, RepeatTimersByName>>,
         t \in Helper => ~Live(Hc(t)),
         t \notin Helper => t \in queue' \/ NothingLost(t)
  PROVE  ReliableInv'
<1>1. "idle" \in PcLabel \ {"armed", "cancel", "cancelErr", "decide"} /\ "idle" \notin Working
  BY DEF PcLabel, Working
<1>2. "idle" # "submit" /\ "idle" # "stop" /\ pc' = [pc EXCEPT ![t] = "idle"]
  BY DEF Idle
<1>3. job' = [job EXCEPT ![t] = NoJob]
  BY DEF Idle
<1> QED
  BY <1>1, <1>2, <1>3, LocalKeeps DEF NothingLost

\* An error ends no closure of a live object, and requeues a worker.
LEMMA FailKeeps ==
  ASSUME ReliableInv, TimersInv', NEW t \in Thread, pc[t] # "idle", pc[t] # "armed",
         Fail(t), UNCHANGED <<obj, spec, RepeatTimersByName>>,
         t \in Helper => ~Live(Hc(t))
  PROVE  ReliableInv'
<1>1. queue' = queue \/ queue' = queue \cup {Hc(t)}
  BY DEF Fail, Hc
<1>2. t \notin Helper => t \in queue' \/ NothingLost(t)
  BY DEF Fail, Live, Exists, NothingLost
<1> QED
  BY <1>1, <1>2, IdleKeeps DEF Fail

\* A return without an error loses no run when another is to come.
LEMMA ReturnKeeps ==
  ASSUME ReliableInv, TimersInv', NEW t \in Thread, pc[t] # "idle", pc[t] # "armed",
         Return(t), UNCHANGED <<obj, spec, RepeatTimersByName>>,
         t \in Helper => ~Live(Hc(t)),
         t \notin Helper => t \in queue \/ NothingLost(t)
  PROVE  ReliableInv'
<1>1. queue' = queue \/ queue' = queue \cup {Hc(t)}
  BY DEF Return, Finished, Hc
<1>2. t \notin Helper => t \in queue' \/ NothingLost(t)
  BY <1>1
<1> QED
  BY <1>1, <1>2, IdleKeeps DEF Return

\* Moving on inside watchWorkflowReschedule.
LEMMA MoveKeeps ==
  ASSUME ReliableInv, TimersInv', NEW t \in Thread, pc[t] \in Working,
         NEW l \in Working \ {"decide", "stop", "submit"}, Goto(t, l), job' = job,
         UNCHANGED <<obj, spec, RepeatTimersByName>>,
         queue' = queue \/ queue' = queue \cup {Hc(t)}
  PROVE  ReliableInv'
<1>1. job' = [job EXCEPT ![t] = job[t]]
  BY ReliableTypes
<1>2. /\ l \in PcLabel \ {"armed", "cancel", "cancelErr", "decide"}
      /\ l # "idle" /\ l # "submit" /\ l # "stop"
      /\ pc[t] # "idle" /\ pc[t] # "armed"
  BY DEF PcLabel, Working
<1> QED
  BY <1>1, <1>2, ThreadsAreDistinct, LocalKeeps DEF Goto

\* What the environment assumption leaves of the faults of a closure.
LEMMA TimersDoNotFail ==
  ASSUME Reliable, NEW t \in Thread
  PROVE  /\ t \in Helper =>
              \A p \in {"get", "submit", "poll", "gone", "remedy", "persist"} : ~May(t, p)
         /\ t \notin Helper => \A p \in {"get", "gone", "panic"} : ~May(t, p)
BY DEF Reliable, May, Kind

\* processHealthCheck starts a run, or knows why none is due.
LEMMA DecideKeeps ==
  ASSUME ReliableInv, TimersInv', NEW h \in HealthCheck, Decide(h)
  PROVE  ReliableInv'
<1> USE ThreadsAreDistinct
<1> DEFINE s == job[h].spec
<1>1. /\ pc[h] = "decide" /\ pc[h] \in Working /\ Hc(h) = h
      /\ UNCHANGED <<obj, spec, RepeatTimersByName>> /\ OwnInv(h)
  BY OwnInvs DEF Decide, Working, Hc, api
<1>2. Live(h) /\ h \notin queue => s = spec[h]
  BY <1>1 DEF OwnInv, WorkerCurrent
<1>3. CASE ~s.resource /\ Return(h)
  <2>1. h \in queue \/ NothingLost(h)
    BY <1>2, <1>3 DEF Periodic, NothingLost
  <2> QED
    BY <1>1, <1>3, <2>1, ReturnKeeps
<1>4. CASE AlreadyScheduled(h) /\ Return(h)
  <2>1. NothingLost(h)
    BY <1>1, <1>4 DEF AlreadyScheduled, OwnInv, OwnTimerLive, NothingLost
  <2> QED
    BY <1>1, <1>4, <2>1, ReturnKeeps
<1>5. job' = job => job' = [job EXCEPT ![h] = job[h]]
  BY ReliableTypes
<1>6. CASE s.resource /\ Paused(s) /\ Goto(h, "stop") /\ UNCHANGED <<queue, job>>
  <2>0. s.repeatAfterSec \in Int
    BY <1>1, WorkingHasGoodJob DEF ReliableInv, TimersInv, GoodJob, SpecFields
  <2>1. h \in queue' \/ ~Live(h) \/ ~Periodic(spec[h])
    BY <2>0, <1>2, <1>6 DEF Paused, Periodic
  <2>2. "stop" \in PcLabel \ {"armed", "cancel", "cancelErr", "decide"}
    BY DEF PcLabel
  <2>3. /\ h \in Thread /\ h \notin Helper
        /\ pc[h] \in Working /\ pc[h] # "idle" /\ pc[h] # "armed"
        /\ UNCHANGED <<obj, spec, queue, RepeatTimersByName>>
    BY <1>1, <1>6 DEF Thread
  <2>4. pc' = [pc EXCEPT ![h] = "stop"] /\ job' = [job EXCEPT ![h] = job[h]]
    BY <1>5, <1>6 DEF Goto
  <2> HIDE DEF s
  <2> QED
    BY <2>1, <2>2, <2>3, <2>4, LocalKeeps
<1>7. ASSUME s.resource, Goto(h, "submit"), UNCHANGED queue,
             NEW j, job' = [job EXCEPT ![h] = j], j.ns = job[h].ns,
             j.spec.ns = s.ns, j.deleting = job[h].deleting, j.spec.resource
      PROVE  ReliableInv'
  <2>1. "submit" \in PcLabel \ {"armed", "cancel", "cancelErr", "decide"}
    BY DEF PcLabel
  <2> QED
    BY <1>1, <1>7, <2>1, LocalKeeps DEF Goto
<1>8. CASE s.resource /\ Goto(h, "submit") /\ UNCHANGED <<queue, job>>
  BY <1>5, <1>7, <1>8
<1>9. CASE s.resource /\ Goto(h, "submit") /\ UNCHANGED queue /\ SetCronDelay(h)
  <2>1. PICK d \in CronDelays :
          job' = [job EXCEPT ![h] = [@ EXCEPT !.spec.repeatAfterSec = d]]
    BY <1>9 DEF SetCronDelay
  <2> DEFINE j == [job[h] EXCEPT !.spec = [s EXCEPT !.repeatAfterSec = d]]
  <2>2. GoodJob(job[h])
    BY <1>1, WorkingHasGoodJob DEF ReliableInv, TimersInv
  <2>3. /\ j.ns = job[h].ns /\ j.deleting = job[h].deleting
        /\ j.spec.ns = s.ns /\ j.spec.resource = s.resource
    BY <2>2 DEF GoodJob, Job, SpecFields
  <2>4. job' = [job EXCEPT ![h] = j]
    BY <2>1, ReliableTypes
  <2> QED
    BY <1>7, <1>9, <2>3, <2>4
<1>10. CASE Fail(h)
  BY <1>1, <1>10, FailKeeps
<1> QED
  BY <1>3, <1>4, <1>6, <1>8, <1>9, <1>10 DEF Decide

\* Only a HealthCheck that is paused is left without a next run.
LEMMA RecordStoppedKeeps ==
  ASSUME ReliableInv, TimersInv', NEW h \in HealthCheck, RecordStopped(h)
  PROVE  ReliableInv'
<1> USE ThreadsAreDistinct
<1>1. /\ pc[h] = "stop" /\ Hc(h) = h /\ OwnInv(h)
      /\ UNCHANGED <<obj, spec, RepeatTimersByName>>
  BY OwnInvs DEF RecordStopped, Hc, api
<1>2. CASE Fail(h)
  BY <1>1, <1>2, FailKeeps
<1>3. CASE Idle(h) /\ (queue' = queue \cup {h} \/ queue' = queue)
  <2>1. h \in queue' \/ NothingLost(h)
    BY <1>1, <1>3 DEF OwnInv, WorkerCurrent, NothingLost
  <2>2. queue' = queue \/ queue' = queue \cup {Hc(h)}
    BY <1>1, <1>3
  <2> QED
    BY <1>1, <1>3, <2>1, <2>2, IdleKeeps
<1> QED
  BY <1>2, <1>3 DEF RecordStopped

\* A submission that fails is a worker's, and retried.
LEMMA SubmitKeeps ==
  ASSUME Reliable, ReliableInv, TimersInv', NEW t \in Thread, Submit(t)
  PROVE  ReliableInv' \/ Restart
<1> USE ThreadsAreDistinct
<1>1. pc[t] = "submit" /\ pc[t] \in Working /\ "watch" \in Working
  BY DEF Submit, Working
<1>2. CASE ~job[t].spec.resource /\ Panic(t)
  <2>1. t \in Helper
    BY <1>1, <1>2, OwnInvs DEF OwnInv, WorkerCurrent, Thread
  <2> QED
    BY <2>1, <1>2 DEF Panic
<1>3. CASE Goto(t, "watch") /\ UNCHANGED <<api, queue, RepeatTimersByName, local>>
  BY <1>1, <1>3, MoveKeeps DEF api, local
<1>4. CASE May(t, "submit") /\ Fail(t) /\ UNCHANGED <<api, RepeatTimersByName, left>>
  <2>1. t \notin Helper
    BY <1>4, TimersDoNotFail
  <2> QED
    BY <1>1, <1>4, <2>1, FailKeeps DEF api
<1> QED
  BY <1>2, <1>3, <1>4 DEF Submit

\* Polling gives up only on a HealthCheck that is gone, or is retried.
LEMMA WatchKeeps ==
  ASSUME Reliable, ReliableInv, TimersInv', NEW t \in Thread, Watch(t)
  PROVE  ReliableInv'
<1> USE ThreadsAreDistinct
<1>1. /\ pc[t] \in Working /\ pc[t] # "idle" /\ pc[t] # "armed"
      /\ {"persist", "remedy"} \subseteq Working \ {"decide", "stop", "submit"}
      /\ UNCHANGED <<obj, spec, RepeatTimersByName>>
  BY DEF Watch, Working, api
<1>2. job[t].ns = job[t].spec.ns
  <2>1. spec[Hc(t)] \in Specs
    BY ReliableTypes DEF TimersInv, TypeOK
  <2> QED
    BY <1>1, <2>1, OwnInvs DEF OwnInv, HoldsCurrent
<1>3. CASE (~Exists(Hc(t)) \/ May(t, "gone")) /\ Return(t)
  <2>1. ~Live(Hc(t))
    BY <1>3, TimersDoNotFail DEF Live, Exists
  <2>2. t \notin Helper => NothingLost(t)
    BY <2>1 DEF Hc, NothingLost
  <2> QED
    BY <1>1, <1>3, <2>1, <2>2, ReturnKeeps
<1>4. CASE May(t, "poll") /\ Fail(t)
  <2>1. t \notin Helper
    BY <1>4, TimersDoNotFail
  <2> QED
    BY <1>1, <1>4, <2>1, FailKeeps
<1>5. CASE (Goto(t, "persist") \/ Goto(t, "remedy")) /\ UNCHANGED <<queue, job>>
  BY <1>1, <1>5, MoveKeeps
<1> QED
  BY <1>2, <1>3, <1>4, <1>5 DEF Watch

\* A remedy that fails does not lose the next run of the check.
LEMMA RunRemedyKeeps ==
  ASSUME Reliable, ReliableInv, TimersInv', NEW t \in Thread, RunRemedy(t)
  PROVE  ReliableInv' \/ Restart
<1> USE ThreadsAreDistinct
<1>1. /\ pc[t] \in Working /\ pc[t] # "idle" /\ pc[t] # "armed"
      /\ {"persist", "cleanup"} \subseteq Working \ {"decide", "stop", "submit"}
  BY DEF RunRemedy, Working
<1>2. CASE /\ Goto(t, "persist") \/ Goto(t, "cleanup")
           /\ UNCHANGED <<api, queue, RepeatTimersByName, local>>
  BY <1>1, <1>2, MoveKeeps DEF api, local
<1>3. CASE /\ WriteFinishedAt(t) /\ Goto(t, "cleanup")
           /\ UNCHANGED <<RepeatTimersByName, local>>
  BY <1>1, <1>3, MoveKeeps DEF WriteFinishedAt, local
<1>4. CASE /\ ~Exists(Hc(t)) \/ May(t, "remedy")
           /\ Fail(t) /\ UNCHANGED <<api, RepeatTimersByName, left>>
  <2>1. t \in Helper => ~Live(Hc(t))
    BY <1>4, TimersDoNotFail DEF Live, Exists
  <2> QED
    BY <1>1, <1>4, <2>1, FailKeeps DEF api
<1>5. CASE May(t, "panic") /\ Panic(t)
  <2>1. t \in Helper
    BY <1>5, TimersDoNotFail
  <2> QED
    BY <2>1, <1>5 DEF Panic
<1> QED
  BY <1>2, <1>3, <1>4, <1>5 DEF RunRemedy

\* Nor does a failed cleanup after the remedy.
LEMMA DeleteRemedyRBACKeeps ==
  ASSUME Reliable, ReliableInv, TimersInv', NEW t \in Thread, DeleteRemedyRBAC(t)
  PROVE  ReliableInv'
<1>1. /\ pc[t] \in Working /\ pc[t] # "idle" /\ pc[t] # "armed"
      /\ "persist" \in Working \ {"decide", "stop", "submit"}
      /\ UNCHANGED <<obj, spec, RepeatTimersByName>>
  BY DEF DeleteRemedyRBAC, Working, api
<1>2. CASE Goto(t, "persist") /\ UNCHANGED <<queue, job, since>>
  BY <1>1, <1>2, MoveKeeps
<1>3. CASE May(t, "remedy") /\ Fail(t)
  BY <1>1, <1>3, TimersDoNotFail, FailKeeps
<1> QED
  BY <1>2, <1>3 DEF DeleteRemedyRBAC

\* A status that cannot be written is a worker's, or of a deleted object.
LEMMA PersistKeeps ==
  ASSUME Reliable, ReliableInv, TimersInv', NEW t \in Thread, Persist(t)
  PROVE  ReliableInv'
<1> USE ThreadsAreDistinct
<1>1. /\ pc[t] \in Working /\ pc[t] # "idle" /\ pc[t] # "armed"
      /\ "arm" \in Working \ {"decide", "stop", "submit"}
      /\ UNCHANGED RepeatTimersByName
  BY DEF Persist, Working
<1>2. CASE job[t].deleting /\ Return(t) /\ UNCHANGED api
  <2>1. spec[Hc(t)] \in Specs
    BY ReliableTypes DEF TimersInv, TypeOK
  <2>2. ~Live(Hc(t))
    BY <1>1, <1>2, <2>1, OwnInvs DEF OwnInv, HoldsCurrent
  <2>3. t \notin Helper => NothingLost(t)
    BY <2>2 DEF Hc, NothingLost
  <2> QED
    BY <1>1, <1>2, <2>2, <2>3, ReturnKeeps DEF api
<1>3. CASE WriteFinishedAt(t) /\ Goto(t, "arm") /\ UNCHANGED job
  BY <1>1, <1>3, MoveKeeps DEF WriteFinishedAt
<1>4. CASE (~Exists(Hc(t)) \/ May(t, "persist")) /\ Fail(t) /\ UNCHANGED api
  <2>1. t \in Helper => ~Live(Hc(t))
    BY <1>4, TimersDoNotFail DEF Live, Exists
  <2> QED
    BY <1>1, <1>4, <2>1, FailKeeps DEF api
<1> QED
  BY <1>2, <1>3, <1>4 DEF Persist

\* The key leaves the queue, and the worker holds what it read.
LEMMA StartReconcileKeeps ==
  ASSUME Reliable, ReliableInv, TimersInv', NEW h \in HealthCheck, StartReconcile(h)
  PROVE  ReliableInv'
<1> USE ThreadsAreDistinct
<1>1. /\ OwnInv(h) /\ Hc(h) = h /\ h \in queue /\ obj[h] # "unborn"
      /\ queue' = queue \ {h} /\ UNCHANGED <<obj, spec, RepeatTimersByName>>
  BY OwnInvs DEF StartReconcile, Hc, api, OwnInv, Unknown
<1>2. PICK l \in {"decide", "cancel"}, j \in Job \cup {NoJob} :
        /\ pc' = [pc EXCEPT ![h] = l] /\ job' = [job EXCEPT ![h] = j]
        /\ l = "decide" => j = Snapshot(h)
        /\ l = "cancel" => ~Exists(h)
  <2>1. Snapshot(h) \in Job \cup {NoJob} /\ job[h] \in Job \cup {NoJob}
    BY SnapshotIsGood, ReliableTypes DEF GoodJob, TimersInv
  <2>2. ~May(h, "get") /\ job = [job EXCEPT ![h] = job[h]]
    BY TimersDoNotFail, ReliableTypes
  <2> QED
    BY <2>1, <2>2 DEF StartReconcile, Goto
<1>3. /\ pc'[h] = l /\ job'[h] = j
      /\ \A u \in Thread \ {h} : pc'[u] = pc[u] /\ job'[u] = job[u]
  BY <1>2, ReliableTypes
<1>4. OnlyConcerns(h)
  BY <1>1, <1>3 DEF OnlyConcerns
<1>5. Unknown(h)' /\ WorkerCurrent(h)'
  BY <1>1, <1>2, <1>3 DEF Unknown, WorkerCurrent, Live, Exists, Snapshot
<1>6. HelpersOf(h)' = HelpersOf(h)
  BY <1>3 DEF HelpersOf
<1>7. OwnTimerLive(h)' /\ OwnNextRun(h)'
  BY <1>1, <1>3, <1>6 DEF OwnInv, OwnTimerLive, OwnNextRun, Live
<1>8. ASSUME NEW u \in Thread, Hc(u) = h PROVE HoldsCurrent(u, h)'
  <2>1. CASE u = h /\ l = "decide"
    <3>1. \A s \in Specs : spec[h].ns = s.ns
      BY ReliableTypes DEF Reliable, TimersInv, TypeOK
    <3>2. j.ns = spec[h].ns /\ j.spec = spec[h]
      BY <1>2, <2>1 DEF Snapshot
    <3>3. j.deleting = (obj[h] = "terminating")
      BY <1>2, <2>1 DEF Snapshot
    <3>4. j.deleting => ~Live(h)
      BY <3>3 DEF Live
    <3> QED
      BY <1>1, <1>3, <2>1, <3>1, <3>2, <3>4 DEF HoldsCurrent, Live
  <2>2. CASE u = h /\ l = "cancel"
    BY <1>3, <2>2 DEF HoldsCurrent, Working
  <2>3. CASE u # h
    BY <1>1, <1>3, <1>8, <2>3 DEF OwnInv, HoldsCurrent, Live
  <2> QED
    BY <2>1, <2>2, <2>3
<1> QED
  BY <1>4, <1>5, <1>7, <1>8, OneCheckStep DEF OwnInv

\* With one HealthCheck per name, its map entry is its own.
LEMMA EntriesAreOwn ==
  ASSUME Reliable, TimersInv, NEW g \in HealthCheck
  PROVE  /\ Running(NameOf[g]) \subseteq {c \in Helper : HcOf[c] = g /\ pc[c] = "armed"}
         /\ \A h \in HealthCheck \ {g} : NameOf[h] # NameOf[g]
BY ThreadsAreDistinct, NamesAssumption, ThreadsAssumption
   DEF Reliable, TimersInv, EveryRegisteredTimerIsArmed, Running

\* Only the timer of a HealthCheck that is not live is stopped.
LEMMA CancelKeeps ==
  ASSUME Reliable, ReliableInv, TimersInv', NEW h \in HealthCheck, Cancel(h)
  PROVE  ReliableInv'
<1> USE ThreadsAreDistinct
<1> DEFINE over == {h} \cup Running(NameOf[h])
<1>1. OwnInv(h) /\ Hc(h) = h /\ TimersInv
  BY OwnInvs DEF Hc
<1>2. pc[h] = "cancel" /\ ~Live(h) /\ obj[h] # "unborn"
  BY <1>1 DEF Cancel, IgnoreNotFound, OwnInv, WorkerCurrent, Unknown
<1>3. \A u \in over : Hc(u) = h
  BY <1>1, EntriesAreOwn
<1>4. /\ UNCHANGED <<obj, spec, queue>>
      /\ \A u \in Thread : u \in over => pc'[u] = "idle"
      /\ \A u \in Thread \ over : pc'[u] = pc[u] /\ job'[u] = job[u]
      /\ \A m \in Name \ {NameOf[h]} : RepeatTimersByName'[m] = RepeatTimersByName[m]
  BY <1>2 DEF Cancel, IgnoreNotFound, api, TimersInv, TypeOK
<1>5. OnlyConcerns(h)
  <2>1. \A g \in HealthCheck \ {h} : NameOf[g] \in Name \ {NameOf[h]}
    BY <1>1, EntriesAreOwn, NamesAssumption
  <2> QED
    BY <1>3, <1>4, <2>1 DEF OnlyConcerns
<1>6. pc'[h] = "idle" /\ ~Live(h)'
  BY <1>2, <1>4 DEF Live
<1>7. ASSUME NEW u \in Thread, Hc(u) = h PROVE HoldsCurrent(u, h)'
  <2>1. CASE u \in over
    BY <1>4, <2>1 DEF HoldsCurrent, Working
  <2>2. CASE u \notin over
    BY <1>1, <1>2, <1>4, <1>7, <2>2 DEF OwnInv, HoldsCurrent, Live
  <2> QED
    BY <2>1, <2>2
<1>8. obj'[h] # "unborn"
  BY <1>2, <1>4
<1> QED
  BY <1>5, <1>6, <1>7, <1>8, OneCheckStep
     DEF OwnInv, Unknown, WorkerCurrent, OwnTimerLive, OwnNextRun

\* The closure goes on with the run its timer stood for.
LEMMA FireKeeps ==
  ASSUME Reliable, ReliableInv, TimersInv', NEW c \in Helper, Fire(c)
  PROVE  ReliableInv'
<1> USE ThreadsAreDistinct
<1> DEFINE g == HcOf[c]
           j == [Snapshot(g) EXCEPT !.ns = job[c].ns]
<1>1. /\ g \in HealthCheck /\ Hc(c) = g /\ OwnInv(g) /\ HoldsCurrent(c, g)
      /\ TimersInv /\ pc[c] = "armed" /\ UNCHANGED <<obj, spec, queue>>
  BY OwnInvs DEF OwnInv, Fire, api
<1>2. obj[g] # "unborn"
  BY <1>1 DEF OwnInv, Unknown, HelpersOf
<1>3. \A u \in Thread \ {c} : pc'[u] = pc[u] /\ job'[u] = job[u]
  BY <1>1, ReliableTypes DEF Fire, Goto, Idle
<1>4. /\ pc'[c] \in {"submit", "idle"}
      /\ pc'[c] = "submit" => job'[c] = j
      /\ pc'[c] = "idle" => ~Live(g)
  BY <1>1, ReliableTypes, TimersDoNotFail DEF Fire, Goto, Idle, Live, Exists
<1>5. \A h \in HealthCheck \ {g} :
        RepeatTimersByName'[NameOf[h]] = RepeatTimersByName[NameOf[h]]
  BY <1>1, EntriesAreOwn, NamesAssumption
     DEF Fire, TimersInv, EveryRegisteredTimerIsArmed, Running
<1>6. RepeatTimersByName[NameOf[g]] # "nil"
  BY <1>1 DEF TimersInv, EveryArmedTimerIsRegistered
<1>7. OnlyConcerns(g)
  BY <1>1, <1>3, <1>5 DEF OnlyConcerns
<1>8. WorkerCurrent(g)' /\ Unknown(g)'
  <2>1. c # g /\ pc'[g] = pc[g] /\ job'[g] = job[g]
    BY <1>1, <1>3
  <2> QED
    BY <2>1, <1>1, <1>2 DEF OwnInv, WorkerCurrent, Unknown, Live
<1>9. Live(g) => HelpersOf(g)' # {}
  BY <1>1, <1>4 DEF HelpersOf
<1>10. OwnTimerLive(g)' /\ OwnNextRun(g)'
  BY <1>1, <1>9 DEF OwnTimerLive, OwnNextRun, Live
<1>11. ASSUME NEW u \in Thread, Hc(u) = g PROVE HoldsCurrent(u, g)'
  <2>1. CASE u # c
    BY <1>1, <1>3, <1>11, <2>1 DEF OwnInv, HoldsCurrent, Live
  <2>2. CASE u = c /\ pc'[c] = "idle"
    BY <2>2 DEF HoldsCurrent, Working
  <2>3. CASE u = c /\ pc'[c] = "submit"
    <3>1. \A s \in Specs : job[c].ns = s.ns /\ spec[g].ns = s.ns
      BY <1>1 DEF HoldsCurrent, Reliable, TimersInv, TypeOK
    <3>2. j.ns = job[c].ns /\ j.spec = spec[g]
      BY DEF Snapshot
    <3>3. j.deleting = (obj[g] = "terminating")
      BY DEF Snapshot
    <3>4. j.deleting => ~Live(g)
      BY <3>3 DEF Live
    <3> QED
      BY <1>1, <1>4, <2>3, <3>1, <3>2, <3>4 DEF HoldsCurrent, Live
  <2> QED
    BY <1>4, <2>1, <2>2, <2>3
<1> QED
  BY <1>1, <1>7, <1>8, <1>10, <1>11, OneCheckStep DEF OwnInv

\* A thread that ends leaves its successor armed.
LEMMA ArmKeeps ==
  ASSUME Reliable, ReliableInv, TimersInv', NEW t \in Thread, Arm(t)
  PROVE  ReliableInv'
<1> USE ThreadsAreDistinct
<1> DEFINE g == Hc(t)
           over == {t} \cup Running(NameOf[g])
<1>1. /\ g \in HealthCheck /\ OwnInv(g) /\ HoldsCurrent(t, g) /\ TimersInv
      /\ pc[t] = "arm" /\ UNCHANGED <<obj, spec>>
  BY OwnInvs DEF OwnInv, Arm, api
<1>2. obj[g] # "unborn"
  BY <1>1 DEF OwnInv, Unknown, HelpersOf, Hc
<1>3. \A u \in over : Hc(u) = g
  BY <1>1, EntriesAreOwn
<1>4. PICK c \in Helper :
        /\ HcOf[c] = g
        /\ RepeatTimersByName' = [RepeatTimersByName EXCEPT ![NameOf[g]] = c]
        /\ pc' = [x \in Thread |-> IF x = c THEN "armed"
                                   ELSE IF x \in over THEN "idle" ELSE pc[x]]
        /\ job' = [x \in Thread |-> IF x = c THEN [job[t] EXCEPT !.spec = NoSpec]
                                    ELSE IF x \in over THEN NoJob ELSE job[x]]
  BY DEF Arm
<1>5. queue' = queue \/ queue' = queue \cup {g}
  BY DEF Arm, Finished, Hc
<1>6. OnlyConcerns(g)
  <2>1. \A h \in HealthCheck \ {g} :
          RepeatTimersByName'[NameOf[h]] = RepeatTimersByName[NameOf[h]]
    BY <1>1, <1>4, EntriesAreOwn DEF TimersInv, TypeOK
  <2>2. \A u \in Thread : Hc(u) # g => pc'[u] = pc[u] /\ job'[u] = job[u]
    BY <1>3, <1>4
  <2> QED
    BY <1>1, <1>5, <2>1, <2>2 DEF OnlyConcerns
<1>7. c \in HelpersOf(g)'
  BY <1>4 DEF HelpersOf
<1>8. OwnTimerLive(g)' /\ OwnNextRun(g)' /\ Unknown(g)'
  BY <1>1, <1>2, <1>7 DEF OwnTimerLive, OwnNextRun, Unknown
<1>9. WorkerCurrent(g)'
  <2>1. g \notin Helper /\ g # c
    BY <1>1
  <2>2. CASE g = t
    BY <1>4, <2>1, <2>2 DEF WorkerCurrent
  <2>3. CASE g # t
    <3>1. g \notin over
      BY <2>1, <2>3 DEF Running
    <3>2. pc'[g] = pc[g] /\ job'[g] = job[g]
      BY <1>1, <1>4, <2>1, <3>1
    <3> QED
      BY <1>1, <1>5, <3>2 DEF OwnInv, WorkerCurrent, Live
  <2> QED
    BY <2>2, <2>3
<1>10. ASSUME NEW u \in Thread, Hc(u) = g PROVE HoldsCurrent(u, g)'
  <2>1. CASE u = c
    <3>1. pc'[u] = "armed" /\ job'[u].ns = job[t].ns
      <4>1. job[t] \in Job
        BY <1>1, WorkingHasGoodJob DEF TimersInv, GoodJob, Working
      <4> QED
        BY <1>4, <2>1, <4>1 DEF Job
    <3> QED
      BY <1>1, <3>1 DEF HoldsCurrent, Working
  <2>2. CASE u # c /\ u \in over
    BY <1>4, <2>2 DEF HoldsCurrent, Working
  <2>3. CASE u # c /\ u \notin over
    BY <1>1, <1>4, <1>10, <2>3 DEF OwnInv, HoldsCurrent, Live
  <2> QED
    BY <2>1, <2>2, <2>3
<1> QED
  BY <1>1, <1>6, <1>8, <1>9, <1>10, OneCheckStep DEF OwnInv

\* The first list after a restart queues what was armed.
LEMMA RestartKeeps ==
  ASSUME TimersInv, TimersInv', Restart
  PROVE  ReliableInv'
<1> USE ThreadsAreDistinct
<1> SUFFICES ASSUME NEW g \in HealthCheck PROVE OwnInv(g)'
  BY OwnInvsPrimed
<1>1. /\ UNCHANGED <<obj, spec>>
      /\ \A t \in Thread : pc'[t] = "idle"
      /\ RepeatTimersByName'[NameOf[g]] = "nil"
      /\ g \in queue' <=> Exists(g)
  BY NamesAssumption DEF Restart, api
<1>2. HelpersOf(g)' = {}
  BY <1>1 DEF HelpersOf
<1> QED
  BY <1>1, <1>2 DEF OwnInv, Unknown, WorkerCurrent, HoldsCurrent, OwnTimerLive,
     OwnNextRun, Live, Exists, Working

\* An event queues the key of what it changes.
LEMMA UserKeeps ==
  ASSUME Reliable, ReliableInv, TimersInv', NEW h \in HealthCheck, User(h)
  PROVE  ReliableInv'
<1> USE ThreadsAreDistinct
<1>1. OwnInv(h) /\ TimersInv
  BY OwnInvs
<1>2. /\ UNCHANGED <<RepeatTimersByName, pc, job>> /\ queue' = queue \cup {h}
      /\ \A g \in HealthCheck \ {h} : obj'[g] = obj[g] /\ spec'[g] = spec[g]
  BY <1>1 DEF User, Create, Terminate, Delete, Edit, Touch, Notify, api, local,
     TimersInv, TypeOK
<1>3. obj'[h] # "unborn" /\ (obj'[h] = "live" => obj[h] \in {"live", "unborn"})
  BY <1>1 DEF User, Create, Terminate, Delete, Edit, Touch, api, Exists, Live,
     Reliable, TimersInv, TypeOK
<1>4. OnlyConcerns(h)
  BY <1>2 DEF OnlyConcerns
<1>5. HelpersOf(h)' = HelpersOf(h)
  BY <1>2 DEF HelpersOf
<1>6. CASE obj[h] = "unborn"
  <2>1. /\ pc[h] = "idle" /\ RepeatTimersByName[NameOf[h]] = "nil"
        /\ \A u \in Thread : Hc(u) = h => pc[u] = "idle"
    BY <1>1, <1>6 DEF OwnInv, Unknown, HelpersOf, Hc
  <2> QED
    BY <1>2, <1>3, <1>4, <2>1, OneCheckStep
       DEF OwnInv, Unknown, WorkerCurrent, HoldsCurrent, OwnTimerLive, OwnNextRun,
           Working
<1>7. CASE obj[h] # "unborn"
  <2>1. Live(h)' => Live(h)
    BY <1>3, <1>7 DEF Live
  <2>2. \A u \in Thread : Hc(u) = h => HoldsCurrent(u, h)'
    BY <1>1, <1>2, <2>1 DEF OwnInv, HoldsCurrent
  <2> QED
    BY <1>1, <1>2, <1>3, <1>4, <1>5, <2>1, <2>2, OneCheckStep
       DEF OwnInv, Unknown, WorkerCurrent, OwnTimerLive, OwnNextRun
<1> QED
  BY <1>6, <1>7

\* Steps that change none of the variables ReliableInv speaks of.
LEMMA QuietKeeps ==
  ASSUME ReliableInv, TimersInv',
         UNCHANGED <<obj, spec, queue, RepeatTimersByName, pc, job>>
  PROVE  ReliableInv'
<1> SUFFICES ASSUME NEW h \in HealthCheck PROVE OwnInv(h)'
  BY OwnInvsPrimed
<1> QED
  BY OwnInvs, OthersKeep

\* Objects that exist at the start are queued.
LEMMA ReliableInit == Init => ReliableInv
<1> SUFFICES ASSUME Init, NEW g \in HealthCheck PROVE OwnInv(g)
  BY OwnInvs, TimersInit
<1>1. /\ \A t \in Thread : pc[t] = "idle"
      /\ RepeatTimersByName[NameOf[g]] = "nil" /\ (g \in queue <=> Exists(g))
  BY NamesAssumption DEF Init
<1>2. HelpersOf(g) = {}
  BY <1>1, ThreadsAreDistinct DEF HelpersOf
<1> QED
  BY <1>1, <1>2, ThreadsAreDistinct
     DEF OwnInv, Unknown, WorkerCurrent, HoldsCurrent, OwnTimerLive, OwnNextRun,
         Live, Exists, Working

\* ReliableInv is inductive in a reliable environment.
LEMMA ReliableNext ==
  ASSUME Reliable, ReliableInv, [Next]_vars
  PROVE  ReliableInv'
<1>1. TimersInv /\ TimersInv'
  BY TimersNext DEF ReliableInv
<1>2. ASSUME NEW h \in HealthCheck, StartReconcile(h) \/ Worker(h) \/ User(h)
      PROVE  ReliableInv'
  BY <1>1, <1>2, StartReconcileKeeps, CancelKeeps, DecideKeeps, RecordStoppedKeeps,
     UserKeeps DEF Worker
<1>3. ASSUME NEW c \in Helper, Fire(c)
      PROVE  ReliableInv'
  BY <1>1, <1>3, FireKeeps
<1>4. CASE Restart
  BY <1>1, <1>4, RestartKeeps
<1>5. ASSUME NEW t \in Thread, Run(t)
      PROVE  ReliableInv'
  BY <1>1, <1>4, <1>5, SubmitKeeps, WatchKeeps, RunRemedyKeeps,
     DeleteRemedyRBACKeeps, PersistKeeps, ArmKeeps DEF Run
<1>6. CASE Crash
  BY <1>4, <1>6 DEF Crash
<1>7. CASE Tick
  BY <1>1, <1>7, QuietKeeps DEF Tick
<1>8. CASE UNCHANGED vars
  BY <1>1, <1>8, QuietKeeps DEF vars
<1> QED
  BY <1>2, <1>3, <1>5, <1>6, <1>7, <1>8 DEF Next

\* In a reliable environment what the code trusts always holds: snapshots of
\* deciding workers are current or the key is queued again, entries of the map
\* have a living closure, and nothing is known of an object before it exists.
THEOREM ReliableInvariant ==
  ASSUME Reliable
  PROVE  Spec => []ReliableInv
<1>1. ReliableInv /\ [Next]_vars => ReliableInv'
  BY ReliableNext
<1> QED
  BY <1>1, ReliableInit, PTL DEF Spec

\* In a reliable environment (one HealthCheck per name, workflows in one
\* namespace, no failing call in a closure, names not used again) the next run
\* of a live periodic HealthCheck is never lost: not by crashes, edits, failing
\* calls of workers, a full worker pool, or runs that overlap.
THEOREM NoRunIsLost ==
  ASSUME Reliable
  PROVE  Spec => []NextRunGuaranteed
<1>1. ReliableInv => NextRunGuaranteed
  BY DEF ReliableInv
<1> QED
  BY <1>1, ReliableInvariant, PTL

\* Under the same assumptions an entry of RepeatTimersByName can be trusted the
\* way processHealthCheck trusts it: some closure is armed or running.
THEOREM EntriesCanBeTrusted ==
  ASSUME Reliable
  PROVE  Spec => []RegisteredTimerIsLive
<1>1. ReliableInv => RegisteredTimerIsLive
  BY DEF ReliableInv
<1> QED
  BY <1>1, ReliableInvariant, PTL

=============================================================================
