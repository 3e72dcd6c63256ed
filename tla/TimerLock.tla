----------------------------- MODULE TimerLock -----------------------------
(***************************************************************************)
(* What the threads of HealthCheckReconciler share in memory: the map      *)
(* RepeatTimersByName and the map workflowLabels, both under the RWMutex   *)
(* TimerLock (internal/controllers/healthcheck_controller.go).             *)
(*                                                                         *)
(* A critical section is two steps, Begin... (the lock is taken) and End...*)
(* (the map is used, the lock given back), so that other threads can be    *)
(* seen to run inside it.  None of the sections unlocks in a defer: a panic*)
(* inside one, recovered in the worker, leaves the lock taken.             *)
(*                                                                         *)
(* The runs, their timing and their failures are those of                  *)
(* HealthCheckScheduler, here without clocks: a delay may take any time.   *)
(***************************************************************************)
EXTENDS Integers

CONSTANTS
  HealthCheck,  \* the HealthChecks, each with a name of its own
  Dispensable,  \* those a user may delete or pause
  Remedied,     \* those with a remedy workflow
  Contents,     \* [HealthCheck -> what its workflow sources may contain]
  Label, Value, \* labels of a workflow
  InstanceId,   \* the label workflows.argoproj.io/controller-instanceid
  WfInstanceId, \* its value "activemonitor-workflows"
  MapMade,      \* whether RepeatTimersByName was made: not by cmd/main.go
  Faulty,       \* whether calls of the API server may fail
  Nobody        \* no thread

Thread == HealthCheck \X {"worker", "timer"}
HcOf(t) == t[1]
IsTimer(t) == t[2] = "timer"

Labelling == UNION {[D -> Value] : D \in SUBSET Label}

\* What a source decodes to: nothing usable ("bad"), an empty document, a nil
\* map in Go ("empty"), or a workflow ("map"); and the labels it asks for, the
\* default instance id when it has none.
Content == [doc : {"bad", "empty", "map"}, labels : Labelling]
DefaultLabels == [l \in {InstanceId} |-> WfInstanceId]

ASSUME ThreadAssumption == Nobody \notin Thread
ASSUME LabelAssumption == InstanceId \in Label /\ WfInstanceId \in Value
ASSUME ContentAssumption ==
  /\ Contents \in [HealthCheck -> SUBSET Content]
  /\ \A h \in HealthCheck : \A c \in Contents[h] :
       c.doc = "empty" => c.labels = DefaultLabels
ASSUME FlagsAssumption ==
  /\ Dispensable \subseteq HealthCheck /\ Remedied \subseteq HealthCheck
  /\ MapMade \in BOOLEAN /\ Faulty \in BOOLEAN

VARIABLES
  writer,              \* who has, or is about to have, the write lock
  readers,             \* who holds it for reading
  workflowLabels,      \* the labels of the workflows created next; none when nil
  RepeatTimersByName,  \* the HealthChecks whose name has an entry
  armed,               \* the HealthChecks with a timer that will fire
  queue,               \* keys of the work queue
  pc,                  \* pc[t]: where a thread is
  phase,               \* phase[t]: what it is there for
  content              \* content[t]: the source it parsed last

lockVars == <<writer, readers>>
timers   == <<RepeatTimersByName, armed>>
vars == <<lockVars, workflowLabels, timers, queue, pc, phase, content>>

NoContent == [doc |-> "bad", labels |-> DefaultLabels]

-----------------------------------------------------------------------------
(* TimerLock *)

\* Mutants: a reader takes no lock; a read lock is not given back.
RNothing(t) == UNCHANGED lockVars
RForget(t) == UNCHANGED lockVars

CanRead == writer = Nobody
RLock(t) ==
  CanRead /\ readers' = readers \cup {t} /\ UNCHANGED writer
RUnlock(t) == readers' = readers \ {t} /\ UNCHANGED writer
\* Lock() first keeps other writers and new readers out, then waits until the
\* readers have left.
Announce(t) == writer = Nobody /\ writer' = t /\ UNCHANGED readers
Drained == readers = {} /\ UNCHANGED lockVars
Unlock == writer' = Nobody /\ UNCHANGED readers

Goto(t, label, p) ==
  /\ pc' = [pc EXCEPT ![t] = label]
  /\ phase' = [phase EXCEPT ![t] = p]
Stop(t) == Goto(t, "idle", "none")

\* TimerLock.Lock(), before the labels are merged or the timer is armed.
BeginLock(t) ==
  /\ \/ pc[t] = "label" /\ Announce(t) /\ Goto(t, "labelWait", phase[t])
     \/ pc[t] = "labelWait" /\ Drained /\ Goto(t, "labelling", phase[t])
     \/ pc[t] = "arm" /\ Announce(t) /\ Goto(t, "armWait", phase[t])
     \/ pc[t] = "armWait" /\ Drained /\ Goto(t, "arming", phase[t])
  /\ UNCHANGED <<workflowLabels, timers, queue, content>>

\* The labels of a created workflow are of no more use.
Forget(t) == content' = [content EXCEPT ![t] = NoContent]

\* The process ends and starts again with nothing in memory.
Restart ==
  /\ writer' = Nobody /\ readers' = {}
  /\ workflowLabels' = [l \in {} |-> WfInstanceId]
  /\ RepeatTimersByName' = {} /\ armed' = {}
  /\ queue' = HealthCheck
  /\ pc' = [t \in Thread |-> "idle"]
  /\ phase' = [t \in Thread |-> "none"]
  /\ content' = [t \in Thread |-> NoContent]

-----------------------------------------------------------------------------
(* Threads start. *)

\* Reconcile: a HealthCheck that finished less than repeatAfterSec ago looks for
\* its timer, another one is run; when the object is gone, or cannot be read, the
\* timer is looked for to be stopped; one that is paused only gets a status,
\* whose event may come back, and its timer is left alone.
Start(h) ==
  LET t == <<h, "worker">> IN
  /\ h \in queue /\ pc[t] = "idle"
  /\ \/ Goto(t, "lookup", "decide") /\ queue' = queue \ {h}
     \/ Goto(t, "parse", "workflow") /\ queue' = queue \ {h}
     \/ /\ Faulty \/ h \in Dispensable
        /\ Goto(t, "lookup", "cancel") /\ queue' = queue \ {h}
     \/ /\ h \in Dispensable
        /\ queue' \in {queue, queue \ {h}} /\ UNCHANGED <<pc, phase>>
  /\ UNCHANGED <<lockVars, workflowLabels, timers, content>>

\* The timer fires: its closure reads the HealthCheck and starts a run.
\* (The closures of one HealthCheck run one at a time here.)
Fire(h) ==
  LET t == <<h, "timer">> IN
  /\ h \in armed /\ pc[t] = "idle"
  /\ armed' = armed \ {h}
  /\ \/ Goto(t, "parse", "workflow")
     \/ (Faulty \/ h \in Dispensable) /\ UNCHANGED <<pc, phase>>
  /\ UNCHANGED <<lockVars, workflowLabels, RepeatTimersByName, queue, content>>

-----------------------------------------------------------------------------
(* GetTimerByName *)

BeginLookup(t) ==
  /\ pc[t] = "lookup"
  /\ RLock(t) /\ Goto(t, "looking", phase[t])
  /\ UNCHANGED <<workflowLabels, timers, queue, content>>

\* Mutant of Found: the timer of another HealthCheck will do.
FoundAny(h) == RepeatTimersByName # {}

Found(h) == h \in RepeatTimersByName

\* In a decision a timer means "already executed".  Reconcile of a deleted
\* HealthCheck asks twice: is there a timer, then stop it.  After a failed
\* status update the code asks for the timer of the empty name.
EndLookup(t) ==
  LET h == HcOf(t) IN
  /\ pc[t] = "looking"
  /\ RUnlock(t)
  /\ \/ phase[t] = "decide" /\ Found(h) /\ Stop(t) /\ UNCHANGED armed
     \/ /\ phase[t] = "decide" /\ ~Found(h)
        /\ Goto(t, "parse", "workflow") /\ UNCHANGED armed
     \/ phase[t] = "cancel" /\ ~Found(h) /\ Stop(t) /\ UNCHANGED armed
     \/ phase[t] = "cancel" /\ Found(h) /\ Goto(t, "lookup", "stop") /\ UNCHANGED armed
     \/ phase[t] = "stop" /\ Stop(t) /\ armed' = armed \ {h}
     \/ phase[t] = "error" /\ Stop(t) /\ UNCHANGED armed
  /\ UNCHANGED <<workflowLabels, RepeatTimersByName, queue, content>>

-----------------------------------------------------------------------------
(* parseWorkflowFromHealthcheck, parseRemedyWorkflowFromHealthcheck *)

\* The source is read and decoded; the caller ignores an error.
Parse(t) ==
  /\ pc[t] = "parse"
  /\ \E c \in Contents[HcOf(t)] :
       /\ content' = [content EXCEPT ![t] = c]
       /\ Goto(t, IF c.doc = "bad" THEN "create" ELSE "label", phase[t])
  /\ UNCHANGED <<lockVars, workflowLabels, timers, queue>>

\* Mutants of Merge: the map is made anew; a value is stored unprinted.
MergeIntoNew(f, g) == g
MergeUnprinted(f, g) == [l \in DOMAIN f \cup DOMAIN g |->
                           IF l \in DOMAIN g THEN <<g[l]>> ELSE f[l]]

\* workflowLabels[k] = v for every label of g
Merge(f, g) ==
  [l \in DOMAIN f \cup DOMAIN g |-> IF l \in DOMAIN g THEN g[l] ELSE f[l]]

\* With no metadata the code assigns data["metadata"], which panics when the
\* document was empty: recovered in a worker, the end of the process otherwise.
EndLabels(t) ==
  LET c == content[t] IN
  /\ pc[t] = "labelling"
  /\ \/ /\ c.doc = "map"
        /\ workflowLabels' = Merge(workflowLabels, c.labels)
        /\ Unlock /\ Goto(t, "create", phase[t])
        /\ UNCHANGED <<timers, queue, content>>
     \/ /\ c.doc = "empty" /\ ~IsTimer(t)
        /\ workflowLabels' = Merge(workflowLabels, c.labels)
        /\ Stop(t) /\ Forget(t) /\ UNCHANGED <<lockVars, timers, queue>>
     \/ c.doc = "empty" /\ IsTimer(t) /\ Restart

-----------------------------------------------------------------------------
(* createSubmitWorkflow, createSubmitRemedyWorkflow *)

BeginCopy(t) ==
  /\ pc[t] = "create"
  /\ RLock(t) /\ Goto(t, "copying", phase[t])
  /\ UNCHANGED <<workflowLabels, timers, queue, content>>

\* SetLabels copies workflowLabels; Create may fail, which ends the run.
EndCopy(t) ==
  /\ pc[t] = "copying"
  /\ RUnlock(t)
  /\ \/ Goto(t, "watch", phase[t])
     \/ Faulty /\ Stop(t)
  /\ Forget(t)
  /\ UNCHANGED <<workflowLabels, timers, queue>>

-----------------------------------------------------------------------------
(* watchWorkflowReschedule, watchRemedyWorkflow *)

\* A verdict, outside the lock: a failed workflow may have a remedy, which is a
\* second workflow; then the status is written, and comes back as an event, or
\* cannot be written; or the poll is given up.
Watch(t) ==
  LET h == HcOf(t) IN
  /\ pc[t] = "watch"
  /\ \/ /\ h \in Remedied /\ phase[t] = "workflow"
        /\ Goto(t, "parse", "remedy") /\ UNCHANGED queue
     \/ Goto(t, "arm", "workflow") /\ queue' = queue \cup {h}
     \/ /\ Faulty \/ h \in Dispensable
        /\ Goto(t, "lookup", "error") \/ Stop(t)
        /\ UNCHANGED queue
  /\ UNCHANGED <<lockVars, workflowLabels, timers, content>>

\* AfterFunc starts the timer; the assignment to a map that was never made
\* panics after it.
EndArm(t) ==
  LET h == HcOf(t) IN
  /\ pc[t] = "arming"
  /\ \/ /\ MapMade
        /\ RepeatTimersByName' = RepeatTimersByName \cup {h}
        /\ armed' = armed \cup {h}
        /\ Unlock /\ Stop(t)
        /\ UNCHANGED <<workflowLabels, queue, content>>
     \/ /\ ~MapMade /\ ~IsTimer(t)
        /\ armed' = armed \cup {h}
        /\ Stop(t)
        /\ UNCHANGED <<lockVars, workflowLabels, RepeatTimersByName, queue, content>>
     \/ ~MapMade /\ IsTimer(t) /\ Restart

-----------------------------------------------------------------------------
\* An event of the watch on HealthChecks.
Touch(h) ==
  /\ queue' = queue \cup {h}
  /\ UNCHANGED <<lockVars, workflowLabels, timers, pc, phase, content>>

Crash == Faulty /\ Restart

Init ==
  /\ writer = Nobody /\ readers = {}
  /\ workflowLabels = [l \in {} |-> WfInstanceId]
  /\ RepeatTimersByName = {} /\ armed = {}
  /\ queue = HealthCheck
  /\ pc = [t \in Thread |-> "idle"]
  /\ phase = [t \in Thread |-> "none"]
  /\ content = [t \in Thread |-> NoContent]

Acquire(t) ==
  BeginLookup(t) \/ BeginCopy(t) \/ BeginLock(t)
Work(t) == \/ EndLookup(t) \/ Parse(t) \/ EndLabels(t) \/ EndCopy(t)
           \/ Watch(t) \/ EndArm(t)

Next ==
  \/ \E h \in HealthCheck : Start(h) \/ Fire(h) \/ Touch(h)
  \/ \E t \in Thread : Acquire(t) \/ Work(t)
  \/ Crash

Spec == Init /\ [][Next]_vars

\* Goroutines run, timers fire, the queue is served; and sync.RWMutex starves
\* nobody: a waiting writer keeps new readers out, a waiting reader is let in
\* when the writer leaves.
Fairness ==
  /\ \A h \in HealthCheck : WF_vars(Start(h)) /\ WF_vars(Fire(h))
  /\ \A t \in Thread : WF_vars(Work(t)) /\ SF_vars(Acquire(t))

FairSpec == Spec /\ Fairness

-----------------------------------------------------------------------------
(* Properties. *)

TypeOK ==
  /\ writer \in Thread \cup {Nobody} /\ readers \subseteq Thread
  /\ workflowLabels \in Labelling
  /\ RepeatTimersByName \subseteq HealthCheck /\ armed \subseteq HealthCheck
  /\ queue \subseteq HealthCheck
  /\ pc \in [Thread -> {"idle", "lookup", "looking", "parse", "label", "labelWait",
                        "labelling", "create", "copying", "watch", "arm",
                        "armWait", "arming"}]
  /\ phase \in [Thread -> {"none", "decide", "cancel", "stop", "error",
                           "workflow", "remedy"}]
  /\ content \in [Thread -> Content]

AtTheDoor == {"labelWait", "armWait"}
Writing == {"labelling", "arming"}
Reading == {"looking", "copying"}

\* Go's runtime kills a process that uses a map while another goroutine writes
\* it: no thread is in a critical section while another one is in a section that
\* writes, and this also after a section has panicked.
NoConcurrentMapWrite ==
  \A t, u \in Thread :
    pc[t] \in Writing /\ pc[u] \in Writing \cup Reading => t = u

\* TimerLock is held only by a thread inside a critical section, or at its door: who panics,
\* returns or is recovered has given it back.
LockIsGivenBack ==
  /\ writer # Nobody => pc[writer] \in Writing \cup AtTheDoor
  /\ \A t \in readers : pc[t] \in Reading

\* Whom a thread waits for: outside for the writer, at the door for the readers.
WaitsFor(t) ==
  {u \in Thread : \/ pc[t] \in {"lookup", "create", "label", "arm"} /\ u = writer
                  \/ pc[t] \in AtTheDoor /\ u \in readers}
MayGo(t) == pc[t] # "idle" /\ WaitsFor(t) = {}

\* Everybody who waits for TimerLock waits for someone who may go on, or for one
\* who waits for such a one and for nobody else's sake: threads do not wait in a
\* circle, nor for one that has gone.
NobodyWaitsInACircle ==
  \A t \in Thread : pc[t] # "idle" =>
    \A u \in WaitsFor(t) :
      MayGo(u) \/ (WaitsFor(u) # {} /\ \A v \in WaitsFor(u) : MayGo(v))

\* A label to which every source that asks for it gives the same value.
Undisputed(l) ==
  \A g, h \in HealthCheck : \A c \in Contents[g], d \in Contents[h] :
    /\ c.doc # "bad" /\ d.doc # "bad"
    /\ l \in DOMAIN c.labels \cap DOMAIN d.labels
      => c.labels[l] = d.labels[l]

\* The lock is free between the step that merges the labels of a source into the
\* map all HealthChecks share and the step that copies that map for the workflow:
\* others may merge theirs in between.  A workflow still gets every label its own
\* source asks for, and with its own value where no source asks for another one;
\* a label two sources give different values may carry the other's.
OwnLabelsAttached ==
  \A t \in Thread :
    pc[t] \in {"create", "copying"} /\ content[t].doc = "map" =>
      \A l \in DOMAIN content[t].labels :
        /\ l \in DOMAIN workflowLabels
        /\ Undisputed(l) => workflowLabels[l] = content[t].labels[l]

\* "The HealthCheck workflow is run periodically": the runs of a HealthCheck do
\* not stop, whatever locks the others take.
RunsPeriodically ==
  \A h \in HealthCheck \ Dispensable :
    []<>\E k \in {"worker", "timer"} : pc[<<h, k>>] = "watch"

-----------------------------------------------------------------------------
(* The inductive invariants behind the safety properties. *)

\* sync.RWMutex: one writer, or one about to be, whatever a panic has left; the
\* readers are those that read; a writer that is in is alone.
LockInv ==
  /\ TypeOK
  /\ \A t \in Thread : pc[t] \in Writing \cup AtTheDoor => writer = t
  /\ \A t \in Thread : t \in readers <=> pc[t] \in Reading
  /\ \A t \in Thread : pc[t] \in Writing => readers = {}

\* What makes a critical section panic: never a source that is an empty
\* document, never a map that was not made.
NothingPanics ==
  MapMade /\ \A h \in HealthCheck : \A c \in Contents[h] : c.doc # "empty"

\* Every label in the shared map is some source's, and who is between parsing
\* and creating holds a source of its own HealthCheck.
Holding == {"label", "labelWait", "labelling", "create", "copying"}
SourcesInv ==
  /\ \A l \in DOMAIN workflowLabels :
       \E h \in HealthCheck : \E c \in Contents[h] :
         /\ c.doc # "bad" /\ l \in DOMAIN c.labels
         /\ workflowLabels[l] = c.labels[l]
  /\ \A t \in Thread : pc[t] \in Holding =>
       /\ content[t] \in Contents[HcOf(t)]
       /\ pc[t] \in {"create", "copying"} \/ content[t].doc # "bad"

\* A HealthCheck nobody deletes or pauses has a thread that goes on or a timer when the map
\* has an entry for it; closures do not look for timers but after an error, and
\* only the timer of one that is deleted is stopped.
LoopInv ==
  \A h \in HealthCheck :
    /\ h \in RepeatTimersByName \ Dispensable => h \in armed \/ pc[<<h, "timer">>] # "idle"
    /\ phase[<<h, "timer">>] \in {"none", "workflow", "remedy", "error"}
    /\ phase[<<h, "worker">>] \in {"cancel", "stop"} => h \in Dispensable
    /\ \A k \in {"worker", "timer"} :
         pc[<<h, k>>] \in {"lookup", "looking"} /\ phase[<<h, k>>] = "error" => h \in Dispensable

-----------------------------------------------------------------------------
(* The promise of the scheduling loop, which the locks must not break. *)

\* The controller is about to decide, or has been told to; a timer is armed; a
\* thread is between the decision and the timer of the next run.
Deciding(h) ==
  /\ pc[<<h, "worker">>] \in {"lookup", "looking"}
  /\ phase[<<h, "worker">>] \in {"decide", "cancel", "stop"}
RunGoesOn(h) ==
  \/ pc[<<h, "worker">>] # "idle" /\ ~Deciding(h)
  \/ pc[<<h, "timer">>] # "idle"

Wanted == [h \in HealthCheck |-> h \notin Dispensable]
Claims == [h \in HealthCheck |->
  {x \in {"told", "timer", "run"} : \/ x = "told" /\ (h \in queue \/ Deciding(h))
                                    \/ x = "timer" /\ h \in armed
                                    \/ x = "run" /\ RunGoesOn(h)}]

Promise == INSTANCE PeriodicCheck WITH wanted <- Wanted, claims <- Claims

\* Also with the maps and their lock looked at in small steps a HealthCheck that
\* nobody deletes or pauses is never forgotten: a timer that a decision finds is its own and
\* still goes on, and who waits for the lock, has it or comes out of it still has
\* a run to start, or to go on with.
KeepsThePromise == Promise!Spec

=============================================================================
