-------------------------- MODULE TimerLock_proofs --------------------------
(***************************************************************************)
(* Proofs about TimerLock, for any HealthChecks, labels and sources.       *)
(***************************************************************************)
EXTENDS TimerLock, TLAPS

\* Threads are pairs; Nobody is not one.
LEMMA ThreadFacts ==
  /\ \A h \in HealthCheck : <<h, "worker">> \in Thread /\ <<h, "timer">> \in Thread
  /\ \A t \in Thread : HcOf(t) \in HealthCheck
  /\ Nobody \notin Thread
BY ThreadAssumption DEF Thread, HcOf

\* NoContent is a content, and what sources contain are contents.
LEMMA ContentFacts ==
  /\ DefaultLabels \in Labelling /\ NoContent \in Content
  /\ [l \in {} |-> WfInstanceId] \in Labelling
  /\ \A h \in HealthCheck : Contents[h] \subseteq Content
<1>1. {InstanceId} \in SUBSET Label /\ {} \in SUBSET Label
  BY LabelAssumption
<1>2. DefaultLabels \in [{InstanceId} -> Value] /\ [l \in {} |-> WfInstanceId] \in [{} -> Value]
  BY LabelAssumption DEF DefaultLabels
<1>3. DefaultLabels \in Labelling /\ [l \in {} |-> WfInstanceId] \in Labelling
  BY <1>1, <1>2 DEF Labelling
<1>4. NoContent \in Content
  BY <1>3 DEF NoContent, Content
<1> QED
  BY <1>3, <1>4, ContentAssumption

\* Merge keeps the labels of both maps; where they differ the second one wins.
LEMMA MergeFacts ==
  ASSUME NEW f \in Labelling, NEW g \in Labelling
  PROVE  /\ Merge(f, g) \in Labelling
         /\ DOMAIN Merge(f, g) = DOMAIN f \cup DOMAIN g
         /\ \A l \in DOMAIN g : Merge(f, g)[l] = g[l]
         /\ \A l \in DOMAIN f \ DOMAIN g : Merge(f, g)[l] = f[l]
<1>1. PICK D \in SUBSET Label : f \in [D -> Value]
  BY DEF Labelling
<1>2. PICK E \in SUBSET Label : g \in [E -> Value]
  BY DEF Labelling
<1>3. D \cup E \in SUBSET Label /\ DOMAIN f = D /\ DOMAIN g = E
  BY <1>1, <1>2
<1>4. Merge(f, g) \in [D \cup E -> Value]
  BY <1>1, <1>2, <1>3 DEF Merge
<1>5. Merge(f, g) \in Labelling
  BY <1>3, <1>4 DEF Labelling
<1> QED
  BY <1>3, <1>5 DEF Merge

Labels == {"idle", "lookup", "looking", "parse", "label", "labelWait",
           "labelling", "create", "copying", "watch", "arm",
           "armWait", "arming"}
Phases == {"none", "decide", "cancel", "stop", "error", "workflow", "remedy"}

\* Restart leaves nobody with the lock.
LEMMA RestartStep ==
  ASSUME Restart
  PROVE  LockInv'
<1>1. TypeOK'
  BY ContentFacts, ThreadFacts DEF Restart, TypeOK
<1> QED
  BY <1>1 DEF LockInv, Restart, Writing, Reading, AtTheDoor

\* A step outside the lock: its thread neither comes from nor goes to a place
\* where it has the lock.
LEMMA OutsideStep ==
  ASSUME LockInv, NEW t \in Thread, NEW l \in Labels, NEW p \in Phases,
         Goto(t, l, p), UNCHANGED lockVars,
         pc[t] \notin Writing \cup AtTheDoor \cup Reading,
         l \notin Writing \cup AtTheDoor \cup Reading, TypeOK'
  PROVE  LockInv'
<1>1. \A u \in Thread : pc'[u] = IF u = t THEN l ELSE pc[u]
  BY DEF LockInv, TypeOK, Goto
<1> QED
  BY <1>1 DEF LockInv, lockVars

\* A thread leaves a section that reads.
LEMMA ReaderLeaves ==
  ASSUME LockInv, NEW t \in Thread, NEW l \in Labels, NEW p \in Phases,
         Goto(t, l, p), RUnlock(t), pc[t] \in Reading,
         l \notin Writing \cup AtTheDoor \cup Reading, TypeOK'
  PROVE  LockInv'
<1>1. \A u \in Thread : pc'[u] = IF u = t THEN l ELSE pc[u]
  BY DEF LockInv, TypeOK, Goto
<1>2. pc[t] \notin Writing \cup AtTheDoor
  BY DEF Writing, AtTheDoor, Reading
<1>3. writer' = writer /\ readers' = readers \ {t}
  BY DEF RUnlock
<1>4. \A u \in Thread : pc'[u] \in Writing \cup AtTheDoor => writer' = u
  BY <1>1, <1>3 DEF LockInv
<1>5. \A u \in Thread : u \in readers' <=> pc'[u] \in Reading
  BY <1>1, <1>3 DEF LockInv
<1>6. \A u \in Thread : pc'[u] \in Writing => readers' = {}
  BY <1>1, <1>3 DEF LockInv
<1> QED
  BY <1>4, <1>5, <1>6 DEF LockInv

\* A thread enters a section that reads: no writer is there.
LEMMA ReaderEnters ==
  ASSUME LockInv, NEW t \in Thread, NEW l \in Labels, NEW p \in Phases,
         Goto(t, l, p), RLock(t), l \in Reading, TypeOK'
  PROVE  LockInv'
<1>1. \A u \in Thread : pc'[u] = IF u = t THEN l ELSE pc[u]
  BY DEF LockInv, TypeOK, Goto
<1>2. l \notin Writing \cup AtTheDoor
  BY DEF Writing, AtTheDoor, Reading
<1>3. writer' = writer /\ readers' = readers \cup {t} /\ writer = Nobody
  BY DEF RLock, CanRead
<1>4. \A u \in Thread : pc[u] \notin Writing \cup AtTheDoor
  BY <1>3, ThreadFacts DEF LockInv
<1> QED
  BY <1>1, <1>2, <1>3, <1>4 DEF LockInv

\* A writer leaves, its section complete.
LEMMA WriterLeaves ==
  ASSUME LockInv, NEW t \in Thread, NEW l \in Labels, NEW p \in Phases,
         Goto(t, l, p), UNCHANGED readers, writer' \in {Nobody, writer},
         pc[t] \in Writing, l \notin Writing \cup AtTheDoor \cup Reading, TypeOK'
  PROVE  LockInv'
<1>1. \A u \in Thread : pc'[u] = IF u = t THEN l ELSE pc[u]
  BY DEF LockInv, TypeOK, Goto
<1>2. pc[t] \notin Reading
  BY DEF Writing, Reading
<1>3. \A u \in Thread : u # t => pc[u] \notin Writing \cup AtTheDoor
  BY DEF LockInv
<1> QED
  BY <1>1, <1>2, <1>3 DEF LockInv

\* Lock(): announced when there is no writer, in when there are no readers.
LEMMA BeginLockStep ==
  ASSUME LockInv, NEW t \in Thread, BeginLock(t)
  PROVE  LockInv'
<1>1. TypeOK'
  BY DEF LockInv, TypeOK, BeginLock, Announce, Drained, Goto, lockVars, timers
<1>2. ASSUME NEW m \in AtTheDoor, pc[t] \in {"label", "arm"}, Announce(t),
             pc' = [pc EXCEPT ![t] = m]
      PROVE  LockInv'
  <2>1. \A u \in Thread : pc'[u] = IF u = t THEN m ELSE pc[u]
    BY <1>2 DEF LockInv, TypeOK
  <2>2. \A u \in Thread : pc[u] \notin Writing \cup AtTheDoor
    BY <1>2, ThreadFacts DEF LockInv, Announce
  <2>3. m \notin Reading /\ m \notin Writing /\ pc[t] \notin Reading
    BY <1>2 DEF AtTheDoor, Reading, Writing
  <2>4. writer' = t /\ readers' = readers
    BY <1>2 DEF Announce
  <2> QED
    BY <1>1, <2>1, <2>2, <2>3, <2>4 DEF LockInv
<1>3. ASSUME NEW m \in Writing, pc[t] \in AtTheDoor, Drained,
             pc' = [pc EXCEPT ![t] = m]
      PROVE  LockInv'
  <2>1. \A u \in Thread : pc'[u] = IF u = t THEN m ELSE pc[u]
    BY <1>3 DEF LockInv, TypeOK
  <2>2. m \notin Reading /\ pc[t] \notin Reading
    BY <1>3 DEF AtTheDoor, Reading, Writing
  <2>3. writer' = writer /\ readers' = readers /\ readers = {} /\ writer = t
    BY <1>3 DEF Drained, lockVars, LockInv
  <2> QED
    BY <1>1, <2>1, <2>2, <2>3 DEF LockInv
<1> QED
  BY <1>2, <1>3 DEF BeginLock, Goto, AtTheDoor, Writing

-----------------------------------------------------------------------------
(* The lock. *)

\* Reconcile starts outside every critical section.
LEMMA StartStep ==
  ASSUME LockInv, NEW h \in HealthCheck, Start(h)
  PROVE  LockInv'
<1> DEFINE t == <<h, "worker">>
<1>1. t \in Thread
  BY ThreadFacts
<1>2. TypeOK'
  BY <1>1 DEF LockInv, TypeOK, Start, Goto, lockVars, timers
<1>3. UNCHANGED lockVars /\ pc[t] = "idle"
  BY DEF Start
<1>4. ASSUME NEW l \in {"lookup", "parse"}, NEW p \in Phases, Goto(t, l, p)
      PROVE  LockInv'
  <2> HIDE DEF t
  <2> QED
    BY <1>1, <1>2, <1>3, <1>4, OutsideStep DEF Labels, Writing, AtTheDoor, Reading
<1>5. CASE UNCHANGED <<pc, phase>>
  BY <1>2, <1>3, <1>5 DEF LockInv, lockVars
<1> QED
  BY <1>4, <1>5 DEF Start, Phases

\* So does a closure.
LEMMA FireStep ==
  ASSUME LockInv, NEW h \in HealthCheck, Fire(h)
  PROVE  LockInv'
<1> DEFINE t == <<h, "timer">>
<1>1. t \in Thread
  BY ThreadFacts
<1>2. TypeOK'
  BY <1>1 DEF LockInv, TypeOK, Fire, Goto, lockVars
<1>3. UNCHANGED lockVars /\ pc[t] = "idle"
  BY DEF Fire
<1>4. CASE Goto(t, "parse", "workflow")
  <2> HIDE DEF t
  <2> QED
    BY <1>1, <1>2, <1>3, <1>4, OutsideStep DEF Labels, Phases, Writing, AtTheDoor, Reading
<1>5. CASE UNCHANGED <<pc, phase>>
  BY <1>2, <1>3, <1>5 DEF LockInv, lockVars
<1> QED
  BY <1>4, <1>5 DEF Fire

\* GetTimerByName takes a read lock and gives it back.
LEMMA LookupStep ==
  ASSUME LockInv, NEW t \in Thread, BeginLookup(t) \/ EndLookup(t)
  PROVE  LockInv'
<1>1. CASE BeginLookup(t)
  <2>1. TypeOK'
    BY <1>1 DEF LockInv, TypeOK, BeginLookup, RLock, Goto, timers
  <2>2. phase[t] \in Phases
    BY DEF LockInv, TypeOK, Phases
  <2> QED
    BY <1>1, <2>1, <2>2, ReaderEnters DEF BeginLookup, Labels, Reading
<1>2. CASE EndLookup(t)
  <2>1. TypeOK'
    BY <1>2 DEF LockInv, TypeOK, EndLookup, RUnlock, Goto, Stop
  <2>2. PICK l \in {"idle", "parse", "lookup"}, p \in Phases : Goto(t, l, p)
    BY <1>2 DEF EndLookup, Stop, Phases
  <2>3. RUnlock(t) /\ pc[t] \in Reading
    BY <1>2 DEF EndLookup, Reading
  <2> QED
    BY <2>1, <2>2, <2>3, ReaderLeaves DEF Labels, Reading, Writing, AtTheDoor
<1> QED
  BY <1>1, <1>2

\* Reading and decoding a source happens outside the lock.
LEMMA ParseStep ==
  ASSUME LockInv, NEW t \in Thread, Parse(t)
  PROVE  LockInv'
<1>1. PICK c \in Contents[HcOf(t)] :
        /\ content' = [content EXCEPT ![t] = c]
        /\ Goto(t, IF c.doc = "bad" THEN "create" ELSE "label", phase[t])
  BY DEF Parse
<1>2. c \in Content
  BY ThreadFacts, ContentFacts
<1>3. TypeOK'
  BY <1>1, <1>2 DEF LockInv, TypeOK, Parse, Goto, lockVars, timers
<1>4. phase[t] \in Phases /\ pc[t] = "parse" /\ UNCHANGED lockVars
  BY DEF LockInv, TypeOK, Phases, Parse
<1> QED
  BY <1>1, <1>3, <1>4, OutsideStep DEF Labels, Reading, Writing, AtTheDoor

\* The labels are merged under the write lock; a panic leaves it taken.
LEMMA EndLabelsStep ==
  ASSUME LockInv, NEW t \in Thread, EndLabels(t)
  PROVE  LockInv'
<1>1. CASE EndLabels(t) /\ ~Restart
  <2>1. content[t].labels \in Labelling
    BY DEF LockInv, TypeOK, Content
  <2>2. workflowLabels' \in Labelling
    <3>1. workflowLabels \in Labelling
      BY DEF LockInv, TypeOK
    <3>2. workflowLabels' = Merge(workflowLabels, content[t].labels)
      BY <1>1 DEF EndLabels
    <3> QED
      BY <2>1, <3>1, <3>2, MergeFacts
  <2>3. PICK l \in {"idle", "create"}, p \in Phases : Goto(t, l, p)
    BY <1>1 DEF EndLabels, Stop, LockInv, TypeOK, Phases
  <2>4. /\ UNCHANGED readers /\ writer' \in {Nobody, writer} /\ pc[t] \in Writing
        /\ content' \in [Thread -> Content] /\ UNCHANGED <<timers, queue>>
    BY <1>1, ContentFacts DEF EndLabels, Unlock, Forget, Writing, lockVars, LockInv, TypeOK
  <2>5. TypeOK'
    BY <2>2, <2>3, <2>4 DEF LockInv, TypeOK, Goto, timers, Phases
  <2> QED
    BY <2>3, <2>4, <2>5, WriterLeaves DEF Labels, Reading, Writing, AtTheDoor
<1> QED
  BY <1>1, RestartStep

\* SetLabels copies the map under a read lock.
LEMMA CopyStep ==
  ASSUME LockInv, NEW t \in Thread, BeginCopy(t) \/ EndCopy(t)
  PROVE  LockInv'
<1>1. CASE BeginCopy(t)
  <2>1. TypeOK'
    BY <1>1 DEF LockInv, TypeOK, BeginCopy, RLock, Goto, timers
  <2>2. phase[t] \in Phases
    BY DEF LockInv, TypeOK, Phases
  <2> QED
    BY <1>1, <2>1, <2>2, ReaderEnters DEF BeginCopy, Labels, Reading
<1>2. CASE EndCopy(t)
  <2>1. TypeOK'
    BY <1>2, ContentFacts DEF LockInv, TypeOK, EndCopy, RUnlock, Goto, Stop, Forget, timers
  <2>2. PICK l \in {"idle", "watch"}, p \in Phases : Goto(t, l, p)
    BY <1>2 DEF EndCopy, Stop, LockInv, TypeOK, Phases
  <2>3. RUnlock(t) /\ pc[t] \in Reading
    BY <1>2 DEF EndCopy, Reading
  <2> QED
    BY <2>1, <2>2, <2>3, ReaderLeaves DEF Labels, Reading, Writing, AtTheDoor
<1> QED
  BY <1>1, <1>2

\* Polling and the status write happen outside the lock.
LEMMA WatchStep ==
  ASSUME LockInv, NEW t \in Thread, Watch(t)
  PROVE  LockInv'
<1>1. TypeOK'
  BY ThreadFacts DEF LockInv, TypeOK, Watch, Goto, Stop, lockVars, timers
<1>2. PICK l \in {"idle", "parse", "arm", "lookup"}, p \in Phases : Goto(t, l, p)
  BY DEF Watch, Stop, LockInv, TypeOK, Phases
<1>3. pc[t] = "watch" /\ UNCHANGED lockVars
  BY DEF Watch
<1> QED
  BY <1>1, <1>2, <1>3, OutsideStep DEF Labels, Reading, Writing, AtTheDoor

\* The timer is registered under the write lock; a panic leaves it taken.
LEMMA EndArmStep ==
  ASSUME LockInv, NEW t \in Thread, EndArm(t)
  PROVE  LockInv'
<1>1. CASE EndArm(t) /\ ~Restart
  <2>1. HcOf(t) \in HealthCheck
    BY ThreadFacts
  <2>2. /\ UNCHANGED readers /\ writer' \in {Nobody, writer} /\ pc[t] \in Writing
        /\ Goto(t, "idle", "none") /\ UNCHANGED <<workflowLabels, queue, content>>
    BY <1>1 DEF EndArm, Unlock, Stop, Writing, lockVars
  <2>3. RepeatTimersByName' \subseteq HealthCheck /\ armed' \subseteq HealthCheck
    BY <1>1, <2>1 DEF EndArm, LockInv, TypeOK
  <2>4. TypeOK'
    BY <2>2, <2>3 DEF LockInv, TypeOK, Goto
  <2> QED
    BY <2>2, <2>4, WriterLeaves DEF Labels, Phases, Reading, Writing, AtTheDoor
<1> QED
  BY <1>1, RestartStep

\* The lock is free at the start.
LEMMA LockInit == Init => LockInv
<1> SUFFICES ASSUME Init
             PROVE  LockInv
  OBVIOUS
<1>1. TypeOK
  BY ContentFacts DEF Init, TypeOK
<1> QED
  BY <1>1 DEF Init, LockInv, Writing, Reading, AtTheDoor

\* No step, a panic included, breaks the discipline of the lock.
LEMMA LockKept ==
  ASSUME LockInv, [Next]_vars
  PROVE  LockInv'
<1>1. ASSUME NEW h \in HealthCheck, Touch(h)
      PROVE  LockInv'
  BY <1>1 DEF Touch, LockInv, TypeOK, lockVars, timers
<1>2. ASSUME NEW t \in Thread, Acquire(t) \/ Work(t)
      PROVE  LockInv'
  BY <1>2, LookupStep, CopyStep, BeginLockStep, ParseStep, EndLabelsStep,
     WatchStep, EndArmStep DEF Acquire, Work
<1>3. CASE Crash
  BY <1>3, RestartStep DEF Crash
<1>4. CASE UNCHANGED vars
  BY <1>4 DEF vars, lockVars, timers, LockInv, TypeOK
<1> QED
  BY <1>1, <1>2, <1>3, <1>4, StartStep, FireStep DEF Next

\* So the discipline of the lock always holds.
LEMMA LockInvariant == Spec => []LockInv
BY LockInit, LockKept, PTL DEF Spec

\* The variables keep their types, whatever fails or panics.
THEOREM LockTypes == Spec => []TypeOK
<1>1. LockInv => TypeOK
  BY DEF LockInv
<1> QED
  BY <1>1, LockInvariant, PTL

\* No two goroutines are ever in the maps at the same time with one of them
\* writing: this needs no assumption, a section that panics keeps all others out.
THEOREM MapsAreGuarded == Spec => []NoConcurrentMapWrite
<1>1. ASSUME LockInv
      PROVE  NoConcurrentMapWrite
  <2> SUFFICES ASSUME NEW t \in Thread, NEW u \in Thread,
                      pc[t] \in Writing, pc[u] \in Writing \cup Reading
               PROVE  t = u
    BY DEF NoConcurrentMapWrite
  <2>1. CASE pc[u] \in Writing
    BY <1>1, <2>1 DEF LockInv
  <2>2. CASE pc[u] \in Reading
    BY <1>1, <2>2 DEF LockInv
  <2> QED
    BY <2>1, <2>2
<1> QED
  BY <1>1, LockInvariant, PTL

-----------------------------------------------------------------------------
(* Where labels come from. *)

\* A step that leaves the labels alone, takes one thread elsewhere, and keeps
\* its content if that matters there.
LEMMA SourcesMove ==
  ASSUME TypeOK, SourcesInv, NEW t \in Thread, NEW l, NEW p, Goto(t, l, p),
         UNCHANGED workflowLabels,
         \A u \in Thread : u # t => content'[u] = content[u],
         l \in Holding =>
           /\ content'[t] \in Contents[HcOf(t)]
           /\ l \in {"create", "copying"} \/ content'[t].doc # "bad"
  PROVE  SourcesInv'
<1>1. \A u \in Thread : pc'[u] = IF u = t THEN l ELSE pc[u]
  BY DEF TypeOK, Goto
<1>2. ASSUME NEW u \in Thread, pc'[u] \in Holding
      PROVE  /\ content'[u] \in Contents[HcOf(u)]
             /\ pc'[u] \in {"create", "copying"} \/ content'[u].doc # "bad"
  BY <1>1, <1>2 DEF SourcesInv
<1> QED
  BY <1>2 DEF SourcesInv

\* A merge adds the labels of one source and no other.
LEMMA SourcesEndLabels ==
  ASSUME TypeOK, SourcesInv, NEW t \in Thread, EndLabels(t), ~Restart
  PROVE  SourcesInv'
<1> DEFINE g == content[t].labels
<1>1. content[t] \in Contents[HcOf(t)] /\ content[t].doc # "bad"
  BY DEF SourcesInv, EndLabels, Holding
<1>2. workflowLabels \in Labelling /\ g \in Labelling
  BY DEF TypeOK, Content
<1>3. workflowLabels' = Merge(workflowLabels, g)
  BY DEF EndLabels
<1> HIDE DEF g
<1>4. /\ DOMAIN workflowLabels' = DOMAIN workflowLabels \cup DOMAIN g
      /\ \A l \in DOMAIN g : workflowLabels'[l] = g[l]
      /\ \A l \in DOMAIN workflowLabels \ DOMAIN g : workflowLabels'[l] = workflowLabels[l]
  BY <1>2, <1>3, MergeFacts
<1>5. ASSUME NEW l \in DOMAIN workflowLabels'
      PROVE  \E h \in HealthCheck : \E c \in Contents[h] :
               /\ c.doc # "bad" /\ l \in DOMAIN c.labels
               /\ workflowLabels'[l] = c.labels[l]
  <2>1. CASE l \in DOMAIN g
    BY <1>1, <1>4, <2>1, ThreadFacts DEF g
  <2>2. CASE l \notin DOMAIN g
    BY <1>4, <2>2 DEF SourcesInv
  <2> QED
    BY <2>1, <2>2
<1>6. ASSUME NEW u \in Thread, pc'[u] \in Holding
      PROVE  /\ content'[u] \in Contents[HcOf(u)]
             /\ pc'[u] \in {"create", "copying"} \/ content'[u].doc # "bad"
  <2>1. CASE u = t
    <3>1. pc'[t] \in {"create", "idle"} /\ (pc'[t] = "create" => content' = content)
      BY DEF EndLabels, Goto, Stop, TypeOK
    <3> QED
      BY <1>1, <1>6, <2>1, <3>1 DEF Holding
  <2>2. CASE u # t
    <3>1. pc'[u] = pc[u] /\ content'[u] = content[u]
      BY <2>2 DEF EndLabels, Goto, Stop, Forget, TypeOK
    <3> QED
      BY <1>6, <3>1 DEF SourcesInv
  <2> QED
    BY <2>1, <2>2
<1> QED
  BY <1>5, <1>6 DEF SourcesInv

\* SourcesInv is inductive, panics and restarts included.
LEMMA SourcesKept ==
  ASSUME TypeOK, SourcesInv, [Next]_vars
  PROVE  SourcesInv'
<1>1. CASE Restart
  BY <1>1 DEF Restart, SourcesInv, Holding
<1>2. ASSUME NEW h \in HealthCheck, Start(h) \/ Fire(h) \/ Touch(h)
      PROVE  SourcesInv'
  <2>1. CASE Start(h)
    <3>1. ASSUME NEW l \in {"lookup", "parse"}, NEW p, Goto(<<h, "worker">>, l, p)
          PROVE  SourcesInv'
      BY <2>1, <3>1, ThreadFacts, SourcesMove DEF Start, Holding
    <3>2. CASE UNCHANGED <<pc, phase>>
      BY <2>1, <3>2 DEF Start, SourcesInv
    <3> QED
      BY <2>1, <3>1, <3>2 DEF Start
  <2>2. CASE Fire(h)
    <3>1. CASE Goto(<<h, "timer">>, "parse", "workflow")
      BY <2>2, <3>1, ThreadFacts, SourcesMove DEF Fire, Holding
    <3>2. CASE UNCHANGED <<pc, phase>>
      BY <2>2, <3>2 DEF Fire, SourcesInv
    <3> QED
      BY <2>2, <3>1, <3>2 DEF Fire
  <2>3. CASE Touch(h)
    BY <2>3 DEF Touch, SourcesInv
  <2> QED
    BY <1>2, <2>1, <2>2, <2>3
<1>3. ASSUME NEW t \in Thread, Acquire(t)
      PROVE  SourcesInv'
  <2>1. PICK l, p : Goto(t, l, p)
    BY <1>3 DEF Acquire, BeginLookup, BeginCopy, BeginLock
  <2>2. pc'[t] = l
    BY <2>1 DEF Goto, TypeOK
  <2>3. UNCHANGED <<workflowLabels, content>>
    BY <1>3 DEF Acquire, BeginLookup, BeginCopy, BeginLock
  <2>4. ASSUME l \in Holding
        PROVE  /\ content[t] \in Contents[HcOf(t)]
               /\ l \in {"create", "copying"} \/ content[t].doc # "bad"
    <3>1. CASE BeginLookup(t)
      BY <2>2, <2>4, <3>1 DEF BeginLookup, Goto, TypeOK, Holding
    <3>2. CASE BeginCopy(t)
      BY <2>2, <3>2 DEF BeginCopy, Goto, TypeOK, Holding, SourcesInv
    <3>3. CASE BeginLock(t)
      <4>1. pc[t] \in {"label", "labelWait"}
        BY <2>2, <2>4, <3>3 DEF BeginLock, Goto, TypeOK, Holding
      <4> QED
        BY <4>1 DEF SourcesInv, Holding
    <3> QED
      BY <1>3, <3>1, <3>2, <3>3 DEF Acquire
  <2> QED
    BY <2>1, <2>3, <2>4, SourcesMove
<1>4. ASSUME NEW t \in Thread, Work(t), ~Restart
      PROVE  SourcesInv'
  <2>1. CASE EndLookup(t)
    <3>1. PICK l, p : l \in {"idle", "parse", "lookup"} /\ Goto(t, l, p)
      BY <2>1 DEF EndLookup, Stop
    <3> QED
      BY <2>1, <3>1, SourcesMove DEF EndLookup, Holding
  <2>2. CASE Parse(t)
    <3>1. PICK c \in Contents[HcOf(t)] :
            /\ content' = [content EXCEPT ![t] = c]
            /\ Goto(t, IF c.doc = "bad" THEN "create" ELSE "label", phase[t])
      BY <2>2 DEF Parse
    <3>2. content'[t] = c /\ \A u \in Thread : u # t => content'[u] = content[u]
      BY <3>1 DEF TypeOK
    <3> QED
      BY <2>2, <3>1, <3>2, SourcesMove DEF Parse
  <2>3. CASE EndLabels(t)
    BY <1>4, <2>3, SourcesEndLabels
  <2>4. CASE EndCopy(t)
    <3>1. PICK l, p : l \in {"idle", "watch"} /\ Goto(t, l, p)
      BY <2>4 DEF EndCopy, Stop
    <3>2. \A u \in Thread : u # t => content'[u] = content[u]
      BY <2>4 DEF EndCopy, Forget, TypeOK
    <3> QED
      BY <2>4, <3>1, <3>2, SourcesMove DEF EndCopy, Holding
  <2>5. CASE Watch(t)
    <3>1. PICK l, p : l \in {"idle", "parse", "arm", "lookup"} /\ Goto(t, l, p)
      BY <2>5 DEF Watch, Stop
    <3> QED
      BY <2>5, <3>1, SourcesMove DEF Watch, Holding
  <2>6. CASE EndArm(t)
    <3>1. Goto(t, "idle", "none")
      BY <1>4, <2>6 DEF EndArm, Stop
    <3> QED
      BY <1>4, <2>6, <3>1, SourcesMove DEF EndArm, Holding
  <2> QED
    BY <1>4, <2>1, <2>2, <2>3, <2>4, <2>5, <2>6 DEF Work
<1>5. CASE UNCHANGED vars
  BY <1>5 DEF vars, SourcesInv
<1> QED
  BY <1>1, <1>2, <1>3, <1>4, <1>5 DEF Next, Crash

\* So it always holds.
LEMMA SourcesInvariant == Spec => []SourcesInv
<1>1. Init => SourcesInv
  BY DEF Init, SourcesInv, Holding
<1> QED
  BY <1>1, SourcesKept, LockTypes, PTL DEF Spec

-----------------------------------------------------------------------------
(* What holds when no section panics. *)

\* With a map that was made and no empty document, whoever leaves a section has
\* given the lock back.
LEMMA GivenBackKept ==
  ASSUME NothingPanics, LockInv, SourcesInv, LockIsGivenBack, [Next]_vars
  PROVE  LockIsGivenBack'
<1>1. LockInv'
  BY LockKept
<1>2. \A t \in Thread : t \in readers' => pc'[t] \in Reading
  BY <1>1 DEF LockInv
<1>3. readers' \subseteq Thread
  BY <1>1 DEF LockInv, TypeOK
<1>4. SUFFICES writer' # Nobody => pc'[writer'] \in Writing \cup AtTheDoor
  BY <1>2, <1>3 DEF LockIsGivenBack
<1>5. ASSUME NEW t \in Thread, NEW l, NEW p, Goto(t, l, p), UNCHANGED writer,
             pc[t] \notin Writing \cup AtTheDoor
      PROVE  writer' # Nobody => pc'[writer'] \in Writing \cup AtTheDoor
  BY <1>5 DEF LockIsGivenBack, LockInv, TypeOK, Goto
<1>6. ASSUME NEW h \in HealthCheck, Start(h) \/ Fire(h) \/ Touch(h)
      PROVE  writer' # Nobody => pc'[writer'] \in Writing \cup AtTheDoor
  <2>1. CASE Start(h)
    <3>1. ASSUME NEW l, NEW p, Goto(<<h, "worker">>, l, p)
          PROVE  writer' # Nobody => pc'[writer'] \in Writing \cup AtTheDoor
      BY <2>1, <3>1, <1>5, ThreadFacts DEF Start, lockVars, Writing, AtTheDoor
    <3>2. CASE UNCHANGED <<pc, phase>>
      BY <2>1, <3>2 DEF Start, lockVars, LockIsGivenBack
    <3> QED
      BY <2>1, <3>1, <3>2 DEF Start
  <2>2. CASE Fire(h)
    <3>1. CASE Goto(<<h, "timer">>, "parse", "workflow")
      BY <2>2, <3>1, <1>5, ThreadFacts DEF Fire, lockVars, Writing, AtTheDoor
    <3>2. CASE UNCHANGED <<pc, phase>>
      BY <2>2, <3>2 DEF Fire, lockVars, LockIsGivenBack
    <3> QED
      BY <2>2, <3>1, <3>2 DEF Fire
  <2>3. CASE Touch(h)
    BY <2>3 DEF Touch, lockVars, LockIsGivenBack
  <2> QED
    BY <1>6, <2>1, <2>2, <2>3
<1>7. ASSUME NEW t \in Thread, Acquire(t)
      PROVE  writer' # Nobody => pc'[writer'] \in Writing \cup AtTheDoor
  <2>1. CASE BeginLookup(t)
    BY <2>1, <1>5 DEF BeginLookup, RLock, Writing, AtTheDoor
  <2>2. CASE BeginCopy(t)
    BY <2>2, <1>5 DEF BeginCopy, RLock, Writing, AtTheDoor
  <2>3. CASE BeginLock(t)
    <3>1. PICK l \in Writing \cup AtTheDoor : Goto(t, l, phase[t])
      BY <2>3 DEF BeginLock, Writing, AtTheDoor
    <3>2. pc'[t] \in Writing \cup AtTheDoor
      BY <3>1 DEF Goto, LockInv, TypeOK
    <3>3. writer' = t
      BY <2>3 DEF BeginLock, Announce, Drained, lockVars, LockInv, AtTheDoor
    <3> QED
      BY <3>2, <3>3
  <2> QED
    BY <1>7, <2>1, <2>2, <2>3 DEF Acquire
<1>8. ASSUME NEW t \in Thread, Work(t)
      PROVE  writer' # Nobody => pc'[writer'] \in Writing \cup AtTheDoor
  <2>1. CASE EndLookup(t)
    <3>1. PICK l, p : Goto(t, l, p)
      BY <2>1 DEF EndLookup, Stop
    <3> QED
      BY <2>1, <3>1, <1>5 DEF EndLookup, RUnlock, Writing, AtTheDoor
  <2>2. CASE Parse(t)
    <3>1. PICK l, p : Goto(t, l, p)
      BY <2>2 DEF Parse
    <3> QED
      BY <2>2, <3>1, <1>5 DEF Parse, lockVars, Writing, AtTheDoor
  <2>3. CASE EndCopy(t)
    <3>1. PICK l, p : Goto(t, l, p)
      BY <2>3 DEF EndCopy, Stop
    <3> QED
      BY <2>3, <3>1, <1>5 DEF EndCopy, RUnlock, Writing, AtTheDoor
  <2>4. CASE Watch(t)
    <3>1. PICK l, p : Goto(t, l, p)
      BY <2>4 DEF Watch, Stop
    <3> QED
      BY <2>4, <3>1, <1>5 DEF Watch, lockVars, Writing, AtTheDoor
  <2>5. CASE EndArm(t)
    BY <2>5 DEF EndArm, Unlock, Restart, NothingPanics
  <2>6. CASE EndLabels(t)
    <3>1. content[t].doc \notin {"empty", "bad"}
      BY <2>6, ThreadFacts DEF EndLabels, SourcesInv, Holding, NothingPanics
    <3> QED
      BY <2>6, <3>1 DEF EndLabels, Unlock
  <2> QED
    BY <1>8, <2>1, <2>2, <2>3, <2>4, <2>5, <2>6 DEF Work
<1>9. CASE Crash
  BY <1>9 DEF Crash, Restart
<1>10. CASE UNCHANGED vars
  BY <1>10 DEF vars, lockVars, LockIsGivenBack
<1> QED
  BY <1>6, <1>7, <1>8, <1>9, <1>10 DEF Next

\* The lock is never left taken, provided RepeatTimersByName was made and no
\* workflow source is an empty document: with either, a recovered panic leaves it
\* taken for ever.
THEOREM NobodyLeavesWithTheLock ==
  ASSUME NothingPanics
  PROVE  Spec => []LockIsGivenBack
<1>1. Init => LockIsGivenBack
  BY DEF Init, LockIsGivenBack
<1> QED
  BY <1>1, GivenBackKept, LockInvariant, SourcesInvariant, PTL DEF Spec

\* Then who waits for TimerLock waits for a thread that may go on, or for a writer
\* at the door that waits for readers who may: there is no circle, and nobody waits
\* for a thread that has gone, with any number of HealthChecks.
THEOREM NobodyIsStuck ==
  ASSUME NothingPanics
  PROVE  Spec => []NobodyWaitsInACircle
<1>1. ASSUME LockInv, LockIsGivenBack
      PROVE  NobodyWaitsInACircle
  <2>1. ASSUME NEW u \in Thread, pc[u] \in Reading \cup Writing
        PROVE  MayGo(u)
    BY <2>1 DEF MayGo, WaitsFor, Reading, Writing, AtTheDoor
  <2>2. ASSUME NEW u \in Thread, u \in readers
        PROVE  MayGo(u)
    BY <1>1, <2>1, <2>2 DEF LockInv
  <2>3. ASSUME NEW u \in Thread, u = writer
        PROVE  MayGo(u) \/ (WaitsFor(u) # {} /\ \A v \in WaitsFor(u) : MayGo(v))
    <3>1. pc[u] \in Writing \cup AtTheDoor
      BY <1>1, <2>3, ThreadAssumption DEF LockIsGivenBack
    <3>2. CASE pc[u] \in Writing
      BY <2>1, <3>2
    <3>3. CASE pc[u] \in AtTheDoor
      <4>1. pc[u] # "idle" /\ \A v \in WaitsFor(u) : v \in Thread /\ v \in readers
        BY <3>3 DEF WaitsFor, AtTheDoor
      <4> QED
        BY <2>2, <4>1 DEF MayGo
    <3> QED
      BY <3>1, <3>2, <3>3
  <2>4. \A t \in Thread : \A u \in WaitsFor(t) :
          u \in Thread /\ (u = writer \/ u \in readers)
    BY DEF WaitsFor
  <2> QED
    BY <2>2, <2>3, <2>4 DEF NobodyWaitsInACircle
<1> QED
  BY <1>1, LockInvariant, NobodyLeavesWithTheLock, PTL

\* The shared map only grows, but for a restart.
LEMMA LabelsGrow ==
  ASSUME TypeOK, [Next]_vars, ~Restart
  PROVE  DOMAIN workflowLabels \subseteq DOMAIN workflowLabels'
<1>1. ASSUME NEW t \in Thread, EndLabels(t)
      PROVE  DOMAIN workflowLabels \subseteq DOMAIN workflowLabels'
  <2> DEFINE g == content[t].labels
  <2>1. workflowLabels' = Merge(workflowLabels, g)
    BY <1>1 DEF EndLabels
  <2>2. workflowLabels \in Labelling /\ g \in Labelling
    BY DEF TypeOK, Content
  <2> HIDE DEF g
  <2>3. DOMAIN workflowLabels' = DOMAIN workflowLabels \cup DOMAIN g
    BY <2>1, <2>2, MergeFacts
  <2> QED
    BY <2>3
<1>2. ASSUME NEW t \in Thread, Acquire(t) \/ (Work(t) /\ ~EndLabels(t))
      PROVE  UNCHANGED workflowLabels
  BY <1>2 DEF Acquire, BeginLookup, BeginCopy, BeginLock, Work, EndLookup, Parse,
              EndCopy, Watch, EndArm
<1>3. ASSUME NEW h \in HealthCheck, Start(h) \/ Fire(h) \/ Touch(h)
      PROVE  UNCHANGED workflowLabels
  BY <1>3 DEF Start, Fire, Touch
<1> QED
  BY <1>1, <1>2, <1>3 DEF Next, Crash, vars

\* A thread gets to where its workflow is created by merging its labels, or with
\* a source it could not read.
LEMMA ReadyToCreate ==
  ASSUME TypeOK, [Next]_vars, ~Restart, NEW t \in Thread,
         pc'[t] \in {"create", "copying"}, content'[t].doc # "bad"
  PROVE  \/ pc[t] \in {"create", "copying"} /\ content'[t] = content[t]
         \/ EndLabels(t) /\ content'[t] = content[t]
<1>1. ASSUME NEW u \in Thread, NEW l, NEW p, Goto(u, l, p),
             l \notin {"create", "copying"},
             \A v \in Thread : v # u => content'[v] = content[v]
      PROVE  pc[t] \in {"create", "copying"} /\ content'[t] = content[t]
  BY <1>1 DEF Goto, TypeOK
<1>2. ASSUME NEW h \in HealthCheck, Start(h) \/ Fire(h) \/ Touch(h)
      PROVE  pc[t] \in {"create", "copying"} /\ content'[t] = content[t]
  <2>1. CASE Start(h)
    <3>1. UNCHANGED content /\ <<h, "worker">> \in Thread
      BY <2>1, ThreadFacts DEF Start
    <3>2. ASSUME NEW l \in {"lookup", "parse"}, NEW p, Goto(<<h, "worker">>, l, p)
          PROVE  pc[t] \in {"create", "copying"} /\ content'[t] = content[t]
      BY <3>1, <3>2, <1>1
    <3>3. CASE UNCHANGED <<pc, phase>>
      BY <3>1, <3>3
    <3> QED
      BY <2>1, <3>2, <3>3 DEF Start
  <2>2. CASE Fire(h)
    <3>1. CASE Goto(<<h, "timer">>, "parse", "workflow")
      <4>1. UNCHANGED content /\ <<h, "timer">> \in Thread
        BY <2>2, ThreadFacts DEF Fire
      <4> QED
        BY <3>1, <4>1, <1>1
    <3>2. CASE UNCHANGED <<pc, phase>>
      BY <2>2, <3>2 DEF Fire
    <3> QED
      BY <2>2, <3>1, <3>2 DEF Fire
  <2>3. CASE Touch(h)
    BY <2>3 DEF Touch
  <2> QED
    BY <1>2, <2>1, <2>2, <2>3
<1>3. ASSUME NEW u \in Thread, Acquire(u)
      PROVE  pc[t] \in {"create", "copying"} /\ content'[t] = content[t]
  BY <1>3 DEF Acquire, BeginLookup, BeginCopy, BeginLock, Goto, TypeOK
<1>4. ASSUME NEW u \in Thread, Work(u)
      PROVE  \/ pc[t] \in {"create", "copying"} /\ content'[t] = content[t]
             \/ EndLabels(t) /\ content'[t] = content[t]
  <2>1. CASE EndLookup(u)
    <3>1. PICK l, p : l \in {"idle", "parse", "lookup"} /\ Goto(u, l, p)
      BY <2>1 DEF EndLookup, Stop
    <3> QED
      BY <2>1, <3>1, <1>1 DEF EndLookup
  <2>2. CASE Parse(u)
    <3>1. PICK c \in Contents[HcOf(u)] :
            /\ content' = [content EXCEPT ![u] = c]
            /\ Goto(u, IF c.doc = "bad" THEN "create" ELSE "label", phase[u])
      BY <2>2 DEF Parse
    <3>2. \A v \in Thread : content'[v] = IF v = u THEN c ELSE content[v]
      BY <3>1 DEF TypeOK
    <3>3. \A v \in Thread : v # u => pc'[v] = pc[v]
      BY <3>1 DEF Goto, TypeOK
    <3>4. u # t
      BY <3>1, <3>2 DEF Goto, TypeOK
    <3> QED
      BY <3>2, <3>3, <3>4
  <2>3. CASE EndLabels(u)
    <3>1. CASE u = t
      BY <2>3, <3>1 DEF EndLabels, Stop, Goto, TypeOK
    <3>2. CASE u # t
      BY <2>3, <3>2 DEF EndLabels, Stop, Goto, Forget, TypeOK
    <3> QED
      BY <3>1, <3>2
  <2>4. CASE EndCopy(u)
    <3>1. PICK l, p : l \in {"idle", "watch"} /\ Goto(u, l, p)
      BY <2>4 DEF EndCopy, Stop
    <3>2. \A v \in Thread : v # u => content'[v] = content[v]
      BY <2>4 DEF EndCopy, Forget, TypeOK
    <3> QED
      BY <3>1, <3>2, <1>1
  <2>5. CASE Watch(u)
    <3>1. PICK l, p : l \in {"idle", "parse", "arm", "lookup"} /\ Goto(u, l, p)
      BY <2>5 DEF Watch, Stop
    <3> QED
      BY <2>5, <3>1, <1>1 DEF Watch
  <2>6. CASE EndArm(u)
    BY <2>6, <1>1 DEF EndArm, Stop
  <2> QED
    BY <1>4, <2>1, <2>2, <2>3, <2>4, <2>5, <2>6 DEF Work
<1>5. CASE UNCHANGED vars
  BY <1>5 DEF vars
<1> QED
  BY <1>2, <1>3, <1>4, <1>5 DEF Next, Crash

\* Where a label is in the shared map its value is some source's, and so, when no
\* source disputes it, anyone's; and a label once merged stays.
LEMMA OwnLabelsKept ==
  ASSUME TypeOK, SourcesInv', OwnLabelsAttached, [Next]_vars
  PROVE  OwnLabelsAttached'
<1> SUFFICES ASSUME NEW t \in Thread, pc'[t] \in {"create", "copying"},
                    content'[t].doc = "map", NEW l \in DOMAIN content'[t].labels
             PROVE  /\ l \in DOMAIN workflowLabels'
                    /\ Undisputed(l) => workflowLabels'[l] = content'[t].labels[l]
  BY DEF OwnLabelsAttached, Undisputed
<1>1. ~Restart
  BY DEF Restart
<1>2. DOMAIN workflowLabels \subseteq DOMAIN workflowLabels'
  BY <1>1, LabelsGrow
<1>3. l \in DOMAIN workflowLabels'
  <2>1. CASE pc[t] \in {"create", "copying"} /\ content'[t] = content[t]
    BY <1>2, <2>1 DEF OwnLabelsAttached
  <2>2. CASE EndLabels(t) /\ content'[t] = content[t]
    <3>1. workflowLabels' = Merge(workflowLabels, content[t].labels)
      BY <1>1, <2>2 DEF EndLabels
    <3>2. workflowLabels \in Labelling /\ content[t].labels \in Labelling
      BY DEF TypeOK, Content
    <3>3. DOMAIN content[t].labels \subseteq DOMAIN Merge(workflowLabels, content[t].labels)
      BY <3>2, MergeFacts
    <3>4. content'[t].labels = content[t].labels
      BY <2>2
    <3> QED
      BY <3>1, <3>3, <3>4
  <2> QED
    BY <1>1, <2>1, <2>2, ReadyToCreate
<1>4. content'[t] \in Contents[HcOf(t)] /\ HcOf(t) \in HealthCheck
  BY ThreadFacts DEF SourcesInv, Holding
<1>5. PICK g \in HealthCheck : \E c \in Contents[g] :
        /\ c.doc # "bad" /\ l \in DOMAIN c.labels
        /\ workflowLabels'[l] = c.labels[l]
  BY <1>3 DEF SourcesInv
<1> QED
  BY <1>3, <1>4, <1>5 DEF Undisputed

\* A workflow gets every label its source asks for, and its own value of each that
\* no source disputes, although other threads write the shared map between the two
\* sections: whatever the sources contain, fails or panics.
THEOREM OwnLabels == Spec => []OwnLabelsAttached
<1>1. Init => OwnLabelsAttached
  BY DEF Init, OwnLabelsAttached
<1> QED
  BY <1>1, OwnLabelsKept, LockTypes, SourcesInvariant, PTL DEF Spec

=============================================================================
