------------------------- MODULE LockPromise_proofs -------------------------
(***************************************************************************)
(* TimerLock implements PeriodicCheck, for any HealthChecks, labels and     *)
(* sources, when nothing fails but by deletion.                            *)
(***************************************************************************)
EXTENDS TimerLock_proofs

\* What is proved of PeriodicCheck, about the claims of this module.
Facts == INSTANCE PeriodicCheck_proofs WITH wanted <- Wanted, claims <- Claims

WorkerOf(h) == <<h, "worker">>
ClosureOf(h) == <<h, "timer">>

\* Every thread is the worker or the closure of one HealthCheck.
LEMMA PairFacts ==
  /\ \A h \in HealthCheck :
       /\ WorkerOf(h) \in Thread /\ HcOf(WorkerOf(h)) = h /\ ~IsTimer(WorkerOf(h))
       /\ ClosureOf(h) \in Thread /\ HcOf(ClosureOf(h)) = h /\ IsTimer(ClosureOf(h))
  /\ \A t \in Thread :
       /\ HcOf(t) \in HealthCheck
       /\ ~IsTimer(t) => t = WorkerOf(HcOf(t))
       /\ IsTimer(t) => t = ClosureOf(HcOf(t))
BY DEF Thread, HcOf, IsTimer, WorkerOf, ClosureOf

\* LoopInv, one HealthCheck at a time.
OwnLoop(h) ==
  /\ h \in RepeatTimersByName \ Dispensable => h \in armed \/ pc[ClosureOf(h)] # "idle"
  /\ phase[ClosureOf(h)] \in {"none", "workflow", "remedy", "error"}
  /\ phase[WorkerOf(h)] \in {"cancel", "stop"} => h \in Dispensable
  /\ \A t \in {WorkerOf(h), ClosureOf(h)} :
       pc[t] \in {"lookup", "looking"} /\ phase[t] = "error" => h \in Dispensable

LEMMA OwnLoops ==
  /\ LoopInv <=> \A h \in HealthCheck : OwnLoop(h)
  /\ LoopInv' <=> \A h \in HealthCheck : OwnLoop(h)'
BY DEF LoopInv, OwnLoop, WorkerOf, ClosureOf

\* The claims of h, by its threads.
LEMMA OwnClaims ==
  ASSUME NEW h \in HealthCheck
  PROVE  /\ Deciding(h) <=> /\ pc[WorkerOf(h)] \in {"lookup", "looking"}
                            /\ phase[WorkerOf(h)] \in {"decide", "cancel", "stop"}
         /\ RunGoesOn(h) <=> \/ pc[WorkerOf(h)] # "idle" /\ ~Deciding(h)
                             \/ pc[ClosureOf(h)] # "idle"
         /\ Claims[h] \subseteq Facts!Claim
         /\ "told" \in Claims[h] <=> h \in queue \/ Deciding(h)
         /\ "timer" \in Claims[h] <=> h \in armed
         /\ "run" \in Claims[h] <=> RunGoesOn(h)
BY DEF Deciding, RunGoesOn, WorkerOf, ClosureOf, Claims, Facts!Claim

\* The same in the next state.
LEMMA OwnClaimsPrimed ==
  ASSUME NEW h \in HealthCheck
  PROVE  /\ Deciding(h)' <=> /\ pc'[WorkerOf(h)] \in {"lookup", "looking"}
                             /\ phase'[WorkerOf(h)] \in {"decide", "cancel", "stop"}
         /\ RunGoesOn(h)' <=> \/ pc'[WorkerOf(h)] # "idle" /\ ~Deciding(h)'
                              \/ pc'[ClosureOf(h)] # "idle"
         /\ Claims'[h] \subseteq Facts!Claim
         /\ "told" \in Claims'[h] <=> h \in queue' \/ Deciding(h)'
         /\ "timer" \in Claims'[h] <=> h \in armed'
         /\ "run" \in Claims'[h] <=> RunGoesOn(h)'
BY DEF Deciding, RunGoesOn, WorkerOf, ClosureOf, Claims, Facts!Claim

\* A step of the threads of h only.
Apart(h) ==
  /\ \A g \in HealthCheck \ {h} :
       /\ g \in queue' <=> g \in queue
       /\ g \in armed' <=> g \in armed
       /\ g \in RepeatTimersByName' <=> g \in RepeatTimersByName
  /\ \A t \in Thread : HcOf(t) # h => pc'[t] = pc[t] /\ phase'[t] = phase[t]

\* Such a step leaves the others as they were, and so their claims.
LEMMA OthersGoOn ==
  ASSUME NEW h \in HealthCheck, Apart(h)
  PROVE  /\ LoopInv /\ OwnLoop(h)' => LoopInv'
         /\ Claims' = [Claims EXCEPT ![h] = Claims'[h]]
<1>1. ASSUME NEW g \in HealthCheck, g # h
      PROVE  /\ pc'[WorkerOf(g)] = pc[WorkerOf(g)] /\ phase'[WorkerOf(g)] = phase[WorkerOf(g)]
             /\ pc'[ClosureOf(g)] = pc[ClosureOf(g)] /\ phase'[ClosureOf(g)] = phase[ClosureOf(g)]
  BY <1>1, PairFacts DEF Apart
<1>2. ASSUME NEW g \in HealthCheck, g # h, OwnLoop(g)
      PROVE  OwnLoop(g)'
  BY <1>1, <1>2 DEF OwnLoop, Apart, WorkerOf, ClosureOf
<1>3. ASSUME NEW g \in HealthCheck, g # h
      PROVE  Claims'[g] = Claims[g]
  <2>1. \A x \in Facts!Claim : x \in Claims'[g] <=> x \in Claims[g]
    BY <1>1, <1>3, OwnClaims, OwnClaimsPrimed DEF Apart, Facts!Claim
  <2>2. Claims'[g] \in SUBSET Facts!Claim /\ Claims[g] \in SUBSET Facts!Claim
    BY OwnClaims, OwnClaimsPrimed
  <2> QED
    BY <2>1, <2>2, Facts!SameClaims
<1>4. /\ Claims = [g \in HealthCheck |-> Claims[g]]
      /\ Claims' = [g \in HealthCheck |-> Claims'[g]]
  BY DEF Claims
<1> QED
  BY <1>2, <1>3, <1>4, OwnLoops

\* A thread goes elsewhere; the others stay where they are.
LEMMA ThreadGoes ==
  ASSUME TypeOK, NEW t \in Thread, NEW l, NEW p, Goto(t, l, p)
  PROVE  /\ pc'[t] = l /\ phase'[t] = p
         /\ \A u \in Thread : u # t => pc'[u] = pc[u] /\ phase'[u] = phase[u]
BY DEF TypeOK, Goto

\* A step of one thread that changes what is shared for its HealthCheck only.
LEMMA IsApart ==
  ASSUME TypeOK, NEW t \in Thread, NEW l, NEW p, Goto(t, l, p),
         queue' \in {queue, queue \cup {HcOf(t)}, queue \ {HcOf(t)}},
         armed' \in {armed, armed \cup {HcOf(t)}, armed \ {HcOf(t)}},
         RepeatTimersByName' \in {RepeatTimersByName, RepeatTimersByName \cup {HcOf(t)}}
  PROVE  Apart(HcOf(t))
<1>1. \A u \in Thread : HcOf(u) # HcOf(t) => pc'[u] = pc[u] /\ phase'[u] = phase[u]
  BY ThreadGoes
<1> QED
  BY <1>1 DEF Apart

\* It keeps LoopInv, if a closure does not just end, and nobody looks for what
\* is not its own.
LEMMA LoopMove ==
  ASSUME TypeOK, LoopInv, NEW t \in Thread, NEW l, NEW p, Goto(t, l, p), Apart(HcOf(t)),
         HcOf(t) \notin Dispensable =>
           \/ HcOf(t) \in armed'
           \/ IsTimer(t) /\ l # "idle"
           \/ ~IsTimer(t) /\ UNCHANGED timers,
         IsTimer(t) => p \in {"none", "workflow", "remedy", "error"},
         ~IsTimer(t) /\ p \in {"cancel", "stop"} => HcOf(t) \in Dispensable,
         l \in {"lookup", "looking"} /\ p = "error" => HcOf(t) \in Dispensable
  PROVE  LoopInv'
<1> DEFINE h == HcOf(t)
           w == WorkerOf(h)
           c == ClosureOf(h)
<1>1. /\ h \in HealthCheck /\ w \in Thread /\ c \in Thread /\ w # c
      /\ IsTimer(t) => t = c
      /\ ~IsTimer(t) => t = w
  BY PairFacts
<1>2. /\ pc'[t] = l /\ phase'[t] = p
      /\ \A u \in Thread : u # t => pc'[u] = pc[u] /\ phase'[u] = phase[u]
  BY ThreadGoes
<1>3. OwnLoop(h)
  BY <1>1, OwnLoops
<1>4. OwnLoop(h)'
  <2>1. h \in RepeatTimersByName' \ Dispensable => h \in armed' \/ pc'[c] # "idle"
    BY <1>1, <1>2, <1>3 DEF OwnLoop, timers
  <2>2. phase'[c] \in {"none", "workflow", "remedy", "error"}
    BY <1>1, <1>2, <1>3 DEF OwnLoop
  <2>3. phase'[w] \in {"cancel", "stop"} => h \in Dispensable
    BY <1>1, <1>2, <1>3 DEF OwnLoop
  <2>4. \A u \in {w, c} :
          pc'[u] \in {"lookup", "looking"} /\ phase'[u] = "error" => h \in Dispensable
    BY <1>1, <1>2, <1>3 DEF OwnLoop
  <2> QED
    BY <2>1, <2>2, <2>3, <2>4 DEF OwnLoop, WorkerOf, ClosureOf
<1> QED
  BY <1>1, <1>4, OthersGoOn

\* In the environment in which nothing fails but by deletion LoopInv is inductive.
LEMMA LoopKept ==
  ASSUME ~Faulty, NothingPanics, TypeOK, SourcesInv, LoopInv, [Next]_vars
  PROVE  LoopInv'
<1>1. ASSUME NEW h \in HealthCheck, Start(h)
      PROVE  LoopInv'
  <2> DEFINE t == WorkerOf(h)
  <2>1. t \in Thread /\ HcOf(t) = h /\ ~IsTimer(t)
    BY PairFacts
  <2>2. /\ \/ Goto(t, "lookup", "decide") \/ Goto(t, "parse", "workflow")
           \/ h \in Dispensable /\ Goto(t, "lookup", "cancel")
           \/ UNCHANGED <<pc, phase>>
        /\ queue' \in {queue, queue \ {h}} /\ UNCHANGED timers
    BY <1>1 DEF Start, WorkerOf
  <2> HIDE DEF t
  <2>3. CASE UNCHANGED <<pc, phase>>
    BY <2>2, <2>3 DEF LoopInv, timers
  <2>4. CASE ~UNCHANGED <<pc, phase>>
    <3>1. Apart(h)
      BY <2>1, <2>2, <2>4, IsApart DEF timers
    <3> QED
      BY <2>1, <2>2, <2>4, <3>1, LoopMove
  <2> QED
    BY <2>3, <2>4
<1>2. ASSUME NEW h \in HealthCheck, Fire(h)
      PROVE  LoopInv'
  <2> DEFINE t == ClosureOf(h)
  <2>1. t \in Thread /\ HcOf(t) = h /\ IsTimer(t)
    BY PairFacts
  <2>2. /\ \/ Goto(t, "parse", "workflow")
           \/ h \in Dispensable /\ UNCHANGED <<pc, phase>>
        /\ armed' = armed \ {h} /\ UNCHANGED <<queue, RepeatTimersByName>>
    BY <1>2 DEF Fire, ClosureOf
  <2> HIDE DEF t
  <2>3. CASE Goto(t, "parse", "workflow")
    <3>1. Apart(h)
      BY <2>1, <2>2, <2>3, IsApart
    <3> QED
      BY <2>1, <2>3, <3>1, LoopMove
  <2>4. CASE h \in Dispensable /\ UNCHANGED <<pc, phase>>
    BY <2>2, <2>4 DEF LoopInv
  <2> QED
    BY <2>2, <2>3, <2>4
<1>3. ASSUME NEW h \in HealthCheck, Touch(h)
      PROVE  LoopInv'
  BY <1>3 DEF Touch, timers, LoopInv
<1>4. ASSUME NEW t \in Thread, NEW l, Goto(t, l, phase[t]), UNCHANGED <<timers, queue>>,
             l # "idle", l \in {"lookup", "looking"} => pc[t] \in {"lookup", "looking"}
      PROVE  LoopInv'
  <2>1. Apart(HcOf(t))
    BY <1>4, IsApart DEF timers
  <2>2. OwnLoop(HcOf(t)) /\ (IsTimer(t) => t = ClosureOf(HcOf(t)))
          /\ (~IsTimer(t) => t = WorkerOf(HcOf(t)))
    BY PairFacts, OwnLoops
  <2> QED
    BY <1>4, <2>1, <2>2, LoopMove DEF OwnLoop
<1>5. ASSUME NEW t \in Thread, Acquire(t) \/ Parse(t) \/ EndLabels(t)
      PROVE  LoopInv'
  <2>1. CASE BeginLookup(t)
    BY <1>4, <2>1 DEF BeginLookup
  <2>2. CASE BeginCopy(t)
    BY <1>4, <2>2 DEF BeginCopy
  <2>3. CASE BeginLock(t)
    <3>1. PICK l \in {"labelWait", "labelling", "armWait", "arming"} : Goto(t, l, phase[t])
      BY <2>3 DEF BeginLock
    <3> QED
      BY <1>4, <2>3, <3>1 DEF BeginLock
  <2>4. CASE Parse(t)
    <3>1. PICK l \in {"create", "label"} : Goto(t, l, phase[t])
      BY <2>4 DEF Parse
    <3> QED
      BY <1>4, <2>4, <3>1 DEF Parse
  <2>5. CASE EndLabels(t)
    <3>1. content[t].doc # "empty"
      BY <2>5, ThreadFacts DEF EndLabels, SourcesInv, Holding, NothingPanics
    <3> QED
      BY <1>4, <2>5, <3>1 DEF EndLabels
  <2> QED
    BY <1>5, <2>1, <2>2, <2>3, <2>4, <2>5 DEF Acquire
<1>6. ASSUME NEW t \in Thread, EndCopy(t)
      PROVE  LoopInv'
  BY <1>4, <1>6 DEF EndCopy
<1>7. ASSUME NEW t \in Thread, EndLookup(t)
      PROVE  LoopInv'
  <2> DEFINE h == HcOf(t)
  <2>1. OwnLoop(h) /\ (IsTimer(t) => t = ClosureOf(h)) /\ (~IsTimer(t) => t = WorkerOf(h))
    BY PairFacts, OwnLoops
  <2>2. h \in Dispensable \/ (phase[t] = "decide" /\ ~IsTimer(t))
    BY <1>7, <2>1 DEF EndLookup, OwnLoop
  <2>3. IsTimer(t) => phase[t] = "error"
    BY <1>7, <2>1 DEF EndLookup, OwnLoop
  <2>4. PICK l \in {"idle", "parse", "lookup"}, p \in {"none", "workflow", "stop"} :
          /\ Goto(t, l, p)
          /\ p = "stop" => phase[t] = "cancel"
          /\ phase[t] # "stop" => UNCHANGED armed
    BY <1>7 DEF EndLookup, Stop
  <2>5. /\ UNCHANGED <<RepeatTimersByName, queue>>
        /\ armed' = armed \/ armed' = armed \ {h}
    BY <1>7 DEF EndLookup
  <2>6. Apart(h)
    BY <2>4, <2>5, IsApart
  <2> HIDE DEF h
  <2>7. h \notin Dispensable => ~IsTimer(t) /\ UNCHANGED timers
    BY <2>2, <2>4, <2>5 DEF timers
  <2>8. (IsTimer(t) => p # "stop") /\ (~IsTimer(t) /\ p = "stop" => h \in Dispensable)
    BY <2>2, <2>3, <2>4
  <2> QED
    BY <2>4, <2>6, <2>7, <2>8, LoopMove DEF h
<1>8. ASSUME NEW t \in Thread, Watch(t)
      PROVE  LoopInv'
  <2>1. PICK l \in {"idle", "parse", "arm", "lookup"}, p \in {"none", "remedy", "workflow", "error"} :
          /\ Goto(t, l, p)
          /\ l \in {"idle", "lookup"} => HcOf(t) \in Dispensable
          /\ l = "lookup" => p = "error"
    BY <1>8 DEF Watch, Stop
  <2>2. UNCHANGED timers /\ queue' \in {queue, queue \cup {HcOf(t)}}
    BY <1>8 DEF Watch
  <2>3. Apart(HcOf(t))
    BY <2>1, <2>2, IsApart DEF timers
  <2> QED
    BY <2>1, <2>2, <2>3, LoopMove
<1>9. ASSUME NEW t \in Thread, EndArm(t)
      PROVE  LoopInv'
  <2>1. /\ Goto(t, "idle", "none") /\ HcOf(t) \in armed' /\ UNCHANGED queue
        /\ armed' = armed \cup {HcOf(t)}
        /\ RepeatTimersByName' = RepeatTimersByName \cup {HcOf(t)}
    BY <1>9 DEF EndArm, Stop, NothingPanics
  <2>2. Apart(HcOf(t))
    BY <2>1, IsApart
  <2> QED
    BY <2>1, <2>2, LoopMove
<1>10. CASE UNCHANGED vars
  BY <1>10 DEF vars, timers, LoopInv
<1> QED
  BY <1>1, <1>2, <1>3, <1>5, <1>6, <1>7, <1>8, <1>9, <1>10 DEF Next, Work, Crash

\* So it always holds.
LEMMA LoopInvariant ==
  ASSUME ~Faulty, NothingPanics
  PROVE  Spec => []LoopInv
<1>1. Init => LoopInv
  BY DEF Init, LoopInv, Thread
<1> QED
  BY <1>1, LoopKept, LockTypes, SourcesInvariant, PTL DEF Spec

-----------------------------------------------------------------------------
(* The steps of the promise. *)

\* What such a step does to the claims, when it does not forget its HealthCheck.
LEMMA ChangesItsClaims ==
  ASSUME NEW h \in HealthCheck, Apart(h), h \notin Dispensable => Claims'[h] # {}
  PROVE  Facts!Changes(h)
<1>1. Wanted' = Wanted /\ (Wanted[h] <=> h \notin Dispensable)
  BY DEF Wanted
<1>2. Claims[h] \subseteq Facts!Claim /\ Claims'[h] \subseteq Facts!Claim
  BY OwnClaims, OwnClaimsPrimed
<1> QED
  BY <1>1, <1>2, OthersGoOn DEF Facts!Changes

\* A step of the decision.
LEMMA LookStep ==
  ASSUME NEW h \in HealthCheck, Apart(h), h \notin Dispensable => Claims'[h] # {},
         h \in queue \/ Deciding(h), RunGoesOn(h) => RunGoesOn(h)',
         \/ h \in armed' <=> h \in armed
         \/ h \in Dispensable /\ h \notin armed' /\ (RunGoesOn(h)' => RunGoesOn(h))
  PROVE  Promise!Look(h)
<1>1. Facts!Changes(h)
  BY ChangesItsClaims
<1>2. /\ "told" \in Claims[h] /\ ("run" \in Claims[h] => "run" \in Claims'[h])
      /\ \/ "timer" \in Claims'[h] <=> "timer" \in Claims[h]
         \/ ~Wanted[h] /\ "timer" \notin Claims'[h]
              /\ ("run" \in Claims'[h] => "run" \in Claims[h])
  BY OwnClaims, OwnClaimsPrimed DEF Wanted
<1>3. Facts!Look(h)
  BY <1>1, <1>2, Facts!LookIf
<1> QED
  BY <1>3 DEF Facts!Look, Promise!Look, Facts!Becomes, Promise!Becomes

\* A step of a run, also one that waits for the lock or gets it: it goes on, or
\* has armed the timer, or its HealthCheck may be deleted.
LEMMA WorkStep ==
  ASSUME TypeOK, NEW t \in Thread, NEW l, NEW p, Goto(t, l, p), Apart(HcOf(t)),
         pc[t] # "idle", IsTimer(t) \/ ~Deciding(HcOf(t)),
         HcOf(t) \in queue => HcOf(t) \in queue',
         HcOf(t) \in armed => HcOf(t) \in armed',
         HcOf(t) \in Dispensable \/ HcOf(t) \in armed' \/ l # "idle"
  PROVE  Promise!Work(HcOf(t))
<1> DEFINE h == HcOf(t)
           w == WorkerOf(h)
           c == ClosureOf(h)
<1>1. /\ h \in HealthCheck /\ w \in Thread /\ c \in Thread /\ w # c
      /\ IsTimer(t) => t = c
      /\ ~IsTimer(t) => t = w
  BY PairFacts
<1>2. /\ pc'[t] = l /\ phase'[t] = p
      /\ \A u \in Thread : u # t => pc'[u] = pc[u] /\ phase'[u] = phase[u]
  BY ThreadGoes
<1>3. RunGoesOn(h)
  BY <1>1, OwnClaims
<1>4. Deciding(h) => Deciding(h)'
  BY <1>1, <1>2, OwnClaims, OwnClaimsPrimed
<1>5. h \notin Dispensable => Claims'[h] # {}
  <2>1. CASE h \in armed'
    BY <1>1, <2>1, OwnClaimsPrimed
  <2>2. CASE l # "idle"
    <3>1. RunGoesOn(h)' \/ Deciding(h)'
      BY <1>1, <1>2, <2>2, OwnClaimsPrimed
    <3> QED
      BY <1>1, <3>1, OwnClaimsPrimed
  <2> QED
    BY <2>1, <2>2
<1> HIDE DEF h
<1>6. Facts!Changes(h)
  BY <1>1, <1>5, ChangesItsClaims DEF h
<1>7. /\ "run" \in Claims[h]
      /\ \A x \in {"told", "timer"} : x \in Claims[h] => x \in Claims'[h]
  BY <1>1, <1>3, <1>4, OwnClaims, OwnClaimsPrimed DEF h
<1>8. Facts!Work(h)
  BY <1>1, <1>6, <1>7, Facts!WorkIf
<1>9. Promise!Work(h)
  BY <1>8 DEF Facts!Work, Promise!Work, Facts!Becomes, Promise!Becomes
<1> QED
  BY <1>9 DEF h

\* A worker takes a key from the queue.
LEMMA StartIsLook ==
  ASSUME ~Faulty, TypeOK, NEW h \in HealthCheck, Start(h)
  PROVE  Promise!Look(h)
<1> DEFINE t == WorkerOf(h)
           c == ClosureOf(h)
<1>1. t \in Thread /\ HcOf(t) = h /\ c \in Thread /\ c # t
  BY PairFacts
<1>2. /\ h \in queue /\ pc[t] = "idle" /\ UNCHANGED timers
      /\ queue' = queue \/ queue' = queue \ {h}
      /\ \/ \E l \in {"lookup", "parse"}, p \in Phases : Goto(t, l, p)
         \/ h \in Dispensable /\ UNCHANGED <<pc, phase>>
  BY DEF Start, WorkerOf, Phases
<1> HIDE DEF t, c
<1>3. CASE \E l \in {"lookup", "parse"}, p \in Phases : Goto(t, l, p)
  <2>1. PICK l \in {"lookup", "parse"}, p \in Phases : Goto(t, l, p)
    BY <1>3
  <2>2. Apart(h)
    BY <1>1, <1>2, <2>1, IsApart DEF timers
  <2>3. pc'[t] = l /\ pc'[c] = pc[c]
    BY <1>1, <2>1, ThreadGoes
  <2>4. RunGoesOn(h)' \/ Deciding(h)'
    BY <2>3, OwnClaimsPrimed DEF t
  <2>5. Claims'[h] # {}
    BY <2>4, OwnClaimsPrimed
  <2>6. RunGoesOn(h) => RunGoesOn(h)'
    BY <1>2, <2>3, OwnClaims, OwnClaimsPrimed DEF t, c
  <2> QED
    BY <1>2, <2>2, <2>5, <2>6, LookStep DEF timers
<1>4. CASE h \in Dispensable /\ UNCHANGED <<pc, phase>>
  <2>1. Apart(h)
    BY <1>2, <1>4 DEF Apart, timers
  <2>2. RunGoesOn(h) => RunGoesOn(h)'
    BY <1>4, OwnClaims, OwnClaimsPrimed
  <2> QED
    BY <1>2, <1>4, <2>1, <2>2, LookStep DEF timers
<1> QED
  BY <1>2, <1>3, <1>4

\* A timer fires.
LEMMA FireIsFire ==
  ASSUME ~Faulty, TypeOK, NEW h \in HealthCheck, Fire(h)
  PROVE  Promise!Fire(h)
<1> DEFINE t == ClosureOf(h)
           w == WorkerOf(h)
<1>1. t \in Thread /\ HcOf(t) = h /\ w \in Thread /\ w # t
  BY PairFacts
<1>2. /\ h \in armed /\ pc[t] = "idle" /\ armed' = armed \ {h}
      /\ UNCHANGED <<queue, RepeatTimersByName>>
      /\ \/ Goto(t, "parse", "workflow")
         \/ h \in Dispensable /\ UNCHANGED <<pc, phase>>
  BY DEF Fire, ClosureOf
<1> HIDE DEF t, w
<1>3. Apart(h)
  <2>1. CASE Goto(t, "parse", "workflow")
    BY <1>1, <1>2, <2>1, IsApart
  <2>2. CASE UNCHANGED <<pc, phase>>
    BY <1>2, <2>2 DEF Apart
  <2> QED
    BY <1>2, <2>1, <2>2
<1>4. /\ pc'[w] = pc[w] /\ phase'[w] = phase[w]
      /\ h \in Dispensable \/ pc'[t] = "parse"
  BY <1>1, <1>2, ThreadGoes
<1>5. (Deciding(h)' <=> Deciding(h)) /\ (RunGoesOn(h) => RunGoesOn(h)')
        /\ (h \in Dispensable \/ RunGoesOn(h)')
  BY <1>2, <1>4, OwnClaims, OwnClaimsPrimed DEF t, w
<1>6. h \notin Dispensable => Claims'[h] # {}
  BY <1>5, OwnClaimsPrimed
<1>7. Facts!Changes(h)
  BY <1>3, <1>6, ChangesItsClaims
<1>8. /\ "timer" \in Claims[h] /\ "timer" \notin Claims'[h]
      /\ "told" \in Claims'[h] <=> "told" \in Claims[h]
      /\ "run" \in Claims[h] => "run" \in Claims'[h]
  BY <1>2, <1>5, OwnClaims, OwnClaimsPrimed
<1>9. Facts!Fire(h)
  BY <1>7, <1>8, Facts!FireIf
<1> QED
  BY <1>9 DEF Facts!Fire, Promise!Fire, Facts!Becomes, Promise!Becomes

\* An event asks the controller to look.
LEMMA TouchIsAsk ==
  ASSUME TypeOK, NEW h \in HealthCheck, Touch(h)
  PROVE  Promise!Ask(h)
<1>1. queue' = queue \cup {h} /\ UNCHANGED <<armed, RepeatTimersByName, pc, phase>>
  BY DEF Touch, timers
<1>2. Claims' = [Claims EXCEPT ![h] = Claims'[h]]
  BY <1>1, OthersGoOn DEF Apart
<1>3. Claims'[h] = Claims[h] \cup {"told"}
  <2>1. \A x \in Facts!Claim : x \in Claims'[h] <=> x \in Claims[h] \cup {"told"}
    BY <1>1, OwnClaims, OwnClaimsPrimed DEF Facts!Claim
  <2>2. Claims'[h] \in SUBSET Facts!Claim /\ Claims[h] \cup {"told"} \in SUBSET Facts!Claim
    BY OwnClaims, OwnClaimsPrimed DEF Facts!Claim
  <2> QED
    BY <2>1, <2>2, Facts!SameClaims
<1>4. Wanted' = [Wanted EXCEPT ![h] = Wanted[h]] /\ Wanted[h] \in BOOLEAN
  BY DEF Wanted
<1> QED
  BY <1>2, <1>3, <1>4 DEF Promise!Ask

\* A worker that decides looks for the timer: the promise does not see it.
LEMMA LookupIsStutter ==
  ASSUME TypeOK, NEW t \in Thread, BeginLookup(t), ~IsTimer(t), Deciding(HcOf(t))
  PROVE  UNCHANGED Promise!vars
<1> DEFINE h == HcOf(t)
<1>1. h \in HealthCheck /\ t = WorkerOf(h) /\ ClosureOf(h) \in Thread /\ ClosureOf(h) # t
  BY PairFacts
<1>2. Goto(t, "looking", phase[t]) /\ UNCHANGED <<queue, timers>>
  BY DEF BeginLookup
<1>3. Apart(h)
  BY <1>2, IsApart DEF timers
<1>4. /\ pc'[t] = "looking" /\ phase'[t] = phase[t]
      /\ pc'[ClosureOf(h)] = pc[ClosureOf(h)]
  BY <1>1, <1>2, ThreadGoes
<1>5. Deciding(h)' /\ (RunGoesOn(h)' <=> RunGoesOn(h))
  BY <1>1, <1>4, OwnClaims, OwnClaimsPrimed
<1> HIDE DEF h
<1>6. Claims'[h] = Claims[h]
  <2>1. \A x \in Facts!Claim : x \in Claims'[h] <=> x \in Claims[h]
    BY <1>1, <1>2, <1>5, OwnClaims, OwnClaimsPrimed DEF Facts!Claim, timers, h
  <2>2. Claims'[h] \in SUBSET Facts!Claim /\ Claims[h] \in SUBSET Facts!Claim
    BY <1>1, OwnClaims, OwnClaimsPrimed
  <2> QED
    BY <2>1, <2>2, Facts!SameClaims
<1>7. Claims' = Claims
  <2>1. Claims' = [Claims EXCEPT ![h] = Claims'[h]]
    BY <1>1, <1>3, OthersGoOn
  <2>2. Claims = [g \in HealthCheck |-> Claims[g]]
    BY DEF Claims
  <2> QED
    BY <1>6, <2>1, <2>2
<1>8. Wanted' = Wanted
  BY DEF Wanted
<1> QED
  BY <1>7, <1>8 DEF Promise!vars

\* The decision ends: there is a timer, and it goes on; or a run starts; or the
\* timer of a HealthCheck that is deleted is stopped.
LEMMA DecisionIsLook ==
  ASSUME TypeOK, LoopInv, NEW t \in Thread, EndLookup(t), ~IsTimer(t), Deciding(HcOf(t))
  PROVE  Promise!Look(HcOf(t))
<1> DEFINE h == HcOf(t)
           c == ClosureOf(h)
<1>1. h \in HealthCheck /\ t = WorkerOf(h) /\ c \in Thread /\ c # t
  BY PairFacts
<1>2. OwnLoop(h)
  BY <1>1, OwnLoops
<1>3. PICK l \in {"idle", "parse", "lookup"}, p \in {"none", "workflow", "stop"} :
        /\ Goto(t, l, p)
        /\ p = "stop" => l = "lookup"
        /\ l = "lookup" => p = "stop" /\ phase[t] = "cancel"
        /\ \/ phase[t] = "decide" /\ h \in RepeatTimersByName /\ l = "idle" /\ UNCHANGED armed
           \/ phase[t] = "decide" /\ l = "parse" /\ UNCHANGED armed
           \/ phase[t] = "cancel" /\ UNCHANGED armed
           \/ phase[t] = "stop" /\ l = "idle" /\ armed' = armed \ {h}
  BY OwnClaims, <1>1 DEF EndLookup, Stop, Found
<1>4. /\ UNCHANGED <<RepeatTimersByName, queue>>
      /\ armed' = armed \/ armed' = armed \ {h}
  BY DEF EndLookup
<1>5. Apart(h)
  BY <1>3, <1>4, IsApart
<1>6. pc'[t] = l /\ phase'[t] = p /\ pc'[c] = pc[c]
  BY <1>1, <1>3, ThreadGoes
<1>7. RunGoesOn(h) <=> pc[c] # "idle"
  BY <1>1, OwnClaims
<1>8. pc[c] # "idle" => RunGoesOn(h)'
  BY <1>1, <1>6, OwnClaimsPrimed
<1>9. h \notin Dispensable => h \in armed' \/ RunGoesOn(h)'
  <2>1. ASSUME h \notin Dispensable
        PROVE  phase[t] \notin {"cancel", "stop"}
    BY <1>1, <1>2, <2>1 DEF OwnLoop
  <2>2. CASE h \in RepeatTimersByName /\ UNCHANGED armed
    BY <1>2, <1>8, <2>2 DEF OwnLoop
  <2>3. CASE l = "parse"
    BY <1>1, <1>6, <2>3, OwnClaimsPrimed
  <2> QED
    BY <1>3, <2>1, <2>2, <2>3
<1>10. ASSUME phase[t] = "stop"
       PROVE  h \in Dispensable /\ h \notin armed' /\ (RunGoesOn(h)' => RunGoesOn(h))
  BY <1>1, <1>2, <1>3, <1>6, <1>7, <1>10, OwnClaimsPrimed DEF OwnLoop
<1> HIDE DEF h, c
<1>11. h \notin Dispensable => Claims'[h] # {}
  BY <1>1, <1>9, OwnClaimsPrimed
<1>12. \/ h \in armed' <=> h \in armed
       \/ h \in Dispensable /\ h \notin armed' /\ (RunGoesOn(h)' => RunGoesOn(h))
  BY <1>3, <1>10
<1>13. Deciding(h) /\ (RunGoesOn(h) => RunGoesOn(h)')
  BY <1>7, <1>8 DEF h
<1>14. Promise!Look(h)
  BY <1>1, <1>5, <1>11, <1>12, <1>13, LookStep
<1> QED
  BY <1>14 DEF h

\* A step of a thread that has decided: it waits for the lock, is in a section,
\* parses, creates, polls, writes or arms.
LEMMA RunIsWork ==
  ASSUME ~Faulty, NothingPanics, TypeOK, SourcesInv, LoopInv,
         NEW t \in Thread, Acquire(t) \/ Work(t),
         IsTimer(t) \/ ~Deciding(HcOf(t))
  PROVE  Promise!Work(HcOf(t))
<1>1. ASSUME NEW l, NEW p, Goto(t, l, p), pc[t] # "idle",
             queue' \in {queue, queue \cup {HcOf(t)}},
             armed' \in {armed, armed \cup {HcOf(t)}},
             RepeatTimersByName' \in {RepeatTimersByName, RepeatTimersByName \cup {HcOf(t)}},
             HcOf(t) \in Dispensable \/ HcOf(t) \in armed' \/ l # "idle"
      PROVE  Promise!Work(HcOf(t))
  <2>1. Apart(HcOf(t))
    BY <1>1, IsApart
  <2> QED
    BY <1>1, <2>1, WorkStep
<1>2. CASE BeginLookup(t)
  BY <1>1, <1>2 DEF BeginLookup, timers
<1>3. CASE BeginCopy(t)
  BY <1>1, <1>3 DEF BeginCopy, timers
<1>4. CASE BeginLock(t)
  <2>1. PICK l \in {"labelWait", "labelling", "armWait", "arming"} : Goto(t, l, phase[t])
    BY <1>4 DEF BeginLock
  <2> QED
    BY <1>1, <1>4, <2>1 DEF BeginLock, timers
<1>5. CASE EndLookup(t)
  <2>1. HcOf(t) \in HealthCheck /\ (IsTimer(t) => t = ClosureOf(HcOf(t)))
          /\ (~IsTimer(t) => t = WorkerOf(HcOf(t)))
    BY PairFacts
  <2>2. OwnLoop(HcOf(t))
    BY <2>1, OwnLoops
  <2>3. phase[t] = "error"
    BY <1>5, <2>1, <2>2, OwnClaims DEF EndLookup, OwnLoop
  <2>4. HcOf(t) \in Dispensable
    BY <1>5, <2>1, <2>2, <2>3 DEF EndLookup, OwnLoop
  <2> QED
    BY <1>1, <1>5, <2>3, <2>4 DEF EndLookup, Stop
<1>6. CASE Parse(t)
  <2>1. PICK l \in {"create", "label"} : Goto(t, l, phase[t])
    BY <1>6 DEF Parse
  <2> QED
    BY <1>1, <1>6, <2>1 DEF Parse, timers
<1>7. CASE EndLabels(t)
  <2>1. content[t].doc # "empty"
    BY <1>7, ThreadFacts DEF EndLabels, SourcesInv, Holding, NothingPanics
  <2> QED
    BY <1>1, <1>7, <2>1 DEF EndLabels, timers
<1>8. CASE EndCopy(t)
  BY <1>1, <1>8 DEF EndCopy, timers
<1>9. CASE Watch(t)
  <2>1. PICK l \in {"idle", "parse", "arm", "lookup"}, p \in Phases :
          Goto(t, l, p) /\ (l = "idle" => HcOf(t) \in Dispensable)
    BY <1>9 DEF Watch, Stop, Phases
  <2> QED
    BY <1>1, <1>9, <2>1 DEF Watch, timers
<1>10. CASE EndArm(t)
  BY <1>1, <1>10 DEF EndArm, Stop, NothingPanics
<1> QED
  BY <1>2, <1>3, <1>4, <1>5, <1>6, <1>7, <1>8, <1>9, <1>10 DEF Acquire, Work

\* At the start every key is in the queue.
LEMMA PromiseInit == Init => Promise!Init
<1> SUFFICES ASSUME Init PROVE Promise!Init
  OBVIOUS
<1>1. Wanted \in [HealthCheck -> BOOLEAN]
  BY DEF Wanted
<1>2. ASSUME NEW h \in HealthCheck
      PROVE  Claims[h] = {"told"}
  <2>1. h \in queue /\ h \notin armed /\ pc[WorkerOf(h)] = "idle" /\ pc[ClosureOf(h)] = "idle"
    BY PairFacts DEF Init
  <2>2. \A x \in Facts!Claim : x \in Claims[h] <=> x \in {"told"}
    BY <2>1, OwnClaims DEF Facts!Claim
  <2>3. Claims[h] \in SUBSET Facts!Claim /\ {"told"} \in SUBSET Facts!Claim
    BY OwnClaims DEF Facts!Claim
  <2> QED
    BY <2>2, <2>3, Facts!SameClaims
<1>3. Claims = [g \in HealthCheck |-> Claims[g]]
  BY DEF Claims
<1> QED
  BY <1>1, <1>2, <1>3 DEF Promise!Init

\* Every step is one of the promise, or is not seen there.
LEMMA PromiseNext ==
  ASSUME ~Faulty, NothingPanics, TypeOK, SourcesInv, LoopInv, [Next]_vars
  PROVE  [Promise!Next]_(Promise!vars)
<1>1. ASSUME NEW h \in HealthCheck, Start(h) \/ Fire(h) \/ Touch(h)
      PROVE  [Promise!Next]_(Promise!vars)
  BY <1>1, StartIsLook, FireIsFire, TouchIsAsk DEF Promise!Next
<1>2. ASSUME NEW t \in Thread, Acquire(t) \/ Work(t)
      PROVE  [Promise!Next]_(Promise!vars)
  <2>1. HcOf(t) \in HealthCheck
    BY PairFacts
  <2>2. CASE IsTimer(t) \/ ~Deciding(HcOf(t))
    BY <1>2, <2>1, <2>2, RunIsWork DEF Promise!Next
  <2>3. CASE ~IsTimer(t) /\ Deciding(HcOf(t))
    <3>1. pc[t] \in {"lookup", "looking"}
      BY <2>1, <2>3, PairFacts, OwnClaims
    <3>2. BeginLookup(t) \/ EndLookup(t)
      BY <1>2, <3>1 DEF Acquire, Work, BeginCopy, BeginLock, Parse, EndLabels, EndCopy,
         Watch, EndArm
    <3> QED
      BY <2>1, <2>3, <3>2, LookupIsStutter, DecisionIsLook DEF Promise!Next
  <2> QED
    BY <2>2, <2>3
<1>3. CASE UNCHANGED vars
  <2>1. UNCHANGED <<queue, armed, pc, phase>>
    BY <1>3 DEF vars, timers
  <2>2. \A h \in HealthCheck :
          (Deciding(h)' <=> Deciding(h)) /\ (RunGoesOn(h)' <=> RunGoesOn(h))
    BY <2>1, OwnClaims, OwnClaimsPrimed
  <2>3. Claims' = Claims /\ Wanted' = Wanted
    BY <2>1, <2>2 DEF Claims, Wanted
  <2> QED
    BY <2>3 DEF Promise!vars
<1> QED
  BY <1>1, <1>2, <1>3 DEF Next, Crash

\* The module of the lock implements PeriodicCheck too, when no call fails and
\* no section panics: whatever the threads wait for, who is not deleted is never
\* forgotten.
THEOREM PromiseIsKept ==
  ASSUME ~Faulty, NothingPanics
  PROVE  Spec => KeepsThePromise
<1>1. Init => Promise!Init
  BY PromiseInit
<1>2. TypeOK /\ SourcesInv /\ LoopInv /\ [Next]_vars => [Promise!Next]_(Promise!vars)
  BY PromiseNext
<1> QED
  BY <1>1, <1>2, LockTypes, SourcesInvariant, LoopInvariant, PTL
     DEF Spec, KeepsThePromise, Promise!Spec

=============================================================================
