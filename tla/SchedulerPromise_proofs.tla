---------------------- MODULE SchedulerPromise_proofs ----------------------
(***************************************************************************)
(* HealthCheckScheduler implements PeriodicCheck, for any number of         *)
(* HealthChecks, closures, specs and workers, in a reliable environment.   *)
(***************************************************************************)
EXTENDS HealthCheckScheduler_proofs

\* What is proved of PeriodicCheck, about the claims of this module.
Facts == INSTANCE PeriodicCheck_proofs WITH wanted <- Wanted, claims <- Claims

\* What is in Claims.
LEMMA ClaimsOf ==
  ASSUME NEW h \in HealthCheck
  PROVE  /\ Claims[h] \subseteq {"told", "timer", "run"}
         /\ "told" \in Claims[h] <=> Told(h)
         /\ "timer" \in Claims[h] <=> TimerArmed(h)
         /\ "run" \in Claims[h] <=> RunGoesOn(h)
BY DEF Claims

\* The same in the next state.
LEMMA ClaimsOfPrimed ==
  ASSUME NEW h \in HealthCheck
  PROVE  /\ Claims'[h] \subseteq {"told", "timer", "run"}
         /\ "told" \in Claims'[h] <=> Told(h)'
         /\ "timer" \in Claims'[h] <=> TimerArmed(h)'
         /\ "run" \in Claims'[h] <=> RunGoesOn(h)'
BY DEF Claims

\* What is wanted and has its next run guaranteed has a claim.
LEMMA NotForgotten ==
  ASSUME ReliableInv', NEW h \in HealthCheck, Wanted'[h]
  PROVE  Claims'[h] # {}
<1>1. h \in queue' \/ pc'[h] # "idle" \/ HelpersOf(h)' # {}
  BY DEF ReliableInv, NextRunGuaranteed, Wanted
<1>2. CASE h \in queue'
  BY <1>2, ClaimsOfPrimed DEF Told
<1>3. CASE pc'[h] # "idle"
  BY <1>3, ClaimsOfPrimed DEF Told, RunGoesOn
<1>4. CASE HelpersOf(h)' # {}
  BY <1>4, ClaimsOfPrimed DEF TimerArmed, RunGoesOn
<1> QED
  BY <1>1, <1>2, <1>3, <1>4

\* A step of the threads of h only.
Apart(h) ==
  /\ \A g \in HealthCheck \ {h} : g \in queue' <=> g \in queue
  /\ \A t \in Thread : Hc(t) # h => pc'[t] = pc[t]

\* Such a step leaves the claims of the others alone.
LEMMA OthersClaim ==
  ASSUME NEW h \in HealthCheck, Apart(h)
  PROVE  Claims' = [Claims EXCEPT ![h] = Claims'[h]]
<1>1. ASSUME NEW g \in HealthCheck, g # h
      PROVE  Claims'[g] = Claims[g]
  <2>1. pc'[g] = pc[g] /\ HelpersOf(g)' = HelpersOf(g)
    BY <1>1, ThreadsAreDistinct DEF Apart, HelpersOf, Hc
  <2>2. \A c \in HelpersOf(g) : pc'[c] = pc[c]
    BY <1>1, ThreadsAreDistinct DEF Apart, HelpersOf
  <2>3. /\ Told(g)' <=> Told(g)
        /\ TimerArmed(g)' <=> TimerArmed(g)
        /\ RunGoesOn(g)' <=> RunGoesOn(g)
    BY <1>1, <2>1, <2>2 DEF Apart, Told, TimerArmed, RunGoesOn
  <2> QED
    BY <2>3, ClaimsOf, ClaimsOfPrimed
<1>2. /\ Claims = [g \in HealthCheck |-> Claims[g]]
      /\ Claims' = [g \in HealthCheck |-> Claims'[g]]
  BY DEF Claims
<1> QED
  BY <1>1, <1>2

\* It gives h its new claims, and h is not forgotten.
LEMMA ChangesItsClaims ==
  ASSUME ReliableInv', NEW h \in HealthCheck, Apart(h), UNCHANGED <<obj, spec>>
  PROVE  Facts!Changes(h)
<1>1. Wanted' = Wanted
  BY DEF Wanted, Live, Periodic
<1>2. Wanted[h] => Claims'[h] # {}
  BY <1>1, NotForgotten
<1>3. Claims[h] \subseteq Facts!Claim /\ Claims'[h] \subseteq Facts!Claim
  BY ClaimsOf, ClaimsOfPrimed DEF Facts!Claim
<1> QED
  BY <1>1, <1>2, <1>3, OthersClaim DEF Facts!Changes

-----------------------------------------------------------------------------
(* The steps of the promise, by what happens to the claims of h. *)

\* A step of the controller's decision: only "told" may go, unless h is not
\* wanted any more.
LEMMA LookStep ==
  ASSUME ReliableInv', NEW h \in HealthCheck, Apart(h), UNCHANGED <<obj, spec>>,
         Told(h), RunGoesOn(h) => RunGoesOn(h)',
         \/ TimerArmed(h)' <=> TimerArmed(h)
         \/ ~Wanted[h] /\ ~TimerArmed(h)' /\ (RunGoesOn(h)' => RunGoesOn(h))
  PROVE  Promise!Look(h)
<1>1. Facts!Changes(h)
  BY ChangesItsClaims
<1>2. /\ "told" \in Claims[h] /\ ("run" \in Claims[h] => "run" \in Claims'[h])
      /\ \/ "timer" \in Claims'[h] <=> "timer" \in Claims[h]
         \/ ~Wanted[h] /\ "timer" \notin Claims'[h]
              /\ ("run" \in Claims'[h] => "run" \in Claims[h])
  BY ClaimsOf, ClaimsOfPrimed
<1>3. Facts!Look(h)
  BY <1>1, <1>2, Facts!LookIf
<1> QED
  BY <1>3 DEF Facts!Look, Promise!Look, Facts!Becomes, Promise!Becomes

\* A step of a run: "told" and "timer" are not lost.
LEMMA WorkStep ==
  ASSUME ReliableInv', NEW h \in HealthCheck, Apart(h), UNCHANGED <<obj, spec>>,
         RunGoesOn(h), Told(h) => Told(h)', TimerArmed(h) => TimerArmed(h)'
  PROVE  Promise!Work(h)
<1>1. Facts!Changes(h)
  BY ChangesItsClaims
<1>2. /\ "run" \in Claims[h]
      /\ \A x \in {"told", "timer"} : x \in Claims[h] => x \in Claims'[h]
  BY ClaimsOf, ClaimsOfPrimed
<1>3. Facts!Work(h)
  BY <1>1, <1>2, Facts!WorkIf
<1> QED
  BY <1>3 DEF Facts!Work, Promise!Work, Facts!Becomes, Promise!Becomes

\* The only armed timer of h fires.
LEMMA FireStepOf ==
  ASSUME ReliableInv', NEW h \in HealthCheck, Apart(h), UNCHANGED <<obj, spec>>,
         TimerArmed(h), ~TimerArmed(h)', Told(h)' <=> Told(h),
         RunGoesOn(h) => RunGoesOn(h)'
  PROVE  Promise!Fire(h)
<1>1. Facts!Changes(h)
  BY ChangesItsClaims
<1>2. /\ "timer" \in Claims[h] /\ "timer" \notin Claims'[h]
      /\ "told" \in Claims'[h] <=> "told" \in Claims[h]
      /\ "run" \in Claims[h] => "run" \in Claims'[h]
  BY ClaimsOf, ClaimsOfPrimed
<1>3. Facts!Fire(h)
  BY <1>1, <1>2, Facts!FireIf
<1> QED
  BY <1>3 DEF Facts!Fire, Promise!Fire, Facts!Becomes, Promise!Becomes

-----------------------------------------------------------------------------
(* The steps of the code. *)

\* Workers that decide.
LEMMA DecisionIsLook ==
  ASSUME ReliableInv, ReliableInv', NEW h \in HealthCheck,
         Decide(h) \/ RecordStopped(h)
  PROVE  Promise!Look(h)
<1> USE ThreadsAreDistinct, ReliableTypes
<1>1. /\ pc[h] \in Deciding /\ UNCHANGED <<obj, spec>> /\ Hc(h) = h
      /\ queue' = queue \/ queue' = queue \cup {h}
      /\ \A u \in Thread \ {h} : pc'[u] = pc[u]
  BY DEF Decide, RecordStopped, Return, Fail, Finished, Idle, Goto, api, Deciding, Hc
<1>2. Apart(h)
  BY <1>1 DEF Apart
<1>3. HelpersOf(h)' = HelpersOf(h) /\ \A c \in HelpersOf(h) : pc'[c] = pc[c]
  BY <1>1 DEF HelpersOf
<1>4. Told(h) /\ (RunGoesOn(h) => RunGoesOn(h)') /\ (TimerArmed(h)' <=> TimerArmed(h))
  BY <1>1, <1>3 DEF Told, RunGoesOn, TimerArmed, Deciding
<1> QED
  BY <1>1, <1>2, <1>4, LookStep

\* The timer of a HealthCheck that is gone is stopped.
LEMMA CancelIsLook ==
  ASSUME Reliable, ReliableInv, ReliableInv', NEW h \in HealthCheck, Cancel(h)
  PROVE  Promise!Look(h)
<1> USE ThreadsAreDistinct, ReliableTypes
<1> DEFINE over == {h} \cup Running(NameOf[h])
<1>1. pc[h] = "cancel" /\ ~Live(h)
  BY OwnInvs DEF Cancel, OwnInv, WorkerCurrent
<1>2. \A u \in over : Hc(u) = h /\ (u # h => pc[u] = "armed")
  BY EntriesAreOwn DEF Hc
<1>3. /\ UNCHANGED <<obj, spec, queue>>
      /\ \A u \in Thread : u \in over => pc'[u] = "idle"
      /\ \A u \in Thread \ over : pc'[u] = pc[u]
  BY <1>1 DEF Cancel, IgnoreNotFound, api
<1>4. Apart(h)
  BY <1>2, <1>3 DEF Apart
<1>5. \A c \in Helper : HcOf[c] = h /\ pc[c] = "armed" => c \in over
  BY DEF TimersInv, EveryArmedTimerIsRegistered, Running
<1>6. ~TimerArmed(h)'
  BY <1>3, <1>5 DEF TimerArmed, HelpersOf
<1>7. \A c \in Helper : HcOf[c] = h /\ pc[c] # "armed" => pc'[c] = pc[c]
  BY <1>2, <1>3
<1>8. RunGoesOn(h)' <=> RunGoesOn(h)
  BY <1>1, <1>3, <1>6, <1>7 DEF RunGoesOn, HelpersOf, TimerArmed, Deciding
<1>9. Told(h) /\ ~Wanted[h]
  BY <1>1 DEF Told, Deciding, Wanted
<1> QED
  BY <1>3, <1>4, <1>6, <1>8, <1>9, LookStep

\* A timer fires: h has no other one.
LEMMA FireIsFire ==
  ASSUME ReliableInv, ReliableInv', NEW c \in Helper, Fire(c)
  PROVE  Promise!Fire(HcOf[c])
<1> USE ThreadsAreDistinct, ReliableTypes
<1> DEFINE h == HcOf[c]
<1>1. /\ h \in HealthCheck /\ Hc(c) = h /\ pc[c] = "armed" /\ UNCHANGED <<obj, spec, queue>>
      /\ \A u \in Thread \ {c} : pc'[u] = pc[u]
      /\ pc'[c] \in {"submit", "idle"}
  BY DEF Fire, Goto, Idle, api
<1>2. Apart(h)
  BY <1>1 DEF Apart
<1>3. \A d \in Helper : HcOf[d] = h /\ pc[d] = "armed" => d = c
  BY <1>1 DEF TimersInv, EveryArmedTimerIsRegistered
<1>4. TimerArmed(h) /\ ~TimerArmed(h)'
  BY <1>1, <1>3 DEF TimerArmed, HelpersOf
<1>5. pc'[h] = pc[h] /\ c # h
  BY <1>1
<1>6. (Told(h)' <=> Told(h)) /\ (RunGoesOn(h) => RunGoesOn(h)')
  BY <1>1, <1>5 DEF Told, RunGoesOn, HelpersOf
<1> HIDE DEF h
<1>7. Promise!Fire(h)
  BY <1>1, <1>2, <1>4, <1>6, FireStepOf
<1> QED
  BY <1>7 DEF h

\* A thread at work, between the submission and the timer.
LEMMA RunIsWork ==
  ASSUME ReliableInv, ReliableInv', NEW t \in Thread,
         pc[t] \notin Deciding \cup {"idle", "armed"}, UNCHANGED <<obj, spec>>,
         queue \subseteq queue', queue' \subseteq queue \cup {Hc(t)},
         \A u \in Thread \ {t} : pc'[u] = pc[u]
  PROVE  Promise!Work(Hc(t))
<1> USE ThreadsAreDistinct, ReliableTypes
<1> DEFINE h == Hc(t)
<1>1. h \in HealthCheck /\ h = Hc(t) /\ (t \notin Helper => t = h) /\ t \in {h} \cup Helper
  BY DEF Hc, Thread
<1> HIDE DEF h
<1>2. Apart(h)
  BY <1>1 DEF Apart
<1>3. RunGoesOn(h)
  BY <1>1 DEF RunGoesOn, HelpersOf, Deciding
<1>4. Told(h) => Told(h)'
  BY <1>1 DEF Told
<1>5. TimerArmed(h) => TimerArmed(h)'
  BY DEF TimerArmed, HelpersOf
<1>6. Promise!Work(h)
  BY <1>1, <1>2, <1>3, <1>4, <1>5, WorkStep
<1> QED
  BY <1>1, <1>6

\* A run ends with the timer of the next one armed, in place of the old one.
LEMMA ArmIsWork ==
  ASSUME Reliable, ReliableInv, ReliableInv', NEW t \in Thread, Arm(t)
  PROVE  Promise!Work(Hc(t))
<1> USE ThreadsAreDistinct, ReliableTypes
<1> DEFINE h == Hc(t)
           over == {t} \cup Running(NameOf[h])
<1>1. /\ h \in HealthCheck /\ h = Hc(t) /\ (t \notin Helper => t = h)
      /\ t \in {h} \cup Helper
      /\ pc[t] = "arm" /\ UNCHANGED <<obj, spec>>
      /\ queue' = queue \/ queue' = queue \cup {h}
  BY DEF Hc, Thread, Arm, Finished, api
<1>2. \A u \in over : Hc(u) = h /\ (u # t => u \in Helper)
  BY <1>1, EntriesAreOwn
<1>3. PICK c \in Helper :
        /\ HcOf[c] = h
        /\ pc' = [x \in Thread |-> IF x = c THEN "armed"
                                   ELSE IF x \in over THEN "idle" ELSE pc[x]]
  BY DEF Arm
<1>4. c # h /\ h \notin over \ {t}
  BY <1>1, <1>2
<1> HIDE DEF h, over
<1>5. Apart(h)
  BY <1>1, <1>2, <1>3 DEF Apart
<1>6. RunGoesOn(h)
  BY <1>1 DEF RunGoesOn, HelpersOf, Deciding
<1>7. Told(h) => Told(h)'
  BY <1>1, <1>3, <1>4 DEF Told, Deciding
<1>8. TimerArmed(h)'
  BY <1>3 DEF TimerArmed, HelpersOf
<1>9. Promise!Work(h)
  BY <1>1, <1>5, <1>6, <1>7, <1>8, WorkStep
<1> QED
  BY <1>1, <1>9

\* Every step of a run is one of the promise, or a panic that ends the process.
LEMMA RunStep ==
  ASSUME Reliable, ReliableInv, ReliableInv', NEW t \in Thread, Run(t), ~Restart
  PROVE  Promise!Work(Hc(t))
<1> USE ThreadsAreDistinct, ReliableTypes
<1>1. CASE Arm(t)
  BY <1>1, ArmIsWork
<1>2. CASE Submit(t) \/ Watch(t) \/ RunRemedy(t) \/ DeleteRemedyRBAC(t) \/ Persist(t)
  <2>1. pc[t] \notin Deciding \cup {"idle", "armed"}
    BY <1>2 DEF Submit, Watch, RunRemedy, DeleteRemedyRBAC, Persist, Deciding
  <2>2. t \notin Helper => t = Hc(t)
    BY DEF Hc
  <2>3. ASSUME Return(t) \/ Fail(t)
        PROVE  /\ Idle(t) /\ queue \subseteq queue' /\ queue' \subseteq queue \cup {Hc(t)}
    BY <2>2, <2>3 DEF Return, Fail, Finished
  <2>4. ASSUME Panic(t)
        PROVE  Idle(t) /\ UNCHANGED <<obj, spec, queue>>
    BY <2>4 DEF Panic, api
  <2>5. ASSUME WriteFinishedAt(t)
        PROVE  UNCHANGED <<obj, spec>> /\ queue' = queue \cup {Hc(t)}
    BY <2>5 DEF WriteFinishedAt
  <2>6. UNCHANGED <<obj, spec>> /\ queue \subseteq queue' /\ queue' \subseteq queue \cup {Hc(t)}
    BY <1>2, <2>3, <2>4, <2>5
       DEF Submit, Watch, RunRemedy, DeleteRemedyRBAC, Persist, api
  <2>7. \A u \in Thread \ {t} : pc'[u] = pc[u]
    BY <1>2, <2>3, <2>4
       DEF Submit, Watch, RunRemedy, DeleteRemedyRBAC, Persist, Goto, Idle
  <2> QED
    BY <2>1, <2>6, <2>7, RunIsWork
<1> QED
  BY <1>1, <1>2 DEF Run

\* After a restart what exists is looked at.
LEMMA RestartIsCrash ==
  ASSUME ReliableInv', Restart
  PROVE  Promise!Crash
<1> USE ThreadsAreDistinct
<1>1. ASSUME NEW h \in HealthCheck
      PROVE  Claims'[h] \in {{}, {"told"}}
  <2>1. HelpersOf(h)' = {} /\ pc'[h] = "idle"
    BY DEF Restart, HelpersOf
  <2>2. ~TimerArmed(h)' /\ ~RunGoesOn(h)'
    BY <2>1 DEF TimerArmed, RunGoesOn
  <2> QED
    BY <2>2, ClaimsOfPrimed
<1>2. Claims' = [g \in HealthCheck |-> Claims'[g]]
  BY DEF Claims, Told, TimerArmed, RunGoesOn, HelpersOf
<1>3. Wanted' = Wanted
  BY DEF Restart, api, Wanted, Live, Periodic
<1>4. \A h \in HealthCheck : Wanted[h] => Claims'[h] # {}
  BY <1>3, NotForgotten
<1> QED
  BY <1>1, <1>2, <1>3, <1>4 DEF Promise!Crash

\* An event of the cluster asks the controller to look.
LEMMA UserIsAsk ==
  ASSUME ReliableInv, NEW h \in HealthCheck, User(h)
  PROVE  Promise!Ask(h)
<1> USE ThreadsAreDistinct
<1>1. /\ UNCHANGED pc /\ queue' = queue \cup {h}
      /\ \A g \in HealthCheck \ {h} : obj'[g] = obj[g] /\ spec'[g] = spec[g]
  BY DEF User, Create, Terminate, Delete, Edit, Touch, Notify, api, local,
     ReliableInv, TimersInv, TypeOK
<1>2. Wanted' = [Wanted EXCEPT ![h] = Wanted'[h]] /\ Wanted'[h] \in BOOLEAN
  <2>1. \A g \in HealthCheck \ {h} : Wanted'[g] = Wanted[g]
    BY <1>1 DEF Wanted, Live, Periodic
  <2>2. /\ Wanted = [g \in HealthCheck |-> Wanted[g]]
        /\ Wanted' = [g \in HealthCheck |-> Wanted'[g]]
    BY DEF Wanted
  <2>3. Wanted'[h] \in BOOLEAN
    BY DEF Wanted
  <2> QED
    BY <2>1, <2>2, <2>3
<1>3. Claims' = [Claims EXCEPT ![h] = Claims'[h]]
  BY <1>1, OthersClaim DEF Apart
<1>4. Claims'[h] = Claims[h] \cup {"told"}
  <2>1. HelpersOf(h)' = HelpersOf(h)
    BY <1>1 DEF HelpersOf
  <2>2. Told(h)' /\ (TimerArmed(h)' <=> TimerArmed(h)) /\ (RunGoesOn(h)' <=> RunGoesOn(h))
    BY <1>1, <2>1 DEF Told, TimerArmed, RunGoesOn
  <2> QED
    BY <2>2, ClaimsOf, ClaimsOfPrimed
<1>5. Claims' = [Claims EXCEPT ![h] = @ \cup {"told"}]
  BY <1>3, <1>4
<1> QED
  BY <1>2, <1>5 DEF Promise!Ask

\* What the promise does not see.
LEMMA QuietIsStutter ==
  ASSUME ReliableInv, UNCHANGED <<obj, spec>>,
         \A h \in HealthCheck : Told(h)' <=> Told(h),
         \A t \in Thread : \/ pc'[t] = pc[t]
                           \/ t \notin Helper /\ pc[t] \in Deciding \cup {"idle"}
                                /\ pc'[t] \in Deciding \cup {"idle"}
  PROVE  UNCHANGED Promise!vars
<1> USE ThreadsAreDistinct
<1>1. Wanted' = Wanted
  BY DEF Wanted, Live, Periodic
<1>2. ASSUME NEW g \in HealthCheck
      PROVE  Claims'[g] = Claims[g]
  <2>1. HelpersOf(g)' = HelpersOf(g) /\ \A c \in HelpersOf(g) : pc'[c] = pc[c]
    BY DEF HelpersOf
  <2>2. pc'[g] \notin Deciding \cup {"idle"} <=> pc[g] \notin Deciding \cup {"idle"}
    OBVIOUS
  <2>3. TimerArmed(g)' <=> TimerArmed(g)
    BY <2>1 DEF TimerArmed
  <2>4. RunGoesOn(g)' <=> RunGoesOn(g)
    BY <2>1, <2>2 DEF RunGoesOn
  <2>5. \A x \in {"told", "timer", "run"} : x \in Claims'[g] <=> x \in Claims[g]
    BY <2>3, <2>4, ClaimsOf, ClaimsOfPrimed
  <2>6. /\ Claims[g] \subseteq {"told", "timer", "run"}
        /\ Claims'[g] \subseteq {"told", "timer", "run"}
    BY ClaimsOf, ClaimsOfPrimed
  <2>7. \A x : x \in Claims'[g] <=> x \in Claims[g]
    BY <2>5, <2>6
  <2> QED
    BY <2>7, Zenon
<1>3. /\ Claims = [g \in HealthCheck |-> Claims[g]]
      /\ Claims' = [g \in HealthCheck |-> Claims'[g]]
  BY DEF Claims, Told, TimerArmed, RunGoesOn, HelpersOf
<1> QED
  BY <1>1, <1>2, <1>3 DEF Promise!vars

\* A worker takes a key from the queue: the controller is still told.
LEMMA StartIsStutter ==
  ASSUME Reliable, ReliableInv, NEW h \in HealthCheck, StartReconcile(h)
  PROVE  UNCHANGED Promise!vars
<1> USE ThreadsAreDistinct, ReliableTypes
<1>1. /\ h \in queue /\ pc[h] = "idle" /\ queue' = queue \ {h}
      /\ pc'[h] \in Deciding /\ UNCHANGED <<obj, spec>>
      /\ \A u \in Thread \ {h} : pc'[u] = pc[u]
  BY DEF StartReconcile, Goto, Deciding, api
<1>2. \A g \in HealthCheck : Told(g)' <=> Told(g)
  BY <1>1 DEF Told, Deciding
<1> QED
  BY <1>1, <1>2, QuietIsStutter

\* The claims of a cluster that exists when the program starts.
LEMMA PromiseInit == Init => Promise!Init
<1> USE ThreadsAreDistinct
<1> SUFFICES ASSUME Init PROVE Promise!Init
  OBVIOUS
<1>1. Wanted \in [HealthCheck -> BOOLEAN]
  BY DEF Wanted, Live, Periodic
<1>2. ASSUME NEW h \in HealthCheck
      PROVE  Claims[h] \in {{}, {"told"}} /\ (Wanted[h] => Claims[h] # {})
  <2>1. pc[h] = "idle" /\ HelpersOf(h) = {} /\ (h \in queue <=> Exists(h))
    BY DEF Init, HelpersOf
  <2>2. ~TimerArmed(h) /\ ~RunGoesOn(h) /\ (Wanted[h] => Told(h))
    BY <2>1 DEF TimerArmed, RunGoesOn, Wanted, Told, Live, Exists
  <2> QED
    BY <2>2, ClaimsOf
<1>3. Claims = [g \in HealthCheck |-> Claims[g]]
  BY DEF Claims, Told, TimerArmed, RunGoesOn, HelpersOf
<1> QED
  BY <1>1, <1>2, <1>3 DEF Promise!Init

\* Every step of the scheduling loop is one of the promise, or is not seen there.
LEMMA PromiseNext ==
  ASSUME Reliable, ReliableInv, [Next]_vars
  PROVE  [Promise!Next]_(Promise!vars)
<1> USE ThreadsAreDistinct
<1>1. ReliableInv'
  BY ReliableNext
<1>2. ASSUME NEW h \in HealthCheck, StartReconcile(h) \/ Worker(h) \/ User(h)
      PROVE  [Promise!Next]_(Promise!vars)
  BY <1>1, <1>2, StartIsStutter, CancelIsLook, DecisionIsLook, UserIsAsk
     DEF Worker, Promise!Next
<1>3. ASSUME NEW c \in Helper, Fire(c)
      PROVE  [Promise!Next]_(Promise!vars)
  BY <1>1, <1>3, FireIsFire DEF Promise!Next
<1>4. CASE Restart
  BY <1>1, <1>4, RestartIsCrash DEF Promise!Next
<1>5. ASSUME NEW t \in Thread, Run(t)
      PROVE  [Promise!Next]_(Promise!vars)
  BY <1>1, <1>4, <1>5, RunStep DEF Promise!Next
<1>6. CASE Crash
  BY <1>4, <1>6 DEF Crash
<1>7. CASE Tick \/ UNCHANGED vars
  <2>1. UNCHANGED <<obj, spec, queue, pc>>
    BY <1>7 DEF Tick, vars
  <2>2. \A h \in HealthCheck : Told(h)' <=> Told(h)
    BY <2>1 DEF Told
  <2> QED
    BY <2>1, <2>2, QuietIsStutter
<1> QED
  BY <1>2, <1>3, <1>5, <1>6, <1>7 DEF Next

\* In a reliable environment the scheduling loop implements the promise of
\* PeriodicCheck: runs come from the queue or from a timer and timers from runs,
\* and a HealthCheck that is wanted is never forgotten.
THEOREM PromiseIsKept ==
  ASSUME Reliable
  PROVE  Spec => KeepsThePromise
<1>1. Init => Promise!Init
  BY PromiseInit
<1>2. ReliableInv /\ [Next]_vars => [Promise!Next]_(Promise!vars)
  BY PromiseNext
<1> QED
  BY <1>1, <1>2, ReliableInvariant, PTL DEF Spec, KeepsThePromise, Promise!Spec

\* The promise, and what it means, are the same under both names.
LEMMA SamePromise ==
  /\ Promise!Spec => Facts!Spec
  /\ Facts!NothingComesFromNothing => Promise!NothingComesFromNothing
BY DEF Promise!NothingComesFromNothing, Facts!NothingComesFromNothing, Promise!Spec, Promise!Init, Promise!Next, Promise!vars, Promise!Ask, Promise!Look,
       Promise!Fire, Promise!Work, Promise!Crash, Promise!Becomes,
       Facts!Spec, Facts!Init, Facts!Next, Facts!vars, Facts!Ask, Facts!Look,
       Facts!Fire, Facts!Work, Facts!Crash, Facts!Becomes

\* So what is proved of the promise holds for the loop: here, nothing starts by
\* itself.  A timer is armed by a run, a run comes from a look at the HealthCheck
\* or from its timer.
THEOREM NothingStartsByItself ==
  ASSUME Reliable
  PROVE  Spec => Promise!NothingComesFromNothing
BY PromiseIsKept, SamePromise, Facts!ClaimsHaveCauses, PTL DEF KeepsThePromise

=============================================================================
