------------------------ MODULE WorkflowWatch_proofs ------------------------
(***************************************************************************)
(* Proofs about WorkflowWatch, for any specs, lags and horizon.            *)
(***************************************************************************)
EXTENDS WorkflowWatch, TLAPS

\* The limits of a watch: pauses last a second at least, and in the sensible case
\* the longest leaves room for the time a workflow must end in.
LEMMA Limits ==
  ASSUME NEW w \in Watches
  PROVE  /\ timeout(w) \in Nat /\ deadline(w) \in Nat
         /\ Shortest(w) \in Nat /\ Longest(w) \in Nat
         /\ 1 <= Shortest(w) /\ Shortest(w) <= Longest(w)
         /\ minTime(w) \in Nat /\ maxTime(w) \in Nat
<1>1. /\ w.spec.Timeout \in Nat /\ w.spec.RepeatAfterSec \in Nat
      /\ w.spec.BackoffMax \in Nat /\ w.spec.BackoffMin \in Nat
      /\ w.spec.activeDeadlineSeconds \in Nat \cup {None}
      /\ w.kind \in {"check", "remedy"}
  BY WatchAssumption DEF Watches, SpecFields
<1>2. timeout(w) \in Nat
  BY <1>1 DEF timeout
<1>3. deadline(w) \in Nat
  BY <1>1, <1>2 DEF deadline
<1>4. maxTime(w) \in Nat /\ 1 <= maxTime(w)
  BY <1>1, <1>2 DEF maxTime, AtLeastASecond
<1>5. minTime(w) \in Nat /\ 1 <= minTime(w)
  BY <1>1, <1>2 DEF minTime, AtLeastASecond
<1> QED
  BY <1>2, <1>3, <1>4, <1>5 DEF Shortest, Longest

\* The time by which a workflow must end for its own phase to count.
InTime(w) ==
  IF w.kind = "check" /\ w.spec.BackoffMax # 0
  THEN timeout(w) - w.spec.BackoffMax ELSE timeout(w) \div 2

LEMMA RoomForAPoll ==
  ASSUME NEW w \in Watches, ~MayRefuse(w)
  PROVE  /\ InTime(w) \in Int /\ InTime(w) + Longest(w) <= timeout(w)
<1>1. /\ timeout(w) \in Nat /\ timeout(w) # 0 /\ w.spec.BackoffMax \in Nat
      /\ minTime(w) <= maxTime(w)
  BY Limits, WatchAssumption DEF MayRefuse, Watches, SpecFields
<1>2. Longest(w) = maxTime(w)
  BY <1>1 DEF Longest
<1>3. CASE w.kind = "check" /\ w.spec.BackoffMax # 0
  BY <1>1, <1>2, <1>3 DEF InTime, maxTime
<1>4. CASE ~(w.kind = "check" /\ w.spec.BackoffMax # 0)
  BY <1>1, <1>2, <1>4 DEF InTime, maxTime, AtLeastASecond
<1> QED
  BY <1>3, <1>4

-----------------------------------------------------------------------------
(* The inductive invariant. *)

\* What is recorded lies in the past, and nobody is later than the bounds allow.
Times ==
  /\ begun \in Nat => begun <= now
  /\ ended \in Nat => ended <= now
  /\ finished \in Nat => finished <= now
  /\ pc # "done" => now <= wake + Lag
  /\ present /\ phase = "Running" => now <= begun + deadline(watch) + Grace

\* When the next poll is due: at most one pause after the last moment at which the
\* time was not over.
Due ==
  /\ pc = "pause" => ~expired
  /\ pc # "done" => wake <= now + Longest(watch)
  /\ pc = "pause" => wake <= timeout(watch) + Longest(watch) +
                             (IF watch.checksFirst THEN 0 ELSE Lag)
  /\ pc = "poll" /\ ~expired =>
       wake <= timeout(watch) + (IF watch.checksFirst THEN Longest(watch) ELSE 0)
  /\ pc = "poll" /\ expired => wake <= timeout(watch) + Longest(watch) + Lag

\* Polls so far.
Polls ==
  /\ pc = "pause" => polls <= wake /\ polls <= now + 1
  /\ pc = "poll" /\ ~expired => polls <= wake /\ wake <= now
  /\ pc = "poll" /\ expired => polls <= now + 1
  /\ pc = "done" => polls <= finished + 2

\* The time is over when the watch is told so; no poll came since the workflow ended.
Over ==
  /\ expired => timeout(watch) <= now \/ MayRefuse(watch)
  /\ pc = "poll" /\ expired => timeout(watch) <= wake + Lag \/ MayRefuse(watch)
  /\ pc # "done" /\ phase \in {"Succeeded", "Failed"} => wake <= ended + Longest(watch)

WatchInv ==
  TypeOK /\ Times /\ Due /\ Polls /\ Over /\ VerdictIsTrue /\ JudgedIfInTime

LEMMA InitWatch == Init => WatchInv
<1> SUFFICES ASSUME Init PROVE WatchInv
  OBVIOUS
<1>1. /\ watch \in Watches /\ timeout(watch) \in Nat /\ Longest(watch) \in Nat
      /\ Lag \in Nat /\ None \notin Nat
  BY Limits, WatchAssumption DEF Init
<1>2. TypeOK
  BY WatchAssumption DEF Init, TypeOK
<1>3. Times /\ Due /\ Polls /\ Over
  BY <1>1 DEF Init, Times, Due, Polls, Over
<1>4. VerdictIsTrue /\ JudgedIfInTime
  BY <1>1, WatchAssumption DEF Init, VerdictIsTrue, JudgedIfInTime
<1> QED
  BY <1>2, <1>3, <1>4 DEF WatchInv

\* What every step may assume.
LEMMA Known ==
  ASSUME WatchInv
  PROVE  /\ watch \in Watches /\ now \in Nat /\ wake \in Nat /\ polls \in Nat
         /\ timeout(watch) \in Nat /\ deadline(watch) \in Nat
         /\ Shortest(watch) \in Nat /\ Longest(watch) \in Nat
         /\ 1 <= Shortest(watch) /\ Shortest(watch) <= Longest(watch)
         /\ Lag \in Nat /\ Grace \in Nat /\ None \notin Nat
         /\ None \notin {"Succeeded", "Failed", "none", "error"}
         /\ begun \in Nat \cup {None} /\ ended \in Nat \cup {None}
         /\ finished \in Nat \cup {None}
         /\ ~MayRefuse(watch) =>
              InTime(watch) \in Int /\ InTime(watch) + Longest(watch) <= timeout(watch)
<1>1. watch \in Watches
  BY DEF WatchInv, TypeOK
<1> QED
  BY <1>1, Limits, RoomForAPoll, WatchAssumption DEF WatchInv, TypeOK


-----------------------------------------------------------------------------
(* Every step keeps it. *)

LEMMA PollStep == WatchInv /\ Poll => WatchInv'
<1> SUFFICES ASSUME WatchInv, Poll PROVE WatchInv'
  OBVIOUS
<1> USE Known
<1>0. /\ UNCHANGED <<watch, now, present, phase, begun, ended>> /\ pc = "poll"
      /\ polls' \in Nat /\ polls' <= polls + 1
      /\ verdict = None /\ finished = None
  BY DEF Poll, workflow, Counted, WatchInv, TypeOK
<1>1. ASSUME NEW v \in {"Succeeded", "Failed", "none", "error"}, Stop(v),
             v = "Succeeded" => phase = "Succeeded",
             v = "Failed" => phase = "Failed" \/ expired,
             v = "none" => ~present \/ ~watch.here,
             v \in {"Succeeded", "Failed"} => expired \/ v = phase
      PROVE  WatchInv'
  <2>1. pc' = "done" /\ verdict' = v /\ finished' = now /\ UNCHANGED <<wake, expired>>
    BY <1>1 DEF Stop
  <2>2. TypeOK'
    BY <1>0, <2>1 DEF WatchInv, TypeOK
  <2>3. Times' /\ Due'
    BY <1>0, <2>1 DEF WatchInv, Times, Due
  <2>4. Polls'
    BY <1>0, <2>1 DEF WatchInv, Polls, TypeOK
  <2>5. Over'
    BY <1>0, <2>1 DEF WatchInv, Over
  <2>6. VerdictIsTrue'
    BY <1>0, <1>1, <2>1 DEF WatchInv, VerdictIsTrue, Over, Times, TypeOK
  <2>7. JudgedIfInTime'
    <3>1. ASSUME ended \in Nat, ended + Lag < InTime(watch), ~MayRefuse(watch),
                 phase \in {"Succeeded", "Failed"}
          PROVE  ~expired
      BY <1>0, <3>1 DEF WatchInv, Over
    <3> QED
      BY <1>0, <1>1, <2>1, <3>1 DEF JudgedIfInTime, InTime
  <2> QED
    BY <2>2, <2>3, <2>4, <2>5, <2>6, <2>7 DEF WatchInv
<1>2. ASSUME ~expired, phase \notin {"Succeeded", "Failed"}, Pause,
             UNCHANGED <<verdict, finished>>
      PROVE  WatchInv'
  <2>0. now <= wake + Lag
    BY <1>0 DEF WatchInv, Times
  <2>1. CASE watch.checksFirst /\ now >= timeout(watch) /\ pc' = "poll"
             /\ wake' = now /\ expired' = TRUE
    <3>1. TypeOK' /\ Times' /\ Due'
      BY <1>0, <1>2, <2>0, <2>1 DEF WatchInv, TypeOK, Times, Due
    <3>2. Polls' /\ Over'
      BY <1>0, <1>2, <2>1 DEF WatchInv, Polls, Over
    <3>3. VerdictIsTrue' /\ JudgedIfInTime'
      BY <1>0, <1>2 DEF WatchInv, VerdictIsTrue, JudgedIfInTime
    <3> QED
      BY <3>1, <3>2, <3>3 DEF WatchInv
  <2>2. CASE /\ ~watch.checksFirst \/ now <= timeout(watch)
             /\ \E d \in Shortest(watch) .. Longest(watch) : wake' = now + d
             /\ pc' = "pause" /\ UNCHANGED expired
    <3>0. PICK d \in Shortest(watch) .. Longest(watch) : wake' = now + d
      BY <2>2
    <3>1. d \in Nat /\ 1 <= d /\ d <= Longest(watch)
      OBVIOUS
    <3>2. TypeOK' /\ Times'
      BY <1>0, <1>2, <2>2, <3>0, <3>1 DEF WatchInv, TypeOK, Times
    <3>3. Due'
      BY <1>0, <1>2, <2>0, <2>2, <3>0, <3>1 DEF WatchInv, Due
    <3>4. Polls' /\ Over'
      BY <1>0, <1>2, <2>2, <3>0, <3>1 DEF WatchInv, Polls, Over
    <3>5. VerdictIsTrue' /\ JudgedIfInTime'
      BY <1>0, <1>2 DEF WatchInv, VerdictIsTrue, JudgedIfInTime
    <3> QED
      BY <3>2, <3>3, <3>4, <3>5 DEF WatchInv
  <2> QED
    BY <1>2, <2>1, <2>2 DEF Pause
<1>3. CASE present /\ watch.here /\ Judge
  BY <1>1, <1>2, <1>3 DEF Judge
<1> QED
  BY <1>1, <1>3 DEF Poll

LEMMA WakeStep == WatchInv /\ Wake => WatchInv'
<1> SUFFICES ASSUME WatchInv, Wake PROVE WatchInv'
  OBVIOUS
<1> USE Known
<1>1. /\ UNCHANGED <<watch, now, present, phase, begun, ended, wake, polls, verdict, finished>>
      /\ pc = "pause" /\ pc' = "poll" /\ wake <= now /\ ~expired /\ now <= wake + Lag
      /\ \/ (watch.checksFirst \/ now <= timeout(watch)) /\ expired' = expired
         \/ ~watch.checksFirst /\ now >= timeout(watch) /\ expired' = TRUE
  BY DEF Wake, workflow, WatchInv, Due, Times
<1>2. TypeOK' /\ Times'
  BY <1>1 DEF WatchInv, TypeOK, Times
<1>3. /\ wake <= now + Longest(watch)
      /\ wake <= timeout(watch) + Longest(watch) + Lag
      /\ watch.checksFirst => wake <= timeout(watch) + Longest(watch)
      /\ ~watch.checksFirst /\ now <= timeout(watch) => wake <= timeout(watch)
  BY <1>1 DEF WatchInv, Due
<1>4. Due'
  BY <1>1, <1>3 DEF Due
<1>5. Polls' /\ Over'
  BY <1>1 DEF WatchInv, Polls, Over
<1>6. VerdictIsTrue' /\ JudgedIfInTime'
  BY <1>1 DEF WatchInv, VerdictIsTrue, JudgedIfInTime
<1> QED
  BY <1>2, <1>4, <1>5, <1>6 DEF WatchInv

LEMMA TickStep == WatchInv /\ Tick => WatchInv'
<1> SUFFICES ASSUME WatchInv, Tick PROVE WatchInv'
  OBVIOUS
<1> USE Known
<1>1. /\ UNCHANGED <<watch, present, phase, begun, ended>>
      /\ UNCHANGED <<pc, wake, expired, polls, verdict, finished>>
      /\ now' = now + 1
      /\ pc # "done" => now < wake + Lag
      /\ present /\ phase = "Running" => now < begun + deadline(watch) + Grace
  BY DEF Tick, workflow, watcher, WatchInv, TypeOK
<1>2. TypeOK' /\ Times' /\ Due'
  BY <1>1 DEF WatchInv, TypeOK, Times, Due
<1>3. Polls' /\ Over'
  BY <1>1 DEF WatchInv, Polls, Over
<1>4. VerdictIsTrue' /\ JudgedIfInTime'
  BY <1>1 DEF WatchInv, VerdictIsTrue, JudgedIfInTime
<1> QED
  BY <1>2, <1>3, <1>4 DEF WatchInv

\* The workflow begins, ends, or goes.
LEMMA WorkflowStep ==
  ASSUME WatchInv, Begin \/ Remove \/ (\E p \in {"Succeeded", "Failed", "Error"} : End(p))
  PROVE  WatchInv'
<1> USE Known
<1>0. /\ UNCHANGED <<watch, now>>
      /\ UNCHANGED <<pc, wake, expired, polls, verdict, finished>>
  BY DEF Begin, Remove, End, watcher
<1>1. Polls'
  BY <1>0 DEF WatchInv, Polls
<1>2. CASE Begin
  <2>1. UNCHANGED <<present, ended>> /\ phase = "Pending" /\ phase' = "Running"
        /\ begun' = now
    BY <1>2 DEF Begin
  <2>2. TypeOK'
    BY <1>0, <2>1 DEF WatchInv, TypeOK
  <2>3. Times'
    BY <1>0, <2>1 DEF WatchInv, Times
  <2>4. Due' /\ Over'
    BY <1>0, <2>1 DEF WatchInv, Due, Over
  <2>5. VerdictIsTrue' /\ JudgedIfInTime'
    BY <1>0, <2>1 DEF WatchInv, VerdictIsTrue, JudgedIfInTime
  <2> QED
    BY <1>1, <2>2, <2>3, <2>4, <2>5 DEF WatchInv
<1>3. CASE Remove
  <2>1. UNCHANGED <<phase, begun, ended>> /\ present' = FALSE
    BY <1>3 DEF Remove
  <2>2. TypeOK'
    BY <1>0, <2>1 DEF WatchInv, TypeOK
  <2>3. Times'
    BY <1>0, <2>1 DEF WatchInv, Times
  <2>4. Due' /\ Over'
    BY <1>0, <2>1 DEF WatchInv, Due, Over
  <2>5. VerdictIsTrue' /\ JudgedIfInTime'
    BY <1>0, <2>1 DEF WatchInv, VerdictIsTrue, JudgedIfInTime
  <2> QED
    BY <1>1, <2>2, <2>3, <2>4, <2>5 DEF WatchInv
<1>4. ASSUME NEW p \in {"Succeeded", "Failed", "Error"}, End(p) PROVE WatchInv'
  <2>1. /\ UNCHANGED <<present, begun>> /\ phase \in {"Pending", "Running"}
        /\ phase' = p /\ ended' = now
    BY <1>4 DEF End
  <2>2. TypeOK'
    BY <1>0, <2>1 DEF WatchInv, TypeOK
  <2>a. Times'
    BY <1>0, <2>1 DEF WatchInv, TypeOK, Times
  <2>b. Due' /\ Over'
    BY <1>0, <2>1 DEF WatchInv, TypeOK, Due, Over
  <2>3. VerdictIsTrue'
    BY <1>0, <2>1 DEF WatchInv, VerdictIsTrue
  <2>4. JudgedIfInTime'
    <3>1. verdict \in {"Succeeded", "Failed"} => \/ finished >= timeout(watch)
                                               \/ MayRefuse(watch)
      BY <2>1 DEF WatchInv, VerdictIsTrue
    <3>2. verdict \in {"Succeeded", "Failed"} => finished \in Nat /\ finished <= now
      BY DEF WatchInv, TypeOK, Times
    <3>3. ended' + Lag < InTime(watch) /\ ~MayRefuse(watch) =>
            verdict \notin {"Succeeded", "Failed"}
      BY <2>1, <3>1, <3>2
    <3>4. verdict \in {None, "Succeeded", "Failed", "none", "error"}
      BY DEF WatchInv, TypeOK
    <3> QED
      BY <1>0, <3>3, <3>4 DEF JudgedIfInTime, InTime
  <2> QED
    BY <1>1, <2>2, <2>a, <2>b, <2>3, <2>4 DEF WatchInv
<1> QED
  BY <1>2, <1>3, <1>4

LEMMA WatchInvariant == Spec => []WatchInv
<1>1. WatchInv /\ [Next]_vars => WatchInv'
  <2> SUFFICES ASSUME WatchInv, [Next]_vars PROVE WatchInv'
    OBVIOUS
  <2>1. CASE UNCHANGED vars
    <3>1. /\ UNCHANGED <<watch, now, present, phase, begun, ended>>
          /\ UNCHANGED <<pc, wake, expired, polls, verdict, finished>>
      BY <2>1 DEF vars
    <3>2. TypeOK' /\ Times' /\ Due'
      BY <3>1 DEF WatchInv, TypeOK, Times, Due
    <3>3. Polls' /\ Over' /\ VerdictIsTrue' /\ JudgedIfInTime'
      BY <3>1 DEF WatchInv, Polls, Over, VerdictIsTrue, JudgedIfInTime
    <3> QED
      BY <3>2, <3>3 DEF WatchInv
  <2> QED
    BY <2>1, PollStep, WakeStep, TickStep, WorkflowStep DEF Next
<1> QED
  BY <1>1, InitWatch, PTL DEF Spec

\* The time that so many of the shortest pauses take.
Paced == polls * Shortest(watch)

\* The polls so far are that far apart: the next one is, too, unless it is the last
\* one, which the end of the time may bring at once.
Pace ==
  /\ pc = "pause" => Paced <= wake /\ Paced <= now + Shortest(watch)
  /\ pc = "poll" /\ ~expired => Paced <= wake /\ wake <= now
  /\ pc = "poll" /\ expired => Paced <= now + Shortest(watch)
  /\ pc = "done" => Paced <= finished + 2 * Shortest(watch)

LEMMA PaceKept ==
  ASSUME WatchInv, Pace, [Next]_vars
  PROVE  Pace'
<1> USE Known
<1>1. Paced \in Nat
  BY DEF Paced
<1>2. CASE Poll
  <2>1. /\ UNCHANGED <<watch, now>> /\ pc = "poll"
        /\ polls' = polls \/ polls' = polls + 1
    BY <1>2 DEF Poll, Counted
  <2>2. Shortest(watch') = Shortest(watch)
    BY <2>1
  <2>3. (polls + 1) * Shortest(watch) = polls * Shortest(watch) + Shortest(watch)
    OBVIOUS
  <2>4. Paced' = Paced \/ Paced' = Paced + Shortest(watch)
    BY <2>1, <2>2, <2>3 DEF Paced
  <2>5. /\ ~expired => Paced <= wake /\ wake <= now
        /\ expired => Paced <= now + Shortest(watch)
    BY <2>1 DEF Pace
  <2>6. ASSUME NEW v, Stop(v)
        PROVE  Pace'
    BY <1>1, <2>1, <2>2, <2>4, <2>5, <2>6 DEF Stop, Pace
  <2>7. ASSUME Pause, ~expired
        PROVE  Pace'
    <3>1. CASE pc' = "poll" /\ wake' = now /\ expired' = TRUE
      BY <1>1, <2>1, <2>2, <2>4, <2>5, <2>7, <3>1 DEF Pace
    <3>2. CASE /\ \E d \in Shortest(watch) .. Longest(watch) : wake' = now + d
               /\ pc' = "pause"
      <4>1. PICK d \in Shortest(watch) .. Longest(watch) : wake' = now + d
        BY <3>2
      <4>2. d \in Nat /\ Shortest(watch) <= d
        OBVIOUS
      <4> QED
        BY <1>1, <2>1, <2>2, <2>4, <2>5, <2>7, <3>2, <4>1, <4>2 DEF Pace
    <3> QED
      BY <2>7, <3>1, <3>2 DEF Pause
  <2> QED
    BY <1>2, <2>6, <2>7 DEF Poll, Judge
<1>3. ASSUME UNCHANGED <<watch, polls>>
      PROVE  Shortest(watch)' = Shortest(watch) /\ Paced' = Paced
  BY <1>3 DEF Paced
<1>4. CASE Wake
  <2>1. /\ UNCHANGED <<watch, polls, now, wake>> /\ pc = "pause" /\ pc' = "poll"
        /\ wake <= now
    BY <1>4 DEF Wake
  <2> QED
    BY <1>1, <1>3, <2>1 DEF Pace
<1>5. CASE Tick
  <2>1. /\ UNCHANGED <<watch, polls, wake, pc, expired, finished>> /\ now' = now + 1
    BY <1>5 DEF Tick, watcher
  <2> QED
    BY <1>1, <1>3, <2>1 DEF Pace
<1>6. CASE \/ Begin \/ Remove \/ \E p \in {"Succeeded", "Failed", "Error"} : End(p)
           \/ UNCHANGED vars
  <2>1. UNCHANGED <<watch, now, polls, wake, pc, expired, finished>>
    BY <1>6 DEF Begin, Remove, End, watcher, vars
  <2> QED
    BY <1>3, <2>1 DEF Pace
<1> QED
  BY <1>2, <1>4, <1>5, <1>6 DEF Next

LEMMA PaceInvariant == Spec => []Pace
<1>1. Init => Pace
  <2> SUFFICES ASSUME Init PROVE Pace
    OBVIOUS
  <2>1. watch \in Watches /\ polls = 0 /\ now = 0 /\ wake = 0 /\ pc = "poll"
    BY DEF Init
  <2>2. Shortest(watch) \in Nat /\ Paced = 0
    BY <2>1, Limits DEF Paced
  <2> QED
    BY <2>1, <2>2 DEF Pace
<1> QED
  BY <1>1, PaceKept, WatchInvariant, PTL DEF Spec

-----------------------------------------------------------------------------
(* What follows from it. *)

THEOREM WatchTypes == Spec => []TypeOK
<1>1. WatchInv => TypeOK
  BY DEF WatchInv
<1> QED
  BY <1>1, WatchInvariant, PTL

\* No watch invents a verdict, whatever the limits and however late it is.
THEOREM NoFalseVerdict == Spec => []VerdictIsTrue
<1>1. WatchInv => VerdictIsTrue
  BY DEF WatchInv
<1> QED
  BY <1>1, WatchInvariant, PTL

\* Pauses grow with the timeout and never swallow a workflow that ended in time.
THEOREM NoLateVerdict == Spec => []JudgedIfInTime
<1>1. WatchInv => JudgedIfInTime
  BY DEF WatchInv
<1> QED
  BY <1>1, WatchInvariant, PTL

\* No watch goes on for longer than its timeout, a pause and two lags.
THEOREM WatchBound == Spec => []WatchIsBounded
<1>1. WatchInv => WatchIsBounded
  <2> SUFFICES ASSUME WatchInv, pc # "done"
               PROVE  now <= timeout(watch) + Longest(watch) + 2 * Lag
    BY DEF WatchIsBounded
  <2>1. wake <= timeout(watch) + Longest(watch) + Lag
    BY Known DEF WatchInv, Due, TypeOK
  <2>2. now <= wake + Lag
    BY DEF WatchInv, Times
  <2> QED
    BY <2>1, <2>2, Known
<1> QED
  BY <1>1, WatchInvariant, PTL

\* The API server is asked once a second at most, and once per shortest pause, and
\* twice at the end.
THEOREM PollsBound == Spec => []NotBusy
<1>1. ASSUME WatchInv
      PROVE  polls <= now + 2
  <2>1. CASE pc = "done"
    <3>1. finished \in Nat /\ finished <= now /\ polls <= finished + 2
      BY <1>1, <2>1 DEF WatchInv, Polls, Times, TypeOK
    <3> QED
      BY <1>1, <3>1, Known
  <2>2. CASE pc \in {"poll", "pause"}
    BY <1>1, <2>2, Known DEF WatchInv, Polls
  <2>3. pc \in {"poll", "pause", "done"}
    BY <1>1 DEF WatchInv, TypeOK
  <2> QED
    BY <2>1, <2>2, <2>3
<1>2. ASSUME WatchInv, Pace
      PROVE  Paced <= now + 2 * Shortest(watch)
  <2>1. Paced \in Nat /\ Shortest(watch) \in Nat /\ now \in Nat
    BY <1>2, Known DEF Paced
  <2>2. CASE pc = "done"
    <3>1. finished \in Nat /\ finished <= now /\ Paced <= finished + 2 * Shortest(watch)
      BY <1>2, <2>2 DEF WatchInv, Pace, Times, TypeOK
    <3> QED
      BY <2>1, <3>1
  <2>3. CASE pc \in {"poll", "pause"}
    BY <1>2, <2>1, <2>3, Known DEF Pace
  <2>4. pc \in {"poll", "pause", "done"}
    BY <1>2 DEF WatchInv, TypeOK
  <2> QED
    BY <2>2, <2>3, <2>4
<1>3. WatchInv /\ Pace => NotBusy
  BY <1>1, <1>2 DEF NotBusy, Paced
<1> QED
  BY <1>3, WatchInvariant, PaceInvariant, PTL

\* A workflow that is given up does not run on, but for what the engine is late:
\* provided that a remedy's deadline is within the timeout of the check.
THEOREM NothingRunsOn == Spec => []GivenUpSoonEnds
<1>1. WatchInv => GivenUpSoonEnds
  <2> SUFFICES ASSUME WatchInv, verdict = "Failed", present, phase = "Running",
                      ~MayRefuse(watch), watch.spec.activeDeadlineSeconds = None,
                      watch.kind = "check" \/ watch.spec.RepeatAfterSec <= timeout(watch)
               PROVE  now <= finished + begun + Grace
    BY DEF GivenUpSoonEnds
  <2>1. finished \in Nat /\ begun \in Nat
    BY Known DEF WatchInv, TypeOK
  <2>2. finished >= timeout(watch)
    BY DEF WatchInv, VerdictIsTrue
  <2>3. now <= begun + deadline(watch) + Grace
    BY DEF WatchInv, Times
  <2>4. deadline(watch) = timeout(watch) \/ deadline(watch) = watch.spec.RepeatAfterSec
    BY DEF deadline
  <2>5. deadline(watch) <= timeout(watch)
    BY <2>4, Known DEF deadline
  <2> QED
    BY <2>1, <2>2, <2>3, <2>5, Known
<1> QED
  BY <1>1, WatchInvariant, PTL
=============================================================================
