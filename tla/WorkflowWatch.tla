---------------------------- MODULE WorkflowWatch ----------------------------
(***************************************************************************)
(* How a run waits for one workflow: the polls and pauses of               *)
(* watchWorkflowReschedule and watchRemedyWorkflow, the limits that        *)
(* computeBackoffParams gives them, and the deadline that                  *)
(* parseWorkflowFromHealthcheck and parseRemedyWorkflowFromHealthcheck give *)
(* the workflow (internal/controllers/healthcheck_controller.go).          *)
(*                                                                         *)
(* A clock counts seconds since the watch began.  Meanwhile the workflow   *)
(* begins, ends or is removed, and the watch learns of it only when it     *)
(* polls.  The library that pauses and tells when the time is over         *)
(* (iebackoff) and the engine that runs the workflow (Argo) are not in the *)
(* repository: they are modelled by what the code asks of them.            *)
(***************************************************************************)
EXTENDS Integers

CONSTANTS
  Specs,     \* what the watch and the deadline depend on
  Lag,       \* seconds by which a pause may end late, and a poll after it
  Grace,     \* seconds by which a workflow may outlive its deadline
  Horizon,   \* where the clock stops: a bound of the model
  Faults,    \* "poll": the API server may answer a poll with an error
  None

\* BackoffFactor: the user gives one that is a number (otherwise it is 0.5);
\* activeDeadlineSeconds: of the user's template.
SpecFields == [Timeout : Nat, RepeatAfterSec : Nat, BackoffMax : Nat, BackoffMin : Nat,
               BackoffFactor : BOOLEAN, activeDeadlineSeconds : Nat \cup {None}]

\* What stays fixed during a watch.  checkParsed, parsed: the template of the
\* health check, and the one of the workflow itself, could be parsed (the error
\* is ignored: an empty workflow is submitted); here: it is in the namespace where
\* the watch looks for it, that of the health check for a remedy, and for a closure
\* that of the run before it; checksFirst: the library looks at the time before a
\* pause, not after it.
Watches ==
  {w \in [kind : {"check", "remedy"}, spec : Specs, checkParsed : BOOLEAN,
          parsed : BOOLEAN, here : BOOLEAN, checksFirst : BOOLEAN] :
     w.kind = "check" => w.parsed = w.checkParsed}

ASSUME WatchAssumption ==
  /\ Specs \subseteq SpecFields /\ {Lag, Grace, Horizon} \subseteq Nat
  /\ None \notin Nat \cup {"Succeeded", "Failed", "none", "error"}

VARIABLES
  watch,     \* of Watches
  now,
  present, phase, begun, ended,                  \* the workflow
  pc, wake, expired, polls, verdict, finished    \* the watch

workflow == <<present, phase, begun, ended>>
watcher == <<pc, wake, expired, polls, verdict, finished>>
vars == <<watch, now, present, phase, begun, ended,
          pc, wake, expired, polls, verdict, finished>>

-----------------------------------------------------------------------------
(* The limits. *)

\* Parsing the template sets Workflow.Timeout if it is not set.
timeout(w) ==
  IF w.spec.Timeout = 0 /\ w.checkParsed THEN w.spec.RepeatAfterSec ELSE w.spec.Timeout

AtLeastASecond(n) == IF n <= 0 THEN 1 ELSE n

\* Mutants of maxTime and minTime.
WholeTimeout(w) == AtLeastASecond(timeout(w))
Unclamped(w) == timeout(w) \div 60

\* The remedy's watch ignores BackoffMax and BackoffMin.
maxTime(w) ==
  IF w.kind = "check" /\ w.spec.BackoffMax # 0 THEN w.spec.BackoffMax
  ELSE AtLeastASecond(timeout(w) \div 2)

minTime(w) ==
  IF w.kind = "check" /\ w.spec.BackoffMin # 0 THEN w.spec.BackoffMin
  ELSE AtLeastASecond(timeout(w) \div 60)

\* Mutant of deadline: that of a remedy, for every workflow.
RepeatDeadline(w) ==
  IF w.spec.activeDeadlineSeconds # None THEN w.spec.activeDeadlineSeconds
  ELSE w.spec.RepeatAfterSec

\* activeDeadlineSeconds of the workflow that is submitted.
deadline(w) ==
  CASE w.spec.activeDeadlineSeconds # None -> w.spec.activeDeadlineSeconds
    [] w.spec.activeDeadlineSeconds = None /\ w.kind = "check" -> timeout(w)
    [] OTHER -> w.spec.RepeatAfterSec

Shortest(w) == IF minTime(w) <= maxTime(w) THEN minTime(w) ELSE maxTime(w)
Longest(w) == IF minTime(w) <= maxTime(w) THEN maxTime(w) ELSE minTime(w)

\* The constructor of the library may refuse what makes no sense; the first poll
\* then takes its error for the end of the time.
MayRefuse(w) ==
  \/ timeout(w) = 0 \/ minTime(w) > maxTime(w)
  \/ w.kind = "check" /\ w.spec.BackoffFactor

-----------------------------------------------------------------------------
(* The watch. *)

\* ieTimer.Next: a pause, or an error at once.  Whether the time is over at
\* its very last second is left open.
Pause ==
  \/ /\ watch.checksFirst /\ now >= timeout(watch)
     /\ pc' = "poll" /\ wake' = now /\ expired' = TRUE
  \/ /\ ~watch.checksFirst \/ now <= timeout(watch)
     /\ \E d \in Shortest(watch) .. Longest(watch) : wake' = now + d
     /\ pc' = "pause" /\ UNCHANGED expired

Stop(v) ==
  /\ pc' = "done" /\ verdict' = v /\ finished' = now
  /\ UNCHANGED <<wake, expired>>

\* Mutants of Judge: a workflow without a status is looked into; what is no
\* success is a failure; the end of the time counts only if there is a status.
JudgeTheEmpty ==
  IF expired THEN Stop("Failed")
  ELSE Stop(IF phase \in {"Succeeded", "Failed"} THEN phase ELSE None)
JudgeTwoWays ==
  IF phase = "Pending" /\ ~expired THEN Pause /\ UNCHANGED <<verdict, finished>>
  ELSE Stop(IF ~expired /\ phase = "Succeeded" THEN phase ELSE "Failed")
JudgeIfRead ==
  IF phase = "Pending" \/ (~expired /\ phase \in {"Running", "Error"})
  THEN Pause /\ UNCHANGED <<verdict, finished>>
  ELSE Stop(IF expired THEN "Failed" ELSE phase)

\* The end of the time overrides what was read.  A workflow without a status, or
\* in a phase the code does not know ("Error" is one), is waited for.
Judge ==
  \/ expired /\ Stop("Failed")
  \/ ~expired /\ phase \in {"Succeeded", "Failed"} /\ Stop(phase)
  \/ ~expired /\ phase \notin {"Succeeded", "Failed"}
     /\ Pause /\ UNCHANGED <<verdict, finished>>

\* Polls are counted until there are more than a poll a second and two.
Counted == IF polls > now + 2 THEN polls ELSE polls + 1

\* Not found: "swallow this error"; another error ends the run.
Poll ==
  /\ pc = "poll"
  /\ \/ (~present \/ ~watch.here) /\ Stop("none")
     \/ "poll" \in Faults /\ Stop("error")
     \/ present /\ watch.here /\ Judge
  /\ polls' = Counted
  /\ UNCHANGED <<watch, now, workflow>>

\* A pause ends.
Wake ==
  /\ pc = "pause" /\ now >= wake
  /\ pc' = "poll"
  /\ \/ (watch.checksFirst \/ now <= timeout(watch)) /\ UNCHANGED expired
     \/ ~watch.checksFirst /\ now >= timeout(watch) /\ expired' = TRUE
  /\ UNCHANGED <<watch, now, workflow, wake, polls, verdict, finished>>

-----------------------------------------------------------------------------
(* The workflow and the time. *)

\* After the verdict only a workflow that still runs is followed to its end.
Followed == pc # "done" \/ (present /\ phase = "Running")

\* An empty workflow never runs.
Begin ==
  /\ Followed /\ present /\ phase = "Pending" /\ watch.parsed
  /\ phase' = "Running" /\ begun' = now
  /\ UNCHANGED <<watch, now, present, ended, watcher>>

End(p) ==
  /\ Followed /\ present
  /\ phase = "Running" \/ (phase = "Pending" /\ p # "Succeeded")
  /\ phase' = p /\ ended' = now
  /\ UNCHANGED <<watch, now, present, begun, watcher>>

\* It goes with its HealthCheck, or is collected.
Remove ==
  /\ Followed /\ present
  /\ present' = FALSE
  /\ UNCHANGED <<watch, now, phase, begun, ended, watcher>>

\* Nobody is later than the bounds allow.
Tick ==
  /\ Followed /\ now < Horizon
  /\ pc \in {"poll", "pause"} => now < wake + Lag
  /\ present /\ phase = "Running" => now < begun + deadline(watch) + Grace
  /\ now' = now + 1
  /\ UNCHANGED <<watch, workflow, watcher>>

Init ==
  /\ watch \in Watches
  /\ now = 0
  /\ present = TRUE /\ phase = "Pending" /\ begun = None /\ ended = None
  /\ pc = "poll" /\ wake = 0 /\ polls = 0 /\ verdict = None /\ finished = None
  /\ expired = FALSE \/ (MayRefuse(watch) /\ expired = TRUE)

Next ==
  \/ Poll \/ Wake \/ Begin \/ Remove \/ Tick
  \/ \E p \in {"Succeeded", "Failed", "Error"} : End(p)

Spec == Init /\ [][Next]_vars

\* The engine ends a workflow that has outlived its deadline.
Enforce == phase = "Running" /\ now >= begun + deadline(watch) /\ End("Failed")

\* The clock runs, the watch goes on, and the engine enforces deadlines; otherwise
\* a workflow need not begin, nor end.
FairSpec ==
  Spec /\ WF_vars(Tick) /\ WF_vars(Poll) /\ WF_vars(Wake) /\ WF_vars(Enforce)

-----------------------------------------------------------------------------
(* Properties. *)

TypeOK ==
  /\ watch \in Watches /\ now \in Nat
  /\ present \in BOOLEAN
  /\ phase \in {"Pending", "Running", "Succeeded", "Failed", "Error"}
  /\ begun \in Nat \cup {None} /\ ended \in Nat \cup {None}
  /\ pc \in {"poll", "pause", "done"} /\ wake \in Nat /\ expired \in BOOLEAN
  /\ polls \in Nat
  /\ verdict \in {None, "Succeeded", "Failed", "none", "error"}
  /\ finished \in Nat \cup {None}
  /\ pc = "done" <=> verdict # None
  /\ pc = "done" <=> finished # None
  /\ phase = "Running" => begun \in Nat
  /\ phase \in {"Succeeded", "Failed", "Error"} <=> ended \in Nat

\* No false verdict: a success was one; a failure was one, or the time was over;
\* a workflow said to be gone is gone, or never was where the watch looks for it.
VerdictIsTrue ==
  /\ verdict = "Succeeded" => phase = "Succeeded" /\ ended <= finished
  /\ verdict = "Failed" =>
       \/ phase = "Failed" /\ ended <= finished
       \/ finished >= timeout(watch) \/ MayRefuse(watch)
  /\ verdict = "none" => ~present \/ ~watch.here

\* A workflow that ends in the first half of its time, or BackoffMax before its
\* end, is judged by its own phase and never by the time: there is a poll left.
JudgedIfInTime ==
  LET last == IF watch.kind = "check" /\ watch.spec.BackoffMax # 0
              THEN timeout(watch) - watch.spec.BackoffMax ELSE timeout(watch) \div 2
  IN  /\ ended \in Nat /\ ended + Lag < last /\ ~MayRefuse(watch)
      /\ phase \in {"Succeeded", "Failed"}
      => verdict \in {None, phase, "none", "error"}

\* A watch is over soon after the timeout, whatever becomes of the workflow.
WatchIsBounded ==
  pc # "done" => now <= timeout(watch) + Longest(watch) + 2 * Lag

\* "do this once per second": never more often, also for a timeout below a minute
\* whose sixtieth is no second; nor more often than the shortest pause (BackoffMin
\* of a sensible spec) allows, but for the last poll after the end of the time.
NotBusy ==
  /\ polls <= now + 2
  /\ polls * Shortest(watch) <= now + 2 * Shortest(watch)

\* A check that the watch gives up runs on at most as long as the engine was late
\* to begin and to end it, and so does a remedy if RepeatAfterSec is within the
\* timeout: its objects are deleted then.
GivenUpSoonEnds ==
  /\ verdict = "Failed" /\ present /\ phase = "Running" /\ ~MayRefuse(watch)
  /\ watch.spec.activeDeadlineSeconds = None
  /\ watch.kind = "check" \/ watch.spec.RepeatAfterSec <= timeout(watch)
  => now <= finished + begun + Grace

\* Every watch ends: also of a workflow that never has a status, or ends in a
\* phase the code does not know.
WatchEnds == <>(pc = "done")

=============================================================================
