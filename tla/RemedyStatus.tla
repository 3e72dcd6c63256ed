---------------------------- MODULE RemedyStatus ----------------------------
(***************************************************************************)
(* The status record of one HealthCheck: the counters of its runs and of   *)
(* its remedies, the decision whether a failed run gets a remedy, and the  *)
(* writes (internal/controllers/healthcheck_controller.go).                *)
(*                                                                         *)
(* A run reads the object, works on its own copy of the status for as long *)
(* as its workflow and the remedy take, and then overwrites the status of  *)
(* the object with the copy.  All reads come from the informer's cache,    *)
(* which may be behind; a write is refused unless the cache has caught up. *)
(* HealthCheckScheduler says when runs start and what else they do; two of *)
(* one HealthCheck can be in flight, as a worker and a closure.  The       *)
(* status is a subresource: the Update with which a worker ends does not   *)
(* write it.                                                               *)
(***************************************************************************)
EXTENDS Integers

CONSTANTS
  Run,          \* the runs in flight: threads of one HealthCheck
  Specs,        \* the specs a user may give it
  MaxAge,       \* an age of MaxAge stands for "MaxAge or older"
  MaxVerdicts,  \* bound on the verdicts of health-check workflows
  Faults,       \* the calls that may fail; "stale": the cache may be behind
  Events,       \* what users and the cluster may do
  NoCopy        \* held by no run

\* Remedy: ~RemedyWorkflow.IsEmpty()
SpecFields == [Remedy : BOOLEAN, RemedyRunsLimit : Int, RemedyResetInterval : Int]

ASSUME SpecsAssumption ==
  /\ Specs \subseteq SpecFields
  /\ \A s \in Specs : s.RemedyResetInterval < MaxAge
ASSUME BoundsAssumption == MaxAge \in Nat \ {0} /\ MaxVerdicts \in Nat

\* The age of a time that is nil.
Never == -1

\* A status: counters, and the age of remedyFinishedAt.
Status == [SuccessCount : Nat, FailedCount : Nat, TotalHealthCheckRuns : Nat,
           RemedySuccessCount : Nat, RemedyFailedCount : Nat,
           RemedyTotalRuns : Nat, RemedyFinishedAt : {Never} \cup 0..MaxAge]
Fresh == [SuccessCount |-> 0, FailedCount |-> 0, TotalHealthCheckRuns |-> 0,
          RemedySuccessCount |-> 0, RemedyFailedCount |-> 0,
          RemedyTotalRuns |-> 0, RemedyFinishedAt |-> Never]

ASSUME CopyAssumption == NoCopy \notin [status : Status, spec : SpecFields]

VARIABLES
  status,        \* of the object
  spec,          \* of the object
  cached,        \* the object as the cache shows it
  pc,            \* pc[t]: where a run is
  copy,          \* copy[t]: the status and spec it works on
  (* History: *)
  verdicts,      \* verdicts of health-check workflows the controller has seen
  remedyVerdicts,\* verdicts of remedies it has seen
  started,       \* remedies started since the HealthCheck passed, or none was
                 \* recorded for longer than the reset interval
  unrecorded,    \* those of them whose verdict did not get into the status (yet)
  sinceRemedy,   \* age of the last verdict of a remedy that did
  pending        \* the runs whose copy has a verdict of a remedy that did not

object  == <<status, spec, cached>>
window  == <<started, unrecorded, sinceRemedy>>
history == <<verdicts, remedyVerdicts, window, pending>>
vars == <<object, pc, copy, history>>

-----------------------------------------------------------------------------
(* What watchWorkflowReschedule and watchRemedyWorkflow do to a status. *)

\* Mutants of RemedyReset: the total is forgotten; the runs are reset as well.
ResetKeepsTotal(s) ==
  [s EXCEPT !.RemedySuccessCount = 0, !.RemedyFailedCount = 0,
            !.RemedyFinishedAt = Never]
ResetEverything(s) == Fresh

RemedyReset(s) ==
  [s EXCEPT !.RemedyTotalRuns = 0, !.RemedySuccessCount = 0,
            !.RemedyFailedCount = 0, !.RemedyFinishedAt = Never]

\* The workflow succeeded; with a remedy in the spec that has run, its values
\* are reset.
Passed(s, sp) ==
  LET p == [s EXCEPT !.SuccessCount = @ + 1,
                     !.TotalHealthCheckRuns = s.SuccessCount + 1 + s.FailedCount]
  IN IF sp.Remedy /\ s.RemedyTotalRuns >= 1 THEN RemedyReset(p) ELSE p

Failed(s) ==
  [s EXCEPT !.FailedCount = @ + 1,
            !.TotalHealthCheckRuns = s.SuccessCount + s.FailedCount + 1]

\* Mutant of RemedyCounted: a failed remedy counts as a failed run.
RemedyCountedAsRun(s, ok) ==
  [s EXCEPT !.RemedySuccessCount = IF ok THEN @ + 1 ELSE @,
            !.FailedCount = IF ok THEN @ ELSE @ + 1,
            !.RemedyTotalRuns = @ + 1, !.RemedyFinishedAt = 0]

RemedyCounted(s, ok) ==
  [s EXCEPT !.RemedySuccessCount = IF ok THEN @ + 1 ELSE @,
            !.RemedyFailedCount = IF ok THEN @ ELSE @ + 1,
            !.RemedyTotalRuns = s.RemedySuccessCount + s.RemedyFailedCount + 1,
            !.RemedyFinishedAt = 0]

\* The limit counts only together with a reset interval.
Limited(sp) == sp.RemedyRunsLimit # 0 /\ sp.RemedyResetInterval # 0

\* Mutant of BelowLimit: off by one.
UpToLimit(s, sp) == sp.RemedyRunsLimit >= s.RemedyTotalRuns

BelowLimit(s, sp) == sp.RemedyRunsLimit > s.RemedyTotalRuns

Older(a) == IF a = Never THEN Never ELSE IF a < MaxAge THEN a + 1 ELSE MaxAge
Aged(s) == [s EXCEPT !.RemedyFinishedAt = Older(@)]

Current == [status |-> status, spec |-> spec]

\* The object changes, and the cache at once or later.
Follow == cached' = IF "stale" \in Faults THEN cached ELSE Current'

-----------------------------------------------------------------------------
Goto(t, label) == pc' = [pc EXCEPT ![t] = label]
Keep(t, s) == copy' = [copy EXCEPT ![t].status = s]

\* The run ends, with or without an error, and its copy is gone.
Stop(t) ==
  /\ Goto(t, "idle")
  /\ copy' = [copy EXCEPT ![t] = NoCopy]

\* The process ends: every run does.
StopAll ==
  /\ pc' = [t \in Run |-> "idle"]
  /\ copy' = [t \in Run |-> NoCopy]

\* Reconcile or a closure reads the object.  A worker that finds it paused
\* writes its copy back as it is.
Begin(t) ==
  /\ pc[t] = "idle"
  /\ copy' = [copy EXCEPT ![t] = cached]
  /\ \/ Goto(t, "watch")
     \/ "pause" \in Events /\ Goto(t, "write")
  /\ pending' = pending \ {t}
  /\ UNCHANGED <<object, verdicts, remedyVerdicts, window>>

\* The workflow is not created, not found, or cannot be polled.
GiveUp(t) ==
  /\ pc[t] = "watch" /\ "poll" \in Faults
  /\ Stop(t)
  /\ UNCHANGED <<object, history>>

Pass(t) ==
  /\ pc[t] = "watch" /\ verdicts < MaxVerdicts
  /\ Keep(t, Passed(copy[t].status, copy[t].spec))
  /\ Goto(t, "write")
  /\ verdicts' = verdicts + 1 /\ started' = 0 /\ unrecorded' = 0
  /\ UNCHANGED <<object, remedyVerdicts, sinceRemedy, pending>>

\* A failed run asks for a remedy, or not: below the limit, or without one,
\* it gets a remedy; at the limit it gets one after a reset.  The time of the
\* last remedy is dereferenced there, nil or not: a panic ends the run of a
\* worker, and the process when it is a closure's.
Fail(t) ==
  LET sp == copy[t].spec
      s == Failed(copy[t].status)
      atLimit == sp.Remedy /\ Limited(sp) /\ ~BelowLimit(s, sp)
  IN
  /\ pc[t] = "watch" /\ verdicts < MaxVerdicts
  /\ \/ ~sp.Remedy /\ Keep(t, s) /\ Goto(t, "write")
     \/ /\ sp.Remedy /\ (~Limited(sp) \/ BelowLimit(s, sp))
        /\ Keep(t, s) /\ Goto(t, "remedy")
     \/ atLimit /\ s.RemedyFinishedAt = Never /\ (Stop(t) \/ StopAll)
     \/ /\ atLimit /\ s.RemedyFinishedAt # Never
        /\ sp.RemedyResetInterval >= s.RemedyFinishedAt
        /\ Keep(t, s) /\ Goto(t, "write")
     \/ /\ atLimit /\ s.RemedyFinishedAt # Never
        /\ sp.RemedyResetInterval < s.RemedyFinishedAt
        /\ Keep(t, RemedyReset(s)) /\ Goto(t, "remedy")
  /\ verdicts' = verdicts + 1
  /\ UNCHANGED <<object, remedyVerdicts, window, pending>>

\* One more of n since the last reset that the spec asks for.
OneMore(n, sp) == IF sinceRemedy > sp.RemedyResetInterval THEN 1 ELSE n + 1

\* processRemedyWorkflow: RBAC and the remedy workflow are created.
StartRemedy(t) ==
  /\ pc[t] = "remedy"
  /\ \/ /\ Goto(t, "watchRemedy") /\ UNCHANGED copy
        /\ started' = OneMore(started, copy[t].spec)
        /\ unrecorded' = OneMore(unrecorded, copy[t].spec)
     \/ "create" \in Faults /\ Stop(t) /\ UNCHANGED <<started, unrecorded>>
  /\ UNCHANGED <<object, verdicts, remedyVerdicts, sinceRemedy, pending>>

\* A remedy is not found, which is no error (its namespace may not be that of the
\* health-check workflow, where it is polled); or cannot be polled.
LoseRemedy(t) ==
  /\ pc[t] = "watchRemedy"
  /\ \/ "remedyGone" \in Faults /\ Goto(t, "cleanup") /\ UNCHANGED copy
     \/ "remedyPoll" \in Faults /\ Stop(t)
  /\ UNCHANGED <<object, history>>

CountRemedy(t) ==
  /\ pc[t] = "watchRemedy"
  /\ \E ok \in BOOLEAN : Keep(t, RemedyCounted(copy[t].status, ok))
  /\ Goto(t, "writeRemedy")
  /\ remedyVerdicts' = remedyVerdicts + 1 /\ pending' = pending \cup {t}
  /\ UNCHANGED <<object, verdicts, window>>

\* The verdict of a remedy gets into the status with the first copy of it.
Recorded(t) ==
  /\ unrecorded' = IF t \in pending THEN unrecorded - 1 ELSE unrecorded
  /\ sinceRemedy' = IF t \in pending THEN copy[t].status.RemedyFinishedAt
                    ELSE sinceRemedy
  /\ pending' = pending \ {t}
  /\ UNCHANGED <<verdicts, remedyVerdicts, started>>

\* updateHealthCheckStatus: it gets the object anew, puts the copy's status in,
\* and updates it; against a newer version in the API server that is a conflict.
Overwrite(t) ==
  /\ cached = Current
  /\ status' = copy[t].status /\ UNCHANGED spec
  /\ Follow /\ Recorded(t)

\* The counters of the run are written, too.  When it fails, also by conflicts
\* until the retries end, so does the run; when the copy says that the object is
\* being deleted, it is left out.
WriteRemedy(t) ==
  /\ pc[t] = "writeRemedy"
  /\ \/ Overwrite(t) /\ Goto(t, "cleanup") /\ UNCHANGED copy
     \/ /\ "remedyWrite" \in Faults \/ cached # Current
        /\ Stop(t) /\ UNCHANGED <<object, history>>
     \/ /\ "remedyWrite" \in Faults
        /\ Goto(t, "cleanup") /\ UNCHANGED <<copy, object, history>>

\* deleteRBACForWorkflow
Cleanup(t) ==
  /\ pc[t] = "cleanup"
  /\ \/ Goto(t, "write") /\ UNCHANGED copy
     \/ "cleanup" \in Faults /\ Stop(t)
  /\ UNCHANGED <<object, history>>

\* The run's own updateHealthCheckStatus.
Write(t) ==
  /\ pc[t] = "write"
  /\ \/ Overwrite(t)
     \/ ("write" \in Faults \/ cached # Current) /\ UNCHANGED <<object, history>>
  /\ Stop(t)

-----------------------------------------------------------------------------
Edit ==
  /\ "edit" \in Events
  /\ \E s \in Specs \ {spec} : spec' = s
  /\ UNCHANGED <<status, pc, copy, history>>
  /\ Follow

\* A watch event reaches the cache.  An event that is late is the same as a change
\* that came later: nobody reads the object but through the cache.
Deliver ==
  /\ "stale" \in Faults
  /\ cached' = Current
  /\ UNCHANGED <<status, spec, pc, copy, history>>

Crash ==
  /\ "crash" \in Events
  /\ StopAll /\ UNCHANGED <<object, history>>

\* Time passes; the times in the copies age with it.
Tick ==
  /\ status' = Aged(status)
  /\ cached' = [cached EXCEPT !.status = Aged(cached.status)]
  /\ copy' = [t \in Run |->
       IF copy[t] = NoCopy THEN NoCopy
       ELSE [copy[t] EXCEPT !.status = Aged(copy[t].status)]]
  /\ sinceRemedy' = Older(sinceRemedy)
  /\ UNCHANGED <<spec, pc, verdicts, remedyVerdicts, started, unrecorded, pending>>

Init ==
  /\ status = Fresh /\ spec \in Specs /\ cached = Current
  /\ pc = [t \in Run |-> "idle"] /\ copy = [t \in Run |-> NoCopy]
  /\ verdicts = 0 /\ remedyVerdicts = 0
  /\ started = 0 /\ unrecorded = 0 /\ sinceRemedy = MaxAge /\ pending = {}

Step(t) == \/ Begin(t) \/ GiveUp(t) \/ Pass(t) \/ Fail(t)
           \/ StartRemedy(t) \/ LoseRemedy(t) \/ CountRemedy(t)
           \/ WriteRemedy(t) \/ Cleanup(t) \/ Write(t)

Next == (\E t \in Run : Step(t)) \/ Edit \/ Deliver \/ Crash \/ Tick

Spec == Init /\ [][Next]_vars

-----------------------------------------------------------------------------
(* Properties. *)

Label == {"idle", "watch", "remedy", "watchRemedy", "writeRemedy", "cleanup",
          "write"}

TypeOK ==
  /\ status \in Status /\ spec \in Specs
  /\ cached \in [status : Status, spec : Specs]
  /\ pc \in [Run -> Label]
  /\ copy \in [Run -> [status : Status, spec : Specs] \cup {NoCopy}]
  /\ \A t \in Run : pc[t] # "idle" => copy[t] # NoCopy
  /\ verdicts \in 0..MaxVerdicts /\ remedyVerdicts \in Nat
  /\ started \in Nat /\ unrecorded \in Int
  /\ sinceRemedy \in {Never} \cup 0..MaxAge /\ pending \subseteq Run

\* At the limit the code subtracts *remedyFinishedAt without a look whether it
\* is nil: no run whose copy is at a limit holds a nil time, through resets,
\* edits of the limit, lost writes and copies that overwrite each other.
NoNilDereference ==
  \A t \in Run :
    pc[t] = "watch" =>
      LET sp == copy[t].spec
          s == copy[t].status
      IN sp.Remedy /\ Limited(sp) /\ ~BelowLimit(s, sp) => s.RemedyFinishedAt # Never

\* No verdict is counted twice, although a copy with it may be written twice
\* (after the remedy, and at the end), and by runs that overwrite each other.
NeverCountedTwice ==
  /\ status.SuccessCount + status.FailedCount <= verdicts
  /\ status.TotalHealthCheckRuns <= verdicts
  /\ status.RemedyTotalRuns <= remedyVerdicts

\* Whatever fails, is edited or dies: a run changes the counters as if it had read
\* them, had its verdicts and written them at once, or not at all; if the runs of
\* the HealthCheck neither overlap nor read an old version (InTurn).
Ledger == INSTANCE StatusLedger WITH
  passed <- status.SuccessCount, failed <- status.FailedCount,
  cured <- status.RemedySuccessCount, uncured <- status.RemedyFailedCount
KeepsALedger == Ledger!Spec

\* A limit that counts (with a reset interval, as the code asks for at 679, though
\* README.md:24 lets only a limit that is not set mean "always"): since the
\* HealthCheck passed, or no remedy was recorded for the reset interval, no more than
\* remedyRunsLimit remedies are started, and one for each whose verdict did not get
\* into the status: it was lost with a crash, an error, or a write.
WithinLimit ==
  [][\A t \in Run :
       pc[t] = "remedy" /\ pc'[t] = "watchRemedy" /\ Limited(copy[t].spec) =>
         started' <= copy[t].spec.RemedyRunsLimit + (unrecorded' - 1)]_vars

-----------------------------------------------------------------------------
(* The inductive invariants behind them. *)

\* Totals add up, and a remedy that was counted has a time.
Consistent(s) ==
  /\ s.TotalHealthCheckRuns = s.SuccessCount + s.FailedCount
  /\ s.RemedyTotalRuns = s.RemedySuccessCount + s.RemedyFailedCount
  /\ s.RemedyTotalRuns > 0 => s.RemedyFinishedAt # Never
Counted(s, runs, remedies) ==
  /\ s.SuccessCount + s.FailedCount <= runs
  /\ s.RemedyTotalRuns <= remedies
RecordInv ==
  /\ TypeOK
  /\ Consistent(status) /\ Counted(status, verdicts, remedyVerdicts)
  /\ Consistent(cached.status) /\ Counted(cached.status, verdicts, remedyVerdicts)
  /\ \A t \in Run : copy[t] # NoCopy =>
       /\ Consistent(copy[t].status)
       /\ Counted(copy[t].status, verdicts, remedyVerdicts)

\* Limits that are not negative.
LimitsAreCounts == \A s \in Specs : s.RemedyRunsLimit >= 0

\* Runs of the HealthCheck do not overlap, and a run reads what the last one wrote.
InTurn == (\A t, u \in Run : t = u) /\ "stale" \notin Faults

\* Then the copy c of a run is the status s, with the verdicts the run has seen:
\* none; its own; and n remedies, after those before it or after a reset.
Counters(s) == <<s.SuccessCount, s.FailedCount, s.RemedySuccessCount, s.RemedyFailedCount>>
RemedyPair(s) == <<s.RemedySuccessCount, s.RemedyFailedCount>>
HasPassed(s, c) ==
  /\ c.SuccessCount = s.SuccessCount + 1 /\ c.FailedCount = s.FailedCount
  /\ RemedyPair(c) \in {RemedyPair(s), <<0, 0>>}
HasFailed(s, c, n) ==
  /\ c.SuccessCount = s.SuccessCount /\ c.FailedCount = s.FailedCount + 1
  /\ \E r \in {RemedyPair(s), <<0, 0>>} :
       RemedyPair(c) \in IF n = 0 THEN {r} ELSE {<<r[1] + 1, r[2]>>, <<r[1], r[2] + 1>>}
Seen(l, s, c) ==
  \/ l \in {"watch", "cleanup", "write"} /\ Counters(c) = Counters(s)
  \/ l = "write" /\ HasPassed(s, c)
  \/ l \in {"remedy", "watchRemedy", "cleanup", "write"} /\ HasFailed(s, c, 0)
  \/ l \in {"writeRemedy", "cleanup", "write"} /\ HasFailed(s, c, 1)
LedgerInv ==
  /\ RecordInv /\ cached = Current
  /\ \A t \in Run : pc[t] # "idle" => Seen(pc[t], status, copy[t].status)

\* The status knows of every remedy but those that are unrecorded, and so does the
\* copy of the one run, with the one that is pending; and about to start one, the
\* run is below its limit, or no remedy was recorded for long enough.
Covers(s, n) == s.RemedyTotalRuns + unrecorded >= started + n
Timed(s) == s.RemedyFinishedAt # Never => s.RemedyFinishedAt = sinceRemedy
Knows(s) == Covers(s, 0) /\ Timed(s)
MayStart(s, sp) ==
  \/ Covers(s, 0) /\ (Limited(sp) => BelowLimit(s, sp))
  \/ sinceRemedy > sp.RemedyResetInterval
LimitOf(t) ==
  /\ pc[t] \notin {"idle", "remedy"} =>
       Covers(copy[t].status, IF t \in pending THEN 1 ELSE 0)
  /\ pc[t] = "remedy" => MayStart(copy[t].status, copy[t].spec)
  /\ pc[t] # "idle" /\ t \notin pending => Timed(copy[t].status)
  /\ pc[t] \in {"watch", "remedy", "watchRemedy"} => t \notin pending
LimitInv ==
  /\ RecordInv /\ cached = Current /\ Knows(status)
  /\ \A t \in Run : LimitOf(t)

=============================================================================
