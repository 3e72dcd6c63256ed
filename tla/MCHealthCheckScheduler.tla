----------------------- MODULE MCHealthCheckScheduler -----------------------
(***************************************************************************)
(* Instances of HealthCheckScheduler for TLC: specs, fault sets and naming *)
(* schemes its configurations choose from.                                 *)
(***************************************************************************)
EXTENDS HealthCheckScheduler, TLC

CONSTANTS h1, h2, c1, c2, c3, c4

AnySpec(repeat) == [resource |-> TRUE, ns |-> "health",
                    repeatAfterSec |-> repeat, cron |-> FALSE, remedy |-> FALSE]

EverySecond     == [AnySpec(1) EXCEPT !.remedy = TRUE]
ByCron          == [AnySpec(0) EXCEPT !.cron = TRUE]
PausedCheck     == AnySpec(-1)
NoResource      == [AnySpec(1) EXCEPT !.resource = FALSE]

\* One spec, or the edits a user makes between several.
OneSpec     == {AnySpec(1)}
OneCron     == {ByCron}
PauseSpecs  == {AnySpec(1), PausedCheck}
RemedySpec  == {EverySecond}
FairSpecs   == {EverySecond, PausedCheck}
SpecsInOneNamespace == {EverySecond, ByCron, PausedCheck, NoResource}

\* Every call of a worker that returns an error may fail; not the Get of
\* Reconcile, and no panic.
WorkerFaults == {"worker"} \X {"cron", "submit", "poll", "remedy", "persist", "final"}
AllFaults == {"worker", "timer"} \X {"get", "submit", "poll", "gone", "remedy",
                                     "panic", "persist", "final"}

SingleName == [h \in {h1} |-> "a"]
SameName   == [h \in {h1, h2} |-> "a"]

\* c1 and c2 are closures of h1, c3 and c4 of h2.
Owner == [c \in Helper |-> IF c \in {c1, c2} THEN h1 ELSE h2]
HelperSymmetry == Permutations({c1, c2} \cap Helper)
                  \cup Permutations({c3, c4} \cap Helper)

=============================================================================
