--------------------------- MODULE MCRemedyStatus ---------------------------
(***************************************************************************)
(* Instances of RemedyStatus for TLC.                                      *)
(***************************************************************************)
EXTENDS RemedyStatus, TLC

CONSTANTS r1, r2

Remedies(limit, interval) ==
  [Remedy |-> TRUE, RemedyRunsLimit |-> limit, RemedyResetInterval |-> interval]

\* No remedy, a remedy without a limit, and limits; a limit of which the reset
\* interval is not set is none.
AllSpecs == {[Remedies(0, 0) EXCEPT !.Remedy = FALSE],
             Remedies(0, 0), Remedies(1, 1), Remedies(2, 1), Remedies(1, 0)}
OneLimit == {Remedies(1, 1), Remedies(0, 0)}

AllFaults == {"poll", "create", "remedyGone", "remedyPoll", "remedyWrite",
              "cleanup", "write"}
StaleFaults == AllFaults \cup {"stale"}

\* Without the history that only WithinLimit is about, which no action reads but
\* to write it.
RecordView == <<object, pc, copy, verdicts, remedyVerdicts>>

RunSymmetry == Permutations(Run)

=============================================================================
