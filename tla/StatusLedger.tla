---------------------------- MODULE StatusLedger ----------------------------
(***************************************************************************)
(* What the status record of a HealthCheck promises, seen from outside: it *)
(* is a ledger of runs.  A run is one entry, of its own verdict and that of *)
(* its remedy, put at once onto what the ledger says: although it is read  *)
(* before the workflow starts and written after the remedy has ended.      *)
(***************************************************************************)
EXTENDS Integers

VARIABLES
  passed, failed,    \* verdicts of runs
  cured, uncured     \* verdicts of remedies since the last reset

runs == <<passed, failed>>
remedies == <<cured, uncured>>
vars == <<runs, remedies>>

\* The remedies before the run, unless it has reset them.
Kept == {remedies, <<0, 0>>}

Success ==
  /\ passed' = passed + 1 /\ UNCHANGED failed
  /\ remedies' \in Kept

\* A failed run counts one remedy at most.
Failure ==
  /\ failed' = failed + 1 /\ UNCHANGED passed
  /\ \E k \in Kept : remedies' \in {k, <<k[1] + 1, k[2]>>, <<k[1], k[2] + 1>>}

Init == runs = <<0, 0>> /\ remedies = <<0, 0>>

Next == Success \/ Failure

Spec == Init /\ [][Next]_vars

-----------------------------------------------------------------------------
(* What that means. *)

TypeOK == runs \in Nat \X Nat /\ remedies \in Nat \X Nat

\* No step takes a verdict of a run back, or counts two.
CountersNeverGoBack ==
  [][/\ passed' >= passed /\ failed' >= failed
     /\ passed' + failed' <= passed + failed + 1]_vars

\* There is no more than one remedy for a failed run.
NoRemedyWithoutFailure == cured + uncured <= failed

=============================================================================
