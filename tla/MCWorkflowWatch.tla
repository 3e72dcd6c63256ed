--------------------------- MODULE MCWorkflowWatch ---------------------------
(***************************************************************************)
(* Instances of WorkflowWatch for TLC.                                     *)
(***************************************************************************)
EXTENDS WorkflowWatch

\* Nothing set but the interval; a timeout of its own, longer and shorter than the
\* interval; sensible limits, and a template with a deadline; limits and a factor
\* that the library may refuse; a schedule whose interval is not known.
Plain == [Timeout |-> 0, RepeatAfterSec |-> 5, BackoffMax |-> 0, BackoffMin |-> 0,
          BackoffFactor |-> FALSE, activeDeadlineSeconds |-> None]
WatchedSpecs ==
  {Plain,
   [Plain EXCEPT !.Timeout = 6],
   [Plain EXCEPT !.Timeout = 3],
   [Plain EXCEPT !.BackoffMax = 2],
   [Plain EXCEPT !.BackoffMin = 2],
   [Plain EXCEPT !.BackoffMax = 1, !.activeDeadlineSeconds = 2],
   [Plain EXCEPT !.BackoffMax = 2, !.BackoffMin = 3, !.BackoffFactor = TRUE],
   [Plain EXCEPT !.RepeatAfterSec = 0]}

=============================================================================
