---------------------------- MODULE MCTimerLock ----------------------------
(***************************************************************************)
(* Instances of TimerLock for TLC.                                         *)
(***************************************************************************)
EXTENDS TimerLock

CONSTANTS h1, h2

\* Label keys: the instance id and one more; values: the controller's instance
\* id and another one.
NoLabels  == [doc |-> "map", labels |-> DefaultLabels]
Labels(f) == [doc |-> "map", labels |-> f]
Bad       == NoContent
Empty     == [doc |-> "empty", labels |-> DefaultLabels]

\* Both sources ask for the same team and for different instance ids; that of h2
\* may be empty.
Team(id)   == Labels([l \in {"instanceid", "team"} |-> IF l = "team" THEN "x" ELSE id])
Disputing  == [h \in {h1, h2} |->
                 IF h = h1 THEN {Team("x")} ELSE {Team(WfInstanceId), Empty}]
Plain      == [h \in {h1, h2} |-> {NoLabels}]
Unreadable == [Plain EXCEPT ![h2] = {Bad}]

=============================================================================
