---------------------------- MODULE PeriodicCheck ----------------------------
(***************************************************************************)
(* What the scheduling loop promises, seen from outside: a HealthCheck that *)
(* is to run again and again always has something that keeps it going.     *)
(* The controller is told to look at it, or its timer is armed, or a run   *)
(* goes on; each of them comes from another one, and the last one is given  *)
(* up only when the HealthCheck is not wanted any more.                    *)
(***************************************************************************)
CONSTANT HealthCheck

VARIABLES
  wanted,   \* wanted[h]: h exists and is periodic
  claims    \* claims[h]: what keeps h going

vars == <<wanted, claims>>

Claim == {"told", "timer", "run"}

\* h goes from its claims to new ones, and is not forgotten.
Becomes(h, new) ==
  /\ wanted[h] => new # {}
  /\ claims' = [claims EXCEPT ![h] = new]
  /\ UNCHANGED wanted

\* An event of the cluster, or a write of the controller's own.
Ask(h) ==
  /\ \E b \in BOOLEAN : wanted' = [wanted EXCEPT ![h] = b]
  /\ claims' = [claims EXCEPT ![h] = @ \cup {"told"}]

\* The controller looks at h: it starts a run, or sees that there is nothing to
\* do; the timer of one that is not wanted may be stopped.
Look(h) ==
  /\ "told" \in claims[h]
  /\ \E rest \in {claims[h], claims[h] \ {"told"}} :
       \/ Becomes(h, rest) \/ Becomes(h, rest \cup {"run"})
       \/ ~wanted[h] /\ Becomes(h, rest \ {"timer"})

\* The timer fires and becomes a run.
Fire(h) ==
  /\ "timer" \in claims[h]
  /\ LET rest == claims[h] \ {"timer"} IN
       Becomes(h, rest \cup {"run"}) \/ Becomes(h, rest)

\* A run goes on or ends; it may arm the timer, write or fail.
Work(h) ==
  /\ "run" \in claims[h]
  /\ \E rest \in {claims[h], claims[h] \ {"run"}}, new \in SUBSET {"told", "timer"} :
       Becomes(h, rest \cup new)

\* The process dies, and looks at what is wanted when it comes back.
Crash ==
  /\ claims' \in [HealthCheck -> {{}, {"told"}}]
  /\ \A h \in HealthCheck : wanted[h] => claims'[h] # {}
  /\ UNCHANGED wanted

Init ==
  /\ wanted \in [HealthCheck -> BOOLEAN]
  /\ claims \in [HealthCheck -> {{}, {"told"}}]
  /\ \A h \in HealthCheck : wanted[h] => claims[h] # {}

Next ==
  \/ \E h \in HealthCheck : Ask(h) \/ Look(h) \/ Fire(h) \/ Work(h)
  \/ Crash

Spec == Init /\ [][Next]_vars

-----------------------------------------------------------------------------
(* What that means. *)

TypeOK ==
  /\ wanted \in [HealthCheck -> BOOLEAN]
  /\ claims \in [HealthCheck -> SUBSET Claim]

\* A HealthCheck that is wanted is never forgotten.
NobodyIsForgotten == \A h \in HealthCheck : wanted[h] => claims[h] # {}

\* Nothing starts by itself: a timer is armed by a run; a run comes from a look of
\* the controller, or from a timer.
NothingComesFromNothing ==
  [][\A h \in HealthCheck :
       /\ "timer" \in claims'[h] => claims[h] \cap {"timer", "run"} # {}
       /\ "run" \in claims'[h] => claims[h] # {}]_vars

=============================================================================
