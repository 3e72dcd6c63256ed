--------------------------- MODULE MCWorkflowRBAC ---------------------------
(***************************************************************************)
(* Instances of WorkflowRBAC for TLC.                                      *)
(***************************************************************************)
EXTENDS WorkflowRBAC

CONSTANTS h1, h2, w1, w2, n1, n2, r1, r2, r3

Owner == [t \in Run |-> IF t = w1 THEN h1 ELSE h2]
Suffixed == [n \in Name |-> IF n = "a" THEN "a-remedy" ELSE n]

\* Both health checks run under one account; the remedy of the first names it,
\* too, at cluster level, and that of the second its own in another namespace.
Clusterwide == [sa |-> "a", ns |-> n1, level |-> "cluster", rules |-> None,
                remedy |-> TRUE, remedySa |-> "a", remedyNs |-> n1,
                remedyRules |-> None]
Namespaced == [sa |-> "a", ns |-> n1, level |-> "namespace", rules |-> r3,
               remedy |-> TRUE, remedySa |-> "b", remedyNs |-> n2,
               remedyRules |-> None]

\* Edits take the remedy away, and its account.
SeparateSpecs == [h \in HealthCheck |->
  IF h = h1 THEN {Clusterwide, [Clusterwide EXCEPT !.remedy = FALSE],
                  [Clusterwide EXCEPT !.remedySa = None]}
  ELSE {Namespaced}]

OwnObjects == {<<"ServiceAccount", "b", n2>>, <<"ClusterRole", "a-remedy", ClusterWide>>}
AllFaults == {"get", "create", "submit", "watch", "delete", "write"}

=============================================================================
