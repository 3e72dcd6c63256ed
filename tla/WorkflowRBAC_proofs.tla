------------------------- MODULE WorkflowRBAC_proofs -------------------------
(***************************************************************************)
(* Proofs about WorkflowRBAC, for any HealthChecks, runs, names and specs. *)
(***************************************************************************)
EXTENDS WorkflowRBAC, TLAPS

Accounts == [sa : Name, ns : Namespace, level : STRING, rules : Rules]

\* An account has three objects, different from each other.
LEMMA ObjectFacts ==
  ASSUME NEW a \in Accounts, NEW i \in 1..3
  PROVE  /\ Object(a, i).id \in Identity /\ Object(a, i).holds \in Holding
         /\ \A k \in 1..3 : Object(a, i).id = Object(a, k).id => i = k
<1>1. /\ a.sa \in Name /\ a.ns \in Namespace /\ a.rules \in Rules
  BY DEF Accounts
<1>2. /\ Object(a, 1) = ServiceAccount(a)
      /\ Object(a, 2) \in {ClusterRole(a), NameSpaceRole(a)}
      /\ Object(a, 3) \in {ClusterRoleBinding(a), NameSpaceRoleBinding(a)}
  BY DEF Object
<1>3. /\ Object(a, 1).id = <<"ServiceAccount", a.sa, a.ns>>
      /\ Object(a, 1).holds = None
  BY <1>2 DEF ServiceAccount
<1>4. /\ Object(a, 2).id \in {<<"ClusterRole", a.sa, ClusterWide>>, <<"Role", a.sa, a.ns>>}
      /\ Object(a, 2).holds = a.rules
  BY <1>2 DEF ClusterRole, NameSpaceRole
<1>5. /\ Object(a, 3).id \in {<<"ClusterRoleBinding", a.sa, ClusterWide>>,
                              <<"RoleBinding", a.sa, a.ns>>}
      /\ Object(a, 3).holds = a.ns
  BY <1>2 DEF ClusterRoleBinding, NameSpaceRoleBinding
<1>6. i \in {1, 2, 3}
  OBVIOUS
<1>7. /\ Object(a, i).id \in Identity /\ Object(a, i).holds \in Holding
  BY <1>1, <1>3, <1>4, <1>5, <1>6 DEF Identity, Kind, Holding
<1>8. Object(a, 1).id[1] \notin {Object(a, 2).id[1], Object(a, 3).id[1]}
  BY <1>3, <1>4, <1>5
<1>9. Object(a, 2).id[1] # Object(a, 3).id[1]
  BY <1>4, <1>5
<1>10. \A k \in {1, 2, 3} : Object(a, i).id = Object(a, k).id => i = k
  BY <1>6, <1>8, <1>9
<1>11. 1..3 = {1, 2, 3}
  OBVIOUS
<1> QED
  BY <1>7, <1>10, <1>11

\* Accounts of specs are accounts.
LEMMA AccountFacts ==
  ASSUME NEW h \in HealthCheck, NEW s \in SpecsOf[h]
  PROVE  /\ CheckAccount(s) \in Accounts
         /\ HasRemedy(s) => RemedyAccount(s) \in Accounts
<1>1. /\ s.sa \in Name /\ s.ns \in Namespace /\ s.level \in STRING
      /\ s.rules \in Rules \cup {None} /\ s.remedy \in BOOLEAN
      /\ s.remedySa \in Name \cup {None} /\ s.remedyNs \in Namespace
      /\ s.remedyRules \in Rules \cup {None}
  BY SpecsAssumption DEF SpecFields
<1>2. \A r \in Rules \cup {None}, d \in Rules : resolveRBACRules(r, d) \in Rules
  BY DEF resolveRBACRules
<1>3. CheckAccount(s) \in Accounts
  BY <1>1, <1>2, SpecsAssumption DEF CheckAccount, Accounts
<1>4. HasRemedy(s) => remedySa(s) \in Name
  BY <1>1, NamesAssumption DEF HasRemedy, Rejected, remedySa
<1>5. HasRemedy(s) => RemedyAccount(s) \in Accounts
  BY <1>1, <1>2, <1>4, SpecsAssumption DEF RemedyAccount, Accounts
<1> QED
  BY <1>3, <1>5

-----------------------------------------------------------------------------
(* Types: a run at work has a job, and works for a remedy if there is one. *)

GoodJob(h, j) ==
  j \in Job /\ j.spec \in SpecsOf[h] /\ (j.for = "remedy" => HasRemedy(j.spec))

TypeInv == TypeOK /\ \A t \in Run : pc[t] # "idle" => GoodJob(HcOf[t], job[t])

\* The run t makes its next call at l, with the job j.
RunTo(t, l, j) ==
  /\ l \in Label /\ Goto(t, l) /\ job' = [job EXCEPT ![t] = j]
  /\ IF l = "idle" THEN j = NoJob ELSE GoodJob(HcOf[t], j)

Objects == [Identity -> Content \cup {Absent}]

LEMMA RunTypes ==
  ASSUME TypeInv, NEW t \in Run, NEW l, NEW j, RunTo(t, l, j), UNCHANGED spec,
         objects' \in Objects, armed' \in [HealthCheck -> BOOLEAN], swapped' \subseteq Run
  PROVE  TypeInv'
<1>1. /\ pc' \in [Run -> Label] /\ job' \in [Run -> Job \cup {NoJob}]
      /\ \A u \in Run : /\ pc'[u] = IF u = t THEN l ELSE pc[u]
                        /\ job'[u] = IF u = t THEN j ELSE job[u]
  BY DEF TypeInv, TypeOK, RunTo, Goto, GoodJob
<1>2. \A u \in Run : IF pc'[u] = "idle" THEN job'[u] = NoJob
                    ELSE GoodJob(HcOf[u], job'[u])
  BY <1>1 DEF TypeInv, TypeOK, RunTo
<1>3. TypeOK'
  BY <1>1, <1>2, SpecsAssumption DEF TypeInv, TypeOK, Objects, GoodJob
<1> QED
  BY <1>2, <1>3 DEF TypeInv

\* What a run at work holds.
LEMMA JobFacts ==
  ASSUME TypeInv, NEW t \in Run, pc[t] # "idle"
  PROVE  /\ GoodJob(HcOf[t], job[t])
         /\ HcOf[t] \in HealthCheck /\ job[t].spec \in SpecsOf[HcOf[t]]
         /\ job[t].at \in 1..3 /\ job[t].for \in {"check", "remedy"}
         /\ Account(job[t]) \in Accounts
         /\ Current(t) = Object(Account(job[t]), job[t].at)
         /\ Current(t).id \in Identity /\ Current(t).holds \in Holding
<1>1. /\ GoodJob(HcOf[t], job[t]) /\ HcOf[t] \in HealthCheck
      /\ job[t].spec \in SpecsOf[HcOf[t]]
      /\ job[t].at \in 1..3 /\ job[t].for \in {"check", "remedy"}
  BY NamesAssumption DEF TypeInv, GoodJob, Job
<1>2. Account(job[t]) \in Accounts
  BY <1>1, AccountFacts DEF Account, GoodJob
<1> QED
  BY <1>1, <1>2, ObjectFacts DEF Current

\* A job with another number, or for the remedy, is a job.
LEMMA NextJob ==
  ASSUME NEW h \in HealthCheck, NEW j, GoodJob(h, j), NEW n \in 1..3
  PROVE  /\ GoodJob(h, [j EXCEPT !.at = n])
         /\ Account([j EXCEPT !.at = n]) = Account(j)
         /\ [j EXCEPT !.at = n].at = n
         /\ [j EXCEPT !.at = n].for = j.for /\ [j EXCEPT !.at = n].spec = j.spec
<1>1. j \in Job
  BY DEF GoodJob
<1>2. /\ [j EXCEPT !.at = n] \in Job /\ [j EXCEPT !.at = n].at = n
      /\ [j EXCEPT !.at = n].for = j.for /\ [j EXCEPT !.at = n].spec = j.spec
  BY <1>1 DEF Job
<1> QED
  BY <1>2 DEF GoodJob, Account

LEMMA StopIs ==
  ASSUME NEW t \in Run, Stop(t)
  PROVE  RunTo(t, "idle", NoJob)
BY DEF Stop, RunTo, Label

\* After an object: the end, the next object, or what comes after all three.
After(t, next, last, l, j) ==
  \/ l = "idle" /\ j = NoJob
  \/ /\ job[t].at \in 1..2 /\ l = next
     /\ j = [job[t] EXCEPT !.at = job[t].at + 1]
  \/ job[t].at = 3 /\ l = last /\ j = job[t]

LEMMA MadeIs ==
  ASSUME TypeInv, NEW t \in Run, pc[t] # "idle", Made(t)
  PROVE  \E l, j : RunTo(t, l, j) /\ After(t, "lookup", "submit", l, j)
<1> USE JobFacts
<1>1. CASE Stop(t)
  BY <1>1, StopIs DEF After
<1>2. CASE NextObject(t, "lookup") /\ job[t].at \in {1, 2}
  <2>1. job[t].at + 1 \in 1..3 /\ job[t].at \in 1..2
    BY <1>2
  <2>2. RunTo(t, "lookup", [job[t] EXCEPT !.at = job[t].at + 1])
    BY <1>2, <2>1, NextJob DEF NextObject, RunTo, Label
  <2> QED
    BY <2>1, <2>2 DEF After
<1>3. CASE job[t].at = 3 /\ Goto(t, "submit") /\ UNCHANGED job
  <2>1. RunTo(t, "submit", job[t])
    BY <1>3 DEF RunTo, Label, TypeInv, TypeOK
  <2> QED
    BY <1>3, <2>1 DEF After
<1> QED
  BY <1>1, <1>2, <1>3 DEF Made

LEMMA DeletedIs ==
  ASSUME TypeInv, NEW t \in Run, pc[t] # "idle", Deleted(t)
  PROVE  \E l, j : RunTo(t, l, j) /\ After(t, "find", "finish", l, j)
<1> USE JobFacts
<1>1. CASE Stop(t)
  BY <1>1, StopIs DEF After
<1>2. CASE NextObject(t, "find") /\ job[t].at \in {1, 2}
  <2>1. job[t].at + 1 \in 1..3 /\ job[t].at \in 1..2
    BY <1>2
  <2>2. RunTo(t, "find", [job[t] EXCEPT !.at = job[t].at + 1])
    BY <1>2, <2>1, NextJob DEF NextObject, RunTo, Label
  <2> QED
    BY <2>1, <2>2 DEF After
<1>3. CASE job[t].at = 3 /\ Goto(t, "finish") /\ UNCHANGED job
  <2>1. RunTo(t, "finish", job[t])
    BY <1>3 DEF RunTo, Label, TypeInv, TypeOK
  <2> QED
    BY <1>3, <2>1 DEF After
<1> QED
  BY <1>1, <1>2, <1>3 DEF Deleted

\* The job a run begins with, and that of a remedy.
LEMMA NewJobs ==
  ASSUME TypeInv, NEW t \in Run, NEW n \in 1..3
  PROVE  /\ GoodJob(HcOf[t], [spec |-> spec[HcOf[t]], for |-> "check", at |-> n])
         /\ pc[t] # "idle" /\ HasRemedy(job[t].spec) =>
              GoodJob(HcOf[t], [[job[t] EXCEPT !.for = "remedy"] EXCEPT !.at = n])
<1>1. /\ HcOf[t] \in HealthCheck /\ spec[HcOf[t]] \in SpecFields
      /\ spec[HcOf[t]] \in SpecsOf[HcOf[t]]
  BY NamesAssumption DEF TypeInv, TypeOK
<1>2. GoodJob(HcOf[t], [spec |-> spec[HcOf[t]], for |-> "check", at |-> n])
  BY <1>1 DEF GoodJob, Job
<1>3. ASSUME pc[t] # "idle", HasRemedy(job[t].spec)
      PROVE  GoodJob(HcOf[t], [[job[t] EXCEPT !.for = "remedy"] EXCEPT !.at = n])
  BY <1>3, JobFacts DEF GoodJob, Job
<1> QED
  BY <1>2, <1>3

\* Every step of a run goes somewhere with a good job, and types stay.
LEMMA StepIsTyped ==
  ASSUME TypeInv, NEW t \in Run, Step(t)
  PROVE  /\ \E l, j : RunTo(t, l, j)
         /\ objects' \in Objects /\ armed' \in [HealthCheck -> BOOLEAN]
         /\ UNCHANGED spec /\ swapped' \subseteq Run
<1> USE NamesAssumption
<1>0. /\ objects \in Objects /\ armed \in [HealthCheck -> BOOLEAN]
      /\ job \in [Run -> Job \cup {NoJob}] /\ HcOf[t] \in HealthCheck
  BY DEF TypeInv, TypeOK, Objects
<1>a. swapped' \in {swapped, swapped \ {t}} /\ swapped \subseteq Run
  BY DEF TypeInv, TypeOK, Step, StartWorker, Fire, Lookup, Create, Submit, WatchCheck,
         WatchRemedy, Find, Delete, Finish
<1>b. swapped' \subseteq Run
  BY <1>a
<1>1. CASE StartWorker(t)
  <2>1. 1 \in 1..3 /\ "lookup" \in Label
    BY DEF Label
  <2>2. RunTo(t, "lookup", [spec |-> spec[HcOf[t]], for |-> "check", at |-> 1])
    BY <1>1, <2>1, NewJobs DEF StartWorker, RunTo
  <2> QED
    BY <1>0, <1>b, <1>1, <2>2 DEF StartWorker
<1>2. CASE Fire(t)
  <2>1. 3 \in 1..3 /\ "submit" \in Label
    BY DEF Label
  <2>2. RunTo(t, "submit", [spec |-> spec[HcOf[t]], for |-> "check", at |-> 3])
    BY <1>2, <2>1, NewJobs DEF Fire, RunTo
  <2>3. [armed EXCEPT ![HcOf[t]] = FALSE] \in [HealthCheck -> BOOLEAN]
    BY <1>0
  <2> QED
    BY <1>0, <1>b, <1>2, <2>2, <2>3 DEF Fire
<1>3. ASSUME NEW l \in Label \ {"idle"}, pc[t] # "idle", Goto(t, l), UNCHANGED job
      PROVE  RunTo(t, l, job[t])
  BY <1>0, <1>3, JobFacts DEF RunTo
<1>4. CASE Lookup(t)
  BY <1>0, <1>b, <1>3, <1>4, MadeIs DEF Lookup, Label
<1>5. CASE Create(t)
  <2>1. Current(t).id \in Identity /\ Current(t).holds \in Holding
    BY <1>5, JobFacts DEF Create
  <2>2. [objects EXCEPT ![Current(t).id] =
           [managed |-> TRUE, holds |-> Current(t).holds]] \in Objects
    BY <1>0, <2>1 DEF Objects, Content
  <2> QED
    BY <1>0, <1>b, <1>5, <2>2, MadeIs, StopIs DEF Create
<1>6. CASE Submit(t)
  BY <1>0, <1>b, <1>3, <1>6, StopIs DEF Submit, Label
<1>7. CASE WatchCheck(t)
  <2>1. CASE Goto(t, "finish") /\ UNCHANGED job
    BY <1>0, <1>b, <1>3, <1>7, <2>1 DEF WatchCheck, Label
  <2>2. CASE /\ HasRemedy(job[t].spec) /\ Goto(t, "lookup")
             /\ job' = [job EXCEPT ![t] = [@ EXCEPT !.for = "remedy", !.at = 1]]
    <3>1. 1 \in 1..3 /\ pc[t] # "idle" /\ HasRemedy(job[t].spec)
      BY <1>7, <2>2 DEF WatchCheck
    <3>2. GoodJob(HcOf[t], [[job[t] EXCEPT !.for = "remedy"] EXCEPT !.at = 1])
      BY <3>1, NewJobs
    <3>3. RunTo(t, "lookup", [[job[t] EXCEPT !.for = "remedy"] EXCEPT !.at = 1])
      BY <1>0, <2>2, <3>2 DEF RunTo, Label
    <3> QED
      BY <1>0, <1>b, <1>7, <3>3 DEF WatchCheck
  <2> QED
    BY <1>0, <1>b, <1>7, <2>1, <2>2, StopIs DEF WatchCheck, HasRemedy
<1>8. CASE WatchRemedy(t)
  <2>1. CASE job' = [job EXCEPT ![t].at = 1] /\ Goto(t, "find")
    <3>1. 1 \in 1..3 /\ pc[t] # "idle"
      BY <1>8 DEF WatchRemedy
    <3>2. GoodJob(HcOf[t], job[t])
      BY <3>1, JobFacts
    <3>3. GoodJob(HcOf[t], [job[t] EXCEPT !.at = 1])
      BY <1>0, <3>1, <3>2, NextJob
    <3>4. RunTo(t, "find", [job[t] EXCEPT !.at = 1])
      BY <1>0, <2>1, <3>3 DEF RunTo, Label
    <3> QED
      BY <1>0, <1>b, <1>8, <3>4 DEF WatchRemedy
  <2> QED
    BY <1>0, <1>b, <1>8, <2>1, StopIs DEF WatchRemedy
<1>9. CASE Find(t)
  BY <1>0, <1>b, <1>3, <1>9, DeletedIs, StopIs DEF Find, Label
<1>10. CASE Delete(t)
  <2>1. Current(t).id \in Identity
    BY <1>10, JobFacts DEF Delete
  <2>2. [objects EXCEPT ![Current(t).id] = Absent] \in Objects
    BY <1>0, <2>1 DEF Objects
  <2> QED
    BY <1>0, <1>b, <1>10, <2>2, DeletedIs, StopIs DEF Delete
<1>11. CASE Finish(t)
  BY <1>0, <1>b, <1>11, StopIs DEF Finish
<1> QED
  BY <1>1, <1>2, <1>4, <1>5, <1>6, <1>7, <1>8, <1>9, <1>10, <1>11 DEF Step

LEMMA TypeInit == Init => TypeInv
BY SpecsAssumption, NamesAssumption, ObjectsAssumption
   DEF Init, TypeInv, TypeOK, Label

LEMMA TypeNext == TypeInv /\ [Next]_vars => TypeInv'
<1> SUFFICES ASSUME TypeInv, [Next]_vars PROVE TypeInv'
  OBVIOUS
<1>1. ASSUME NEW t \in Run, Step(t) PROVE TypeInv'
  BY <1>1, StepIsTyped, RunTypes
<1>2. ASSUME NEW h \in HealthCheck, Edit(h) PROVE TypeInv'
  BY <1>2, SpecsAssumption DEF Edit, TypeInv, TypeOK, GoodJob
<1>3. ASSUME NEW o \in UserObjects, MakeOwn(o) PROVE TypeInv'
  <2>1. [managed |-> FALSE, holds |-> None] \in Content
    BY DEF Content, Holding
  <2> QED
    BY <1>3, <2>1, ObjectsAssumption DEF MakeOwn, TypeInv, TypeOK, GoodJob
<1>4. CASE Crash
  BY <1>4 DEF Crash, TypeInv, TypeOK, Label
<1>5. CASE UNCHANGED vars
  BY <1>5 DEF vars, TypeInv, TypeOK, GoodJob
<1> QED
  BY <1>1, <1>2, <1>3, <1>4, <1>5 DEF Next

\* Types, whatever is shared and whatever fails.
THEOREM ObjectTypes == Spec => []TypeOK
<1>1. TypeInv => TypeOK
  BY DEF TypeInv
<1> QED
  BY <1>1, TypeInit, TypeNext, PTL DEF Spec

-----------------------------------------------------------------------------
(* Who shares objects with whom, if Separate holds. *)

CheckAccounts(h) == {CheckAccount(s) : s \in SpecsOf[h]}
RemedyAccounts(h) == {RemedyAccount(s) : s \in {r \in SpecsOf[h] : HasRemedy(r)}}

\* Accounts agree on what they share; a remedy shares with nobody else.
LEMMA Sharing ==
  ASSUME Separate, NEW g \in HealthCheck, NEW h \in HealthCheck
  PROVE  /\ \A a \in CheckAccounts(g) \cup RemedyAccounts(g),
               b \in CheckAccounts(h) \cup RemedyAccounts(h) : Agree(a, b)
         /\ \A a \in RemedyAccounts(g), b \in CheckAccounts(h) : Apart(a, b)
         /\ g # h => \A a \in RemedyAccounts(g), b \in RemedyAccounts(h) : Apart(a, b)
<1>1. \A s \in SpecsOf[g], r \in SpecsOf[h] :
        /\ Agree(CheckAccount(s), CheckAccount(r))
        /\ HasRemedy(s) => Apart(RemedyAccount(s), CheckAccount(r))
        /\ HasRemedy(r) => Apart(RemedyAccount(r), CheckAccount(s))
        /\ HasRemedy(s) /\ HasRemedy(r) =>
             /\ g = h => Agree(RemedyAccount(s), RemedyAccount(r))
             /\ g # h => Apart(RemedyAccount(s), RemedyAccount(r))
  BY DEF Separate
<1>2. \A a, b : Apart(a, b) => Agree(a, b) /\ Agree(b, a)
  BY DEF Apart, Agree
<1> QED
  BY <1>1, <1>2 DEF CheckAccounts, RemedyAccounts

\* The account of a run is one of its HealthCheck's.
LEMMA RunAccount ==
  ASSUME NEW h \in HealthCheck, NEW j, GoodJob(h, j)
  PROVE  /\ CheckAccount(j.spec) \in CheckAccounts(h)
         /\ j.for = "check" => Account(j) \in CheckAccounts(h)
         /\ j.for = "remedy" => Account(j) \in RemedyAccounts(h)
         /\ j.for \in {"check", "remedy"}
BY DEF GoodJob, Account, CheckAccounts, RemedyAccounts, Job

-----------------------------------------------------------------------------
(* What a step may do to objects that others rely on. *)

\* Progress of a run that makes its next call at l, with the job j.
ProgressOf(l, j) ==
  LET a == Account(j) IN
  /\ j.for = "remedy" => HasRemedy(j.spec)
  /\ j.for = "remedy" \/ l = "finish" => Complete(CheckAccount(j.spec))
  /\ l \in {"lookup", "create"} =>
       \A i \in 1..3 : i < j.at => Exists(Object(a, i).id)
  /\ l \in {"submit", "watch"} => Complete(a)
  /\ l \in {"find", "delete"} =>
       /\ j.for = "remedy"
       /\ \A i \in 1..3 : IF i < j.at THEN ~Managed(Object(a, i).id)
                         ELSE Exists(Object(a, i).id)
  /\ l = "finish" /\ j.for = "remedy" =>
       \A i \in 1..3 : ~Managed(Object(a, i).id)

\* Objects of a stay there; and no others become the controller's.
Stays(a) == \A i \in 1..3 : Exists(Object(a, i).id) => objects'[Object(a, i).id] # Absent
Owned(a) == \A i \in 1..3 :
  objects'[Object(a, i).id] # Absent /\ objects'[Object(a, i).id].managed =>
    Managed(Object(a, i).id)

LEMMA ProgressStays ==
  ASSUME NEW h \in HealthCheck, NEW l, NEW j, GoodJob(h, j), ProgressOf(l, j),
         \A a \in CheckAccounts(h) : Stays(a),
         \A a \in RemedyAccounts(h) : Stays(a) /\ Owned(a)
  PROVE  ProgressOf(l, j)'
<1>1. /\ Stays(CheckAccount(j.spec)) /\ Stays(Account(j))
      /\ j.for = "remedy" => Owned(Account(j))
  BY RunAccount
<1> DEFINE a == Account(j)
           c == CheckAccount(j.spec)
<1>2. \A i \in 1..3 : /\ Exists(Object(a, i).id) => Exists(Object(a, i).id)'
                      /\ Exists(Object(c, i).id) => Exists(Object(c, i).id)'
  BY <1>1 DEF Stays, Exists
<1>3. j.for = "remedy" =>
        \A i \in 1..3 : Managed(Object(a, i).id)' => Managed(Object(a, i).id)
  BY <1>1 DEF Owned, Exists, Managed
<1>4. /\ j.for = "remedy" => HasRemedy(j.spec)
      /\ j.for = "remedy" \/ l = "finish" => Complete(c)'
      /\ l \in {"lookup", "create"} =>
           \A i \in 1..3 : i < j.at => Exists(Object(a, i).id)'
      /\ l \in {"submit", "watch"} => Complete(a)'
  BY <1>2 DEF ProgressOf, Complete
<1>5. /\ l \in {"find", "delete"} =>
           /\ j.for = "remedy"
           /\ \A i \in 1..3 : IF i < j.at THEN ~Managed(Object(a, i).id)'
                             ELSE Exists(Object(a, i).id)'
      /\ l = "finish" /\ j.for = "remedy" =>
           \A i \in 1..3 : ~Managed(Object(a, i).id)'
  BY <1>2, <1>3 DEF ProgressOf
<1> QED
  BY <1>4, <1>5 DEF ProgressOf

\* SeparateInv, with the accounts of the specs in place of the specs.
Invariant ==
  /\ TypeInv
  /\ \A h \in HealthCheck : \A a \in CheckAccounts(h) \cup RemedyAccounts(h) : Says(a)
  /\ \A h \in HealthCheck : armed[h] => Complete(CheckAccount(spec[h]))
  /\ \A t \in Run : pc[t] # "idle" => ProgressOf(pc[t], job[t])

LEMMA InvariantGives == Invariant => SeparateInv
<1> SUFFICES ASSUME Invariant PROVE SeparateInv
  OBVIOUS
<1>1. \A h \in HealthCheck : \A s \in SpecsOf[h] :
        Says(CheckAccount(s)) /\ (HasRemedy(s) => Says(RemedyAccount(s)))
  BY DEF Invariant, CheckAccounts, RemedyAccounts
<1>2. \A t \in Run : pc[t] # "idle" => Progress(t)
  BY DEF Invariant, Progress, ProgressOf
<1> QED
  BY <1>1, <1>2 DEF Invariant, SeparateInv, TypeInv

\* A step of the run t to the call l, with the job j, that leaves the others
\* what they rely on.
LEMMA Frame ==
  ASSUME Invariant, Separate, NEW t \in Run, NEW l, NEW j, RunTo(t, l, j),
         UNCHANGED spec, TypeInv',
         l # "idle" => ProgressOf(l, j)',
         \A h \in HealthCheck : armed'[h] =>
           armed[h] \/ (h = HcOf[t] /\ Complete(CheckAccount(spec[h]))'),
         \A h \in HealthCheck : \A a \in CheckAccounts(h) : Stays(a),
         \A h \in HealthCheck \ {HcOf[t]} : \A a \in RemedyAccounts(h) :
           Stays(a) /\ Owned(a),
         \A h \in HealthCheck : \A a \in CheckAccounts(h) \cup RemedyAccounts(h) :
           Says(a)'
  PROVE  Invariant'
<1>1. \A h \in HealthCheck : CheckAccount(spec[h]) \in CheckAccounts(h)
  BY DEF Invariant, TypeInv, TypeOK, CheckAccounts
<1>2. \A h \in HealthCheck : armed'[h] => Complete(CheckAccount(spec[h]))'
  BY <1>1 DEF Invariant, Stays, Complete, Exists
<1>3. ASSUME NEW u \in Run, pc'[u] # "idle" PROVE ProgressOf(pc[u], job[u])'
  <2>1. CASE u = t
    <3>1. pc'[u] = l /\ job'[u] = j
      BY <2>1 DEF RunTo, Goto, Invariant, TypeInv, TypeOK
    <3> QED
      BY <1>3, <3>1
  <2>2. CASE u # t
    <3>1. pc'[u] = pc[u] /\ job'[u] = job[u] /\ pc[u] # "idle"
      BY <1>3, <2>2 DEF RunTo, Goto, Invariant, TypeInv, TypeOK
    <3>2. HcOf[u] \in HealthCheck \ {HcOf[t]} /\ GoodJob(HcOf[u], job[u])
      BY <2>2, <3>1, NamesAssumption DEF Separate, Invariant, TypeInv
    <3>3. ProgressOf(pc[u], job[u])
      BY <3>1 DEF Invariant
    <3>4. ASSUME NEW m, NEW i, m = pc[u], i = job[u] PROVE ProgressOf(m, i)'
      BY <3>2, <3>3, <3>4, ProgressStays
    <3> QED
      BY <3>1, <3>4
  <2> QED
    BY <2>1, <2>2
<1> QED
  BY <1>2, <1>3 DEF Invariant

-----------------------------------------------------------------------------
(* Every step keeps the invariant. *)

\* A step that touches no object.
LEMMA QuietStep ==
  ASSUME Invariant, Separate, NEW t \in Run, NEW l, NEW j, RunTo(t, l, j),
         UNCHANGED <<objects, spec>>, TypeInv',
         l # "idle" => ProgressOf(l, j),
         \A h \in HealthCheck : armed'[h] =>
           armed[h] \/ (h = HcOf[t] /\ Complete(CheckAccount(spec[h])))
  PROVE  Invariant'
<1>1. \A a : /\ Stays(a) /\ Owned(a) /\ (Says(a) <=> Says(a)')
             /\ Complete(a) <=> Complete(a)'
  BY DEF Stays, Owned, Says, Complete, Exists, Managed
<1>2. l # "idle" => ProgressOf(l, j)'
  BY DEF ProgressOf, Complete, Exists, Managed
<1>3. \A h \in HealthCheck : \A a \in CheckAccounts(h) \cup RemedyAccounts(h) : Says(a)'
  BY <1>1 DEF Invariant
<1>4. \A h \in HealthCheck : armed'[h] =>
        armed[h] \/ (h = HcOf[t] /\ Complete(CheckAccount(spec[h]))')
  BY <1>1
<1> QED
  BY <1>1, <1>2, <1>3, <1>4, Frame

\* A job with another number asks for objects of the same account.
LEMMA AfterAccount ==
  ASSUME TypeInv, NEW t \in Run, pc[t] # "idle", NEW l, NEW j, NEW next, NEW last,
         After(t, next, last, l, j), l # "idle"
  PROVE  /\ Account(j) = Account(job[t])
         /\ j.for = job[t].for /\ j.spec = job[t].spec
         /\ \/ l = next /\ job[t].at \in 1..2 /\ j.at = job[t].at + 1
            \/ l = last /\ job[t].at = 3 /\ j.at = 3
<1>1. HcOf[t] \in HealthCheck /\ GoodJob(HcOf[t], job[t])
  BY JobFacts
<1>2. job[t].at \in 1..2 => job[t].at + 1 \in 1..3
  OBVIOUS
<1>3. CASE job[t].at \in 1..2 /\ l = next /\ j = [job[t] EXCEPT !.at = job[t].at + 1]
  <2>1. job[t] \in Job /\ job[t].at + 1 \in 1..3
    BY <1>1, <1>2, <1>3 DEF GoodJob
  <2>2. /\ j.at = job[t].at + 1 /\ j.for = job[t].for /\ j.spec = job[t].spec
    BY <1>3, <2>1 DEF Job
  <2> QED
    BY <1>3, <2>2 DEF Account
<1>4. CASE job[t].at = 3 /\ l = last /\ j = job[t]
  BY <1>4
<1> QED
  BY <1>3, <1>4 DEF After

\* The object a run was at is there: so are those before the next one.
LEMMA MadeProgress ==
  ASSUME TypeInv, NEW t \in Run, pc[t] \in {"lookup", "create"},
         ProgressOf(pc[t], job[t]), NEW l, NEW j, l # "idle",
         After(t, "lookup", "submit", l, j),
         Stays(Account(job[t])), Stays(CheckAccount(job[t].spec)),
         objects'[Current(t).id] # Absent
  PROVE  ProgressOf(l, j)'
<1> DEFINE a == Account(job[t])
           c == CheckAccount(job[t].spec)
<1>1. /\ Account(j) = a /\ j.for = job[t].for /\ j.spec = job[t].spec
      /\ \/ l = "lookup" /\ job[t].at \in 1..2 /\ j.at = job[t].at + 1
         \/ l = "submit" /\ job[t].at = 3 /\ j.at = 3
  BY AfterAccount
<1>2. Current(t) = Object(a, job[t].at)
  BY JobFacts
<1>3. \A i \in 1..3 : i < job[t].at => objects'[Object(a, i).id] # Absent
  BY DEF ProgressOf, Stays
<1>4. \A i \in 1..3 : i <= job[t].at => objects'[Object(a, i).id] # Absent
  BY <1>2, <1>3, JobFacts
<1>5. j.for = "remedy" => \A i \in 1..3 : objects'[Object(c, i).id] # Absent
  BY <1>1 DEF ProgressOf, Stays, Complete, Exists
<1> QED
  BY <1>1, <1>4, <1>5 DEF ProgressOf, Complete, Exists

\* An object of a run's account is made: nobody is told something else.
LEMMA CreateFrame ==
  ASSUME Invariant, Separate, NEW t \in Run, pc[t] = "create",
         ~Exists(Current(t).id),
         objects' = [objects EXCEPT ![Current(t).id] =
                       [managed |-> TRUE, holds |-> Current(t).holds]]
  PROVE  /\ \A h \in HealthCheck : \A a \in CheckAccounts(h) \cup RemedyAccounts(h) :
              Stays(a) /\ Says(a)'
         /\ \A h \in HealthCheck \ {HcOf[t]} : \A a \in RemedyAccounts(h) : Owned(a)
         /\ objects'[Current(t).id] # Absent
<1> DEFINE g == HcOf[t]
           b == Account(job[t])
           o == Current(t).id
<1>1. /\ g \in HealthCheck /\ b \in CheckAccounts(g) \cup RemedyAccounts(g)
      /\ job[t].at \in 1..3 /\ Current(t) = Object(b, job[t].at)
      /\ o \in Identity /\ Current(t).holds \in Holding
  BY JobFacts, RunAccount DEF Invariant
<1>2. /\ \A x \in Identity \ {o} : objects'[x] = objects[x]
      /\ objects'[o] = [managed |-> TRUE, holds |-> Current(t).holds]
      /\ objects'[o] # Absent
  <2>1. DOMAIN objects = Identity
    BY DEF Invariant, TypeInv, TypeOK
  <2>2. [managed |-> TRUE, holds |-> Current(t).holds] \in Content
    BY <1>1 DEF Content
  <2> QED
    BY <1>1, <2>1, <2>2, ObjectsAssumption
<1>3. ASSUME NEW h \in HealthCheck, NEW a \in CheckAccounts(h) \cup RemedyAccounts(h)
      PROVE  Stays(a) /\ Says(a)' /\ (a \in RemedyAccounts(h) /\ h # g => Owned(a))
  <2>1. a \in Accounts /\ \A i \in 1..3 : Object(a, i).id \in Identity
    BY AccountFacts, ObjectFacts DEF CheckAccounts, RemedyAccounts
  <2>2. \A i \in 1..3 : Object(a, i).id = o => Object(a, i).holds = Current(t).holds
    BY <1>1, Sharing DEF Agree
  <2>3. a \in RemedyAccounts(h) /\ h # g => \A i \in 1..3 : Object(a, i).id # o
    BY <1>1, Sharing DEF Apart
  <2>4. Stays(a)
    BY <1>2, <2>1 DEF Stays, Exists
  <2>5. Says(a)
    BY DEF Invariant
  <2>6. Says(a)'
    BY <1>2, <2>1, <2>2, <2>5 DEF Says, Managed, Exists
  <2>7. a \in RemedyAccounts(h) /\ h # g => Owned(a)
    BY <1>2, <2>1, <2>3 DEF Owned, Managed, Exists
  <2> QED
    BY <2>4, <2>6, <2>7
<1> QED
  BY <1>2, <1>3

LEMMA CreateStep ==
  ASSUME Invariant, Separate, NEW t \in Run, Create(t), TypeInv'
  PROVE  Invariant'
<1>1. pc[t] = "create" /\ UNCHANGED <<spec, armed>>
  BY DEF Create
<1>2. CASE Stop(t) /\ UNCHANGED objects
  BY <1>1, <1>2, StopIs, QuietStep
<1>3. CASE ~Exists(Current(t).id) /\ Made(t)
           /\ objects' = [objects EXCEPT ![Current(t).id] =
                            [managed |-> TRUE, holds |-> Current(t).holds]]
  <2>1. TypeInv /\ pc[t] # "idle"
    BY <1>1 DEF Invariant
  <2>2. PICK l, j : RunTo(t, l, j) /\ After(t, "lookup", "submit", l, j)
    BY <1>3, <2>1, MadeIs
  <2>3. /\ \A h \in HealthCheck : \A a \in CheckAccounts(h) \cup RemedyAccounts(h) :
             Stays(a) /\ Says(a)'
        /\ \A h \in HealthCheck \ {HcOf[t]} : \A a \in RemedyAccounts(h) : Owned(a)
        /\ objects'[Current(t).id] # Absent
    BY <1>1, <1>3, CreateFrame
  <2>4. Stays(Account(job[t])) /\ Stays(CheckAccount(job[t].spec))
    BY <2>1, <2>3, JobFacts, RunAccount
  <2>5. ProgressOf(pc[t], job[t])
    BY <2>1 DEF Invariant
  <2>6. l # "idle" => ProgressOf(l, j)'
    BY <1>1, <2>1, <2>2, <2>3, <2>4, <2>5, MadeProgress
  <2> QED
    BY <1>1, <2>2, <2>3, <2>6, Frame
<1> QED
  BY <1>2, <1>3 DEF Create

\* The object a cleanup was at is not the controller's any more: nor are those
\* before the next one.
LEMMA DeletedProgress ==
  ASSUME TypeInv, NEW t \in Run, pc[t] \in {"find", "delete"},
         ProgressOf(pc[t], job[t]), NEW l, NEW j, l # "idle",
         After(t, "find", "finish", l, j),
         \A o \in Identity \ {Current(t).id} : objects'[o] = objects[o],
         Stays(CheckAccount(job[t].spec)),
         objects'[Current(t).id] = Absent \/ ~objects'[Current(t).id].managed
  PROVE  ProgressOf(l, j)'
<1> DEFINE a == Account(job[t])
           c == CheckAccount(job[t].spec)
           n == job[t].at
           IsManaged(o) == objects'[o] # Absent /\ objects'[o].managed
<1>1. /\ Account(j) = a /\ j.for = job[t].for /\ j.spec = job[t].spec
      /\ \/ l = "find" /\ n \in 1..2 /\ j.at = n + 1
         \/ l = "finish" /\ n = 3 /\ j.at = 3
  BY AfterAccount
<1>2. /\ Current(t) = Object(a, n) /\ a \in Accounts /\ n \in 1..3
      /\ \A i \in 1..3 : Object(a, i).id \in Identity
      /\ \A i \in 1..3 : i # n => Object(a, i).id # Object(a, n).id
  BY JobFacts, ObjectFacts
<1>3. /\ job[t].for = "remedy" /\ HasRemedy(job[t].spec)
      /\ \A i \in 1..3 : IF i < n THEN ~Managed(Object(a, i).id)
                        ELSE Exists(Object(a, i).id)
      /\ \A i \in 1..3 : Exists(Object(c, i).id)
  BY DEF ProgressOf, Complete
<1>4. \A i \in 1..3 : /\ i <= n => ~IsManaged(Object(a, i).id)
                      /\ i > n => objects'[Object(a, i).id] # Absent
  BY <1>2, <1>3 DEF Managed, Exists
<1>5. \A i \in 1..3 : objects'[Object(c, i).id] # Absent
  BY <1>3 DEF Exists, Stays
<1>6. \A i \in 1..3 : /\ i <= n => ~IsManaged(Object(Account(j), i).id)
                      /\ i > n => objects'[Object(Account(j), i).id] # Absent
  BY <1>1, <1>4
<1>7. \A i \in 1..3 : objects'[Object(CheckAccount(j.spec), i).id] # Absent
  BY <1>1, <1>5
<1> HIDE DEF a, c, n
<1>8. CASE l = "find"
  <2>1. \A i \in 1..3 : /\ i < j.at => ~IsManaged(Object(Account(j), i).id)
                        /\ ~(i < j.at) => objects'[Object(Account(j), i).id] # Absent
    BY <1>1, <1>2, <1>6, <1>8
  <2> QED
    BY <1>1, <1>3, <1>7, <1>8, <2>1 DEF ProgressOf, Complete, Managed, Exists
<1>9. CASE l = "finish"
  <2>1. \A i \in 1..3 : ~IsManaged(Object(Account(j), i).id)
    BY <1>1, <1>6, <1>9
  <2> QED
    BY <1>1, <1>3, <1>7, <1>9, <2>1 DEF ProgressOf, Complete, Managed, Exists
<1> QED
  BY <1>1, <1>8, <1>9

\* An object of a remedy is deleted: nobody else has an object less.
LEMMA DeleteFrame ==
  ASSUME Invariant, Separate, NEW t \in Run, pc[t] = "delete",
         objects' = [objects EXCEPT ![Current(t).id] = Absent]
  PROVE  /\ \A h \in HealthCheck : \A a \in CheckAccounts(h) : Stays(a)
         /\ \A h \in HealthCheck : \A a \in CheckAccounts(h) \cup RemedyAccounts(h) : Says(a)'
         /\ \A h \in HealthCheck \ {HcOf[t]} : \A a \in RemedyAccounts(h) :
              Stays(a) /\ Owned(a)
         /\ objects'[Current(t).id] = Absent
         /\ \A o \in Identity \ {Current(t).id} : objects'[o] = objects[o]
<1> DEFINE g == HcOf[t]
           b == Account(job[t])
           o == Current(t).id
<1>0. job[t].for = "remedy"
  BY DEF Invariant, ProgressOf
<1>1. /\ g \in HealthCheck /\ b \in RemedyAccounts(g)
      /\ job[t].at \in 1..3 /\ Current(t) = Object(b, job[t].at) /\ o \in Identity
  BY <1>0, JobFacts, RunAccount DEF Invariant
<1>2. /\ \A x \in Identity \ {o} : objects'[x] = objects[x]
      /\ objects'[o] = Absent
  BY <1>1 DEF Invariant, TypeInv, TypeOK
<1>3. ASSUME NEW h \in HealthCheck, NEW a \in CheckAccounts(h) \cup RemedyAccounts(h)
      PROVE  Says(a)' /\ (a \in CheckAccounts(h) \/ h # g => Stays(a) /\ Owned(a))
  <2>1. a \in Accounts /\ \A i \in 1..3 : Object(a, i).id \in Identity
    BY AccountFacts, ObjectFacts DEF CheckAccounts, RemedyAccounts
  <2>2. a \in CheckAccounts(h) \/ h # g => \A i \in 1..3 : Object(a, i).id # o
    BY <1>1, Sharing DEF Apart
  <2>3. Says(a)
    BY DEF Invariant
  <2>4. Says(a)'
    BY <1>2, <2>1, <2>3 DEF Says, Managed, Exists
  <2>5. a \in CheckAccounts(h) \/ h # g => Stays(a) /\ Owned(a)
    BY <1>2, <2>1, <2>2 DEF Stays, Owned, Managed, Exists
  <2> QED
    BY <2>4, <2>5
<1> QED
  BY <1>2, <1>3

LEMMA DeleteStep ==
  ASSUME Invariant, Separate, NEW t \in Run, Delete(t), TypeInv'
  PROVE  Invariant'
<1>1. pc[t] = "delete" /\ UNCHANGED <<spec, armed>>
  BY DEF Delete
<1>2. CASE Stop(t) /\ UNCHANGED objects
  BY <1>1, <1>2, StopIs, QuietStep
<1>3. CASE Deleted(t) /\ objects' = [objects EXCEPT ![Current(t).id] = Absent]
  <2>1. TypeInv /\ pc[t] # "idle" /\ ProgressOf(pc[t], job[t])
    BY <1>1 DEF Invariant
  <2>2. PICK l, j : RunTo(t, l, j) /\ After(t, "find", "finish", l, j)
    BY <1>3, <2>1, DeletedIs
  <2>3. Stays(CheckAccount(job[t].spec))
    BY <1>1, <1>3, <2>1, DeleteFrame, JobFacts, RunAccount
  <2>4. l # "idle" => ProgressOf(l, j)'
    BY <1>1, <1>3, <2>1, <2>2, <2>3, DeleteFrame, DeletedProgress
  <2> QED
    BY <1>1, <1>3, <2>2, <2>4, DeleteFrame, Frame
<1> QED
  BY <1>2, <1>3 DEF Delete

LEMMA FindStep ==
  ASSUME Invariant, Separate, NEW t \in Run, Find(t), TypeInv'
  PROVE  Invariant'
<1>1. /\ pc[t] = "find" /\ UNCHANGED <<objects, spec, armed>>
      /\ TypeInv /\ pc[t] # "idle" /\ ProgressOf(pc[t], job[t])
  BY DEF Find, Invariant
<1>2. CASE Stop(t)
  BY <1>1, <1>2, StopIs, QuietStep
<1>3. CASE Managed(Current(t).id) /\ Goto(t, "delete") /\ UNCHANGED job
  <2>1. RunTo(t, "delete", job[t])
    BY <1>1, <1>3, JobFacts DEF RunTo, Label, TypeInv, TypeOK
  <2>2. ProgressOf("delete", job[t])
    BY <1>1, <1>3, JobFacts DEF ProgressOf
  <2> QED
    BY <1>1, <2>1, <2>2, QuietStep
<1>4. CASE Exists(Current(t).id) /\ ~Managed(Current(t).id) /\ Deleted(t)
  <2>1. PICK l, j : RunTo(t, l, j) /\ After(t, "find", "finish", l, j)
    BY <1>1, <1>4, DeletedIs
  <2>2. /\ \A h \in HealthCheck : \A a \in CheckAccounts(h) \cup RemedyAccounts(h) :
             Stays(a) /\ Owned(a) /\ Says(a)'
        /\ Stays(CheckAccount(job[t].spec))
    BY <1>1 DEF Stays, Owned, Says, Managed, Exists, Invariant
  <2>3. objects'[Current(t).id] = Absent \/ ~objects'[Current(t).id].managed
    BY <1>1, <1>4 DEF Managed
  <2>4. l # "idle" => ProgressOf(l, j)'
    BY <1>1, <2>1, <2>2, <2>3, DeletedProgress
  <2> QED
    BY <1>1, <2>1, <2>2, <2>4, Frame
<1> QED
  BY <1>2, <1>3, <1>4 DEF Find

LEMMA LookupStep ==
  ASSUME Invariant, Separate, NEW t \in Run, Lookup(t), TypeInv'
  PROVE  Invariant'
<1>1. /\ pc[t] = "lookup" /\ UNCHANGED <<objects, spec, armed>>
      /\ TypeInv /\ pc[t] # "idle" /\ ProgressOf(pc[t], job[t])
  BY DEF Lookup, Invariant
<1>2. CASE Exists(Current(t).id) /\ Made(t)
  <2>1. PICK l, j : RunTo(t, l, j) /\ After(t, "lookup", "submit", l, j)
    BY <1>1, <1>2, MadeIs
  <2>2. /\ \A h \in HealthCheck : \A a \in CheckAccounts(h) \cup RemedyAccounts(h) :
             Stays(a) /\ Owned(a) /\ Says(a)'
        /\ Stays(CheckAccount(job[t].spec)) /\ Stays(Account(job[t]))
        /\ objects'[Current(t).id] # Absent
    BY <1>1, <1>2 DEF Stays, Owned, Says, Managed, Exists, Invariant
  <2>3. l # "idle" => ProgressOf(l, j)'
    BY <1>1, <2>1, <2>2, MadeProgress
  <2> QED
    BY <1>1, <2>1, <2>2, <2>3, Frame
<1>3. CASE Goto(t, "create") /\ UNCHANGED job
  <2>1. RunTo(t, "create", job[t])
    BY <1>1, <1>3, JobFacts DEF RunTo, Label, TypeInv, TypeOK
  <2>2. ProgressOf("create", job[t])
    BY <1>1 DEF ProgressOf
  <2> QED
    BY <1>1, <2>1, <2>2, QuietStep
<1> QED
  BY <1>2, <1>3 DEF Lookup

\* A run begins with its first object, or with its workflow.
LEMMA BeginStep ==
  ASSUME Invariant, Separate, NEW t \in Run, StartWorker(t) \/ Fire(t), TypeInv'
  PROVE  Invariant'
<1> DEFINE new(n) == [spec |-> spec[HcOf[t]], for |-> "check", at |-> n]
<1>1. TypeInv /\ HcOf[t] \in HealthCheck /\ 1 \in 1..3 /\ 3 \in 1..3
  BY NamesAssumption DEF Invariant
<1>2. /\ GoodJob(HcOf[t], new(1)) /\ GoodJob(HcOf[t], new(3))
  BY <1>1, NewJobs
<1>3. CASE StartWorker(t)
  <2>1. RunTo(t, "lookup", new(1))
    BY <1>2, <1>3 DEF StartWorker, RunTo, Label
  <2>2. ProgressOf("lookup", new(1))
    BY DEF ProgressOf
  <2> QED
    BY <1>3, <2>1, <2>2, QuietStep DEF StartWorker
<1>4. CASE Fire(t)
  <2>1. RunTo(t, "submit", new(3))
    BY <1>2, <1>4 DEF Fire, RunTo, Label
  <2>2. Complete(CheckAccount(spec[HcOf[t]]))
    BY <1>1, <1>4 DEF Fire, Invariant
  <2>3. ProgressOf("submit", new(3))
    BY <2>2 DEF ProgressOf, Account
  <2>4. \A h \in HealthCheck : armed'[h] => armed[h]
    BY <1>1, <1>4 DEF Fire, TypeInv, TypeOK
  <2> QED
    BY <1>4, <2>1, <2>3, <2>4, QuietStep DEF Fire
<1> QED
  BY <1>3, <1>4

LEMMA WatchStep ==
  ASSUME Invariant, Separate, NEW t \in Run, TypeInv',
         Submit(t) \/ WatchCheck(t) \/ WatchRemedy(t)
  PROVE  Invariant'
<1>1. /\ pc[t] \in {"submit", "watch"} /\ UNCHANGED <<objects, spec, armed>>
      /\ pc[t] # "idle"
  BY DEF Submit, WatchCheck, WatchRemedy
<1>2. /\ TypeInv /\ ProgressOf(pc[t], job[t]) /\ GoodJob(HcOf[t], job[t])
      /\ Complete(Account(job[t]))
      /\ job[t].for = "remedy" => HasRemedy(job[t].spec)
      /\ job[t].for = "check" => Account(job[t]) = CheckAccount(job[t].spec)
      /\ job[t].for \in {"check", "remedy"} /\ 1 \in 1..3
  <2>1. TypeInv /\ ProgressOf(pc[t], job[t])
    BY <1>1 DEF Invariant
  <2>2. GoodJob(HcOf[t], job[t]) /\ job[t].for \in {"check", "remedy"}
    BY <1>1, <2>1, JobFacts
  <2>3. /\ Complete(Account(job[t]))
        /\ job[t].for = "remedy" => HasRemedy(job[t].spec)
    BY <1>1, <2>1, <2>2 DEF ProgressOf, Account
  <2> QED
    BY <2>1, <2>2, <2>3 DEF Account
<1>3. CASE Stop(t)
  BY <1>1, <1>3, StopIs, QuietStep
<1>4. CASE pc[t] = "submit" /\ Goto(t, "watch") /\ UNCHANGED job
  <2>1. RunTo(t, "watch", job[t])
    BY <1>2, <1>4 DEF RunTo, Label, TypeInv, TypeOK
  <2>2. ProgressOf("watch", job[t])
    BY <1>2, <1>4 DEF ProgressOf
  <2> QED
    BY <1>1, <2>1, <2>2, QuietStep
<1>5. CASE job[t].for = "check" /\ Goto(t, "finish") /\ UNCHANGED job
  <2>1. RunTo(t, "finish", job[t])
    BY <1>2, <1>5 DEF RunTo, Label, TypeInv, TypeOK
  <2>2. ProgressOf("finish", job[t])
    BY <1>2, <1>5 DEF ProgressOf
  <2> QED
    BY <1>1, <2>1, <2>2, QuietStep
<1>6. CASE /\ job[t].for = "check" /\ HasRemedy(job[t].spec) /\ Goto(t, "lookup")
           /\ job' = [job EXCEPT ![t] = [@ EXCEPT !.for = "remedy", !.at = 1]]
  <2> DEFINE j == [[job[t] EXCEPT !.for = "remedy"] EXCEPT !.at = 1]
  <2>1. GoodJob(HcOf[t], j)
    BY <1>1, <1>2, <1>6, NewJobs
  <2>2. job[t] \in Job
    BY <1>2 DEF GoodJob
  <2>3. j.for = "remedy" /\ j.at = 1 /\ j.spec = job[t].spec
    BY <2>2 DEF Job
  <2>4. RunTo(t, "lookup", j)
    BY <1>6, <2>1 DEF RunTo, Label
  <2>5. ProgressOf("lookup", j)
    BY <1>2, <1>6, <2>3 DEF ProgressOf
  <2> HIDE DEF j
  <2> QED
    BY <1>1, <2>4, <2>5, QuietStep
<1>7. CASE job[t].for = "remedy" /\ job' = [job EXCEPT ![t].at = 1] /\ Goto(t, "find")
           /\ pc[t] = "watch"
  <2> DEFINE j == [job[t] EXCEPT !.at = 1]
  <2>1. GoodJob(HcOf[t], j)
    BY <1>2, NamesAssumption, NextJob
  <2>2. job[t] \in Job
    BY <1>2 DEF GoodJob
  <2>3. j.for = "remedy" /\ j.at = 1 /\ j.spec = job[t].spec
    BY <1>7, <2>2 DEF Job
  <2>4. RunTo(t, "find", j)
    BY <1>7, <2>1 DEF RunTo, Label
  <2>5. Account(j) = Account(job[t]) /\ Complete(CheckAccount(j.spec))
    BY <1>2, <1>7, <2>3 DEF Account, ProgressOf
  <2>6. ProgressOf("find", j)
    BY <1>2, <2>3, <2>5 DEF ProgressOf, Complete
  <2> HIDE DEF j
  <2> QED
    BY <1>1, <2>4, <2>6, QuietStep
<1> QED
  BY <1>2, <1>3, <1>4, <1>5, <1>6, <1>7
     DEF Submit, WatchCheck, WatchRemedy, HasRemedy

LEMMA FinishStep ==
  ASSUME Invariant, Separate, NEW t \in Run, Finish(t), TypeInv'
  PROVE  Invariant'
<1>1. /\ TypeInv /\ pc[t] = "finish" /\ pc[t] # "idle"
      /\ HcOf[t] \in HealthCheck /\ spec[HcOf[t]] \in SpecsOf[HcOf[t]]
  BY NamesAssumption DEF Invariant, Finish, TypeInv, TypeOK
<1>2. Complete(CheckAccount(job[t].spec))
  BY <1>1 DEF Invariant, ProgressOf
<1>3. CheckAccount(job[t].spec) = CheckAccount(spec[HcOf[t]])
  BY <1>1, JobFacts DEF Separate
<1>4. \A h \in HealthCheck : armed'[h] =>
        armed[h] \/ (h = HcOf[t] /\ Complete(CheckAccount(spec[h])))
  BY <1>1, <1>2, <1>3 DEF Finish, TypeInv, TypeOK
<1>5. RunTo(t, "idle", NoJob) /\ UNCHANGED <<objects, spec>>
  BY StopIs DEF Finish
<1> QED
  BY <1>4, <1>5, QuietStep

LEMMA UserStep ==
  ASSUME Invariant, Separate, TypeInv',
         \/ \E h \in HealthCheck : Edit(h)
         \/ \E o \in UserObjects : MakeOwn(o)
  PROVE  Invariant'
<1>1. ASSUME NEW h \in HealthCheck, Edit(h) PROVE Invariant'
  <2>1. UNCHANGED <<objects, armed, pc, job>>
    BY <1>1 DEF Edit
  <2>2. /\ \A g \in HealthCheck : /\ spec[g] \in SpecsOf[g]
                                /\ spec'[g] \in SpecsOf[g]
    BY DEF Invariant, TypeInv, TypeOK
  <2>3. \A g \in HealthCheck : CheckAccount(spec'[g]) = CheckAccount(spec[g])
    BY <2>2 DEF Separate
  <2>4. /\ \A a : (Says(a) <=> Says(a)') /\ (Complete(a) <=> Complete(a)')
        /\ \A l, j : ProgressOf(l, j) <=> ProgressOf(l, j)'
    BY <2>1 DEF Says, Complete, ProgressOf, Exists, Managed
  <2>5. \A g \in HealthCheck : armed'[g] => Complete(CheckAccount(spec[g]))'
    BY <2>1, <2>3, <2>4 DEF Invariant
  <2>6. \A t \in Run : pc'[t] # "idle" => ProgressOf(pc[t], job[t])'
    BY <2>1, <2>4 DEF Invariant
  <2> QED
    BY <2>4, <2>5, <2>6 DEF Invariant
<1>2. ASSUME NEW o \in UserObjects, MakeOwn(o) PROVE Invariant'
  <2>1. UNCHANGED <<spec, armed, pc, job>> /\ o \in Identity
    BY <1>2, ObjectsAssumption DEF MakeOwn
  <2>2. [managed |-> FALSE, holds |-> None] \in Content
    BY DEF Content, Holding
  <2>3. /\ \A x \in Identity \ {o} : objects'[x] = objects[x]
        /\ objects'[o] # Absent /\ ~objects'[o].managed
    BY <1>2, <2>1, <2>2, ObjectsAssumption DEF MakeOwn, Invariant, TypeInv, TypeOK
  <2>4. ASSUME NEW h \in HealthCheck, NEW a \in CheckAccounts(h) \cup RemedyAccounts(h)
        PROVE  Stays(a) /\ Owned(a) /\ Says(a)'
    <3>1. \A i \in 1..3 : Object(a, i).id \in Identity
      BY AccountFacts, ObjectFacts DEF CheckAccounts, RemedyAccounts
    <3>2. Says(a)
      BY DEF Invariant
    <3>3. Stays(a) /\ Owned(a)
      BY <2>1, <2>3, <3>1 DEF Stays, Owned, Managed, Exists
    <3>4. Says(a)'
      BY <2>3, <3>1, <3>2 DEF Says, Managed, Exists
    <3> QED
      BY <3>3, <3>4
  <2>5. \A h \in HealthCheck : CheckAccount(spec[h]) \in CheckAccounts(h)
    BY DEF Invariant, TypeInv, TypeOK, CheckAccounts
  <2>6. \A h \in HealthCheck : armed'[h] => Complete(CheckAccount(spec[h]))'
    BY <2>1, <2>4, <2>5 DEF Invariant, Stays, Complete, Exists
  <2>7. ASSUME NEW t \in Run, pc'[t] # "idle" PROVE ProgressOf(pc[t], job[t])'
    <3>1. /\ pc[t] # "idle" /\ ProgressOf(pc[t], job[t])
          /\ HcOf[t] \in HealthCheck /\ GoodJob(HcOf[t], job[t])
      BY <2>1, <2>7, JobFacts DEF Invariant
    <3>2. ASSUME NEW l, NEW j, l = pc[t], j = job[t] PROVE ProgressOf(l, j)'
      BY <2>4, <3>1, <3>2, ProgressStays
    <3> QED
      BY <2>1, <3>2
  <2> QED
    BY <2>4, <2>6, <2>7 DEF Invariant
<1> QED
  BY <1>1, <1>2

LEMMA InvariantInit == Init => Invariant
<1> SUFFICES ASSUME Init PROVE Invariant
  OBVIOUS
<1>1. TypeInv
  BY TypeInit
<1>2. \A h \in HealthCheck : \A a \in CheckAccounts(h) \cup RemedyAccounts(h) : Says(a)
  <2>1. ASSUME NEW h \in HealthCheck, NEW a \in CheckAccounts(h) \cup RemedyAccounts(h),
               NEW i \in 1..3
        PROVE  objects[Object(a, i).id] = Absent
    <3>1. Object(a, i).id \in Identity
      BY AccountFacts, ObjectFacts DEF CheckAccounts, RemedyAccounts
    <3> QED
      BY <3>1 DEF Init
  <2> QED
    BY <2>1 DEF Says, Managed, Exists
<1> QED
  BY <1>1, <1>2 DEF Init, Invariant

LEMMA InvariantNext == Separate /\ Invariant /\ [Next]_vars => Invariant'
<1> SUFFICES ASSUME Separate, Invariant, [Next]_vars PROVE Invariant'
  OBVIOUS
<1>0. TypeInv'
  BY TypeNext DEF Invariant
<1>1. ASSUME NEW t \in Run, Step(t) PROVE Invariant'
  BY <1>0, <1>1, BeginStep, LookupStep, CreateStep, WatchStep, FindStep, DeleteStep,
     FinishStep DEF Step
<1>2. CASE \/ \E h \in HealthCheck : Edit(h)
           \/ \E o \in UserObjects : MakeOwn(o)
  BY <1>0, <1>2, UserStep
<1>3. CASE Crash
  <2>1. \A a : Says(a) <=> Says(a)'
    BY <1>3 DEF Crash, Says, Managed, Exists
  <2> QED
    BY <1>0, <1>3, <2>1 DEF Crash, Invariant
<1>4. CASE UNCHANGED vars
  <2>1. /\ \A a : (Says(a) <=> Says(a)') /\ (Complete(a) <=> Complete(a)')
        /\ \A l, j : ProgressOf(l, j) <=> ProgressOf(l, j)'
    BY <1>4 DEF vars, Says, Complete, ProgressOf, Exists, Managed
  <2>2. UNCHANGED <<objects, spec, armed, pc, job>>
    BY <1>4 DEF vars
  <2>3. \A h \in HealthCheck : armed'[h] => Complete(CheckAccount(spec[h]))'
    BY <2>1, <2>2 DEF Invariant
  <2>4. \A t \in Run : pc'[t] # "idle" => ProgressOf(pc[t], job[t])'
    BY <2>1, <2>2 DEF Invariant
  <2> QED
    BY <1>0, <2>1, <2>3, <2>4 DEF Invariant
<1> QED
  BY <1>1, <1>2, <1>3, <1>4 DEF Next

\* Under Separate, the invariant with all that a run relies on.
THEOREM SeparateInvariant == Separate => (Spec => []SeparateInv)
<1> SUFFICES ASSUME Separate PROVE Spec => []SeparateInv
  OBVIOUS
<1>1. Invariant /\ [Next]_vars => Invariant'
  BY InvariantNext
<1> QED
  BY <1>1, InvariantInit, InvariantGives, PTL DEF Spec

-----------------------------------------------------------------------------
(* What follows from it. *)

LEMMA Consequences ==
  ASSUME SeparateInv
  PROVE  WatchedIsPermitted /\ CleanupFindsItsObjects /\ NothingLeftBehind
<1> USE NamesAssumption
<1>1. ASSUME NEW t \in Run, pc[t] # "idle"
      PROVE  /\ Progress(t) /\ HcOf[t] \in HealthCheck
             /\ job[t].spec \in SpecsOf[HcOf[t]]
             /\ job[t].for \in {"check", "remedy"} /\ job[t].at \in 1..3
  <2>1. job[t] \in Job /\ job[t].spec \in SpecsOf[HcOf[t]]
    BY <1>1 DEF SeparateInv, TypeOK
  <2> QED
    BY <1>1, <2>1 DEF SeparateInv, Job
<1>2. WatchedIsPermitted
  <2>1. ASSUME NEW t \in Run, pc[t] = "watch" PROVE Granted(Account(job[t]))
    <3>1. Complete(Account(job[t])) /\ (job[t].for = "remedy" => HasRemedy(job[t].spec))
      BY <1>1, <2>1 DEF Progress
    <3>2. Says(Account(job[t]))
      BY <1>1, <2>1, <3>1 DEF SeparateInv, Account
    <3> QED
      BY <3>1, <3>2 DEF Granted, Complete, Says
  <2> QED
    BY <2>1 DEF WatchedIsPermitted
<1>3. CleanupFindsItsObjects
  <2>1. ASSUME NEW t \in Run, pc[t] \in {"find", "delete"}
        PROVE  Exists(Current(t).id)
    BY <1>1, <2>1 DEF Progress, Current
  <2> QED
    BY <2>1 DEF CleanupFindsItsObjects
<1>4. NothingLeftBehind
  BY <1>1 DEF NothingLeftBehind, Progress
<1> QED
  BY <1>2, <1>3, <1>4

\* What the controller waits for has the objects it needs, and they say what it
\* needs: closures of timers included, that submit without a look.
THEOREM Permitted == Separate => (Spec => []WatchedIsPermitted)
BY SeparateInvariant, Consequences, PTL

\* No cleanup stops at an object that is missing.
THEOREM CleanupSucceeds == Separate => (Spec => []CleanupFindsItsObjects)
BY SeparateInvariant, Consequences, PTL

\* No run with a remedy ends with an object of it left.
THEOREM CleanedUp == Separate => (Spec => []NothingLeftBehind)
BY SeparateInvariant, Consequences, PTL

-----------------------------------------------------------------------------
(* What users have made, whoever shares names with whom, and whatever fails. *)

\* What the run t is about to delete is the controller's, or it is one the user has
\* put there since the look.
LookStands(t) == pc[t] = "delete" =>
  \/ ~Exists(Current(t).id) \/ objects[Current(t).id].managed \/ t \in swapped
LookInv == TypeInv /\ \A t \in Run : LookStands(t)

\* Steps of other runs make objects of the controller, or delete.
LEMMA LookOfOthers ==
  ASSUME TypeInv, NEW t \in Run, NEW u \in Run \ {t}, Step(t), LookStands(u)
  PROVE  LookStands(u)'
<1>1. /\ pc'[u] = pc[u] /\ job'[u] = job[u]
  BY StepIsTyped DEF RunTo, Goto, TypeInv, TypeOK
<1>2. u \in swapped => u \in swapped'
  BY DEF Step, StartWorker, Fire, Lookup, Create, Submit, WatchCheck,
         WatchRemedy, Find, Delete, Finish
<1>3. ASSUME NEW o \in Identity
      PROVE  objects'[o] = objects[o] \/ objects'[o] = Absent \/ objects'[o].managed
  BY DEF Step, StartWorker, Fire, Lookup, Create, Submit, WatchCheck,
         WatchRemedy, Find, Delete, Finish, TypeInv, TypeOK
<1>4. CASE pc[u] = "delete"
  <2>1. Current(u)' = Current(u) /\ Current(u).id \in Identity
    BY <1>1, <1>4, JobFacts DEF Current
  <2> QED
    BY <1>1, <1>2, <1>3, <1>4, <2>1 DEF LookStands, Exists
<1> QED
  BY <1>1, <1>4 DEF LookStands

\* A run comes to a deletion by a look at the label.
LEMMA LookOfRun ==
  ASSUME TypeInv, NEW t \in Run, Step(t)
  PROVE  LookStands(t)'
<1> SUFFICES ASSUME pc'[t] = "delete" PROVE LookStands(t)'
  BY DEF LookStands
<1>1. \A l : Goto(t, l) => l = "delete"
  BY DEF Goto, TypeInv, TypeOK
<1>2. ~Stop(t) /\ ~Made(t) /\ ~Deleted(t)
  BY <1>1 DEF Stop, Made, Deleted, NextObject
<1>3. Find(t) /\ Managed(Current(t).id) /\ UNCHANGED <<job, objects>>
  BY <1>1, <1>2 DEF Step, StartWorker, Fire, Lookup, Create, Submit, WatchCheck,
         WatchRemedy, Find, Delete, Finish
<1>4. Current(t)' = Current(t)
  BY <1>3 DEF Current
<1> QED
  BY <1>3, <1>4 DEF LookStands, Managed

LEMMA LookNext == LookInv /\ [Next]_vars => LookInv'
<1> SUFFICES ASSUME LookInv, [Next]_vars PROVE LookInv'
  OBVIOUS
<1>1. TypeInv'
  BY TypeNext DEF LookInv
<1>2. ASSUME NEW u \in Run PROVE LookStands(u)'
  <2>1. TypeInv /\ LookStands(u)
    BY DEF LookInv
  <2>2. ASSUME NEW t \in Run, Step(t) PROVE LookStands(u)'
    BY <2>1, <2>2, LookOfOthers, LookOfRun
  <2>3. ASSUME NEW o \in UserObjects, MakeOwn(o) PROVE LookStands(u)'
    <3>1. UNCHANGED <<pc, job>> /\ Current(u)' = Current(u)
      BY <2>3 DEF MakeOwn, Current
    <3>2. \A x \in Identity \ {o} : objects'[x] = objects[x]
      BY <2>1, <2>3 DEF MakeOwn, TypeInv, TypeOK
    <3>3. /\ u \in swapped => u \in swapped'
          /\ pc[u] = "delete" /\ Current(u).id = o => u \in swapped'
      BY <2>3 DEF MakeOwn
    <3>4. pc[u] = "delete" => Current(u).id \in Identity
      BY <2>1, JobFacts
    <3> QED
      BY <2>1, <3>1, <3>2, <3>3, <3>4 DEF LookStands, Exists
  <2>4. ASSUME NEW h \in HealthCheck, Edit(h) PROVE LookStands(u)'
    BY <2>1, <2>4 DEF Edit, LookStands, Current, Exists
  <2>5. CASE Crash
    BY <2>5 DEF Crash, LookStands
  <2>6. CASE UNCHANGED vars
    BY <2>1, <2>6 DEF vars, LookStands, Current, Exists
  <2> QED
    BY <2>2, <2>3, <2>4, <2>5, <2>6 DEF Next
<1> QED
  BY <1>1, <1>2 DEF LookInv

\* Nothing a user has made is changed or deleted, but by the cleanup that had looked
\* at the label before the user put it there.
THEOREM UsersKeepTheirs == Spec => UserObjectsSurvive
<1> DEFINE Kept == \A o \in Identity : Exists(o) /\ ~objects[o].managed =>
             \/ objects'[o] = objects[o]
             \/ \E t \in swapped :
                  pc[t] = "delete" /\ pc'[t] # "delete" /\ Current(t).id = o
<1>1. ASSUME LookInv, [Next]_vars PROVE Kept
  <2> USE DEF Exists
  <2>1. ASSUME NEW t \in Run, Create(t) PROVE Kept
    BY <1>1, <2>1 DEF Create, LookInv, TypeInv, TypeOK
  <2>2. ASSUME NEW t \in Run, Delete(t) PROVE Kept
    <3>1. CASE UNCHANGED objects
      BY <3>1
    <3>2. CASE Deleted(t) /\ objects' = [objects EXCEPT ![Current(t).id] = Absent]
      <4>1. pc[t] = "delete" /\ LookStands(t) /\ TypeInv
        BY <1>1, <2>2 DEF Delete, LookInv
      <4>2. pc'[t] # "delete"
        BY <3>2, <4>1 DEF Deleted, Stop, NextObject, Goto, TypeInv, TypeOK
      <4>3. \A x \in Identity \ {Current(t).id} : objects'[x] = objects[x]
        BY <3>2, <4>1 DEF TypeInv, TypeOK
      <4> QED
        BY <4>1, <4>2, <4>3 DEF LookStands
    <3> QED
      BY <2>2, <3>1, <3>2 DEF Delete
  <2>3. ASSUME NEW o \in UserObjects, MakeOwn(o) PROVE Kept
    BY <1>1, <2>3 DEF MakeOwn, LookInv, TypeInv, TypeOK
  <2>4. ASSUME UNCHANGED objects PROVE Kept
    BY <2>4
  <2> QED
    BY <1>1, <2>1, <2>2, <2>3, <2>4
       DEF Next, Step, vars, StartWorker, Fire, Lookup, Submit, WatchCheck, WatchRemedy,
           Find, Finish, Edit, Crash
<1>2. Init => LookInv
  BY TypeInit DEF Init, LookInv, LookStands
<1>3. LookInv /\ [Next]_vars => [Kept]_vars
  BY <1>1
<1> QED
  BY <1>2, <1>3, LookNext, PTL DEF Spec, UserObjectsSurvive
=============================================================================
