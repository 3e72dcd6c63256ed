----------------------------- MODULE WorkflowRBAC -----------------------------
(***************************************************************************)
(* The RBAC objects of the workflows: a ServiceAccount, a role and its     *)
(* binding for the workflow of a HealthCheck, and three more for its       *)
(* remedy (createRBACForWorkflow, deleteRBACForWorkflow and the create and *)
(* Delete functions they call, in                                          *)
(* internal/controllers/healthcheck_controller.go).                        *)
(*                                                                         *)
(* A worker makes the objects of the health check before it submits its    *)
(* workflow; a closure does not, it relies on those of the run that armed  *)
(* it.  The objects of a remedy are made before the remedy and deleted     *)
(* after it.  Each object costs two calls, a Get and a Create or a Delete, *)
(* and other runs, users and crashes come in between.  The names of the    *)
(* objects are made from the name of the ServiceAccount alone, so runs     *)
(* share what they name alike.                                             *)
(***************************************************************************)
EXTENDS Integers

CONSTANTS
  HealthCheck,
  Run,          \* threads: workers and closures
  HcOf,         \* [Run -> HealthCheck]
  SpecsOf,      \* [HealthCheck -> the specs a user may give it]
  Name,         \* of ServiceAccounts
  Remedied,     \* [Name -> Name]: appends "-remedy"
  Namespace,
  Rules,        \* lists of policy rules
  defaultHealthCheckRules, defaultRemedyRules,
  UserObjects,  \* objects that users may make themselves
  Faults,       \* the calls that may fail
  Events,       \* what users and the cluster may do
  Absent, None, NoJob

\* remedySa is None when Resource is nil or names no ServiceAccount; rules are
\* None when the list is empty.
SpecFields == [sa : Name, ns : Namespace, level : STRING, rules : Rules \cup {None},
               remedy : BOOLEAN, remedySa : Name \cup {None}, remedyNs : Namespace,
               remedyRules : Rules \cup {None}]

\* A run's snapshot of the spec, for whose workflow it works, and which of its
\* three objects comes next.
Job == [spec : SpecFields, for : {"check", "remedy"}, at : 1..3]

ASSUME NamesAssumption ==
  /\ Remedied \in [Name -> Name] /\ None \notin Name
  /\ HcOf \in [Run -> HealthCheck]
ASSUME SpecsAssumption ==
  /\ \A h \in HealthCheck : SpecsOf[h] \subseteq SpecFields
  /\ {defaultHealthCheckRules, defaultRemedyRules} \subseteq Rules
  /\ None \notin Rules /\ NoJob \notin Job

VARIABLES
  objects,  \* objects[o]: what the API server has under the identity o
  spec,     \* spec[h]
  armed,    \* armed[h]: a timer waits to run a closure of h
  pc,       \* pc[t]: the call a run makes next
  job,      \* job[t]
  (* History: *)
  swapped   \* runs about to delete, where a user has put an own object since the look

vars == <<objects, spec, armed, pc, job, swapped>>

-----------------------------------------------------------------------------
(* The objects of an account: who they are and what they say. *)

Kind == {"ServiceAccount", "ClusterRole", "ClusterRoleBinding", "Role", "RoleBinding"}
ClusterWide == "all"
Identity == Kind \X Name \X (Namespace \cup {ClusterWide})

\* Rules of a role, the namespace of the ServiceAccount that a binding names.
Holding == Rules \cup Namespace \cup {None}
Content == [managed : BOOLEAN, holds : Holding]

ASSUME ObjectsAssumption ==
  /\ Absent \notin Content /\ ClusterWide \notin Namespace
  /\ UserObjects \subseteq Identity

ServiceAccount(a) ==
  [id |-> <<"ServiceAccount", a.sa, a.ns>>, holds |-> None]
ClusterRole(a) ==
  [id |-> <<"ClusterRole", a.sa, ClusterWide>>, holds |-> a.rules]
ClusterRoleBinding(a) ==
  [id |-> <<"ClusterRoleBinding", a.sa, ClusterWide>>, holds |-> a.ns]
NameSpaceRole(a) ==
  [id |-> <<"Role", a.sa, a.ns>>, holds |-> a.rules]
\* The subject has no namespace: that of the binding is meant.
NameSpaceRoleBinding(a) ==
  [id |-> <<"RoleBinding", a.sa, a.ns>>, holds |-> a.ns]

\* In the order in which they are made, and deleted.
Object(a, i) ==
  CASE i = 1 -> ServiceAccount(a)
    [] i = 2 -> IF a.level = "cluster" THEN ClusterRole(a) ELSE NameSpaceRole(a)
    [] i = 3 -> IF a.level = "cluster" THEN ClusterRoleBinding(a)
                ELSE NameSpaceRoleBinding(a)

resolveRBACRules(customRules, defaults) ==
  IF customRules = None THEN defaults ELSE customRules

CheckAccount(s) ==
  [sa |-> s.sa, ns |-> s.ns, level |-> s.level,
   rules |-> resolveRBACRules(s.rules, defaultHealthCheckRules)]

\* Mutant of remedySa: the account of the health check is used as it is.
SameSa(s) == s.remedySa

remedySa(s) == IF s.remedySa = s.sa THEN Remedied[s.sa] ELSE s.remedySa

RemedyAccount(s) ==
  [sa |-> remedySa(s), ns |-> s.remedyNs, level |-> s.level,
   rules |-> resolveRBACRules(s.remedyRules, defaultRemedyRules)]

\* "RemedyWorkflow is set but Resource is nil", "ServiceAccount for the
\* RemedyWorkflow is not specified"
Rejected(s) == s.remedy /\ s.remedySa = None

LevelIsSet(s) == s.level \in {"cluster", "namespace"}

Account(j) == IF j.for = "check" THEN CheckAccount(j.spec) ELSE RemedyAccount(j.spec)

\* The object a run is at.
Current(t) == Object(Account(job[t]), job[t].at)

Exists(o) == objects[o] # Absent

\* Mutant of Managed: the label is not looked at.
ManagedByAnyone(o) == Exists(o)

\* "Delete only if created by the workflow"
Managed(o) == Exists(o) /\ objects[o].managed

-----------------------------------------------------------------------------
Goto(t, label) == pc' = [pc EXCEPT ![t] = label]

\* The run ends, with or without an error.
Stop(t) ==
  /\ Goto(t, "idle")
  /\ job' = [job EXCEPT ![t] = NoJob]

NextObject(t, label) ==
  /\ job' = [job EXCEPT ![t].at = @ + 1]
  /\ Goto(t, label)

\* Mutant of Made: the binding is left out.
MadeTheRole(t) ==
  \/ job[t].at = 1 /\ LevelIsSet(job[t].spec) /\ NextObject(t, "lookup")
  \/ job[t].at = 1 /\ ~LevelIsSet(job[t].spec) /\ Stop(t)
  \/ job[t].at \in {2, 3} /\ Goto(t, "submit") /\ UNCHANGED job

\* One object is there: the next one, or the workflow.  That the level is
\* neither of the two is found out after the ServiceAccount.
Made(t) ==
  \/ job[t].at = 1 /\ ~LevelIsSet(job[t].spec) /\ Stop(t)
  \/ /\ job[t].at = 2 \/ (job[t].at = 1 /\ LevelIsSet(job[t].spec))
     /\ NextObject(t, "lookup")
  \/ job[t].at = 3 /\ Goto(t, "submit") /\ UNCHANGED job

\* Mutant of Deleted: the binding is left out.
DeletedTheRole(t) ==
  \/ job[t].at = 1 /\ NextObject(t, "find")
  \/ job[t].at \in {2, 3} /\ Goto(t, "finish") /\ UNCHANGED job

\* One object is deleted, or is not the controller's.
Deleted(t) ==
  \/ job[t].at = 1 /\ ~LevelIsSet(job[t].spec) /\ Stop(t)
  \/ /\ job[t].at = 2 \/ (job[t].at = 1 /\ LevelIsSet(job[t].spec))
     /\ NextObject(t, "find")
  \/ job[t].at = 3 /\ Goto(t, "finish") /\ UNCHANGED job

-----------------------------------------------------------------------------
(* Runs. *)

\* processHealthCheck.  A spec that is rejected stops it before the first call.
StartWorker(t) ==
  LET s == spec[HcOf[t]] IN
  /\ pc[t] = "idle" /\ ~Rejected(s)
  /\ job' = [job EXCEPT ![t] = [spec |-> s, for |-> "check", at |-> 1]]
  /\ Goto(t, "lookup")
  /\ UNCHANGED <<objects, spec, armed, swapped>>

\* A timer fires: the closure reads the spec anew and submits at once.
Fire(t) ==
  LET h == HcOf[t] IN
  /\ pc[t] = "idle" /\ armed[h]
  /\ armed' = [armed EXCEPT ![h] = FALSE]
  /\ job' = [job EXCEPT ![t] = [spec |-> spec[h], for |-> "check", at |-> 3]]
  /\ Goto(t, "submit")
  /\ UNCHANGED <<objects, spec, swapped>>

\* The Get of a create function: "already exists just re-use it", whatever it
\* says.  Any error is taken for NotFound.
Lookup(t) ==
  /\ pc[t] = "lookup"
  /\ \/ Exists(Current(t).id) /\ Made(t)
     \/ /\ ~Exists(Current(t).id) \/ "get" \in Faults
        /\ Goto(t, "create") /\ UNCHANGED job
  /\ UNCHANGED <<objects, spec, armed, swapped>>

\* Its Create: an error when the object exists by now.
Create(t) ==
  LET o == Current(t) IN
  /\ pc[t] = "create"
  /\ \/ /\ ~Exists(o.id)
        /\ objects' = [objects EXCEPT ![o.id] = [managed |-> TRUE, holds |-> o.holds]]
        /\ Made(t)
     \/ /\ Exists(o.id) \/ "create" \in Faults
        /\ Stop(t) /\ UNCHANGED objects
  /\ UNCHANGED <<spec, armed, swapped>>

Submit(t) ==
  /\ pc[t] = "submit"
  /\ \/ Goto(t, "watch") /\ UNCHANGED job
     \/ "submit" \in Faults /\ Stop(t)
  /\ UNCHANGED <<objects, spec, armed, swapped>>

\* The workflow of the health check has a verdict; a failure may ask for the
\* remedy.  It stops the run when its workflow is gone or cannot be polled.
WatchCheck(t) ==
  LET s == job[t].spec IN
  /\ pc[t] = "watch" /\ job[t].for = "check"
  /\ \/ Goto(t, "finish") /\ UNCHANGED job
     \/ /\ s.remedy /\ ~Rejected(s)
        /\ job' = [job EXCEPT ![t] = [@ EXCEPT !.for = "remedy", !.at = 1]]
        /\ Goto(t, "lookup")
     \/ ("watch" \in Faults \/ Rejected(s)) /\ Stop(t)
  /\ UNCHANGED <<objects, spec, armed, swapped>>

\* The remedy has a verdict, is not found, or is given up by the timeout; an
\* error of its polling or of its status write leaves its objects behind.
WatchRemedy(t) ==
  /\ pc[t] = "watch" /\ job[t].for = "remedy"
  /\ \/ job' = [job EXCEPT ![t].at = 1] /\ Goto(t, "find")
     \/ "watch" \in Faults /\ Stop(t)
  /\ UNCHANGED <<objects, spec, armed, swapped>>

\* The Get of a Delete function, and the look at the label.
Find(t) ==
  LET o == Current(t).id IN
  /\ pc[t] = "find"
  /\ \/ (~Exists(o) \/ "get" \in Faults) /\ Stop(t)
     \/ Managed(o) /\ Goto(t, "delete") /\ UNCHANGED job
     \/ Exists(o) /\ ~Managed(o) /\ Deleted(t)
  /\ UNCHANGED <<objects, spec, armed, swapped>>

\* Its Delete, by name.
Delete(t) ==
  LET o == Current(t).id IN
  /\ pc[t] = "delete"
  /\ \/ Exists(o) /\ objects' = [objects EXCEPT ![o] = Absent] /\ Deleted(t)
     \/ (~Exists(o) \/ "delete" \in Faults) /\ Stop(t) /\ UNCHANGED objects
  /\ swapped' = swapped \ {t}
  /\ UNCHANGED <<spec, armed>>

\* The status is written and the next run scheduled.
Finish(t) ==
  /\ pc[t] = "finish"
  /\ \/ armed' = [armed EXCEPT ![HcOf[t]] = TRUE]
     \/ "write" \in Faults /\ UNCHANGED armed
  /\ Stop(t)
  /\ UNCHANGED <<objects, spec, swapped>>

-----------------------------------------------------------------------------
(* Users and the cluster. *)

Edit(h) ==
  /\ "edit" \in Events
  /\ \E s \in SpecsOf[h] \ {spec[h]} : spec' = [spec EXCEPT ![h] = s]
  /\ UNCHANGED <<objects, armed, pc, job, swapped>>

\* A user makes an object without the label, or replaces what the controller has
\* made by one (or takes the label off); what it says is the user's affair.  Where
\* runs need an object, users do not leave none.
MakeOwn(o) ==
  /\ "own" \in Events /\ (Exists(o) => objects[o].managed)
  /\ objects' = [objects EXCEPT ![o] = [managed |-> FALSE, holds |-> None]]
  /\ swapped' = swapped \cup {t \in Run : pc[t] = "delete" /\ Current(t).id = o}
  /\ UNCHANGED <<spec, armed, pc, job>>

Crash ==
  /\ "crash" \in Events
  /\ pc' = [t \in Run |-> "idle"] /\ job' = [t \in Run |-> NoJob]
  /\ armed' = [h \in HealthCheck |-> FALSE] /\ swapped' = {}
  /\ UNCHANGED <<objects, spec>>

Init ==
  /\ objects = [o \in Identity |-> Absent]
  /\ spec \in [HealthCheck -> UNION {SpecsOf[h] : h \in HealthCheck}]
  /\ \A h \in HealthCheck : spec[h] \in SpecsOf[h]
  /\ armed = [h \in HealthCheck |-> FALSE]
  /\ pc = [t \in Run |-> "idle"] /\ job = [t \in Run |-> NoJob] /\ swapped = {}

Step(t) == \/ StartWorker(t) \/ Fire(t) \/ Lookup(t) \/ Create(t) \/ Submit(t)
           \/ WatchCheck(t) \/ WatchRemedy(t) \/ Find(t) \/ Delete(t) \/ Finish(t)

Next ==
  \/ \E t \in Run : Step(t)
  \/ \E h \in HealthCheck : Edit(h)
  \/ \E o \in UserObjects : MakeOwn(o)
  \/ Crash

Spec == Init /\ [][Next]_vars

-----------------------------------------------------------------------------
(* Properties. *)

Label == {"idle", "lookup", "create", "submit", "watch", "find", "delete", "finish"}

TypeOK ==
  /\ objects \in [Identity -> Content \cup {Absent}]
  /\ spec \in [HealthCheck -> SpecFields]
  /\ \A h \in HealthCheck : spec[h] \in SpecsOf[h]
  /\ armed \in [HealthCheck -> BOOLEAN]
  /\ pc \in [Run -> Label]
  /\ job \in [Run -> Job \cup {NoJob}] /\ swapped \subseteq Run
  /\ \A t \in Run : IF pc[t] = "idle" THEN job[t] = NoJob
                    ELSE job[t] # NoJob /\ job[t].spec \in SpecsOf[HcOf[t]]

\* An account has what its workflow needs: all three objects, and those the
\* controller made say what this account needs of them.
Granted(a) ==
  \A i \in 1..3 : /\ Exists(Object(a, i).id)
                  /\ Managed(Object(a, i).id) =>
                       objects[Object(a, i).id].holds = Object(a, i).holds

\* A workflow the controller waits for may do what its level promises ("create a
\* ServiceAccount in the namespace as defined in the workflow spec, ... the Role
\* and RoleBinding"): also when a closure submitted it without a look, when
\* earlier runs were cut short, and while remedies of others are cleaned up.
WatchedIsPermitted ==
  \A t \in Run : pc[t] = "watch" => Granted(Account(job[t]))

\* The cleanup of a remedy takes an object that is missing for an error, and the
\* run then ends without a next one: it never comes to that.
CleanupFindsItsObjects ==
  \A t \in Run : pc[t] \in {"find", "delete"} => Exists(Current(t).id)

\* When a run with a remedy gets to its end, nothing the controller made for the
\* remedy is left, leftovers of earlier runs that were cut short included.
NothingLeftBehind ==
  \A t \in Run : pc[t] = "finish" /\ job[t].for = "remedy" =>
    \A i \in 1..3 : ~Managed(Object(Account(job[t]), i).id)

\* "Delete only if created by the workflow": the label is read one call before the
\* deletion by name.  So a user can lose an object to the cleanup that looked when it
\* was the controller's, and was replaced in between; but to nothing else, whoever
\* shares the name.
UserObjectsSurvive ==
  [][\A o \in Identity : Exists(o) /\ ~objects[o].managed =>
       \/ objects'[o] = objects[o]
       \/ \E t \in swapped : pc[t] = "delete" /\ pc'[t] # "delete" /\ Current(t).id = o]_vars

-----------------------------------------------------------------------------
(* The inductive invariant behind them, and where it holds. *)

HasRemedy(s) == s.remedy /\ ~Rejected(s)

\* Two accounts ask for the same of an object they share; or share none.
Agree(a, b) == \A i, k \in 1..3 :
  Object(a, i).id = Object(b, k).id => Object(a, i).holds = Object(b, k).holds
Apart(a, b) == \A i, k \in 1..3 : Object(a, i).id # Object(b, k).id

\* Runs of a HealthCheck do not overlap, and edits keep the account of its
\* workflow; accounts of health checks may be shared if they agree; the account
\* of a remedy belongs to one HealthCheck, and edits do not change its objects.
Separate ==
  /\ \A t, u \in Run : HcOf[t] = HcOf[u] => t = u
  /\ \A g, h \in HealthCheck : \A s \in SpecsOf[g], r \in SpecsOf[h] :
       /\ Agree(CheckAccount(s), CheckAccount(r))
       /\ g = h => CheckAccount(s) = CheckAccount(r)
       /\ HasRemedy(s) => Apart(RemedyAccount(s), CheckAccount(r))
       /\ HasRemedy(s) /\ HasRemedy(r) =>
            IF g = h THEN Agree(RemedyAccount(s), RemedyAccount(r))
            ELSE Apart(RemedyAccount(s), RemedyAccount(r))

\* What the controller made says what every account that shares it needs.
Says(a) == \A i \in 1..3 : Managed(Object(a, i).id) =>
  objects[Object(a, i).id].holds = Object(a, i).holds
Complete(a) == \A i \in 1..3 : Exists(Object(a, i).id)

\* The objects of a run, by the call it makes next.
Progress(t) ==
  LET j == job[t]
      a == Account(j)
  IN
  /\ j.for = "remedy" => HasRemedy(j.spec)
  /\ j.for = "remedy" \/ pc[t] = "finish" => Complete(CheckAccount(j.spec))
  /\ pc[t] \in {"lookup", "create"} =>
       \A i \in 1..3 : i < j.at => Exists(Object(a, i).id)
  /\ pc[t] \in {"submit", "watch"} => Complete(a)
  /\ pc[t] \in {"find", "delete"} =>
       /\ j.for = "remedy"
       /\ \A i \in 1..3 : IF i < j.at THEN ~Managed(Object(a, i).id)
                         ELSE Exists(Object(a, i).id)
  /\ pc[t] = "finish" /\ j.for = "remedy" =>
       \A i \in 1..3 : ~Managed(Object(a, i).id)

SeparateInv ==
  /\ TypeOK
  /\ \A h \in HealthCheck : \A s \in SpecsOf[h] :
       Says(CheckAccount(s)) /\ (HasRemedy(s) => Says(RemedyAccount(s)))
  /\ \A h \in HealthCheck : armed[h] => Complete(CheckAccount(spec[h]))
  /\ \A t \in Run : pc[t] # "idle" => Progress(t)

=============================================================================
