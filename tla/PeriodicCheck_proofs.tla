------------------------ MODULE PeriodicCheck_proofs ------------------------
(***************************************************************************)
(* What PeriodicCheck promises, and when a step of a module that keeps      *)
(* track of claims in another way is one of its steps.                     *)
(***************************************************************************)
EXTENDS PeriodicCheck, TLAPS

\* The invariant: types, and nobody is forgotten.
LEMMA PromiseKept ==
  ASSUME TypeOK, NobodyIsForgotten, [Next]_vars
  PROVE  TypeOK' /\ NobodyIsForgotten'
<1>1. ASSUME NEW h \in HealthCheck, NEW new \in SUBSET Claim, Becomes(h, new)
      PROVE  TypeOK' /\ NobodyIsForgotten'
  BY <1>1 DEF Becomes, TypeOK, NobodyIsForgotten
<1>2. ASSUME NEW h \in HealthCheck, Ask(h)
      PROVE  TypeOK' /\ NobodyIsForgotten'
  <2>1. TypeOK'
    BY <1>2 DEF Ask, TypeOK, Claim
  <2>2. ASSUME NEW g \in HealthCheck, wanted'[g]
        PROVE  claims'[g] # {}
    BY <1>2, <2>2 DEF Ask, TypeOK, NobodyIsForgotten
  <2> QED
    BY <2>1, <2>2 DEF NobodyIsForgotten
<1>3. ASSUME NEW h \in HealthCheck, Look(h) \/ Fire(h) \/ Work(h)
      PROVE  \E new \in SUBSET Claim : Becomes(h, new)
  <2>1. claims[h] \in SUBSET Claim
    BY DEF TypeOK
  <2>2. ASSUME NEW x \in Claim, NEW rest \in {claims[h], claims[h] \ {x}},
               NEW more \in SUBSET Claim
        PROVE  rest \cup more \in SUBSET Claim /\ rest \in SUBSET Claim
                 /\ rest \ {"timer"} \in SUBSET Claim
    BY <2>1
  <2>3. /\ \A x \in {"told", "timer", "run"} : x \in Claim /\ {x} \in SUBSET Claim
        /\ \A new \in SUBSET {"told", "timer"} : new \in SUBSET Claim
    BY DEF Claim
  <2>4. CASE Look(h)
    BY <2>2, <2>3, <2>4 DEF Look
  <2>5. CASE Fire(h)
    BY <2>2, <2>3, <2>5 DEF Fire
  <2>6. CASE Work(h)
    BY <2>2, <2>3, <2>6 DEF Work
  <2> QED
    BY <1>3, <2>4, <2>5, <2>6
<1>4. CASE Crash
  BY <1>4 DEF Crash, TypeOK, NobodyIsForgotten, Claim
<1>5. CASE UNCHANGED vars
  BY <1>5 DEF vars, TypeOK, NobodyIsForgotten
<1> QED
  BY <1>1, <1>2, <1>3, <1>4, <1>5 DEF Next

\* In every behaviour of the promise who is wanted is never forgotten.
THEOREM NeverForgotten == Spec => [](TypeOK /\ NobodyIsForgotten)
<1>1. Init => TypeOK /\ NobodyIsForgotten
  BY DEF Init, TypeOK, NobodyIsForgotten, Claim
<1> QED
  BY <1>1, PromiseKept, PTL DEF Spec

\* In every behaviour of the promise timers come from runs, and runs from
\* timers or from looks of the controller.
THEOREM ClaimsHaveCauses == Spec => NothingComesFromNothing
<1> DEFINE Caused ==
      \A h \in HealthCheck :
        /\ "timer" \in claims'[h] => claims[h] \cap {"timer", "run"} # {}
        /\ "run" \in claims'[h] => claims[h] # {}
<1>1. ASSUME TypeOK, Next
      PROVE  Caused
  <2>1. ASSUME NEW h \in HealthCheck, NEW new, Becomes(h, new),
               "timer" \in new => claims[h] \cap {"timer", "run"} # {},
               claims[h] # {}
        PROVE  Caused
    BY <1>1, <2>1 DEF Becomes, TypeOK
  <2>2. ASSUME NEW h \in HealthCheck, Ask(h)
        PROVE  Caused
    <3>1. claims' = [claims EXCEPT ![h] = claims[h] \cup {"told"}]
      BY <2>2 DEF Ask
    <3>2. ASSUME NEW g \in HealthCheck
          PROVE  claims'[g] \subseteq claims[g] \cup {"told"}
      BY <1>1, <3>1 DEF TypeOK
    <3>3. ASSUME NEW g \in HealthCheck, NEW x \in {"timer", "run"}, x \in claims'[g]
          PROVE  x \in claims[g]
      BY <3>2, <3>3
    <3> QED
      BY <3>3
  <2>3. ASSUME NEW h \in HealthCheck, Look(h) \/ Fire(h) \/ Work(h)
        PROVE  \E new : /\ Becomes(h, new)
                        /\ "timer" \in new => claims[h] \cap {"timer", "run"} # {}
    <3> DEFINE Fits(new) == "timer" \in new => claims[h] \cap {"timer", "run"} # {}
    <3>1. CASE Look(h)
      <4>1. PICK rest \in {claims[h], claims[h] \ {"told"}} :
              \/ Becomes(h, rest) \/ Becomes(h, rest \cup {"run"})
              \/ ~wanted[h] /\ Becomes(h, rest \ {"timer"})
        BY <3>1 DEF Look
      <4>2. Fits(rest) /\ Fits(rest \cup {"run"}) /\ Fits(rest \ {"timer"})
        OBVIOUS
      <4> QED
        BY <4>1, <4>2
    <3>2. CASE Fire(h)
      <4> DEFINE rest == claims[h] \ {"timer"}
      <4>1. Becomes(h, rest \cup {"run"}) \/ Becomes(h, rest)
        BY <3>2 DEF Fire
      <4>2. Fits(rest \cup {"run"}) /\ Fits(rest)
        OBVIOUS
      <4> HIDE DEF rest
      <4> QED
        BY <4>1, <4>2
    <3>3. CASE Work(h)
      <4>1. PICK rest \in {claims[h], claims[h] \ {"run"}}, new \in SUBSET {"told", "timer"} :
              Becomes(h, rest \cup new)
        BY <3>3 DEF Work
      <4>2. Fits(rest \cup new)
        BY <3>3 DEF Work
      <4> QED
        BY <4>1, <4>2
    <3> QED
      BY <2>3, <3>1, <3>2, <3>3
  <2>4. ASSUME NEW h \in HealthCheck, Look(h) \/ Fire(h) \/ Work(h)
        PROVE  claims[h] # {}
    BY <2>4 DEF Look, Fire, Work
  <2>5. CASE Crash
    BY <2>5 DEF Crash
  <2> HIDE DEF Caused
  <2> QED
    BY <1>1, <2>1, <2>2, <2>3, <2>4, <2>5 DEF Next
<1>2. TypeOK /\ [Next]_vars => [Caused]_vars
  BY <1>1
<1> QED
  BY <1>2, NeverForgotten, PTL DEF Spec, NothingComesFromNothing

-----------------------------------------------------------------------------
(* When a step of another module is one of the promise. *)

\* The claims of one HealthCheck change, and it is not forgotten.
Changes(h) ==
  /\ claims' = [claims EXCEPT ![h] = claims'[h]]
  /\ claims[h] \subseteq Claim /\ claims'[h] \subseteq Claim
  /\ wanted[h] => claims'[h] # {}
  /\ UNCHANGED wanted

\* Sets of claims with the same elements are the same.
LEMMA SameClaims ==
  ASSUME NEW A \in SUBSET Claim, NEW B \in SUBSET Claim,
         \A x \in Claim : x \in A <=> x \in B
  PROVE  A = B
<1>1. \A x : x \in A <=> x \in B
  OBVIOUS
<1> QED
  BY <1>1

\* Such a step is a look, if only "told" goes, and the timer of one that is
\* not wanted.
LEMMA LookIf ==
  ASSUME NEW h \in HealthCheck, Changes(h),
         "told" \in claims[h], "run" \in claims[h] => "run" \in claims'[h],
         \/ "timer" \in claims'[h] <=> "timer" \in claims[h]
         \/ ~wanted[h] /\ "timer" \notin claims'[h]
              /\ ("run" \in claims'[h] => "run" \in claims[h])
  PROVE  Look(h)
<1> DEFINE old == claims[h]
           new == claims'[h]
           rest == IF "told" \in new THEN old ELSE old \ {"told"}
<1>1. Becomes(h, new) /\ old \in SUBSET Claim /\ new \in SUBSET Claim
  BY DEF Changes, Becomes
<1>2. /\ "told" \in old /\ ("run" \in old => "run" \in new)
      /\ \/ "timer" \in new <=> "timer" \in old
         \/ ~wanted[h] /\ "timer" \notin new /\ ("run" \in new => "run" \in old)
  OBVIOUS
<1> HIDE DEF old, new
<1>3. rest \in {old, old \ {"told"}} /\ rest \in SUBSET Claim
  BY <1>1
<1>4. CASE ("timer" \in new <=> "timer" \in old) /\ "run" \in new
  <2>1. \A x \in Claim : x \in new <=> x \in rest \cup {"run"}
    BY <1>2, <1>4 DEF Claim
  <2>2. rest \cup {"run"} \in SUBSET Claim
    BY <1>3 DEF Claim
  <2>3. new = rest \cup {"run"}
    BY <1>1, <2>1, <2>2, SameClaims
  <2> QED
    BY <1>1, <1>2, <1>3, <2>3 DEF Look, old
<1>5. CASE ("timer" \in new <=> "timer" \in old) /\ "run" \notin new
  <2>1. \A x \in Claim : x \in new <=> x \in rest
    BY <1>2, <1>5 DEF Claim
  <2> HIDE DEF rest
  <2>2. new = rest
    BY <1>1, <1>3, <2>1, SameClaims
  <2> QED
    BY <1>1, <1>2, <1>3, <2>2 DEF Look, old
<1>6. CASE ~wanted[h] /\ "timer" \notin new /\ ("run" \in new => "run" \in old)
  <2>1. \A x \in Claim : x \in new <=> x \in rest \ {"timer"}
    BY <1>2, <1>6 DEF Claim
  <2>2. rest \ {"timer"} \in SUBSET Claim
    BY <1>3
  <2>3. new = rest \ {"timer"}
    BY <1>1, <2>1, <2>2, SameClaims
  <2> QED
    BY <1>1, <1>2, <1>3, <1>6, <2>3 DEF Look, old
<1> QED
  BY <1>2, <1>4, <1>5, <1>6

\* It is the work of a run, if neither "told" nor "timer" goes.
LEMMA WorkIf ==
  ASSUME NEW h \in HealthCheck, Changes(h), "run" \in claims[h],
         \A x \in {"told", "timer"} : x \in claims[h] => x \in claims'[h]
  PROVE  Work(h)
<1> DEFINE old == claims[h]
           new == claims'[h]
           more == new \cap {"told", "timer"}
           rest == IF "run" \in new THEN old ELSE old \ {"run"}
<1>1. Becomes(h, new) /\ old \in SUBSET Claim /\ new \in SUBSET Claim
  BY DEF Changes, Becomes
<1>2. "run" \in old /\ \A x \in {"told", "timer"} : x \in old => x \in new
  OBVIOUS
<1> HIDE DEF old, new
<1>3. /\ rest \in {old, old \ {"run"}} /\ more \in SUBSET {"told", "timer"}
      /\ rest \cup more \in SUBSET Claim
  BY <1>1
<1>4. \A x \in Claim : x \in new <=> x \in rest \cup more
  BY <1>2 DEF Claim
<1>5. new = rest \cup more
  BY <1>1, <1>3, <1>4, SameClaims
<1> HIDE DEF rest, more
<1> QED
  BY <1>1, <1>2, <1>3, <1>5 DEF Work, old

\* It is the timer that fires, if only that goes.
LEMMA FireIf ==
  ASSUME NEW h \in HealthCheck, Changes(h),
         "timer" \in claims[h], "timer" \notin claims'[h],
         "told" \in claims'[h] <=> "told" \in claims[h],
         "run" \in claims[h] => "run" \in claims'[h]
  PROVE  Fire(h)
<1> DEFINE old == claims[h]
           new == claims'[h]
           rest == old \ {"timer"}
           more == IF "run" \in new THEN rest \cup {"run"} ELSE rest
<1>1. Becomes(h, new) /\ old \in SUBSET Claim /\ new \in SUBSET Claim
  BY DEF Changes, Becomes
<1>2. /\ "timer" \in old /\ "timer" \notin new /\ ("told" \in new <=> "told" \in old)
      /\ "run" \in old => "run" \in new
  OBVIOUS
<1> HIDE DEF old, new
<1>3. \A x \in Claim : x \in new <=> x \in more
  BY <1>2 DEF Claim
<1>4. more \in SUBSET Claim
  BY <1>1 DEF Claim
<1> HIDE DEF rest, more
<1>5. new = more
  BY <1>1, <1>3, <1>4, SameClaims
<1>6. more \in {rest \cup {"run"}, rest}
  BY DEF more
<1> QED
  BY <1>1, <1>2, <1>5, <1>6 DEF Fire, old, rest

=============================================================================
