------------------------ MODULE RemedyStatus_proofs ------------------------
(***************************************************************************)
(* Proofs about RemedyStatus, for any number of runs and any specs.        *)
(***************************************************************************)
EXTENDS RemedyStatus, TLAPS

Copies == [status : Status, spec : Specs]

\* A copy is not NoCopy, and its parts have their types.
LEMMA CopyFacts ==
  /\ NoCopy \notin Copies
  /\ \A c \in Copies : c.status \in Status /\ c.spec \in Specs
  /\ \A sp \in Specs : /\ sp.Remedy \in BOOLEAN
                       /\ sp.RemedyRunsLimit \in Int
                       /\ sp.RemedyResetInterval \in Int
                       /\ sp.RemedyResetInterval < MaxAge
BY SpecsAssumption, CopyAssumption DEF Copies, SpecFields

\* The fields of a status.
LEMMA StatusFields ==
  ASSUME NEW s \in Status
  PROVE  /\ s.SuccessCount \in Nat /\ s.FailedCount \in Nat
         /\ s.TotalHealthCheckRuns \in Nat /\ s.RemedySuccessCount \in Nat
         /\ s.RemedyFailedCount \in Nat /\ s.RemedyTotalRuns \in Nat
         /\ s.RemedyFinishedAt \in {Never} \cup 0..MaxAge
BY DEF Status

\* The reset of the remedy's values leaves the counters of the runs alone.
LEMMA ResetFacts ==
  ASSUME NEW s \in Status
  PROVE  LET r == RemedyReset(s) IN
         /\ r \in Status
         /\ r.SuccessCount = s.SuccessCount /\ r.FailedCount = s.FailedCount
         /\ r.RemedyTotalRuns = 0 /\ r.RemedyFinishedAt = Never
         /\ RemedyPair(r) = <<0, 0>>
         /\ Consistent(s) => Consistent(r)
<1> DEFINE r == RemedyReset(s)
<1>1. r \in Status
  BY DEF RemedyReset, Status
<1>2. /\ r.SuccessCount = s.SuccessCount /\ r.FailedCount = s.FailedCount
      /\ r.TotalHealthCheckRuns = s.TotalHealthCheckRuns
      /\ r.RemedySuccessCount = 0 /\ r.RemedyFailedCount = 0
      /\ r.RemedyTotalRuns = 0 /\ r.RemedyFinishedAt = Never
  BY DEF RemedyReset, Status
<1> HIDE DEF r
<1>3. Consistent(s) => Consistent(r)
  BY <1>2 DEF Consistent
<1>4. RemedyPair(r) = <<0, 0>>
  BY <1>2 DEF RemedyPair
<1> QED
  BY <1>1, <1>2, <1>3, <1>4 DEF r

\* A success counts one run; of the remedies it forgets all or none.
LEMMA PassedFacts ==
  ASSUME NEW s \in Status, NEW sp \in Specs
  PROVE  LET r == Passed(s, sp) IN
         /\ r \in Status
         /\ r.SuccessCount = s.SuccessCount + 1 /\ r.FailedCount = s.FailedCount
         /\ r.RemedyTotalRuns <= s.RemedyTotalRuns
         /\ r.RemedyFinishedAt \in {Never, s.RemedyFinishedAt}
         /\ RemedyPair(r) \in {RemedyPair(s), <<0, 0>>}
         /\ Consistent(s) => Consistent(r)
<1> DEFINE p == [s EXCEPT !.SuccessCount = @ + 1,
                          !.TotalHealthCheckRuns = s.SuccessCount + 1 + s.FailedCount]
<1>a. p \in Status
  <2> DEFINE n == s.SuccessCount + 1
             m == s.SuccessCount + 1 + s.FailedCount
  <2>1. n \in Nat /\ m \in Nat
    BY StatusFields
  <2>2. p = [s EXCEPT !.SuccessCount = n, !.TotalHealthCheckRuns = m]
    OBVIOUS
  <2> HIDE DEF n, m, p
  <2> QED
    BY <2>1, <2>2 DEF Status
<1>b. /\ p.SuccessCount = s.SuccessCount + 1 /\ p.FailedCount = s.FailedCount
      /\ p.TotalHealthCheckRuns = s.SuccessCount + 1 + s.FailedCount
      /\ p.RemedySuccessCount = s.RemedySuccessCount
      /\ p.RemedyFailedCount = s.RemedyFailedCount
      /\ p.RemedyTotalRuns = s.RemedyTotalRuns
      /\ p.RemedyFinishedAt = s.RemedyFinishedAt
  BY DEF Status
<1>c. Consistent(s) => Consistent(p)
  <2> HIDE DEF p
  <2> QED
    BY <1>b, StatusFields DEF Consistent
<1>d. RemedyPair(p) = RemedyPair(s)
  BY <1>b DEF RemedyPair
<1>2. s.RemedyTotalRuns \in Nat
  BY DEF Status
<1>3. Passed(s, sp) \in {p, RemedyReset(p)}
  BY DEF Passed
<1>4. CASE Passed(s, sp) = p
  BY <1>a, <1>b, <1>c, <1>d, <1>2, <1>4
<1>5. CASE Passed(s, sp) = RemedyReset(p)
  <2> HIDE DEF p
  <2> QED
    BY <1>a, <1>b, <1>c, <1>2, <1>5, ResetFacts
<1> QED
  BY <1>3, <1>4, <1>5

\* A failure counts one run and leaves the remedy's values alone.
LEMMA FailedFacts ==
  ASSUME NEW s \in Status
  PROVE  LET r == Failed(s) IN
         /\ r \in Status
         /\ r.SuccessCount = s.SuccessCount /\ r.FailedCount = s.FailedCount + 1
         /\ r.RemedyTotalRuns = s.RemedyTotalRuns
         /\ r.RemedyFinishedAt = s.RemedyFinishedAt
         /\ RemedyPair(r) = RemedyPair(s)
         /\ Consistent(s) => Consistent(r)
<1> DEFINE r == Failed(s)
<1>1. r \in Status
  <2> DEFINE n == s.FailedCount + 1
             m == s.SuccessCount + s.FailedCount + 1
  <2>1. n \in Nat /\ m \in Nat
    BY StatusFields
  <2>2. r = [s EXCEPT !.FailedCount = n, !.TotalHealthCheckRuns = m]
    BY DEF Failed
  <2> HIDE DEF n, m, r
  <2> QED
    BY <2>1, <2>2 DEF Status
<1>2. /\ r.SuccessCount = s.SuccessCount /\ r.FailedCount = s.FailedCount + 1
      /\ r.TotalHealthCheckRuns = s.SuccessCount + s.FailedCount + 1
      /\ r.RemedySuccessCount = s.RemedySuccessCount
      /\ r.RemedyFailedCount = s.RemedyFailedCount
      /\ r.RemedyTotalRuns = s.RemedyTotalRuns
      /\ r.RemedyFinishedAt = s.RemedyFinishedAt
  BY DEF Failed, Status
<1> HIDE DEF r
<1>3. Consistent(s) => Consistent(r)
  BY <1>2, StatusFields DEF Consistent
<1>4. RemedyPair(r) = RemedyPair(s)
  BY <1>2 DEF RemedyPair
<1> QED
  BY <1>1, <1>2, <1>3, <1>4 DEF r

\* The verdict of a remedy counts one remedy, and gives it a time.
LEMMA CountedFacts ==
  ASSUME NEW s \in Status, NEW ok \in BOOLEAN
  PROVE  LET r == RemedyCounted(s, ok) IN
         /\ r \in Status
         /\ r.SuccessCount = s.SuccessCount /\ r.FailedCount = s.FailedCount
         /\ r.RemedyFinishedAt = 0
         /\ RemedyPair(r) \in {<<s.RemedySuccessCount + 1, s.RemedyFailedCount>>,
                              <<s.RemedySuccessCount, s.RemedyFailedCount + 1>>}
         /\ Consistent(s) =>
              Consistent(r) /\ r.RemedyTotalRuns = s.RemedyTotalRuns + 1
<1> DEFINE r == RemedyCounted(s, ok)
           good == IF ok THEN s.RemedySuccessCount + 1 ELSE s.RemedySuccessCount
           bad == IF ok THEN s.RemedyFailedCount ELSE s.RemedyFailedCount + 1
<1>1. /\ good \in Nat /\ bad \in Nat
      /\ good + bad = s.RemedySuccessCount + s.RemedyFailedCount + 1
  BY StatusFields
<1>2. r = [s EXCEPT !.RemedySuccessCount = good, !.RemedyFailedCount = bad,
                    !.RemedyTotalRuns = s.RemedySuccessCount + s.RemedyFailedCount + 1,
                    !.RemedyFinishedAt = 0]
  BY DEF RemedyCounted
<1> HIDE DEF good, bad, r
<1>3. r \in Status
  <2> DEFINE total == s.RemedySuccessCount + s.RemedyFailedCount + 1
  <2>1. total \in Nat /\ 0 \in {Never} \cup 0..MaxAge
    BY StatusFields, BoundsAssumption
  <2>2. r = [s EXCEPT !.RemedySuccessCount = good, !.RemedyFailedCount = bad,
                      !.RemedyTotalRuns = total, !.RemedyFinishedAt = 0]
    BY <1>2
  <2> HIDE DEF total
  <2> QED
    BY <1>1, <2>1, <2>2 DEF Status
<1>4. /\ r.SuccessCount = s.SuccessCount /\ r.FailedCount = s.FailedCount
      /\ r.TotalHealthCheckRuns = s.TotalHealthCheckRuns
      /\ r.RemedySuccessCount = good /\ r.RemedyFailedCount = bad
      /\ r.RemedyTotalRuns = s.RemedySuccessCount + s.RemedyFailedCount + 1
      /\ r.RemedyFinishedAt = 0
  BY <1>2 DEF Status
<1>5. Consistent(s) => Consistent(r) /\ r.RemedyTotalRuns = s.RemedyTotalRuns + 1
  BY <1>1, <1>4, StatusFields DEF Consistent, Never
<1>6. RemedyPair(r) \in {<<s.RemedySuccessCount + 1, s.RemedyFailedCount>>,
                        <<s.RemedySuccessCount, s.RemedyFailedCount + 1>>}
  BY <1>4 DEF RemedyPair, good, bad
<1> QED
  BY <1>3, <1>4, <1>5, <1>6 DEF r

\* Time changes no counter, and makes no time nil or not nil.
LEMMA AgedFacts ==
  ASSUME NEW s \in Status
  PROVE  LET r == Aged(s) IN
         /\ r \in Status
         /\ r.SuccessCount = s.SuccessCount /\ r.FailedCount = s.FailedCount
         /\ r.RemedyTotalRuns = s.RemedyTotalRuns
         /\ r.RemedyFinishedAt = Older(s.RemedyFinishedAt)
         /\ Counters(r) = Counters(s)
         /\ Consistent(s) => Consistent(r)
<1>1. Older(s.RemedyFinishedAt) \in {Never} \cup 0..MaxAge
  BY BoundsAssumption DEF Status, Older, Never
<1>2. Older(s.RemedyFinishedAt) = Never <=> s.RemedyFinishedAt = Never
  BY BoundsAssumption DEF Status, Older, Never
<1> QED
  BY <1>1, <1>2 DEF Aged, Status, Consistent, Counters

-----------------------------------------------------------------------------
(* The history keeps its types. *)
HistoryOK == /\ started \in Nat /\ unrecorded \in Int
             /\ sinceRemedy \in {Never} \cup 0..MaxAge /\ pending \subseteq Run

LEMMA HistoryStep ==
  ASSUME RecordInv, NEW t \in Run, pc[t] # "idle",
         \/ UNCHANGED <<window, pending>>
         \/ Pass(t) \/ StartRemedy(t) \/ CountRemedy(t) \/ Recorded(t)
  PROVE  HistoryOK'
<1>1. HistoryOK
  BY DEF RecordInv, TypeOK, HistoryOK
<1>2. CASE UNCHANGED <<window, pending>>
  BY <1>1, <1>2 DEF HistoryOK, window
<1>3. CASE Pass(t) \/ StartRemedy(t) \/ CountRemedy(t)
  BY <1>1, <1>3 DEF HistoryOK, Pass, StartRemedy, CountRemedy, OneMore, window
<1>4. CASE Recorded(t)
  <2>1. copy[t].status.RemedyFinishedAt \in {Never} \cup 0..MaxAge
    BY CopyFacts DEF RecordInv, TypeOK, Copies, Status
  <2> QED
    BY <1>1, <1>4, <2>1 DEF HistoryOK, Recorded
<1> QED
  BY <1>2, <1>3, <1>4

-----------------------------------------------------------------------------
(* RecordInv: types, totals that add up, and no verdict counted twice. *)

\* What RecordInv asks of what one run holds, and of a label.
Sound(c, runs, remedies) ==
  c # NoCopy => /\ c \in Copies
                /\ Consistent(c.status) /\ Counted(c.status, runs, remedies)

\* Verdicts only grow, so what was counted stays counted.
LEMMA CountedIsMonotone ==
  ASSUME NEW s \in Status, NEW runs \in Nat, NEW runs2 \in Nat,
         NEW remedies \in Nat, NEW remedies2 \in Nat,
         runs <= runs2, remedies <= remedies2, Counted(s, runs, remedies)
  PROVE  Counted(s, runs2, remedies2)
BY StatusFields DEF Counted

\* The cache shows what it did, or catches up.
LEMMA CacheStep ==
  ASSUME \/ UNCHANGED object \/ Follow
  PROVE  cached' \in {cached, Current'}
BY DEF object, Follow

\* What it shows stays sound.
LEMMA CacheIsSound ==
  ASSUME RecordInv, cached' \in {cached, Current'}, status' \in Status, spec' \in Specs,
         Consistent(status'), Counted(status', verdicts', remedyVerdicts'),
         verdicts' \in Nat, verdicts' >= verdicts,
         remedyVerdicts' \in Nat, remedyVerdicts' >= remedyVerdicts
  PROVE  /\ cached' \in Copies /\ Consistent(cached'.status)
         /\ Counted(cached'.status, verdicts', remedyVerdicts')
<1>1. CASE cached' = cached
  <2>1. /\ cached \in Copies /\ cached.status \in Status
        /\ Consistent(cached.status) /\ Counted(cached.status, verdicts, remedyVerdicts)
        /\ verdicts \in Nat /\ remedyVerdicts \in Nat
    BY BoundsAssumption DEF RecordInv, TypeOK, Copies
  <2> QED
    BY <1>1, <2>1, CountedIsMonotone
<1>2. CASE cached' = Current'
  <2>1. cached' = [status |-> status', spec |-> spec']
    BY <1>2 DEF Current
  <2> QED
    BY <2>1 DEF Copies
<1> QED
  BY <1>1, <1>2

\* One run goes to l with the copy c, and perhaps writes the status.
LEMMA RunStep ==
  ASSUME RecordInv, NEW t \in Run, NEW l \in Label, NEW c,
         Goto(t, l), copy' = [copy EXCEPT ![t] = c], UNCHANGED spec,
         cached' \in {cached, Current'},
         Sound(c, verdicts', remedyVerdicts'), l # "idle" => c # NoCopy,
         status' = status \/ (status' = copy[t].status /\ copy[t] # NoCopy),
         verdicts' \in verdicts..MaxVerdicts,
         remedyVerdicts' \in Nat, remedyVerdicts' >= remedyVerdicts,
         HistoryOK'
  PROVE  RecordInv'
<1>1. /\ verdicts \in Nat /\ verdicts' \in Nat /\ verdicts <= verdicts'
      /\ verdicts' \in 0..MaxVerdicts
      /\ remedyVerdicts \in Nat
  BY BoundsAssumption DEF RecordInv, TypeOK
<1>2. \A u \in Run : copy'[u] = IF u = t THEN c ELSE copy[u]
  BY DEF RecordInv, TypeOK
<1>3. \A u \in Run : pc'[u] = IF u = t THEN l ELSE pc[u]
  BY DEF RecordInv, TypeOK, Goto
<1>4. \A u \in Run : Sound(copy[u], verdicts', remedyVerdicts')
  BY <1>1, CountedIsMonotone, CopyFacts DEF RecordInv, TypeOK, Copies, Sound
<1>5. /\ status' \in Status /\ Consistent(status')
      /\ Counted(status', verdicts', remedyVerdicts')
  BY <1>1, <1>4, CountedIsMonotone, CopyFacts DEF RecordInv, TypeOK, Sound
<1>6. \A u \in Run : Sound(copy'[u], verdicts', remedyVerdicts')
  BY <1>2, <1>4
<1>7. copy' \in [Run -> Copies \cup {NoCopy}]
  BY <1>6 DEF RecordInv, TypeOK, Sound
<1>8. pc' \in [Run -> Label]
  BY DEF RecordInv, TypeOK, Goto
<1>9. /\ cached' \in Copies /\ Consistent(cached'.status)
      /\ Counted(cached'.status, verdicts', remedyVerdicts')
  <2>1. spec' \in Specs /\ verdicts' >= verdicts
    BY <1>1 DEF RecordInv, TypeOK
  <2> QED
    BY <1>1, <1>5, <2>1, CacheIsSound
<1>10. TypeOK'
  BY <1>1, <1>2, <1>3, <1>5, <1>7, <1>8, <1>9 DEF RecordInv, TypeOK, Copies, HistoryOK
<1> QED
  BY <1>5, <1>6, <1>9, <1>10 DEF RecordInv, Sound

\* All runs end and nothing else changes.
LEMMA StopAllStep ==
  ASSUME RecordInv, StopAll, UNCHANGED <<object, remedyVerdicts, window, pending>>,
         verdicts' \in verdicts..MaxVerdicts
  PROVE  RecordInv'
<1>1. /\ verdicts \in Nat /\ verdicts' \in Nat /\ verdicts <= verdicts'
      /\ verdicts' \in 0..MaxVerdicts
  BY BoundsAssumption DEF RecordInv, TypeOK
<1>2. /\ Counted(status, verdicts', remedyVerdicts)
      /\ Counted(cached.status, verdicts', remedyVerdicts)
  BY <1>1, CountedIsMonotone DEF RecordInv, TypeOK
<1>3. TypeOK'
  BY <1>1 DEF RecordInv, TypeOK, StopAll, Label, object, window
<1> QED
  BY <1>2, <1>3 DEF RecordInv, StopAll, object

\* In the places of a run it has a copy, and the copy is sound.
LEMMA InFlight ==
  ASSUME RecordInv, NEW t \in Run, pc[t] # "idle"
  PROVE  /\ copy[t] \in Copies /\ copy[t] # NoCopy
         /\ copy[t].status \in Status /\ copy[t].spec \in Specs
         /\ Consistent(copy[t].status)
         /\ Counted(copy[t].status, verdicts, remedyVerdicts)
BY CopyFacts DEF RecordInv, TypeOK, Copies

\* The same, of a run that keeps its copy or drops it, and writes or not.
LEMMA PlainStep ==
  ASSUME RecordInv, NEW t \in Run, NEW l \in Label, pc[t] # "idle",
         (Goto(t, l) /\ UNCHANGED copy) \/ Stop(t), UNCHANGED spec,
         cached' \in {cached, Current'},
         status' = status \/ status' = copy[t].status,
         verdicts' \in verdicts..MaxVerdicts, UNCHANGED remedyVerdicts,
         HistoryOK'
  PROVE  RecordInv'
<1>1. /\ verdicts \in Nat /\ verdicts' \in Nat /\ verdicts <= verdicts'
      /\ remedyVerdicts \in Nat
  BY BoundsAssumption DEF RecordInv, TypeOK
<1>2. Sound(copy[t], verdicts', remedyVerdicts')
  BY <1>1, InFlight, CountedIsMonotone DEF Sound
<1>a. /\ status' = status \/ (status' = copy[t].status /\ copy[t] # NoCopy)
      /\ remedyVerdicts' \in Nat /\ remedyVerdicts' >= remedyVerdicts
      /\ copy[t] # NoCopy
  BY <1>1, InFlight
<1>3. CASE Goto(t, l) /\ UNCHANGED copy
  <2>1. copy' = [copy EXCEPT ![t] = copy[t]]
    BY <1>3 DEF RecordInv, TypeOK
  <2> QED
    BY <1>2, <1>a, <1>3, <2>1, RunStep
<1>4. CASE Stop(t)
  <2>1. Sound(NoCopy, verdicts', remedyVerdicts') /\ "idle" \in Label
    BY DEF Sound, Label
  <2>2. Goto(t, "idle") /\ copy' = [copy EXCEPT ![t] = NoCopy]
    BY <1>4 DEF Stop
  <2> QED
    BY <1>a, <2>1, <2>2, RunStep
<1> QED
  BY <1>3, <1>4

\* The same, of a run that changes the status of its copy to s.
LEMMA KeepStep ==
  ASSUME RecordInv, NEW t \in Run, NEW l \in Label, pc[t] # "idle",
         NEW s \in Status, Goto(t, l), Keep(t, s), UNCHANGED object,
         Consistent(s), Counted(s, verdicts', remedyVerdicts'),
         verdicts' \in verdicts..MaxVerdicts,
         remedyVerdicts' \in Nat, remedyVerdicts' >= remedyVerdicts,
         HistoryOK'
  PROVE  /\ RecordInv'
         /\ \A u \in Run : copy'[u] =
              IF u = t THEN [copy[t] EXCEPT !.status = s] ELSE copy[u]
         /\ copy'[t].status = s /\ copy'[t].spec = copy[t].spec
<1> DEFINE c == [copy[t] EXCEPT !.status = s]
<1>1. c \in Copies /\ c.status = s /\ c.spec = copy[t].spec
  BY InFlight DEF Copies
<1>2. copy' = [copy EXCEPT ![t] = c]
  BY DEF Keep
<1>3. \A u \in Run : copy'[u] = IF u = t THEN c ELSE copy[u]
  BY <1>2 DEF RecordInv, TypeOK
<1>4. Sound(c, verdicts', remedyVerdicts') /\ c # NoCopy
  BY <1>1, CopyFacts DEF Sound
<1> HIDE DEF c
<1>5. RecordInv'
  BY <1>2, <1>4, CacheStep, RunStep DEF object
<1> QED
  BY <1>1, <1>3, <1>5 DEF c

\* A failed run: the status it counts in is sound, also after a reset.
LEMMA FailStep ==
  ASSUME RecordInv, NEW t \in Run, Fail(t)
  PROVE  RecordInv'
<1> DEFINE s == Failed(copy[t].status)
<1>1. /\ verdicts \in Nat /\ verdicts' = verdicts + 1
      /\ verdicts' \in verdicts..MaxVerdicts /\ pc[t] # "idle"
      /\ remedyVerdicts \in Nat /\ remedyVerdicts' = remedyVerdicts
      /\ HistoryOK'
      /\ UNCHANGED object
  BY BoundsAssumption, HistoryStep DEF Fail, RecordInv, TypeOK
<1>2. s \in Status /\ Consistent(s) /\ Counted(s, verdicts', remedyVerdicts')
  BY <1>1, InFlight, FailedFacts, StatusFields DEF Counted
<1>3. /\ RemedyReset(s) \in Status /\ Consistent(RemedyReset(s))
      /\ Counted(RemedyReset(s), verdicts', remedyVerdicts')
  BY <1>1, <1>2, ResetFacts DEF Counted
<1>4. {"write", "remedy", "idle"} \subseteq Label
  BY DEF Label
<1>5. \/ \E l \in {"write", "remedy"}, r \in {s, RemedyReset(s)} : Keep(t, r) /\ Goto(t, l)
      \/ Stop(t) \/ StopAll
  BY DEF Fail
<1> HIDE DEF s
<1>6. CASE \E l \in {"write", "remedy"}, r \in {s, RemedyReset(s)} : Keep(t, r) /\ Goto(t, l)
  <2>1. PICK l \in {"write", "remedy"}, r \in {s, RemedyReset(s)} : Keep(t, r) /\ Goto(t, l)
    BY <1>6
  <2>2. /\ l \in Label /\ r \in Status /\ Consistent(r)
        /\ Counted(r, verdicts', remedyVerdicts')
        /\ remedyVerdicts' \in Nat /\ remedyVerdicts' >= remedyVerdicts
    BY <1>1, <1>2, <1>3, <1>4
  <2> QED
    BY <1>1, <2>1, <2>2, KeepStep
<1>7. CASE Stop(t)
  <2>1. /\ spec' = spec /\ remedyVerdicts' = remedyVerdicts /\ status' = status
        /\ cached' \in {cached, Current'}
        /\ "idle" \in Label /\ verdicts' \in verdicts..MaxVerdicts
        /\ HistoryOK' /\ pc[t] # "idle"
    BY <1>1, <1>4 DEF object
  <2> QED
    BY <1>7, <2>1, PlainStep
<1>8. CASE StopAll
  BY <1>1, <1>8, StopAllStep DEF Fail
<1> QED
  BY <1>5, <1>6, <1>7, <1>8

\* A run begins: it has what the cache shows of the object.
LEMMA BeginStep ==
  ASSUME RecordInv, NEW t \in Run, Begin(t)
  PROVE  RecordInv'
<1> DEFINE c == cached
<1>1. Sound(c, verdicts', remedyVerdicts') /\ c # NoCopy
  BY CopyFacts DEF RecordInv, TypeOK, Begin, Sound, Copies
<1>2. copy' = [copy EXCEPT ![t] = c] /\ cached' \in {cached, Current'}
  BY CacheStep DEF Begin
<1>3. /\ verdicts' \in verdicts..MaxVerdicts /\ remedyVerdicts' \in Nat
      /\ remedyVerdicts' >= remedyVerdicts /\ HistoryOK'
      /\ UNCHANGED spec /\ status' = status
  BY BoundsAssumption DEF RecordInv, TypeOK, Begin, window, object, HistoryOK
<1> HIDE DEF c
<1>4. \E l \in {"watch", "write"} : Goto(t, l)
  BY DEF Begin
<1>5. {"watch", "write"} \subseteq Label
  BY DEF Label
<1> QED
  BY <1>1, <1>2, <1>3, <1>4, <1>5, RunStep

\* A run's verdict that the workflow succeeded.
LEMMA PassStep ==
  ASSUME RecordInv, NEW t \in Run, Pass(t)
  PROVE  RecordInv'
<1> DEFINE s == Passed(copy[t].status, copy[t].spec)
<1>1. /\ verdicts \in Nat /\ verdicts' = verdicts + 1
      /\ verdicts' \in verdicts..MaxVerdicts /\ pc[t] # "idle"
      /\ remedyVerdicts \in Nat /\ remedyVerdicts' = remedyVerdicts
      /\ HistoryOK'
      /\ UNCHANGED object
  BY BoundsAssumption, HistoryStep DEF Pass, RecordInv, TypeOK
<1>2. s \in Status /\ Consistent(s)
  BY <1>1, InFlight, PassedFacts
<1>3. Counted(s, verdicts', remedyVerdicts')
  BY <1>1, <1>2, InFlight, PassedFacts, StatusFields DEF Counted
<1>4. Keep(t, s) /\ Goto(t, "write") /\ "write" \in Label
  BY DEF Pass, Label
<1>5. remedyVerdicts' \in Nat /\ remedyVerdicts' >= remedyVerdicts
  BY <1>1
<1> HIDE DEF s
<1> QED
  BY <1>1, <1>2, <1>3, <1>4, <1>5, KeepStep

\* The verdict of a remedy.
LEMMA CountRemedyStep ==
  ASSUME RecordInv, NEW t \in Run, CountRemedy(t)
  PROVE  RecordInv'
<1>1. PICK ok \in BOOLEAN : Keep(t, RemedyCounted(copy[t].status, ok))
  BY DEF CountRemedy
<1> DEFINE s == RemedyCounted(copy[t].status, ok)
<1>2. /\ verdicts' = verdicts /\ verdicts' \in verdicts..MaxVerdicts
      /\ pc[t] # "idle"
      /\ remedyVerdicts \in Nat /\ remedyVerdicts' = remedyVerdicts + 1
      /\ HistoryOK'
      /\ UNCHANGED object
  BY BoundsAssumption, HistoryStep DEF CountRemedy, RecordInv, TypeOK
<1>3. s \in Status /\ Consistent(s)
  BY <1>2, InFlight, CountedFacts
<1>4. Counted(s, verdicts', remedyVerdicts')
  BY <1>2, <1>3, InFlight, CountedFacts, StatusFields DEF Counted
<1>5. Keep(t, s) /\ Goto(t, "writeRemedy") /\ "writeRemedy" \in Label
  BY <1>1 DEF CountRemedy, Label
<1>6. remedyVerdicts' \in Nat /\ remedyVerdicts' >= remedyVerdicts
  BY <1>2
<1> HIDE DEF s
<1> QED
  BY <1>2, <1>3, <1>4, <1>5, <1>6, KeepStep

\* The steps of a run that neither begin it nor count.
LEMMA OtherStep ==
  ASSUME RecordInv, NEW t \in Run,
         \/ GiveUp(t) \/ StartRemedy(t) \/ LoseRemedy(t)
         \/ WriteRemedy(t) \/ Cleanup(t) \/ Write(t)
  PROVE  RecordInv'
<1>1. \E l \in Label : (Goto(t, l) /\ UNCHANGED copy) \/ Stop(t)
  BY DEF GiveUp, StartRemedy, LoseRemedy, WriteRemedy, Cleanup, Write, Label
<1>2. pc[t] # "idle"
  BY DEF GiveUp, StartRemedy, LoseRemedy, WriteRemedy, Cleanup, Write
<1>3. /\ UNCHANGED <<spec, verdicts, remedyVerdicts>>
      /\ status' = status \/ status' = copy[t].status
      /\ UNCHANGED object \/ Follow
  BY DEF GiveUp, StartRemedy, LoseRemedy, WriteRemedy, Cleanup, Write, Overwrite,
         Recorded, object, history
<1>4. UNCHANGED <<window, pending>> \/ StartRemedy(t) \/ Recorded(t)
  BY DEF GiveUp, LoseRemedy, WriteRemedy, Cleanup, Write, Overwrite, history
<1>5. verdicts' \in verdicts..MaxVerdicts /\ HistoryOK'
  BY <1>2, <1>3, <1>4, HistoryStep, BoundsAssumption DEF RecordInv, TypeOK
<1>6. PICK l \in Label : (Goto(t, l) /\ UNCHANGED copy) \/ Stop(t)
  BY <1>1
<1>7. spec' = spec /\ remedyVerdicts' = remedyVerdicts /\ cached' \in {cached, Current'}
  BY <1>3, CacheStep
<1> QED
  BY <1>2, <1>3, <1>5, <1>6, <1>7, PlainStep

\* Time passes: the counters stay, and the times get older together.
LEMMA TickStep ==
  ASSUME RecordInv, Tick
  PROVE  /\ RecordInv'
         /\ \A t \in Run : copy'[t] =
              IF copy[t] = NoCopy THEN NoCopy
              ELSE [copy[t] EXCEPT !.status = Aged(copy[t].status)]
         /\ \A t \in Run : copy[t] # NoCopy =>
              copy'[t].status = Aged(copy[t].status) /\ copy'[t].spec = copy[t].spec
<1>1. /\ status' \in Status /\ Consistent(status')
      /\ Counted(status', verdicts', remedyVerdicts')
  BY AgedFacts DEF Tick, RecordInv, TypeOK, Counted
<1>2. \A t \in Run : copy'[t] =
              IF copy[t] = NoCopy THEN NoCopy
              ELSE [copy[t] EXCEPT !.status = Aged(copy[t].status)]
  BY DEF Tick
<1>3. ASSUME NEW t \in Run, copy[t] # NoCopy
      PROVE  /\ copy'[t] \in Copies /\ copy'[t] # NoCopy
             /\ copy'[t].status = Aged(copy[t].status)
             /\ copy'[t].spec = copy[t].spec
             /\ Consistent(copy'[t].status)
             /\ Counted(copy'[t].status, verdicts', remedyVerdicts')
  <2>1. /\ copy[t] \in Copies /\ copy[t].status \in Status
        /\ Consistent(copy[t].status)
        /\ Counted(copy[t].status, verdicts, remedyVerdicts)
    BY <1>3, CopyFacts DEF RecordInv, TypeOK, Copies
  <2>2. /\ Aged(copy[t].status) \in Status /\ Consistent(Aged(copy[t].status))
        /\ Counted(Aged(copy[t].status), verdicts, remedyVerdicts)
    BY <2>1, AgedFacts DEF Counted
  <2>3. copy'[t] = [copy[t] EXCEPT !.status = Aged(copy[t].status)]
    BY <1>2, <1>3
  <2>4. /\ copy'[t] \in Copies /\ copy'[t].status = Aged(copy[t].status)
        /\ copy'[t].spec = copy[t].spec
    BY <2>1, <2>2, <2>3 DEF Copies
  <2> QED
    BY <2>2, <2>4, CopyFacts DEF Tick
<1>4. sinceRemedy' \in {Never} \cup 0..MaxAge
  BY BoundsAssumption DEF RecordInv, TypeOK, Tick, Older, Never
<1>c. /\ cached' \in Copies /\ Consistent(cached'.status)
      /\ Counted(cached'.status, verdicts', remedyVerdicts')
  <2>1. cached \in Copies /\ cached.status \in Status
    BY DEF RecordInv, TypeOK, Copies
  <2>2. cached' \in Copies /\ cached'.status = Aged(cached.status)
    BY <2>1, AgedFacts DEF Tick, Copies
  <2> QED
    BY <2>1, <2>2, AgedFacts DEF Tick, RecordInv, Counted
<1>5. copy' \in [Run -> Copies \cup {NoCopy}]
  <2>1. \A t \in Run : copy'[t] \in Copies \cup {NoCopy}
    BY <1>2, <1>3
  <2>2. copy' = [t \in Run |-> copy'[t]]
    BY DEF Tick
  <2> QED
    BY <2>1, <2>2
<1>6. TypeOK'
  BY <1>1, <1>2, <1>3, <1>4, <1>5, <1>c DEF Tick, RecordInv, TypeOK, Copies
<1>7. \A t \in Run : copy'[t] # NoCopy =>
        /\ Consistent(copy'[t].status)
        /\ Counted(copy'[t].status, verdicts', remedyVerdicts')
  BY <1>2, <1>3
<1> QED
  BY <1>1, <1>2, <1>3, <1>6, <1>7, <1>c DEF RecordInv

\* Initially nothing is counted.
LEMMA RecordInit == Init => RecordInv
<1>1. Fresh \in Status /\ Consistent(Fresh) /\ Counted(Fresh, 0, 0)
  BY DEF Fresh, Status, Consistent, Counted, Never
<1> QED
  BY <1>1, BoundsAssumption DEF Init, RecordInv, TypeOK, Label, Current

\* Every step keeps the record sound.
LEMMA RecordStep == RecordInv /\ [Next]_vars => RecordInv'
<1> SUFFICES ASSUME RecordInv, [Next]_vars
             PROVE  RecordInv'
  OBVIOUS
<1>1. ASSUME NEW t \in Run, Step(t)
      PROVE  RecordInv'
  BY <1>1, BeginStep, PassStep, FailStep, CountRemedyStep, OtherStep DEF Step
<1>2. CASE Edit \/ Deliver
  <2>1. /\ cached' \in {cached, Current'} /\ spec' \in Specs
        /\ UNCHANGED <<status, pc, copy, history>>
    BY <1>2, CacheStep DEF Edit, Deliver, Current, RecordInv, TypeOK
  <2>2. /\ cached' \in Copies /\ Consistent(cached'.status)
        /\ Counted(cached'.status, verdicts', remedyVerdicts')
    <3>1. /\ verdicts' \in Nat /\ verdicts' >= verdicts
          /\ remedyVerdicts' \in Nat /\ remedyVerdicts' >= remedyVerdicts
          /\ status' \in Status /\ Consistent(status')
          /\ Counted(status', verdicts', remedyVerdicts')
      BY <2>1, BoundsAssumption DEF RecordInv, TypeOK, history
    <3> QED
      BY <2>1, <3>1, CacheIsSound
  <2> QED
    BY <2>1, <2>2 DEF RecordInv, TypeOK, history, window, Copies
<1>3. CASE Crash
  <2>1. verdicts' \in verdicts..MaxVerdicts
    BY <1>3, BoundsAssumption DEF Crash, RecordInv, TypeOK, history
  <2> QED
    BY <1>3, <2>1, StopAllStep DEF Crash, history
<1>4. CASE Tick
  BY <1>4, TickStep
<1>5. CASE UNCHANGED vars
  BY <1>5 DEF vars, object, history, window, RecordInv, TypeOK
<1> QED
  BY <1>1, <1>2, <1>3, <1>4, <1>5 DEF Next

\* The record stays sound in every behaviour.
THEOREM RecordIsSound == Spec => []RecordInv
BY RecordInit, RecordStep, PTL DEF Spec

\* Types: every variable of the status record keeps its type.
THEOREM RecordTypes == Spec => []TypeOK
<1>1. RecordInv => TypeOK
  BY DEF RecordInv
<1> QED
  BY <1>1, RecordIsSound, PTL

\* No verdict is counted twice in the status, by any number of runs that
\* overwrite each other's copies, with any faults.
THEOREM NotCountedTwice == Spec => []NeverCountedTwice
<1>1. RecordInv => NeverCountedTwice
  BY StatusFields DEF RecordInv, TypeOK, Consistent, Counted, NeverCountedTwice
<1> QED
  BY <1>1, RecordIsSound, PTL

\* With limits that are not negative, the time of the last remedy is never nil
\* where watchWorkflowReschedule dereferences it.
THEOREM NeverNilDereferenced ==
  ASSUME LimitsAreCounts
  PROVE  Spec => []NoNilDereference
<1>1. ASSUME RecordInv, NEW t \in Run, pc[t] = "watch",
             Limited(copy[t].spec), ~BelowLimit(copy[t].status, copy[t].spec)
      PROVE  copy[t].status.RemedyFinishedAt # Never
  <2>1. /\ copy[t].spec \in Specs /\ Consistent(copy[t].status)
        /\ copy[t].status.RemedyTotalRuns \in Nat
    BY <1>1, InFlight, StatusFields
  <2>2. copy[t].spec.RemedyRunsLimit \in Nat \ {0}
    BY <1>1, <2>1, CopyFacts DEF LimitsAreCounts, Limited
  <2>3. copy[t].status.RemedyTotalRuns > 0
    BY <1>1, <2>1, <2>2 DEF BelowLimit
  <2> QED
    BY <2>1, <2>3 DEF Consistent
<1>2. RecordInv => NoNilDereference
  BY <1>1 DEF NoNilDereference
<1> QED
  BY <1>2, RecordIsSound, PTL

-----------------------------------------------------------------------------
(* LedgerInv: a run is one entry of the ledger, when runs do not overlap. *)

\* The other runs are this one.
LEMMA OnlyRun == ASSUME InTurn, NEW t \in Run PROVE \A u \in Run : u = t
BY DEF InTurn

\* Reads that are never old stay so.
LEMMA CacheStaysCurrent ==
  ASSUME InTurn, cached = Current, [Next]_vars
  PROVE  (cached = Current)'
<1>1. UNCHANGED object \/ Follow \/ Tick \/ Deliver
  BY DEF Next, Step, Begin, GiveUp, Pass, Fail, StartRemedy, LoseRemedy, CountRemedy,
         WriteRemedy, Cleanup, Write, Overwrite, Edit, Crash, vars
<1>2. CASE UNCHANGED object
  BY <1>2 DEF object, Current
<1>3. CASE Follow
  BY <1>3 DEF Follow, InTurn
<1>4. CASE Tick
  <2>1. cached = [status |-> status, spec |-> spec]
    BY DEF Current
  <2>2. [cached EXCEPT !.status = Aged(cached.status)]
          = [status |-> Aged(status), spec |-> spec]
    BY <2>1
  <2> QED
    BY <1>4, <2>2 DEF Tick, Current
<1>5. CASE Deliver
  BY <1>5 DEF Deliver, InTurn
<1> QED
  BY <1>1, <1>2, <1>3, <1>4, <1>5

\* What the run does to its copy c, of the status s it has read.
LEMMA CopyMoves ==
  ASSUME NEW s \in Status, NEW c \in Status
  PROVE  /\ Counters(c) = Counters(s) =>
              /\ \A sp \in Specs : HasPassed(s, Passed(c, sp))
              /\ HasFailed(s, Failed(c), 0) /\ HasFailed(s, RemedyReset(Failed(c)), 0)
         /\ HasFailed(s, c, 0) => \A ok \in BOOLEAN : HasFailed(s, RemedyCounted(c, ok), 1)
<1>1. ASSUME Counters(c) = Counters(s)
      PROVE  /\ c.SuccessCount = s.SuccessCount /\ c.FailedCount = s.FailedCount
             /\ RemedyPair(c) = RemedyPair(s)
  BY <1>1 DEF Counters, RemedyPair
<1>2. ASSUME Counters(c) = Counters(s), NEW sp \in Specs
      PROVE  HasPassed(s, Passed(c, sp))
  BY <1>1, <1>2, PassedFacts DEF HasPassed
<1>3. ASSUME Counters(c) = Counters(s)
      PROVE  HasFailed(s, Failed(c), 0)
  BY <1>1, <1>3, FailedFacts DEF HasFailed
<1>4. ASSUME Counters(c) = Counters(s)
      PROVE  HasFailed(s, RemedyReset(Failed(c)), 0)
  BY <1>1, <1>4, FailedFacts, ResetFacts DEF HasFailed
<1>5. ASSUME HasFailed(s, c, 0), NEW ok \in BOOLEAN
      PROVE  HasFailed(s, RemedyCounted(c, ok), 1)
  <2> DEFINE d == RemedyCounted(c, ok)
  <2>1. PICK r \in {RemedyPair(s), <<0, 0>>} : RemedyPair(c) = r
    BY <1>5 DEF HasFailed
  <2>2. c.RemedySuccessCount = r[1] /\ c.RemedyFailedCount = r[2]
    BY <2>1 DEF RemedyPair
  <2>3. /\ d.SuccessCount = c.SuccessCount /\ d.FailedCount = c.FailedCount
        /\ RemedyPair(d) \in {<<r[1] + 1, r[2]>>, <<r[1], r[2] + 1>>}
    BY <2>2, CountedFacts
  <2> HIDE DEF d
  <2> QED
    BY <1>5, <2>1, <2>3 DEF HasFailed, d
<1> QED
  BY <1>2, <1>3, <1>4, <1>5

\* All that is about the counters of the status and of the copy.
LEMMA SeenInCounters ==
  ASSUME NEW l, NEW s, NEW c, NEW s2, NEW c2, Seen(l, s, c),
         Counters(s2) = Counters(s), Counters(c2) = Counters(c)
  PROVE  Seen(l, s2, c2)
<1>1. /\ s2.SuccessCount = s.SuccessCount /\ s2.FailedCount = s.FailedCount
      /\ c2.SuccessCount = c.SuccessCount /\ c2.FailedCount = c.FailedCount
      /\ RemedyPair(s2) = RemedyPair(s) /\ RemedyPair(c2) = RemedyPair(c)
  BY DEF Counters, RemedyPair
<1>2. HasPassed(s, c) => HasPassed(s2, c2)
  BY <1>1 DEF HasPassed
<1>3. \A n \in {0, 1} : HasFailed(s, c, n) => HasFailed(s2, c2, n)
  BY <1>1 DEF HasFailed
<1> QED
  BY <1>2, <1>3 DEF Seen

\* What LedgerInv asks of a run.
SeenBy(t) == pc[t] # "idle" => Seen(pc[t], status, copy[t].status)

\* The run puts s into its copy and goes to l.
LEMMA KeepSeen ==
  ASSUME RecordInv, NEW t \in Run, pc[t] # "idle", NEW l \in Label, Goto(t, l),
         NEW s \in Status, Keep(t, s), status' = status, Seen(l, status, s)
  PROVE  SeenBy(t)'
<1>1. copy'[t].status = s /\ pc'[t] = l
  BY InFlight DEF Keep, Goto, RecordInv, TypeOK, Copies
<1> QED
  BY <1>1 DEF SeenBy

\* A verdict that the workflow succeeded.
LEMMA PassSeen ==
  ASSUME RecordInv, NEW t \in Run, Pass(t), SeenBy(t)
  PROVE  SeenBy(t)'
<1> DEFINE s == Passed(copy[t].status, copy[t].spec)
<1>1. /\ pc[t] = "watch" /\ status' = status /\ status \in Status
      /\ Keep(t, s) /\ Goto(t, "write") /\ "write" \in Label
  BY DEF Pass, object, RecordInv, TypeOK, Label
<1>2. Counters(copy[t].status) = Counters(status)
  BY <1>1 DEF SeenBy, Seen
<1>3. s \in Status /\ HasPassed(status, s)
  BY <1>1, <1>2, InFlight, PassedFacts, CopyMoves
<1>4. Seen("write", status, s)
  BY <1>3 DEF Seen
<1> HIDE DEF s
<1> QED
  BY <1>1, <1>3, <1>4, KeepSeen

\* A verdict that it failed.
LEMMA FailSeen ==
  ASSUME RecordInv, NEW t \in Run, Fail(t), SeenBy(t)
  PROVE  SeenBy(t)'
<1> DEFINE s == Failed(copy[t].status)
           r == RemedyReset(s)
<1>1. pc[t] = "watch" /\ status' = status /\ status \in Status
  BY DEF Fail, object, RecordInv, TypeOK
<1>2. Counters(copy[t].status) = Counters(status)
  BY <1>1 DEF SeenBy, Seen
<1>3. /\ s \in Status /\ HasFailed(status, s, 0)
      /\ r \in Status /\ HasFailed(status, r, 0)
  BY <1>1, <1>2, InFlight, FailedFacts, ResetFacts, CopyMoves
<1>4. \/ (Keep(t, s) \/ Keep(t, r)) /\ (Goto(t, "write") \/ Goto(t, "remedy"))
      \/ Stop(t) \/ StopAll
  BY DEF Fail
<1> HIDE DEF s, r
<1>5. CASE (Keep(t, s) \/ Keep(t, r)) /\ (Goto(t, "write") \/ Goto(t, "remedy"))
  <2>1. \A l \in {"write", "remedy"} :
          l \in Label /\ Seen(l, status, s) /\ Seen(l, status, r)
    BY <1>3 DEF Label, Seen
  <2> QED
    BY <1>1, <1>3, <1>5, <2>1, KeepSeen
<1>6. CASE Stop(t) \/ StopAll
  <2>1. pc'[t] = "idle"
    BY <1>6 DEF Stop, StopAll, Goto, RecordInv, TypeOK
  <2> QED
    BY <2>1 DEF SeenBy
<1> QED
  BY <1>4, <1>5, <1>6

\* The verdict of the remedy.
LEMMA CountSeen ==
  ASSUME RecordInv, NEW t \in Run, CountRemedy(t), SeenBy(t)
  PROVE  SeenBy(t)'
<1>1. PICK ok \in BOOLEAN : Keep(t, RemedyCounted(copy[t].status, ok))
  BY DEF CountRemedy
<1> DEFINE s == RemedyCounted(copy[t].status, ok)
<1>2. /\ pc[t] = "watchRemedy" /\ status' = status /\ status \in Status
      /\ Goto(t, "writeRemedy") /\ "writeRemedy" \in Label
  BY DEF CountRemedy, object, RecordInv, TypeOK, Label
<1>3. HasFailed(status, copy[t].status, 0)
  BY <1>2 DEF SeenBy, Seen
<1>4. s \in Status /\ HasFailed(status, s, 1)
  BY <1>2, <1>3, InFlight, CountedFacts, CopyMoves
<1>5. Seen("writeRemedy", status, s)
  BY <1>4 DEF Seen
<1> HIDE DEF s
<1> QED
  BY <1>1, <1>2, <1>4, <1>5, KeepSeen DEF s

\* The other steps, which count nothing; the status may become the copy.
LEMMA OtherSeen ==
  ASSUME RecordInv, cached = Current, NEW t \in Run, SeenBy(t),
         \/ Begin(t) \/ GiveUp(t) \/ StartRemedy(t) \/ LoseRemedy(t)
         \/ WriteRemedy(t) \/ Cleanup(t) \/ Write(t)
  PROVE  SeenBy(t)'
<1>1. \A l : Goto(t, l) => pc'[t] = l
  BY DEF Goto, RecordInv, TypeOK
<1>2. CASE Begin(t)
  <2>1. copy'[t].status = status /\ status' = status /\ pc'[t] \in {"watch", "write"}
    BY <1>1, <1>2 DEF Begin, RecordInv, TypeOK, object, Current
  <2> QED
    BY <2>1 DEF SeenBy, Seen
<1>3. CASE GiveUp(t) \/ Write(t)
  <2>1. pc'[t] = "idle"
    BY <1>1, <1>3 DEF GiveUp, Write, Stop
  <2> QED
    BY <2>1 DEF SeenBy
<1>4. CASE WriteRemedy(t)
  <2>1. /\ pc[t] = "writeRemedy"
        /\ \/ status' = copy[t].status /\ pc'[t] = "cleanup" /\ copy' = copy
           \/ pc'[t] = "idle"
           \/ status' = status /\ pc'[t] = "cleanup" /\ copy' = copy
    BY <1>1, <1>4 DEF WriteRemedy, Overwrite, Stop, object
  <2>2. HasFailed(status, copy[t].status, 1)
    BY <2>1 DEF SeenBy, Seen
  <2> QED
    BY <2>1, <2>2 DEF SeenBy, Seen
<1>5. CASE StartRemedy(t) \/ LoseRemedy(t)
  <2>1. /\ pc[t] \in {"remedy", "watchRemedy"} /\ status' = status
        /\ \/ pc'[t] \in {"watchRemedy", "cleanup"} /\ copy' = copy
           \/ pc'[t] = "idle"
    BY <1>1, <1>5 DEF StartRemedy, LoseRemedy, Stop, object
  <2>2. HasFailed(status, copy[t].status, 0)
    BY <2>1 DEF SeenBy, Seen
  <2> QED
    BY <2>1, <2>2 DEF SeenBy, Seen
<1>6. CASE Cleanup(t)
  <2>1. /\ pc[t] = "cleanup" /\ status' = status
        /\ (pc'[t] = "write" /\ copy' = copy) \/ pc'[t] = "idle"
    BY <1>1, <1>6 DEF Cleanup, Stop, object
  <2> QED
    BY <2>1 DEF SeenBy, Seen
<1> QED
  BY <1>2, <1>3, <1>4, <1>5, <1>6

\* Every step keeps LedgerInv.
LEMMA LedgerStep ==
  ASSUME InTurn, LedgerInv, [Next]_vars
  PROVE  LedgerInv'
<1>1. /\ RecordInv /\ RecordInv' /\ \A t \in Run : SeenBy(t)
      /\ cached = Current /\ (cached = Current)'
  BY RecordStep, CacheStaysCurrent DEF LedgerInv, SeenBy
<1>2. ASSUME NEW t \in Run
      PROVE  SeenBy(t)'
  <2>1. SeenBy(t)
    BY <1>1
  <2>2. ASSUME NEW u \in Run, Step(u)
        PROVE  SeenBy(t)'
    <3>1. u = t
      BY OnlyRun
    <3> QED
      BY <1>1, <2>1, <2>2, <3>1, PassSeen, FailSeen, CountSeen, OtherSeen DEF Step
  <2>3. CASE Edit \/ Deliver
    BY <2>1, <2>3 DEF Edit, Deliver, SeenBy
  <2>4. CASE Crash
    BY <2>4 DEF Crash, StopAll, SeenBy
  <2>5. CASE Tick
    <3>1. CASE pc[t] = "idle"
      BY <2>5, <3>1 DEF Tick, SeenBy
    <3>2. CASE pc[t] # "idle"
      <4>1. /\ copy[t].status \in Status /\ copy'[t].status = Aged(copy[t].status)
            /\ status \in Status /\ status' = Aged(status) /\ pc' = pc
            /\ Seen(pc[t], status, copy[t].status)
        BY <1>1, <2>1, <2>5, <3>2, InFlight, TickStep DEF Tick, SeenBy, RecordInv, TypeOK
      <4>2. Counters(status') = Counters(status)
        BY <4>1, AgedFacts
      <4>3. Counters(copy'[t].status) = Counters(copy[t].status)
        BY <4>1, AgedFacts
      <4>4. Seen(pc[t], status', copy'[t].status)
        BY <4>1, <4>2, <4>3, SeenInCounters
      <4> QED
        BY <4>1, <4>4 DEF SeenBy
    <3> QED
      BY <3>1, <3>2
  <2>6. CASE UNCHANGED vars
    BY <2>1, <2>6 DEF vars, object, SeenBy
  <2> QED
    BY <2>2, <2>3, <2>4, <2>5, <2>6 DEF Next
<1> QED
  BY <1>1, <1>2 DEF LedgerInv, SeenBy

\* A status with a run's verdicts is the ledger with one entry more.
LEMMA OneEntry ==
  ASSUME HasPassed(status, status') \/ \E n \in {0, 1} : HasFailed(status, status', n)
  PROVE  Ledger!Next
<1>1. CASE HasPassed(status, status')
  BY <1>1 DEF HasPassed, RemedyPair, Ledger!Next, Ledger!Success, Ledger!Kept, Ledger!remedies
<1>2. ASSUME NEW n \in {0, 1}, HasFailed(status, status', n)
      PROVE  Ledger!Next
  <2>1. PICK r \in {RemedyPair(status), <<0, 0>>} :
          RemedyPair(status') \in IF n = 0 THEN {r} ELSE {<<r[1] + 1, r[2]>>, <<r[1], r[2] + 1>>}
    BY <1>2 DEF HasFailed
  <2>2. r \in Ledger!Kept
    BY <2>1 DEF RemedyPair, Ledger!Kept, Ledger!remedies
  <2>3. Ledger!remedies' = RemedyPair(status')
    BY DEF RemedyPair, Ledger!remedies
  <2>4. Ledger!remedies' \in {r, <<r[1] + 1, r[2]>>, <<r[1], r[2] + 1>>}
    BY <2>1, <2>3
  <2>5. /\ status'.SuccessCount = status.SuccessCount
        /\ status'.FailedCount = status.FailedCount + 1
    BY <1>2 DEF HasFailed
  <2>6. Ledger!Failure
    BY <2>2, <2>4, <2>5 DEF Ledger!Failure
  <2> QED
    BY <2>6 DEF Ledger!Next
<1> QED
  BY <1>1, <1>2

\* A status with the same counters is the same ledger.
LEMMA SameEntries ==
  ASSUME Counters(status') = Counters(status)
  PROVE  UNCHANGED Ledger!vars
BY DEF Counters, Ledger!vars, Ledger!runs, Ledger!remedies

\* Every step is one of the ledger: only a write of the run's copy makes an entry.
LEMMA LedgerSimulation ==
  ASSUME LedgerInv, [Next]_vars
  PROVE  [Ledger!Next]_Ledger!vars
<1>1. ASSUME NEW t \in Run, Step(t)
      PROVE  status' = status \/
               (pc[t] \in {"writeRemedy", "write"} /\ status' = copy[t].status)
  BY <1>1 DEF Step, Begin, GiveUp, Pass, Fail, StartRemedy, LoseRemedy, CountRemedy,
     WriteRemedy, Cleanup, Write, Overwrite, object
<1>2. ASSUME NEW t \in Run, pc[t] \in {"writeRemedy", "write"}, status' = copy[t].status
      PROVE  [Ledger!Next]_Ledger!vars
  <2>1. Seen(pc[t], status, status')
    BY <1>2 DEF LedgerInv
  <2>2. \/ Counters(status') = Counters(status)
        \/ HasPassed(status, status') \/ \E n \in {0, 1} : HasFailed(status, status', n)
    BY <2>1 DEF Seen
  <2> QED
    BY <2>2, OneEntry, SameEntries
<1>3. CASE Tick
  <2>1. Counters(status') = Counters(status)
    BY <1>3, AgedFacts DEF Tick, LedgerInv, RecordInv, TypeOK
  <2> QED
    BY <2>1, SameEntries
<1>4. CASE status' = status
  BY <1>4, SameEntries
<1>5. status' = status \/ Tick \/ \E t \in Run : Step(t)
  BY DEF Next, Edit, Deliver, Crash, vars, object
<1> QED
  BY <1>1, <1>2, <1>3, <1>4, <1>5

\* Refinement: the status of a HealthCheck, which a run reads before it starts its
\* workflow and overwrites after the remedy, is the ledger in which each run is one
\* entry put at once, or none; whatever fails, is edited or dies, and for as long as
\* a HealthCheck may run, provided its runs are in turn.
THEOREM RunsAreEntries ==
  ASSUME InTurn
  PROVE  Spec => KeepsALedger
<1>1. Init => LedgerInv
  BY RecordInit DEF Init, LedgerInv
<1>2. LedgerInv /\ [Next]_vars => LedgerInv'
  BY LedgerStep
<1>3. Init => Ledger!Init
  BY DEF Init, Fresh, Ledger!Init, Ledger!runs, Ledger!remedies
<1>4. LedgerInv /\ [Next]_vars => [Ledger!Next]_Ledger!vars
  BY LedgerSimulation
<1> QED
  BY <1>1, <1>2, <1>3, <1>4, PTL DEF Spec, KeepsALedger, Ledger!Spec

\* Of the ledger itself: its types, and one remedy at most for a failed run.
LedgerSound == Ledger!TypeOK /\ Ledger!NoRemedyWithoutFailure
LEMMA LedgerIsSound == Ledger!Spec => []LedgerSound
<1> USE DEF Ledger!runs, Ledger!remedies
<1>1. Ledger!Init => LedgerSound
  BY DEF Ledger!Init, LedgerSound, Ledger!TypeOK, Ledger!NoRemedyWithoutFailure
<1>2. LedgerSound /\ [Ledger!Next]_Ledger!vars => LedgerSound'
  BY DEF Ledger!Next, Ledger!Success, Ledger!Failure, Ledger!Kept, Ledger!vars,
         LedgerSound, Ledger!TypeOK, Ledger!NoRemedyWithoutFailure
<1> QED
  BY <1>1, <1>2, PTL DEF Ledger!Spec

\* So the counters of the runs never go back, and no step counts two of them.
THEOREM CountersOnlyGrow ==
  ASSUME InTurn
  PROVE  Spec => Ledger!CountersNeverGoBack
<1>1. LedgerSound /\ [Ledger!Next]_Ledger!vars =>
        [/\ status.SuccessCount' >= status.SuccessCount
         /\ status.FailedCount' >= status.FailedCount
         /\ status.SuccessCount' + status.FailedCount'
              <= status.SuccessCount + status.FailedCount + 1]_Ledger!vars
  BY DEF Ledger!Next, Ledger!Success, Ledger!Failure, LedgerSound, Ledger!TypeOK,
         Ledger!runs
<1> QED
  BY <1>1, LedgerIsSound, RunsAreEntries, PTL
     DEF KeepsALedger, Ledger!Spec, Ledger!CountersNeverGoBack

\* And the remedies that are counted are no more than the runs that failed: no copy
\* that is written brings a remedy without the failure it was for.
THEOREM RemediesAreForFailures ==
  ASSUME InTurn
  PROVE  Spec => []Ledger!NoRemedyWithoutFailure
<1>1. LedgerSound => Ledger!NoRemedyWithoutFailure
  BY DEF LedgerSound
<1> QED
  BY <1>1, LedgerIsSound, RunsAreEntries, PTL DEF KeepsALedger

-----------------------------------------------------------------------------
(* LimitInv: runs in turn, with any faults. *)

\* A verdict that the workflow succeeded: none is started since.
LEMMA LimitPass ==
  ASSUME RecordInv, NEW t \in Run, Pass(t), LimitOf(t), Knows(status)
  PROVE  LimitOf(t)' /\ Knows(status)'
<1> DEFINE s == Passed(copy[t].status, copy[t].spec)
<1>1. /\ pc[t] = "watch" /\ pc'[t] = "write" /\ started' = 0 /\ unrecorded' = 0
      /\ status' = status /\ sinceRemedy' = sinceRemedy /\ pending' = pending
      /\ Keep(t, s)
  BY DEF Pass, Goto, RecordInv, TypeOK, object
<1>2. /\ s \in Status /\ s.RemedyFinishedAt \in {Never, copy[t].status.RemedyFinishedAt}
      /\ status \in Status
  BY <1>1, InFlight, PassedFacts DEF RecordInv, TypeOK
<1>3. copy'[t].status = s
  BY <1>1, InFlight DEF Keep, RecordInv, TypeOK, Copies
<1> HIDE DEF s
<1> QED
  BY <1>1, <1>2, <1>3, StatusFields DEF LimitOf, Knows, Covers, Timed

\* A failed run asks for a remedy only if it may start one.
LEMMA LimitFail ==
  ASSUME RecordInv, NEW t \in Run, Fail(t), LimitOf(t), Knows(status)
  PROVE  LimitOf(t)' /\ Knows(status)'
<1> DEFINE sp == copy[t].spec
           s == Failed(copy[t].status)
<1>1. /\ pc[t] = "watch" /\ started' = started /\ unrecorded' = unrecorded
      /\ status' = status /\ sinceRemedy' = sinceRemedy /\ pending' = pending
  BY DEF Fail, object, window
<1>2. Knows(status)'
  BY <1>1 DEF Knows, Covers, Timed
<1>3. /\ s \in Status /\ sp \in Specs /\ Covers(s, 0) /\ Timed(s) /\ t \notin pending
      /\ RemedyReset(s) \in Status /\ Timed(RemedyReset(s))
  BY <1>1, InFlight, FailedFacts, ResetFacts DEF LimitOf, Covers, Timed
<1>4. ASSUME NEW r \in Status, Keep(t, r)
      PROVE  copy'[t].status = r /\ copy'[t].spec = sp
  BY <1>1, <1>4, InFlight DEF Keep, RecordInv, TypeOK, Copies
<1>5. ASSUME NEW l, Goto(t, l)
      PROVE  pc'[t] = l
  BY <1>5 DEF Goto, RecordInv, TypeOK
<1>6. \/ Keep(t, s) /\ Goto(t, "write")
      \/ Keep(t, s) /\ Goto(t, "remedy") /\ (Limited(sp) => BelowLimit(s, sp))
      \/ Goto(t, "idle")
      \/ StopAll
      \/ /\ s.RemedyFinishedAt # Never /\ sp.RemedyResetInterval < s.RemedyFinishedAt
         /\ Keep(t, RemedyReset(s)) /\ Goto(t, "remedy")
  BY DEF Fail, Stop
<1> HIDE DEF s, sp
<1>7. CASE Keep(t, s) /\ Goto(t, "write")
  <2>1. copy'[t].status = s /\ pc'[t] = "write"
    BY <1>3, <1>4, <1>5, <1>7
  <2> QED
    BY <1>1, <1>2, <1>3, <2>1 DEF LimitOf, Covers, Timed
<1>8. CASE Keep(t, s) /\ Goto(t, "remedy") /\ (Limited(sp) => BelowLimit(s, sp))
  <2>1. copy'[t].status = s /\ copy'[t].spec = sp /\ pc'[t] = "remedy"
    BY <1>3, <1>4, <1>5, <1>8
  <2> QED
    BY <1>1, <1>2, <1>3, <1>8, <2>1 DEF LimitOf, MayStart, Covers, Timed
<1>9. CASE Goto(t, "idle") \/ StopAll
  <2>1. pc'[t] = "idle"
    BY <1>5, <1>9 DEF StopAll
  <2> QED
    BY <1>2, <2>1 DEF LimitOf
<1>10. CASE /\ s.RemedyFinishedAt # Never /\ sp.RemedyResetInterval < s.RemedyFinishedAt
            /\ Keep(t, RemedyReset(s)) /\ Goto(t, "remedy")
  <2>1. /\ copy'[t].status = RemedyReset(s) /\ copy'[t].spec = sp
        /\ pc'[t] = "remedy"
    BY <1>3, <1>4, <1>5, <1>10
  <2>2. sinceRemedy > sp.RemedyResetInterval
    BY <1>3, <1>10, StatusFields, CopyFacts, BoundsAssumption
       DEF Timed, RecordInv, TypeOK, Never
  <2> QED
    BY <1>1, <1>2, <1>3, <2>1, <2>2 DEF LimitOf, MayStart, Timed
<1> QED
  BY <1>6, <1>7, <1>8, <1>9, <1>10

\* A remedy that may be started is within the limit.
LEMMA LimitStart ==
  ASSUME LimitsAreCounts, RecordInv, NEW t \in Run, StartRemedy(t), LimitOf(t),
         Knows(status)
  PROVE  /\ LimitOf(t)' /\ Knows(status)'
         /\ pc'[t] = "watchRemedy" /\ Limited(copy[t].spec) =>
              started' <= copy[t].spec.RemedyRunsLimit + (unrecorded' - 1)
<1> DEFINE sp == copy[t].spec
           s == copy[t].status
<1>1. /\ pc[t] = "remedy" /\ status' = status /\ sinceRemedy' = sinceRemedy
      /\ MayStart(s, sp) /\ pending' = pending /\ t \notin pending /\ Timed(s)
  BY DEF StartRemedy, LimitOf, object
<1>2. /\ s \in Status /\ sp \in Specs /\ s.RemedyTotalRuns \in Nat
      /\ sp.RemedyResetInterval \in Int /\ sp.RemedyRunsLimit \in Int
      /\ sp.RemedyRunsLimit >= 0 /\ started \in Nat /\ sinceRemedy \in Int
      /\ unrecorded \in Int /\ status.RemedyTotalRuns \in Nat
  BY <1>1, InFlight, StatusFields, CopyFacts, BoundsAssumption
     DEF LimitsAreCounts, RecordInv, TypeOK, Never
<1>3. CASE /\ Goto(t, "watchRemedy") /\ copy' = copy
           /\ started' = OneMore(started, sp) /\ unrecorded' = OneMore(unrecorded, sp)
  <2>1. pc'[t] = "watchRemedy"
    BY <1>3 DEF Goto, RecordInv, TypeOK
  <2>2. Limited(sp) => started' <= sp.RemedyRunsLimit + (unrecorded' - 1)
    BY <1>1, <1>2, <1>3 DEF MayStart, Covers, OneMore, Limited, BelowLimit
  <2>3. s.RemedyTotalRuns + unrecorded' >= started' /\ started' \in Int
    BY <1>1, <1>2, <1>3 DEF MayStart, Covers, OneMore
  <2>4. Knows(status)'
    BY <1>1, <1>2, <1>3 DEF Knows, Covers, Timed, OneMore
  <2>5. Covers(copy[t].status, 0)' /\ Timed(copy[t].status)'
    BY <1>1, <1>2, <1>3, <2>3 DEF Covers, Timed
  <2>6. LimitOf(t)'
    BY <1>1, <2>1, <2>5 DEF LimitOf
  <2> QED
    BY <2>2, <2>4, <2>6
<1>4. CASE Goto(t, "idle") /\ started' = started /\ unrecorded' = unrecorded
  <2>1. pc'[t] = "idle"
    BY <1>4 DEF Goto, RecordInv, TypeOK
  <2> QED
    BY <1>1, <1>4, <2>1 DEF LimitOf, Knows, Covers, Timed
<1>5. \/ /\ Goto(t, "watchRemedy") /\ copy' = copy
         /\ started' = OneMore(started, sp) /\ unrecorded' = OneMore(unrecorded, sp)
      \/ Goto(t, "idle") /\ started' = started /\ unrecorded' = unrecorded
  BY DEF StartRemedy, Stop
<1> QED
  BY <1>3, <1>4, <1>5

\* A verdict that is pending: the copy has one remedy more.
LEMMA LimitCount ==
  ASSUME RecordInv, NEW t \in Run, CountRemedy(t), LimitOf(t), Knows(status)
  PROVE  LimitOf(t)' /\ Knows(status)'
<1>1. PICK ok \in BOOLEAN : Keep(t, RemedyCounted(copy[t].status, ok))
  BY DEF CountRemedy
<1> DEFINE s == RemedyCounted(copy[t].status, ok)
<1>2. /\ pc[t] = "watchRemedy" /\ pc'[t] = "writeRemedy" /\ status' = status
      /\ started' = started /\ unrecorded' = unrecorded /\ sinceRemedy' = sinceRemedy
      /\ t \in pending' /\ Covers(copy[t].status, 0)
  BY DEF CountRemedy, Goto, RecordInv, TypeOK, LimitOf, object, window
<1>3. /\ s \in Status /\ s.RemedyTotalRuns = copy[t].status.RemedyTotalRuns + 1
      /\ copy[t].status.RemedyTotalRuns \in Nat
  BY <1>2, InFlight, CountedFacts, StatusFields
<1>4. copy'[t].status = s
  BY <1>1, <1>2, InFlight DEF Keep, RecordInv, TypeOK, Copies
<1> HIDE DEF s
<1> QED
  BY <1>2, <1>3, <1>4 DEF LimitOf, Knows, Covers, Timed, RecordInv, TypeOK

\* The status is overwritten: with a copy whose verdict was pending, one less is
\* unrecorded, and the time of it is the last.
LEMMA LimitOverwrite ==
  ASSUME RecordInv, NEW t \in Run, Overwrite(t), LimitOf(t),
         pc[t] \in {"writeRemedy", "cleanup", "write"}
  PROVE  /\ Knows(status)' /\ t \notin pending' /\ status' = copy[t].status
         /\ copy[t].status.RemedyTotalRuns + unrecorded' >= started'
<1>1. /\ copy[t].status \in Status /\ started \in Nat /\ unrecorded \in Int
      /\ copy[t].status.RemedyTotalRuns \in Nat
  BY InFlight, StatusFields DEF RecordInv, TypeOK
<1>2. /\ status' = copy[t].status /\ started' = started /\ t \notin pending'
      /\ unrecorded' = IF t \in pending THEN unrecorded - 1 ELSE unrecorded
      /\ sinceRemedy' = IF t \in pending THEN copy[t].status.RemedyFinishedAt
                        ELSE sinceRemedy
  BY DEF Overwrite, Recorded
<1>3. CASE t \in pending
  BY <1>1, <1>2, <1>3 DEF LimitOf, Covers, Knows, Timed
<1>4. CASE t \notin pending
  BY <1>1, <1>2, <1>4 DEF LimitOf, Covers, Knows, Timed
<1> QED
  BY <1>3, <1>4

\* The other steps of a run.
LEMMA LimitOther ==
  ASSUME RecordInv, cached = Current, NEW t \in Run, LimitOf(t), Knows(status),
         \/ Begin(t) \/ GiveUp(t) \/ LoseRemedy(t)
         \/ WriteRemedy(t) \/ Cleanup(t) \/ Write(t)
  PROVE  LimitOf(t)' /\ Knows(status)'
<1>1. \A l : Goto(t, l) => pc'[t] = l
  BY DEF Goto, RecordInv, TypeOK
<1>2. CASE Begin(t)
  <2>1. /\ pc'[t] \in {"watch", "write"} /\ t \notin pending'
        /\ status' = status /\ copy'[t].status = status
        /\ started' = started /\ unrecorded' = unrecorded /\ sinceRemedy' = sinceRemedy
    BY <1>1, <1>2 DEF Begin, RecordInv, TypeOK, object, window, Current
  <2> QED
    BY <2>1 DEF LimitOf, Knows, Covers, Timed
<1>3. CASE UNCHANGED <<object, history>> /\ pc'[t] = "idle"
  BY <1>3 DEF object, history, window, LimitOf, Knows, Covers, Timed
<1>4. CASE /\ UNCHANGED <<object, history>> /\ copy' = copy
           /\ pc[t] \in {"writeRemedy", "cleanup"} /\ pc'[t] \in {"cleanup", "write"}
  BY <1>4 DEF object, history, window, LimitOf, Knows, Covers, Timed
<1>5. CASE LoseRemedy(t) /\ Goto(t, "cleanup")
  <2>1. /\ pc[t] = "watchRemedy" /\ pc'[t] = "cleanup" /\ copy' = copy
        /\ UNCHANGED <<object, history>>
    BY <1>1, <1>5 DEF LoseRemedy, Stop
  <2>2. Covers(copy[t].status, 0) /\ t \notin pending /\ Timed(copy[t].status)
    BY <2>1 DEF LimitOf
  <2> QED
    BY <2>1, <2>2 DEF object, history, window, LimitOf, Knows, Covers, Timed
<1>6. CASE WriteRemedy(t) /\ Overwrite(t) /\ Goto(t, "cleanup") /\ copy' = copy
  <2>1. pc[t] = "writeRemedy" /\ pc'[t] = "cleanup"
    BY <1>1, <1>6 DEF WriteRemedy
  <2>2. /\ Knows(status)' /\ t \notin pending' /\ status' = copy[t].status
        /\ copy[t].status.RemedyTotalRuns + unrecorded' >= started'
    BY <1>6, <2>1, LimitOverwrite
  <2> QED
    BY <1>6, <2>1, <2>2 DEF LimitOf, Knows, Covers, Timed
<1>7. CASE Write(t) /\ Overwrite(t)
  <2>1. pc[t] = "write" /\ pc'[t] = "idle"
    BY <1>1, <1>7 DEF Write, Stop
  <2> QED
    BY <1>7, <2>1, LimitOverwrite DEF LimitOf
<1>8. ASSUME GiveUp(t) \/ LoseRemedy(t) \/ WriteRemedy(t) \/ Cleanup(t) \/ Write(t)
      PROVE  \/ UNCHANGED <<object, history>> /\ pc'[t] = "idle"
             \/ /\ UNCHANGED <<object, history>> /\ copy' = copy
                /\ pc[t] \in {"writeRemedy", "cleanup"} /\ pc'[t] \in {"cleanup", "write"}
             \/ LoseRemedy(t) /\ Goto(t, "cleanup")
             \/ WriteRemedy(t) /\ Overwrite(t) /\ Goto(t, "cleanup") /\ copy' = copy
             \/ Write(t) /\ Overwrite(t)
  BY <1>1, <1>8 DEF GiveUp, LoseRemedy, WriteRemedy, Cleanup, Write, Stop
<1> QED
  BY <1>2, <1>3, <1>4, <1>5, <1>6, <1>7, <1>8

\* Time passes: both times of the last remedy get older together, and what is
\* longer ago than the reset interval stays so.
LEMMA LimitTick ==
  ASSUME RecordInv, Tick, Knows(status)
  PROVE  /\ Knows(status)'
         /\ \A t \in Run : LimitOf(t) => LimitOf(t)'
<1>1. /\ pc' = pc /\ started' = started /\ unrecorded' = unrecorded /\ pending' = pending
      /\ status' = Aged(status) /\ status \in Status
      /\ sinceRemedy' = Older(sinceRemedy) /\ sinceRemedy \in {Never} \cup 0..MaxAge
  BY DEF Tick, RecordInv, TypeOK
<1>2. ASSUME NEW s \in Status
      PROVE  /\ Aged(s).RemedyTotalRuns = s.RemedyTotalRuns
             /\ Timed(s) => (Aged(s).RemedyFinishedAt # Never =>
                               Aged(s).RemedyFinishedAt = sinceRemedy')
  <2>1. s.RemedyFinishedAt \in {Never} \cup 0..MaxAge
    BY StatusFields
  <2> QED
    BY <1>1, <2>1, AgedFacts DEF Timed, Older
<1>3. Knows(status)'
  BY <1>1, <1>2 DEF Knows, Covers, Timed
<1>4. ASSUME NEW t \in Run, LimitOf(t), pc[t] # "idle"
      PROVE  LimitOf(t)'
  <2>1. /\ copy[t].status \in Status /\ copy[t].spec \in Specs
        /\ copy'[t].status = Aged(copy[t].status) /\ copy'[t].spec = copy[t].spec
    BY <1>4, InFlight, TickStep
  <2>2. copy'[t].status.RemedyTotalRuns = copy[t].status.RemedyTotalRuns
    BY <1>2, <2>1
  <2>3. \A n : Covers(copy[t].status, n) => Covers(copy[t].status, n)'
    BY <1>1, <2>2 DEF Covers
  <2>4. Timed(copy[t].status) => Timed(copy[t].status)'
    BY <1>2, <2>1 DEF Timed
  <2>5. sinceRemedy > copy[t].spec.RemedyResetInterval
          => sinceRemedy' > copy[t].spec.RemedyResetInterval
    BY <1>1, <2>1, CopyFacts, BoundsAssumption DEF Older, Never
  <2>6. BelowLimit(copy[t].status, copy[t].spec) = BelowLimit(copy'[t].status, copy'[t].spec)
    BY <2>1, <2>2 DEF BelowLimit
  <2>7. pc[t] = "remedy" => MayStart(copy[t].status, copy[t].spec)'
    BY <1>4, <2>1, <2>3, <2>5, <2>6 DEF LimitOf, MayStart
  <2> QED
    BY <1>1, <1>4, <2>3, <2>4, <2>7 DEF LimitOf
<1>5. ASSUME NEW t \in Run, pc[t] = "idle"
      PROVE  LimitOf(t)'
  BY <1>1, <1>5 DEF LimitOf
<1> QED
  BY <1>3, <1>4, <1>5

\* Every step keeps LimitInv.
LEMMA LimitStep ==
  ASSUME InTurn, LimitsAreCounts, LimitInv, [Next]_vars
  PROVE  LimitInv'
<1>1. /\ RecordInv /\ RecordInv' /\ (\A t \in Run : LimitOf(t)) /\ Knows(status)
      /\ cached = Current /\ (cached = Current)'
  BY RecordStep, CacheStaysCurrent DEF LimitInv
<1> SUFFICES Knows(status)' /\ \A t \in Run : LimitOf(t)'
  BY <1>1 DEF LimitInv
<1>2. ASSUME NEW u \in Run, Step(u)
      PROVE  Knows(status)' /\ \A t \in Run : LimitOf(t)'
  <2>1. LimitOf(u)' /\ Knows(status)'
    BY <1>1, <1>2, LimitPass, LimitFail, LimitStart, LimitCount, LimitOther DEF Step
  <2> QED
    BY <2>1, OnlyRun
<1>3. CASE Edit \/ Deliver
  BY <1>1, <1>3 DEF Edit, Deliver, history, window, LimitOf, Knows, Covers, Timed, MayStart
<1>4. CASE Crash
  BY <1>1, <1>4 DEF Crash, StopAll, object, history, window, LimitOf, Knows, Covers, Timed
<1>5. CASE Tick
  BY <1>1, <1>5, LimitTick
<1>6. CASE UNCHANGED vars
  BY <1>1, <1>6 DEF vars, object, history, window, LimitOf, Knows, Covers, Timed, MayStart
<1> QED
  BY <1>2, <1>3, <1>4, <1>5, <1>6 DEF Next

\* Where the runs of a HealthCheck are in turn, whatever fails, is edited or dies, no
\* more remedies are started than a limit (with a reset interval) allows since the
\* HealthCheck passed, or none was recorded for the reset interval, and one for each
\* whose verdict did not get into the status.
THEOREM LimitHolds ==
  ASSUME InTurn, LimitsAreCounts
  PROVE  Spec => WithinLimit
<1>1. Init => LimitInv
  <2>1. Init => RecordInv
    BY RecordInit
  <2>2. Init => Knows(status)
    BY DEF Init, Fresh, Knows, Covers, Timed
  <2> QED
    BY <2>1, <2>2 DEF Init, LimitInv, LimitOf
<1>2. LimitInv /\ [Next]_vars => LimitInv'
  BY LimitStep
<1>3. ASSUME LimitInv, [Next]_vars, NEW t \in Run, pc[t] = "remedy",
             pc'[t] = "watchRemedy", Limited(copy[t].spec)
      PROVE  started' <= copy[t].spec.RemedyRunsLimit + (unrecorded' - 1)
  <2>1. StartRemedy(t)
    <3>1. ASSUME NEW u \in Run, Step(u)
          PROVE  StartRemedy(t)
      <4>1. u = t
        BY OnlyRun
      <4> QED
        BY <1>3, <3>1, <4>1 DEF Step, Begin, GiveUp, Pass, Fail, LoseRemedy,
           CountRemedy, WriteRemedy, Cleanup, Write
    <3>2. ~Edit /\ ~Deliver /\ ~Crash /\ ~Tick /\ ~UNCHANGED vars
      BY <1>3 DEF Edit, Deliver, Crash, StopAll, Tick, vars
    <3> QED
      BY <1>3, <3>1, <3>2 DEF Next
  <2>2. RecordInv /\ LimitOf(t) /\ Knows(status)
    BY <1>3 DEF LimitInv
  <2> QED
    BY <1>3, <2>1, <2>2, LimitStart
<1>4. LimitInv /\ [Next]_vars =>
        [\A t \in Run :
           pc[t] = "remedy" /\ pc'[t] = "watchRemedy" /\ Limited(copy[t].spec) =>
             started' <= copy[t].spec.RemedyRunsLimit + (unrecorded' - 1)]_vars
  BY <1>3
<1> QED
  BY <1>1, <1>2, <1>4, PTL DEF Spec, WithinLimit

=============================================================================
