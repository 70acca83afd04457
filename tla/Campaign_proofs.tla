--------------------------- MODULE Campaign_proofs ---------------------------
(***************************************************************************)
(* Theorems about module Campaign: the judgements of a campaign are sound  *)
(* for every library, every driver size, every bias and every run of the   *)
(* fuzzer.                                                                 *)
(***************************************************************************)
EXTENDS Campaign, FiniteSetTheorems, WellFoundedInduction, TLAPS

\* The prefixes of a driver that grew by one call: the old ones and itself.
LEMMA PrefixesOfAppend ==
  ASSUME NEW S, NEW s \in Seq(S), NEW a \in S
  PROVE  /\ Append(s, a) \in Seq(S)
         /\ Len(Append(s, a)) = Len(s) + 1
         /\ Append(s, a) # <<>>
         /\ \A n \in 1..Len(s) : PrefixOf(Append(s, a), n) = PrefixOf(s, n)
         /\ PrefixOf(Append(s, a), Len(s) + 1) = Append(s, a)
  BY DEF PrefixOf

\* A draw returns one of its candidates, whatever the bias.
LEMMA DrawnFromCandidates ==
  ASSUME bias \in Biases, NEW d, NEW cand
  PROVE  get_random_candidate(d, cand) \subseteq cand
  BY BiasesAssumption DEF get_random_candidate, SBiasDraw

\* The sources in the draw are source APIs that are not known to fail.
LEMMA DrawnSource ==
  ASSUME bias \in Biases, NEW a \in get_random_candidate(<<>>, source_candidates)
  PROVE  a \in SourceApi /\ a \in Apis /\ calc_api_state(<<a>>) # "NEGATIVE"
<1>1. a \in source_candidates
  BY DrawnFromCandidates
<1>2. QED
  BY <1>1, SourceApiAssumption DEF source_candidates

\* The candidates of the loop follow api_n in the dependency graph and do not
\* lead to a sequence known to fail.
LEMMA DrawnCandidate ==
  ASSUME TypeOK, drv # <<>>,
         NEW C \in CandidateSets, NEW a \in get_random_candidate(drv, C)
  PROVE  a \in Apis /\ calc_api_state(Append(drv, a)) # "NEGATIVE"
<1>1. a \in C
  BY DrawnFromCandidates DEF TypeOK
<1>2. a \in Allowed
  BY <1>1 DEF CandidateSets
<1>3. api_n \in Apis
  BY DEF TypeOK, api_n
<1>4. QED
  BY <1>2, <1>3, DepGraphAssumption DEF Allowed

\* A prefix of a driver is a sequence; the longest one is the driver.
LEMMA PrefixFacts ==
  ASSUME NEW S, NEW s \in Seq(S)
  PROVE  PrefixOf(s, Len(s)) = s
  BY DEF PrefixOf

-----------------------------------------------------------------------------
(* The inductive invariant. *)

LEMMA InitIInv == Init => IInv
<1> SUFFICES ASSUME Init PROVE IInv
  OBVIOUS
<1>1. DOMAIN history = {}
  BY DEF Init
<1>2. TypeOK
  <2>1. drv \in Seq(Apis) /\ Len(drv) = 0 /\ drivers_list \in Seq(DriverRecord) /\ Len(drivers_list) = 0
    BY DEF Init
  <2>2. left \in 0..number_of_unknown /\ trial \in 0..MaxTrial /\ 0 <= MaxDrivers /\ 0 <= DriverSize
    BY NumbersOfUnknownAssumption, MaxTrialAssumption, MaxDriversAssumption, DriverSizeAssumption DEF Init
  <2>3. QED
    BY <1>1, <2>1, <2>2 DEF Init, TypeOK
<1>3. QED
  BY <1>2 DEF Init, IInv, GrowInv, BlameIsLocal, RunInv, OwnFeedback, FilesInv, DeepInv

\* The steps that change nothing but the control and the trials.
LEMMA QuietStep ==
  ASSUME IInv, UNCHANGED <<number_of_unknown, bias>>, UNCHANGED <<history, drv, left, driver_list_history, drivers_list, library_api_used, feedback, deepVars>>,
         pc' \in {"loop", "create", "built", "cluster", "done", "raised", "exited"}, trial' \in 0..MaxTrial,
         pc' = "create" => Len(drivers_list) < MaxDrivers,
         drivers_for_deep = {}, pc' = "cluster" => DeepTimeout # NoDeep,
         pc' = "built" => pc = "grow"
  PROVE  IInv'
<1>1. TypeOK'
  BY DEF IInv, TypeOK, deepVars
<1>2. GrowInv'
  BY DEF IInv, GrowInv
<1>3. BlameIsLocal'
  <2> SUFFICES ASSUME number_of_unknown = 0, pc' = "built"
               PROVE  /\ \A n \in 1..(Len(drv) - 1) : calc_api_state(PrefixOf(drv, n)) = "POSITIVE"
                      /\ calc_api_state(drv) # "NEGATIVE"
    BY DEF BlameIsLocal, calc_api_state
  <2>1. \A n \in 1..Len(drv) : calc_api_state(PrefixOf(drv, n)) = "POSITIVE"
    BY DEF IInv, GrowInv
  <2>2. drv # <<>> /\ drv \in Seq(Apis)
    BY DEF IInv, GrowInv, TypeOK
  <2>3. PrefixOf(drv, Len(drv)) = drv /\ Len(drv) \in Nat \ {0}
    BY <2>2, PrefixFacts
  <2>4. QED
    BY <2>1, <2>3
<1>4. RunInv'
  BY DEF IInv, RunInv
<1>5. OwnFeedback'
  BY DEF IInv, OwnFeedback
<1>6. FilesInv' /\ DeepInv'
  BY DEF IInv, FilesInv, DeepInv, deepVars
<1>7. QED
  BY <1>1, <1>2, <1>3, <1>4, <1>5, <1>6 DEF IInv

\* A driver begins.
LEMMA BeginDriverStep ==
  ASSUME IInv, UNCHANGED <<number_of_unknown, bias>>, BeginDriver, UNCHANGED campaignVars
  PROVE  IInv'
<1>1. PICK a \in get_random_candidate(<<>>, source_candidates) :
        drv' = <<a>> /\ pc' = IF calc_api_state(<<a>>) = "UNKNOWN" THEN "built" ELSE "grow"
  BY DEF BeginDriver
<1>2. a \in Apis /\ calc_api_state(<<a>>) # "NEGATIVE"
  BY DrawnSource DEF IInv, TypeOK
<1>3. UNCHANGED <<history, trial, driver_list_history, drivers_list, library_api_used, feedback, deepVars>>
      /\ left' = number_of_unknown /\ pc = "create"
  BY DEF BeginDriver, campaignVars
<1>4. drv' \in Seq(Apis) /\ Len(drv') = 1 /\ drv' # <<>> /\ PrefixOf(drv', 1) = drv'
  <2>1. <<a>> \in Seq(Apis) /\ Len(<<a>>) = 1 /\ <<a>> # <<>>
    BY <1>2
  <2>2. PrefixOf(<<a>>, 1) = <<a>>
    BY <2>1, PrefixFacts
  <2>3. QED
    BY <1>1, <2>1, <2>2
<1>5. TypeOK'
  BY <1>1, <1>3, <1>4, DriverSizeAssumption, NumbersOfUnknownAssumption DEF IInv, TypeOK, deepVars
<1>6. calc_api_state(<<a>>) \in ApiSeqState
  BY DEF IInv, TypeOK, calc_api_state, ApiSeqState
<1>7. \A s : calc_api_state(s)' = calc_api_state(s)
  BY <1>3 DEF calc_api_state
<1>8. GrowInv'
  BY <1>1, <1>2, <1>3, <1>4, <1>6, <1>7 DEF GrowInv, ApiSeqState
<1>9. BlameIsLocal'
  BY <1>1, <1>2, <1>3, <1>4, <1>7 DEF BlameIsLocal
<1>10. RunInv'
  BY <1>1, <1>3 DEF IInv, RunInv
<1>11. OwnFeedback'
  BY <1>1, <1>3 DEF IInv, OwnFeedback
<1>12. FilesInv' /\ DeepInv'
  BY <1>1, <1>3 DEF IInv, FilesInv, DeepInv, deepVars
<1>13. QED
  BY <1>5, <1>8, <1>9, <1>10, <1>11, <1>12 DEF IInv

\* A driver grows by one call of the dependency graph.
LEMMA ExtendStep ==
  ASSUME IInv, UNCHANGED <<number_of_unknown, bias>>, Extend, UNCHANGED campaignVars
  PROVE  IInv'
<1> DEFINE unknown(a) == calc_api_state(Append(drv, a)) = "UNKNOWN"
<1>1. PICK C \in CandidateSets : \E a \in get_random_candidate(drv, C) :
        /\ drv' = Append(drv, a)
        /\ pc' = IF unknown(a) /\ left = 0 THEN "built" ELSE "grow"
        /\ left' = IF unknown(a) /\ left > 0 THEN left - 1 ELSE left
  BY DEF Extend
<1>2. PICK a \in get_random_candidate(drv, C) :
        /\ drv' = Append(drv, a)
        /\ pc' = IF unknown(a) /\ left = 0 THEN "built" ELSE "grow"
        /\ left' = IF unknown(a) /\ left > 0 THEN left - 1 ELSE left
  BY <1>1
<1>3. UNCHANGED <<history, trial, driver_list_history, drivers_list, library_api_used, feedback, deepVars>>
      /\ pc = "grow" /\ Len(drv) < DriverSize
  BY DEF Extend, Growing, campaignVars
<1>4. TypeOK /\ drv # <<>> /\ drv \in Seq(Apis) /\ left \in 0..number_of_unknown
  BY <1>3 DEF IInv, GrowInv, TypeOK
<1>5. a \in Apis /\ calc_api_state(Append(drv, a)) # "NEGATIVE"
  BY <1>4, DrawnCandidate
<1>6. /\ drv' \in Seq(Apis) /\ Len(drv') = Len(drv) + 1 /\ drv' # <<>>
      /\ \A n \in 1..Len(drv) : PrefixOf(drv', n) = PrefixOf(drv, n)
      /\ PrefixOf(drv', Len(drv) + 1) = drv'
  BY <1>2, <1>4, <1>5, PrefixesOfAppend
<1>7. calc_api_state(drv') \in ApiSeqState /\ (unknown(a) \/ calc_api_state(drv') = "POSITIVE")
  BY <1>2, <1>4, <1>5 DEF TypeOK, calc_api_state, ApiSeqState
<1>8. \A s : calc_api_state(s)' = calc_api_state(s)
  BY <1>3 DEF calc_api_state
<1>9. left' \in 0..number_of_unknown
  BY <1>2, <1>4, NumbersOfUnknownAssumption DEF TypeOK
<1>10. Len(drv') <= DriverSize
  BY <1>3, <1>4, <1>6, DriverSizeAssumption
<1>11. pc' \in {"built", "grow"}
  BY <1>2
<1>12. TypeOK'
  BY <1>3, <1>4, <1>6, <1>9, <1>10, <1>11 DEF TypeOK, deepVars
<1>13. number_of_unknown = 0 =>
         /\ left = 0
         /\ \A n \in 1..Len(drv) : calc_api_state(PrefixOf(drv', n)) = "POSITIVE"
  BY <1>3, <1>4, <1>6 DEF IInv, GrowInv
<1>14. GrowInv'
  <2> SUFFICES ASSUME number_of_unknown = 0, pc' = "grow", NEW n \in 1..(Len(drv) + 1)
               PROVE  calc_api_state(PrefixOf(drv', n)) = "POSITIVE"
    BY <1>6, <1>8 DEF GrowInv
  <2>1. calc_api_state(drv') = "POSITIVE"
    BY <1>2, <1>7, <1>13
  <2>2. CASE n \in 1..Len(drv)
    BY <1>13, <2>2
  <2>3. CASE n = Len(drv) + 1
    BY <1>6, <2>1, <2>3
  <2>4. QED
    BY <1>10, <2>2, <2>3
<1>15. BlameIsLocal'
  <2> SUFFICES ASSUME number_of_unknown = 0
               PROVE  /\ \A n \in 1..(Len(drv') - 1) : calc_api_state(PrefixOf(drv', n)) = "POSITIVE"
                      /\ calc_api_state(drv') # "NEGATIVE"
    BY <1>8 DEF BlameIsLocal
  <2>1. Len(drv') - 1 = Len(drv)
    BY <1>6, <1>10
  <2>2. QED
    BY <1>2, <1>5, <1>13, <2>1
<1>16. RunInv'
  BY <1>3, <1>11 DEF IInv, RunInv
<1>17. OwnFeedback'
  BY <1>3, <1>11 DEF IInv, OwnFeedback
<1>18. FilesInv' /\ DeepInv'
  BY <1>3, <1>11 DEF IInv, FilesInv, DeepInv, deepVars
<1>19. QED
  BY <1>12, <1>14, <1>15, <1>16, <1>17, <1>18 DEF IInv

\* A new chain starts in the driver: not with number_of_unknown = 0.
LEMMA NewChainStep ==
  ASSUME IInv, UNCHANGED <<number_of_unknown, bias>>, NewChain, UNCHANGED campaignVars
  PROVE  IInv'
<1>1. PICK a \in get_random_candidate(<<>>, source_candidates) : drv' = Append(drv, a)
  BY DEF NewChain
<1>2. UNCHANGED <<history, pc, trial, driver_list_history, drivers_list, library_api_used, feedback, deepVars>>
      /\ pc = "grow" /\ Len(drv) < DriverSize /\ left > 0 /\ left' = left - 1
  BY DEF NewChain, Growing, campaignVars
<1>3. drv \in Seq(Apis) /\ left \in 0..number_of_unknown
  BY DEF IInv, TypeOK
<1>4. a \in Apis
  BY DrawnSource DEF IInv, TypeOK
<1>5. drv' \in Seq(Apis) /\ Len(drv') = Len(drv) + 1 /\ drv' # <<>>
  BY <1>1, <1>3, <1>4, PrefixesOfAppend
<1>6. left' \in 0..number_of_unknown /\ number_of_unknown # 0 /\ Len(drv') <= DriverSize
  BY <1>2, <1>3, <1>5, NumbersOfUnknownAssumption, DriverSizeAssumption DEF IInv, TypeOK
<1>7. TypeOK'
  BY <1>2, <1>5, <1>6 DEF IInv, TypeOK, deepVars
<1>8. GrowInv' /\ BlameIsLocal'
  BY <1>2, <1>5, <1>6 DEF GrowInv, BlameIsLocal
<1>9. RunInv' /\ OwnFeedback'
  BY <1>2 DEF IInv, RunInv, OwnFeedback
<1>10. FilesInv' /\ DeepInv'
  BY <1>2 DEF IInv, FilesInv, DeepInv, deepVars
<1>11. QED
  BY <1>7, <1>8, <1>9, <1>10 DEF IInv

\* The least element of a set of naturals.
LEMMA LeastNatural ==
  ASSUME NEW S \in SUBSET Nat, S # {}
  PROVE  \E x \in S : \A y \in S : x <= y
<1>1. PICK x \in S : \A y \in S : ~ (<<y, x>> \in OpToRel(<, Nat))
  BY NatLessThanWellFounded, WFMin
<1>2. \A y \in S : ~ (y < x)
  BY <1>1 DEF OpToRel
<1>3. QED
  BY <1>2

\* The Min and the Max of a set of numbers of drivers are elements of it.
LEMMA MinMaxOfIndices ==
  ASSUME NEW n \in Nat, NEW S \in SUBSET (1..n), S # {}
  PROVE  Min(S) \in S /\ Max(S) \in S
<1>1. \E x \in S : \A y \in S : x <= y
  BY LeastNatural
<1>2. Min(S) \in S
  BY <1>1 DEF Min
<1> DEFINE T == {n - x : x \in S}
<1>3. T \in SUBSET Nat /\ T # {}
  <2>1. \A x \in S : n - x \in Nat
    OBVIOUS
  <2>2. PICK x \in S : TRUE
    OBVIOUS
  <2>3. n - x \in T
    OBVIOUS
  <2>4. QED
    BY <2>1, <2>3
<1>4. PICK t \in T : \A u \in T : t <= u
  BY <1>3, LeastNatural
<1>5. PICK x \in S : t = n - x
  BY <1>4
<1>6. \A y \in S : x >= y
  <2> SUFFICES ASSUME NEW y \in S PROVE x >= y
    OBVIOUS
  <2>1. n - y \in T
    OBVIOUS
  <2>2. t <= n - y
    BY <1>4, <2>1
  <2>3. x \in 1..n /\ y \in 1..n
    OBVIOUS
  <2>4. QED
    BY <1>5, <2>2, <2>3
<1>7. Max(S) \in S
  BY <1>6 DEF Max
<1>8. QED
  BY <1>2, <1>7

\* Of finitely many drivers one has the most seeds.
LEMMA MostSeeds ==
  ASSUME NEW S, IsFiniteSet(S), S # {}, NEW w \in [S -> Nat]
  PROVE  \E i \in S : \A j \in S : w[j] <= w[i]
<1> DEFINE better(i) == {j \in S : w[j] > w[i]}
           T == {better(i) : i \in S}
<1>1. T \subseteq FiniteSubsetsOf(S) /\ T # {}
  <2>1. \A i \in S : better(i) \in SUBSET S /\ better(i) \in T
    OBVIOUS
  <2>2. \A i \in S : IsFiniteSet(better(i))
    BY <2>1, FS_Subset
  <2>3. QED
    BY <2>1, <2>2 DEF FiniteSubsetsOf
<1>2. PICK U \in T : \A V \in T : ~ (<<V, U>> \in StrictSubsetOrdering(S))
  BY <1>1, FS_StrictSubsetOrderingWellFounded, WFMin
<1>3. PICK i \in S : U = better(i)
  BY <1>2
<1>4. better(i) = {}
  <2> SUFFICES ASSUME NEW j \in better(i) PROVE FALSE
    OBVIOUS
  <2>1. better(j) \subseteq better(i) /\ j \notin better(j) /\ better(j) \in T
    OBVIOUS
  <2>2. <<better(j), better(i)>> \in StrictSubsetOrdering(S)
    BY <2>1, <1>1 DEF StrictSubsetOrdering, FiniteSubsetsOf
  <2>3. QED
    BY <1>2, <1>3, <2>1, <2>2
<1>5. QED
  BY <1>4

\* The driver is written, and the feedback of the previous run removed.
LEMMA EmitDriverStep ==
  ASSUME IInv, UNCHANGED <<number_of_unknown, bias>>, EmitDriver
  PROVE  IInv'
<1> DEFINE n == Len(drivers_list)
<1>1. /\ pc = "built" /\ pc' = "fuzz" /\ feedback' = NoFeedback
      /\ drivers_list' = Append(drivers_list, Emitted)
      /\ driver_list_history' = driver_list_history \union {drv}
      /\ UNCHANGED <<history, drv, left, trial, library_api_used, drivers_for_deep, deep_slice>>
  BY DEF EmitDriver, deepVars
<1>2. drv \in Seq(Apis) /\ drivers_list \in Seq(DriverRecord) /\ n < MaxDrivers /\ n \in Nat /\ drivers_for_deep = {}
  BY <1>1 DEF IInv, TypeOK, RunInv, DeepInv
<1>3. Emitted \in DriverRecord
  BY <1>2 DEF Emitted, DriverRecord, ApiSeqState
<1>4. /\ drivers_list' \in Seq(DriverRecord) /\ Len(drivers_list') = n + 1
      /\ drivers_list'[n + 1] = Emitted
      /\ \A i \in 1..n : drivers_list'[i] = drivers_list[i]
  BY <1>1, <1>2, <1>3
<1>5. n + 1 <= MaxDrivers
  BY <1>2, MaxDriversAssumption
<1>6. TypeOK'
  BY <1>1, <1>2, <1>4, <1>5 DEF IInv, TypeOK
<1>7. GrowInv'
  BY <1>1 DEF IInv, GrowInv
<1>8. BlameIsLocal'
  BY <1>1 DEF IInv, BlameIsLocal, calc_api_state
<1>9. RunInv'
  BY <1>1, <1>2, <1>4 DEF RunInv, current, Emitted
<1>10. OwnFeedback'
  BY <1>1, <1>2, <1>4 DEF IInv, OwnFeedback, Emitted
<1>11. FilesInv'
  BY <1>1, <1>2, <1>4 DEF IInv, FilesInv, Emitted
<1>12. DeepInv'
  BY <1>1, <1>2 DEF DeepInv
<1>13. QED
  BY <1>6, <1>7, <1>8, <1>9, <1>10, <1>11, <1>12 DEF IInv

\* The container gives up on the driver.
LEMMA CompileFailsStep ==
  ASSUME IInv, UNCHANGED <<number_of_unknown, bias>>, CompileFails
  PROVE  IInv'
<1>1. pc = "fuzz" /\ pc' = "judge" /\ feedback' = NoFeedback /\ feedback = NoFeedback
      /\ UNCHANGED <<history, drv, left, trial, driver_list_history, drivers_list, library_api_used,
                     drivers_for_deep, deep_slice>>
  BY DEF CompileFails, IInv, RunInv, campaignVars, deepVars
<1>2. TypeOK' /\ GrowInv'
  BY <1>1 DEF IInv, TypeOK, GrowInv
<1>3. BlameIsLocal'
  BY <1>1 DEF IInv, BlameIsLocal, calc_api_state
<1>4. RunInv' /\ OwnFeedback'
  BY <1>1 DEF IInv, RunInv, OwnFeedback, current
<1>5. FilesInv' /\ DeepInv'
  BY <1>1 DEF IInv, FilesInv, DeepInv
<1>6. QED
  BY <1>2, <1>3, <1>4, <1>5 DEF IInv

\* One element of a sequence is replaced.
LEMMA ReplaceAt ==
  ASSUME NEW S, NEW s \in Seq(S), NEW n \in 1..Len(s), NEW r \in S
  PROVE  LET t == [s EXCEPT ![n] = r]
         IN  t \in Seq(S) /\ Len(t) = Len(s) /\ t[n] = r /\ \A i \in 1..Len(s) : i # n => t[i] = s[i]
  OBVIOUS

\* The fuzzer runs the driver and may leave its feedback.
LEMMA KickFuzzingStep ==
  ASSUME IInv, UNCHANGED <<number_of_unknown, bias>>, KickFuzzing
  PROVE  IInv'
<1> DEFINE n == Len(drivers_list)
<1>1. /\ pc = "fuzz" /\ pc' = "judge" /\ feedback = NoFeedback
      /\ UNCHANGED <<history, drv, left, trial, driver_list_history, library_api_used, drivers_for_deep, deep_slice>>
  BY DEF KickFuzzing, IInv, RunInv, deepVars
<1>2. PICK c \in SeedCounts :
        drivers_list' = [drivers_list EXCEPT ![n] = [drivers_list[n] EXCEPT !.binary = TRUE, !.corpus_new = c]]
  BY DEF KickFuzzing, current
<1>3. drivers_list \in Seq(DriverRecord) /\ n \in 1..MaxDrivers /\ drivers_list[n] \in DriverRecord
  BY <1>1, MaxDriversAssumption DEF IInv, TypeOK, RunInv, current
<1>4. [drivers_list[n] EXCEPT !.binary = TRUE, !.corpus_new = c] \in DriverRecord
  BY <1>2, <1>3 DEF DriverRecord
<1>5. /\ drivers_list' \in Seq(DriverRecord) /\ Len(drivers_list') = n
      /\ drivers_list'[n] = [drivers_list[n] EXCEPT !.binary = TRUE, !.corpus_new = c]
      /\ \A i \in 1..n : i # n => drivers_list'[i] = drivers_list[i]
  <2> DEFINE r == [drivers_list[n] EXCEPT !.binary = TRUE, !.corpus_new = c]
  <2>1. n \in 1..Len(drivers_list) /\ r \in DriverRecord /\ drivers_list' = [drivers_list EXCEPT ![n] = r]
    BY <1>2, <1>3, <1>4
  <2> HIDE DEF r
  <2>2. Len(drivers_list') = n /\ drivers_list'[n] = r /\ \A i \in 1..n : i # n => drivers_list'[i] = drivers_list[i]
    BY <1>3, <2>1, ReplaceAt
  <2>3. drivers_list' \in Seq(DriverRecord)
    BY <1>3, <2>1, ReplaceAt
  <2>4. QED
    BY <2>2, <2>3 DEF r
<1>6. /\ drivers_list'[n].seq = drivers_list[n].seq
      /\ drivers_list'[n].state = drivers_list[n].state
      /\ drivers_list'[n].received = drivers_list[n].received
      /\ drivers_list'[n].corpus_new = c /\ c > 0
  BY <1>3, <1>5, SeedCountsAssumption DEF DriverRecord
<1>7. feedback' \in Feedbacks \union {NoFeedback} /\ (feedback' # NoFeedback => feedback'.of = n)
  BY <1>1, <1>3 DEF KickFuzzing, current, Feedbacks
<1>8. TypeOK'
  BY <1>1, <1>5, <1>7 DEF IInv, TypeOK
<1>9. GrowInv'
  BY <1>1 DEF IInv, GrowInv
<1>10. BlameIsLocal'
  BY <1>1 DEF IInv, BlameIsLocal, calc_api_state
<1>11. drivers_list[n].state = "UNKNOWN" /\ drivers_list[n].seq = drv
  BY <1>1 DEF IInv, RunInv, current
<1>12. RunInv'
  BY <1>1, <1>3, <1>5, <1>6, <1>11 DEF RunInv, current
<1>13. OwnFeedback'
  <2>1. (feedback # NoFeedback => feedback.of = current /\ drivers_list[current].corpus_new > 0)'
    BY <1>5, <1>6, <1>7 DEF current
  <2>2. \A i \in 1..n : drivers_list'[i].state # "UNKNOWN" => drivers_list'[i].received.of = i
    BY <1>5, <1>6 DEF IInv, OwnFeedback
  <2>3. QED
    BY <1>5, <2>1, <2>2 DEF OwnFeedback
<1>14. FilesInv'
  BY <1>5, <1>6, <1>11 DEF IInv, FilesInv
<1>15. DeepInv'
  BY <1>1 DEF IInv, DeepInv
<1>16. QED
  BY <1>8, <1>9, <1>10, <1>12, <1>13, <1>14, <1>15 DEF IInv

\* The verdict on the driver.
LEMMA PushFeedbackStep ==
  ASSUME IInv, UNCHANGED <<number_of_unknown, bias>>, PushFeedback
  PROVE  IInv'
<1> DEFINE n == Len(drivers_list)
           c == drivers_list[n].corpus_new
           state == Verdict(feedback, c)
           judged == Judged(drivers_list[n], state)
<1>1. /\ pc = "judge" /\ pc' = "loop" /\ feedback # NoFeedback
      /\ update_api_state(state, c)
      /\ drivers_list' = [drivers_list EXCEPT ![n] = judged]
      /\ library_api_used' = library_api_used \union IF c = 1 THEN {} ELSE {drv[i] : i \in 1..Len(drv)}
      /\ UNCHANGED <<drv, left, trial, driver_list_history, feedback, drivers_for_deep, deep_slice>>
  <2>1. /\ update_api_state(state, c)
        /\ drivers_list' = [drivers_list EXCEPT ![n] = judged]
        /\ library_api_used' = library_api_used \union IF c = 1 THEN {} ELSE {drv[i] : i \in 1..Len(drv)}
    BY DEF PushFeedback, current
  <2>2. QED
    BY <2>1 DEF PushFeedback, deepVars
<1>2. drivers_list \in Seq(DriverRecord) /\ n \in 1..MaxDrivers /\ drivers_list[n] \in DriverRecord
  BY <1>1, MaxDriversAssumption DEF IInv, TypeOK, RunInv, current
<1>3. c \in SeedCounts /\ c \in Nat /\ c > 0 /\ feedback.of = n /\ feedback \in Feedbacks
  <2>1. feedback.of = n /\ c > 0
    BY <1>1 DEF IInv, OwnFeedback, current
  <2>2. c \in SeedCounts \union {0}
    BY <1>2 DEF DriverRecord
  <2>3. feedback \in Feedbacks
    BY <1>1 DEF IInv, TypeOK
  <2>4. c # 0
    BY <2>1
  <2>5. c \in SeedCounts
    BY <2>2, <2>4
  <2>6. c \in Nat
    BY <2>5, SeedCountsAssumption
  <2>7. QED
    BY <2>1, <2>3, <2>5, <2>6
<1>4. state \in {"POSITIVE", "NEGATIVE"}
  BY DEF Verdict
<1>5. judged \in DriverRecord
  BY <1>2, <1>3, <1>4 DEF Judged, DriverRecord, ApiSeqState
<1>6. /\ drivers_list' \in Seq(DriverRecord) /\ Len(drivers_list') = n
      /\ drivers_list'[n] = judged
      /\ \A i \in 1..n : i # n => drivers_list'[i] = drivers_list[i]
  <2> HIDE DEF judged
  <2>1. n \in 1..Len(drivers_list)
    BY <1>2
  <2>2. Len(drivers_list') = n /\ drivers_list'[n] = judged
        /\ \A i \in 1..n : i # n => drivers_list'[i] = drivers_list[i]
    BY <1>1, <1>2, <1>5, <2>1, ReplaceAt
  <2>3. drivers_list' \in Seq(DriverRecord)
    BY <1>1, <1>2, <1>5, <2>1, ReplaceAt
  <2>4. QED
    BY <2>2, <2>3
<1>7. judged.received = feedback /\ judged.corpus_new = c /\ (judged.binary => c # 1)
  BY <1>2 DEF Judged, DriverRecord
<1>8. drv \in Seq(Apis)
  BY DEF IInv, TypeOK
<1>9. DOMAIN history' \subseteq Seq(Apis)
      /\ \A s \in DOMAIN history' : history'[s] \in [state : {"POSITIVE", "NEGATIVE"}, n_seeds : SeedCounts]
  BY <1>1, <1>3, <1>4, <1>8 DEF IInv, TypeOK, update_api_state
<1>10. library_api_used' \subseteq Apis
  BY <1>1, <1>8 DEF IInv, TypeOK
<1>11. drivers_for_deep = {}
  BY <1>1 DEF IInv, DeepInv
<1>12. TypeOK'
  BY <1>1, <1>6, <1>9, <1>10, <1>11 DEF IInv, TypeOK
<1>13. GrowInv' /\ BlameIsLocal' /\ RunInv'
  BY <1>1 DEF GrowInv, BlameIsLocal, RunInv
<1>14. OwnFeedback'
  BY <1>1, <1>3, <1>6, <1>7 DEF IInv, OwnFeedback
<1>15. FilesInv'
  <2>1. \A i \in 1..n : i # n => (drivers_list'[i].state # "UNKNOWN" /\ drivers_list'[i].binary =>
                                    drivers_list'[i].corpus_new > 1)
    BY <1>6 DEF IInv, FilesInv
  <2>2. drivers_list'[n].binary => drivers_list'[n].corpus_new > 1
    BY <1>3, <1>6, <1>7
  <2>3. QED
    BY <1>6, <2>1, <2>2 DEF FilesInv
<1>16. DeepInv'
  BY <1>1, <1>11 DEF DeepInv
<1>17. QED
  BY <1>12, <1>13, <1>14, <1>15, <1>16 DEF IInv

\* The driver of a key, and the champion of a cluster, were clustered.
LEMMA ChampionClustered ==
  ASSUME IInv, NEW cluster \in SUBSET Clustered, cluster # {}
  PROVE  Champion(cluster, driver_info) \in Clustered \X Seq(Apis)
<1> DEFINE n == Len(drivers_list)
           info == driver_info
<1>1. drivers_list \in Seq(DriverRecord) /\ n \in Nat /\ Clustered \in SUBSET (1..n)
  BY DEF IInv, TypeOK, Clustered
<1>2. \A i \in Clustered : info[i] \in Clustered
  <2> SUFFICES ASSUME NEW i \in Clustered PROVE info[i] \in Clustered
    OBVIOUS
  <2> DEFINE key == [j \in Clustered |-> Key(drivers_list[j].seq)]
             same == {j \in Clustered : key[j] = key[i]}
  <2>1. info[i] = Max(same)
    BY DEF driver_info
  <2>2. same \in SUBSET (1..n) /\ same # {}
    BY <1>1
  <2>3. Max(same) \in same
    BY <1>1, <2>2, MinMaxOfIndices
  <2>4. QED
    BY <2>1, <2>3
<1> HIDE DEF info
<1> DEFINE seeds == [i \in cluster |-> drivers_list[info[i]].n_seeds]
           best == {i \in cluster : \A j \in cluster : drivers_list[info[j]].n_seeds <= drivers_list[info[i]].n_seeds}
<1>3. \A i \in Clustered : drivers_list[i].n_seeds \in Nat
  <2> SUFFICES ASSUME NEW i \in Clustered PROVE drivers_list[i].n_seeds \in Nat
    OBVIOUS
  <2>1. drivers_list[i] \in DriverRecord
    BY <1>1
  <2>2. drivers_list[i].n_seeds \in SeedCounts \union {0}
    BY <2>1 DEF DriverRecord
  <2>3. SeedCounts \union {0} \subseteq Nat
    BY SeedCountsAssumption
  <2>4. QED
    BY <2>2, <2>3
<1>4. seeds \in [cluster -> Nat]
  BY <1>2, <1>3
<1>5. IsFiniteSet(cluster)
  <2>1. IsFiniteSet(1..n)
    BY <1>1, FS_Interval
  <2>2. cluster \subseteq 1..n
    BY <1>1
  <2>3. QED
    BY <2>1, <2>2, FS_Subset
<1>6. PICK i \in cluster : \A j \in cluster : seeds[j] <= seeds[i]
  BY <1>4, <1>5, MostSeeds
<1>7. i \in best
  BY <1>6
<1>8. best \in SUBSET (1..n) /\ best # {}
  BY <1>1, <1>7
<1>9. Min(best) \in best
  BY <1>1, <1>8, MinMaxOfIndices
<1>10. Champion(cluster, info) = <<info[Min(best)], drivers_list[Min(best)].seq>>
  BY DEF Champion
<1>11. drivers_list[Min(best)] \in DriverRecord
  BY <1>1, <1>8, <1>9
<1>12. drivers_list[Min(best)].seq \in Seq(Apis)
  BY <1>11 DEF DriverRecord
<1>13. QED
  BY <1>2, <1>9, <1>10, <1>12 DEF info

\* The clustering step.
LEMMA ClusterStep ==
  ASSUME IInv, UNCHANGED <<number_of_unknown, bias>>, cluster_drivers
  PROVE  IInv'
<1> DEFINE n == Len(drivers_list)
<1>1. /\ pc = "cluster" /\ pc' = "deep" /\ Clustered # {}
      /\ UNCHANGED <<history, drv, left, trial, driver_list_history, drivers_list, library_api_used, feedback>>
      /\ deep_slice' = convert_to_seconds(DeepTimeout) \div Cardinality(drivers_for_deep')
  BY DEF cluster_drivers
<1>2. PICK labels \in [Clustered -> Clustered] :
        drivers_for_deep' = {Champion({j \in Clustered : labels[j] = labels[i]}, driver_info) : i \in Clustered}
  BY DEF cluster_drivers
<1>3. drivers_for_deep' \subseteq Clustered \X Seq(Apis)
  <2> SUFFICES ASSUME NEW i \in Clustered
               PROVE  Champion({j \in Clustered : labels[j] = labels[i]}, driver_info) \in Clustered \X Seq(Apis)
    BY <1>2
  <2> QED
    BY ChampionClustered
<1>4. drivers_for_deep' # {}
  BY <1>1, <1>2
<1>5. n \in Nat /\ Clustered \subseteq 1..n
  BY DEF IInv, TypeOK, Clustered
<1>6. Cardinality(drivers_for_deep') \in Nat \ {0}
  <2>1. IsFiniteSet(1..n)
    BY <1>5, FS_Interval
  <2>2. IsFiniteSet(Clustered)
    BY <1>5, <2>1, FS_Subset
  <2> DEFINE champion == [i \in Clustered |-> Champion({j \in Clustered : labels[j] = labels[i]}, driver_info)]
  <2>3. champion \in Surjection(Clustered, drivers_for_deep')
    BY <1>2 DEF Surjection
  <2>4. IsFiniteSet(drivers_for_deep')
    <3> HIDE DEF champion
    <3> QED
      BY <2>2, <2>3, FS_Surjection
  <2>5. QED
    BY <1>4, <2>4, FS_EmptySet, FS_CardinalityType
<1>7. convert_to_seconds(DeepTimeout) \in Nat
  <2>1. DeepTimeout # NoDeep
    BY <1>1 DEF IInv, DeepInv
  <2>2. DeepTimeout \in [value : 1..99, unit : {"h", "m", "s"}]
    BY <2>1, DeepTimeoutAssumption
  <2>3. QED
    BY <2>2 DEF convert_to_seconds
<1>8. deep_slice' \in Nat
  BY <1>1, <1>6, <1>7
<1>9. TypeOK'
  BY <1>1, <1>3, <1>5, <1>8 DEF IInv, TypeOK
<1>10. GrowInv' /\ BlameIsLocal' /\ RunInv' /\ OwnFeedback' /\ FilesInv'
  BY <1>1 DEF IInv, GrowInv, BlameIsLocal, RunInv, OwnFeedback, FilesInv
<1>11. DeepInv'
  BY <1>1, <1>3 DEF DeepInv, Clustered
<1>12. QED
  BY <1>9, <1>10, <1>11 DEF IInv

\* A selected driver has been fuzzed.
LEMMA FuzzInDepthStep ==
  ASSUME IInv, UNCHANGED <<number_of_unknown, bias>>, FuzzInDepth
  PROVE  IInv'
<1>1. /\ pc = "deep" /\ pc' = "deep" /\ drivers_for_deep' \subseteq drivers_for_deep
      /\ UNCHANGED <<history, drv, left, trial, driver_list_history, drivers_list, library_api_used, feedback, deep_slice>>
  BY DEF FuzzInDepth, factoryVars
<1>2. TypeOK' /\ GrowInv' /\ BlameIsLocal' /\ RunInv' /\ OwnFeedback' /\ FilesInv'
  BY <1>1 DEF IInv, TypeOK, GrowInv, BlameIsLocal, RunInv, OwnFeedback, FilesInv
<1>3. DeepInv'
  BY <1>1 DEF IInv, DeepInv, Clustered
<1>4. QED
  BY <1>2, <1>3 DEF IInv

\* Every step of the task preserves the invariant.
LEMMA StepIInv == IInv /\ [Next]_vars => IInv'
<1> SUFFICES ASSUME IInv, [Next]_vars PROVE IInv'
  OBVIOUS
<1> USE DEF campaignVars
<1>0. UNCHANGED <<number_of_unknown, bias>>
  BY DEF Next, Step, Ended, vars
<1> USE <1>0
<1>1. trial \in 0..MaxTrial /\ (pc # "deep" => drivers_for_deep = {})
  BY DEF IInv, TypeOK, DeepInv
<1>2. CASE NextDriver
  <2>1. trial' \in 0..MaxTrial
    BY <1>2, MaxTrialAssumption DEF NextDriver
  <2>2. QED
    BY <1>1, <1>2, <2>1, QuietStep DEF NextDriver
<1>3. CASE StorePaths
  BY <1>1, <1>3, QuietStep DEF StorePaths
<1>4. CASE Create
  <2>1. UNCHANGED campaignVars /\ create_random_driver
    BY <1>4 DEF Create
  <2>2. CASE BeginDriver
    BY <2>1, <2>2, BeginDriverStep
  <2>3. CASE Extend
    BY <2>1, <2>3, ExtendStep
  <2>4. CASE NewChain
    BY <2>1, <2>4, NewChainStep
  <2>5. CASE BeginRaises \/ BeginUnsat
    BY <1>1, <2>1, <2>5, QuietStep DEF BeginRaises, BeginUnsat
  <2>6. CASE ExtendRaises \/ NewChainUnsat
    BY <1>1, <2>1, <2>6, QuietStep DEF ExtendRaises, NewChainUnsat, Growing
  <2>7. CASE StopChain \/ SizeReached
    BY <1>1, <2>1, <2>7, QuietStep DEF StopChain, SizeReached, Growing
  <2>8. QED
    BY <2>1, <2>2, <2>3, <2>4, <2>5, <2>6, <2>7 DEF create_random_driver
<1>5. CASE TryAgain
  <2>1. trial' \in 0..MaxTrial
    BY <1>1, <1>5, MaxTrialAssumption DEF TryAgain
  <2>2. Len(drivers_list) < MaxDrivers
    BY <1>5 DEF TryAgain, IInv, RunInv
  <2>3. QED
    BY <1>1, <1>5, <2>1, <2>2, QuietStep DEF TryAgain
<1>6. CASE EmitDriver
  BY <1>6, EmitDriverStep
<1>7. CASE CompileFails
  BY <1>7, CompileFailsStep
<1>8. CASE KickFuzzing
  BY <1>8, KickFuzzingStep
<1>9. CASE NoVerdict
  BY <1>1, <1>9, QuietStep DEF NoVerdict
<1>10. CASE PushFeedback
  BY <1>10, PushFeedbackStep
<1>11. CASE cluster_drivers
  BY <1>11, ClusterStep
<1>12. CASE NothingToDeepen
  BY <1>1, <1>12, QuietStep DEF NothingToDeepen
<1>13. CASE FuzzInDepth
  BY <1>13, FuzzInDepthStep
<1>14. CASE EndDeep
  BY <1>1, <1>14, QuietStep DEF EndDeep
<1>15. CASE UNCHANGED vars
  <2>1. UNCHANGED <<history, drv, left, pc, trial, driver_list_history, drivers_list, library_api_used, feedback,
                    drivers_for_deep, deep_slice>>
    BY <1>15 DEF vars, factoryVars, deepVars
  <2>2. TypeOK' /\ GrowInv' /\ BlameIsLocal'
    BY <2>1 DEF IInv, TypeOK, GrowInv, BlameIsLocal, calc_api_state
  <2>3. RunInv' /\ OwnFeedback'
    BY <2>1 DEF IInv, RunInv, OwnFeedback, current
  <2>4. FilesInv' /\ DeepInv'
    BY <2>1 DEF IInv, FilesInv, DeepInv, Clustered
  <2>5. QED
    BY <2>2, <2>3, <2>4 DEF IInv
<1>16. QED
  BY <1>2, <1>3, <1>4, <1>5, <1>6, <1>7, <1>8, <1>9, <1>10, <1>11, <1>12, <1>13, <1>14, <1>15
     DEF Next, Step, Ended

-----------------------------------------------------------------------------
\* dyn_drv_gen keeps its inductive invariant, whatever the container answers.
THEOREM Invariant == Spec => []IInv
<1>1. Init => IInv
  BY InitIInv
<1>2. IInv /\ [Next]_vars => IInv'
  BY StepIInv
<1>3. QED
  BY <1>1, <1>2, PTL DEF Spec

\* Only verdicts enter history_api_sequence, and no driver outgrows driver_size.
THEOREM TypeCorrect == Spec => []TypeOK
<1>1. IInv => TypeOK
  BY DEF IInv
<1>2. QED
  BY <1>1, Invariant, PTL

\* With number_of_unknown = 0, push_feedfback judges the last call of a driver
\* whose every proper prefix is POSITIVE.
THEOREM Blame == Spec => []BlameIsLocal
<1>1. IInv => BlameIsLocal
  BY DEF IInv
<1>2. QED
  BY <1>1, Invariant, PTL

\* The feedback.txt that dyn_drv_gen reads was written by the current driver.
THEOREM Own == Spec => []OwnFeedback
<1>1. IInv => OwnFeedback
  BY DEF IInv
<1>2. QED
  BY <1>1, Invariant, PTL

\* cluster_drivers only passes on drivers that are POSITIVE, grew their corpus
\* and have a binary, whatever the clustering and the collisions of its keys.
THEOREM DeepEarned == Spec => []DeepDriversEarned
<1>1. IInv => DeepDriversEarned
  BY DEF IInv, DeepInv, FilesInv, Clustered, DeepDriversEarned
<1>2. QED
  BY <1>1, Invariant, PTL

\* With number_of_unknown = 0 update_api_state never overwrites a NEGATIVE entry.
THEOREM Final == Spec => NegativeIsFinal
<1> DEFINE Kept == number_of_unknown = 0 =>
                     \A s \in DOMAIN history :
                       history[s].state = "NEGATIVE" => s \in DOMAIN history' /\ history'[s] = history[s]
<1>1. IInv /\ [Next]_vars => [Kept]_vars
  <2> SUFFICES ASSUME IInv, Next PROVE Kept
    OBVIOUS
  <2>1. CASE PushFeedback
    <3> SUFFICES ASSUME number_of_unknown = 0, NEW s \in DOMAIN history, history[s].state = "NEGATIVE"
                 PROVE  s \in DOMAIN history' /\ history'[s] = history[s]
      OBVIOUS
    <3>1. calc_api_state(drv) # "NEGATIVE"
      BY <2>1 DEF PushFeedback, IInv, BlameIsLocal
    <3>2. s # drv
      BY <3>1 DEF calc_api_state
    <3>3. QED
      BY <2>1, <3>2 DEF PushFeedback, update_api_state
  <2>2. CASE UNCHANGED history
    BY <2>2
  <2>3. CASE Create
    BY <2>2, <2>3 DEF Create, create_random_driver, BeginDriver, BeginRaises, BeginUnsat, Extend, ExtendRaises,
                      StopChain, NewChain, NewChainUnsat, SizeReached
  <2>4. CASE NextDriver \/ StorePaths \/ TryAgain \/ EmitDriver \/ CompileFails \/ KickFuzzing \/ NoVerdict
    BY <2>2, <2>4 DEF NextDriver, StorePaths, TryAgain, EmitDriver, CompileFails, KickFuzzing, NoVerdict
  <2>5. CASE cluster_drivers \/ NothingToDeepen \/ FuzzInDepth \/ EndDeep \/ Ended
    BY <2>2, <2>5 DEF cluster_drivers, NothingToDeepen, FuzzInDepth, EndDeep, Ended, vars, factoryVars
  <2>6. QED
    BY <2>1, <2>3, <2>4, <2>5 DEF Next, Step
<1>2. QED
  BY <1>1, Invariant, PTL DEF Spec, NegativeIsFinal
-----------------------------------------------------------------------------
(* What create_random_driver spends. *)

\* The prefixes of the driver that were never fuzzed, and those known to fail.
UnknownPrefixes == {n \in 1..Len(drv) : calc_api_state(PrefixOf(drv, n)) = "UNKNOWN"}
NegativePrefixes == {n \in 1..Len(drv) : calc_api_state(PrefixOf(drv, n)) = "NEGATIVE"}

\* While the driver grows, the unknown prefixes are paid for out of number_of_unknown.
AccountInv ==
  /\ pc = "grow" => Cardinality(UnknownPrefixes) + left <= number_of_unknown
  /\ pc \in {"built", "fuzz"} => Cardinality(UnknownPrefixes) <= number_of_unknown + 1
  /\ pc \in {"grow", "built", "fuzz"} => \A n \in NegativePrefixes : n > 1 /\ drv[n] \in SourceApi

\* What one more call adds to the unknown and to the failing prefixes.
LEMMA PrefixesGrow ==
  ASSUME drv \in Seq(Apis), NEW a \in Apis, drv' = Append(drv, a), UNCHANGED history
  PROVE  LET n == Len(drv) + 1
             own == calc_api_state(drv') IN
         /\ UnknownPrefixes' = UnknownPrefixes \cup IF own = "UNKNOWN" THEN {n} ELSE {}
         /\ NegativePrefixes' = NegativePrefixes \cup IF own = "NEGATIVE" THEN {n} ELSE {}
         /\ \A k \in 1..Len(drv) : drv'[k] = drv[k]
         /\ drv'[n] = a
         /\ IsFiniteSet(UnknownPrefixes) /\ n \notin UnknownPrefixes
         /\ Cardinality(UnknownPrefixes) \in Nat
<1> DEFINE n == Len(drv) + 1
<1>1. /\ drv' \in Seq(Apis) /\ Len(drv') = n
      /\ \A k \in 1..Len(drv) : PrefixOf(drv', k) = PrefixOf(drv, k)
      /\ PrefixOf(drv', n) = drv'
  BY PrefixesOfAppend
<1>2. \A s : calc_api_state(s)' = calc_api_state(s)
  BY DEF calc_api_state
<1>3. 1..Len(drv') = 1..Len(drv) \cup {n} /\ n \notin 1..Len(drv)
  BY <1>1
<1>4. \A k \in 1..Len(drv') : calc_api_state(PrefixOf(drv, k))' =
        IF k = n THEN calc_api_state(drv') ELSE calc_api_state(PrefixOf(drv, k))
  BY <1>1, <1>2, <1>3
<1>5. UnknownPrefixes' = UnknownPrefixes \cup IF calc_api_state(drv') = "UNKNOWN" THEN {n} ELSE {}
  BY <1>3, <1>4 DEF UnknownPrefixes
<1>6. NegativePrefixes' = NegativePrefixes \cup IF calc_api_state(drv') = "NEGATIVE" THEN {n} ELSE {}
  BY <1>3, <1>4 DEF NegativePrefixes
<1>7. IsFiniteSet(UnknownPrefixes) /\ n \notin UnknownPrefixes
  <2>1. IsFiniteSet(1..Len(drv))
    BY FS_Interval
  <2>2. QED
    BY <1>3, <2>1, FS_Subset DEF UnknownPrefixes
<1>8. QED
  BY <1>5, <1>6, <1>7, FS_CardinalityType

\* Every step keeps the account.
LEMMA AccountStep == IInv /\ AccountInv /\ [Next]_vars => AccountInv'
<1> SUFFICES ASSUME IInv, AccountInv, [Next]_vars PROVE AccountInv'
  OBVIOUS
<1>1. UNCHANGED <<number_of_unknown, bias>> /\ number_of_unknown \in Nat /\ left \in Nat /\ drv \in Seq(Apis)
  BY NumbersOfUnknownAssumption DEF Next, Step, Ended, vars, IInv, TypeOK
<1>2. CASE /\ UNCHANGED <<history, drv, left>>
           /\ \/ pc' \notin {"grow", "built", "fuzz"} \/ pc' = pc
              \/ pc = "grow" /\ pc' = "built"
              \/ pc = "built" /\ pc' = "fuzz"
  <2>1. UnknownPrefixes' = UnknownPrefixes /\ NegativePrefixes' = NegativePrefixes
    BY <1>2 DEF UnknownPrefixes, NegativePrefixes, calc_api_state
  <2>2. Cardinality(UnknownPrefixes) \in Nat
    <3>1. IsFiniteSet(1..Len(drv))
      BY <1>1, FS_Interval
    <3>2. QED
      BY <3>1, FS_Subset, FS_CardinalityType DEF UnknownPrefixes
  <2>3. QED
    BY <1>1, <1>2, <2>1, <2>2 DEF AccountInv
<1>3. CASE BeginDriver
  <2>1. PICK a \in get_random_candidate(<<>>, source_candidates) :
          drv' = <<a>> /\ pc' = IF calc_api_state(<<a>>) = "UNKNOWN" THEN "built" ELSE "grow"
    BY <1>3 DEF BeginDriver
  <2>2. left' = number_of_unknown /\ UNCHANGED history
    BY <1>3 DEF BeginDriver
  <2>3. a \in Apis /\ calc_api_state(<<a>>) # "NEGATIVE"
    BY DrawnSource DEF IInv, TypeOK
  <2>4. Len(drv') = 1 /\ PrefixOf(drv', 1) = <<a>>
    <3>1. <<a>> \in Seq(Apis) /\ Len(<<a>>) = 1
      BY <2>3
    <3>2. PrefixOf(<<a>>, 1) = <<a>>
      BY <3>1, PrefixFacts
    <3>3. QED
      BY <2>1, <3>1, <3>2
  <2>5. \A s : calc_api_state(s)' = calc_api_state(s)
    BY <2>2 DEF calc_api_state
  <2>6. calc_api_state(PrefixOf(drv, 1))' = calc_api_state(<<a>>)
    BY <2>4, <2>5
  <2>7. NegativePrefixes' = {}
    BY <2>3, <2>4, <2>6 DEF NegativePrefixes
  <2>8. UnknownPrefixes' = IF calc_api_state(<<a>>) = "UNKNOWN" THEN {1} ELSE {}
    BY <2>4, <2>6 DEF UnknownPrefixes
  <2>9. Cardinality({1}) = 1 /\ Cardinality({}) = 0
    BY FS_Singleton, FS_EmptySet
  <2>10. QED
    BY <1>1, <2>1, <2>2, <2>7, <2>8, <2>9 DEF AccountInv
<1>4. CASE Extend
  <2>1. PICK C \in CandidateSets : \E a \in get_random_candidate(drv, C) :
          /\ drv' = Append(drv, a)
          /\ pc' = IF calc_api_state(Append(drv, a)) = "UNKNOWN" /\ left = 0 THEN "built" ELSE "grow"
          /\ left' = IF calc_api_state(Append(drv, a)) = "UNKNOWN" /\ left > 0 THEN left - 1 ELSE left
    BY <1>4 DEF Extend
  <2>2. PICK a \in get_random_candidate(drv, C) :
          /\ drv' = Append(drv, a)
          /\ pc' = IF calc_api_state(Append(drv, a)) = "UNKNOWN" /\ left = 0 THEN "built" ELSE "grow"
          /\ left' = IF calc_api_state(Append(drv, a)) = "UNKNOWN" /\ left > 0 THEN left - 1 ELSE left
    BY <2>1
  <2>3. pc = "grow" /\ UNCHANGED history
    BY <1>4 DEF Extend, Growing
  <2>4. a \in Apis /\ calc_api_state(Append(drv, a)) # "NEGATIVE"
    BY <2>3, DrawnCandidate DEF IInv, GrowInv
  <2> DEFINE n == Len(drv) + 1
             unknown == calc_api_state(drv') = "UNKNOWN"
  <2>5. /\ UnknownPrefixes' = UnknownPrefixes \cup IF unknown THEN {n} ELSE {}
        /\ NegativePrefixes' = NegativePrefixes
        /\ \A k \in 1..Len(drv) : drv'[k] = drv[k]
        /\ IsFiniteSet(UnknownPrefixes) /\ n \notin UnknownPrefixes /\ Cardinality(UnknownPrefixes) \in Nat
    BY <1>1, <2>2, <2>3, <2>4, PrefixesGrow
  <2>6. Cardinality(UnknownPrefixes') = Cardinality(UnknownPrefixes) + IF unknown THEN 1 ELSE 0
    <3>1. Cardinality(UnknownPrefixes \cup {n}) = Cardinality(UnknownPrefixes) + 1
      BY <2>5, FS_AddElement
    <3>2. CASE unknown
      BY <2>5, <3>1, <3>2
    <3>3. CASE ~unknown
      BY <2>5, <3>3
    <3>4. QED
      BY <3>2, <3>3
  <2>7. \A k \in NegativePrefixes' : k > 1 /\ drv'[k] \in SourceApi
    BY <2>3, <2>5 DEF AccountInv, NegativePrefixes
  <2>8. Cardinality(UnknownPrefixes) + left <= number_of_unknown
    BY <2>3 DEF AccountInv
  <2>9. pc' = "grow" => Cardinality(UnknownPrefixes') + left' <= number_of_unknown
    BY <1>1, <2>2, <2>5, <2>6, <2>8
  <2>10. Cardinality(UnknownPrefixes') <= number_of_unknown + 1
    BY <1>1, <2>5, <2>6, <2>8
  <2>11. QED
    BY <1>1, <2>7, <2>9, <2>10 DEF AccountInv
<1>5. CASE NewChain
  <2>1. PICK a \in get_random_candidate(<<>>, source_candidates) : drv' = Append(drv, a)
    BY <1>5 DEF NewChain
  <2>2. pc = "grow" /\ pc' = "grow" /\ UNCHANGED history /\ left > 0 /\ left' = left - 1
    BY <1>5 DEF NewChain, Growing
  <2>3. a \in Apis /\ a \in SourceApi
    BY DrawnSource DEF IInv, TypeOK
  <2> DEFINE n == Len(drv) + 1
             own == calc_api_state(drv')
  <2>4. /\ UnknownPrefixes' = UnknownPrefixes \cup IF own = "UNKNOWN" THEN {n} ELSE {}
        /\ NegativePrefixes' = NegativePrefixes \cup IF own = "NEGATIVE" THEN {n} ELSE {}
        /\ \A k \in 1..Len(drv) : drv'[k] = drv[k]
        /\ drv'[n] = a
        /\ IsFiniteSet(UnknownPrefixes) /\ n \notin UnknownPrefixes /\ Cardinality(UnknownPrefixes) \in Nat
    BY <1>1, <2>1, <2>2, <2>3, PrefixesGrow
  <2>5. Cardinality(UnknownPrefixes') \in Nat /\ Cardinality(UnknownPrefixes') <= Cardinality(UnknownPrefixes) + 1
    <3>1. Cardinality(UnknownPrefixes \cup {n}) = Cardinality(UnknownPrefixes) + 1
      BY <2>4, FS_AddElement
    <3>2. CASE own = "UNKNOWN"
      BY <2>4, <3>1, <3>2
    <3>3. CASE own # "UNKNOWN"
      BY <2>4, <3>3
    <3>4. QED
      BY <3>2, <3>3
  <2>6. drv # <<>> /\ n > 1
    BY <1>1, <2>2 DEF IInv, GrowInv
  <2>7. \A k \in NegativePrefixes' : k > 1 /\ drv'[k] \in SourceApi
    BY <2>2, <2>3, <2>4, <2>6 DEF AccountInv, NegativePrefixes
  <2>8. Cardinality(UnknownPrefixes') + left' <= number_of_unknown
    BY <1>1, <2>2, <2>4, <2>5 DEF AccountInv
  <2>9. QED
    BY <1>1, <2>2, <2>7, <2>8 DEF AccountInv
<1>6. CASE BeginRaises \/ BeginUnsat \/ ExtendRaises \/ StopChain \/ NewChainUnsat \/ SizeReached
  <2>1. UNCHANGED <<history, drv, left>>
    BY <1>6 DEF BeginRaises, BeginUnsat, ExtendRaises, StopChain, NewChainUnsat, SizeReached
  <2>2. pc' \in {"raised", "exited"} \/ (pc = "grow" /\ pc' = "built")
    BY <1>6 DEF BeginRaises, BeginUnsat, ExtendRaises, StopChain, NewChainUnsat, SizeReached, Growing
  <2>3. QED
    BY <1>2, <2>1, <2>2
<1>7. CASE NextDriver \/ StorePaths \/ TryAgain \/ EmitDriver \/ CompileFails \/ KickFuzzing \/ NoVerdict
  BY <1>2, <1>7 DEF NextDriver, StorePaths, TryAgain, EmitDriver, CompileFails, KickFuzzing, NoVerdict
<1>8. CASE PushFeedback
  BY <1>8 DEF PushFeedback, AccountInv
<1>9. CASE cluster_drivers \/ NothingToDeepen \/ FuzzInDepth \/ EndDeep
  BY <1>9 DEF cluster_drivers, NothingToDeepen, FuzzInDepth, EndDeep, factoryVars, AccountInv
<1>10. CASE UNCHANGED vars
  BY <1>2, <1>10 DEF vars, factoryVars
<1>11. CASE Create
  BY <1>3, <1>4, <1>5, <1>6, <1>11 DEF Create, create_random_driver
<1>12. CASE Ended
  BY <1>10, <1>12 DEF Ended
<1>13. QED
  BY <1>7, <1>8, <1>9, <1>10, <1>11, <1>12 DEF Next, Step

\* create_random_driver spends at most number_of_unknown + 1 calls whose outcome is unknown, and runs through a
\* sequence known to fail only where it starts a new chain.
THEOREM Accounted == Spec => []PrefixesAccounted
<1>1. Init => AccountInv
  BY DEF Init, AccountInv
<1>2. IInv /\ AccountInv => PrefixesAccounted
  BY DEF AccountInv, PrefixesAccounted, UnknownPrefixes, NegativePrefixes
<1>3. QED
  BY <1>1, <1>2, AccountStep, Invariant, PTL DEF Spec
=============================================================================
