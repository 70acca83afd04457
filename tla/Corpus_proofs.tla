--------------------------- MODULE Corpus_proofs ----------------------------
(***************************************************************************)
(* Proofs about Corpus, for every set of inputs and features, every target *)
(* and every setting of the options.  CorpusInv adds to the properties     *)
(* what they rest on: an input has the features it brought, and they       *)
(* account for all it owns; what the running input took has its size; a    *)
(* rare feature has an owner.  ScheduleInv is about the cached             *)
(* distribution: its weights are those of now unless an update is due, and *)
(* what was drawn lives until the run in hand takes a feature.  There is   *)
(* one lemma per action and invariant.                                     *)
(***************************************************************************)
EXTENDS Corpus, FiniteSetTheorems, TLAPS

\* The run in hand: its features are features of the input that runs.
RunInv ==
  /\ cur.pc = "idle" => cur = Idle
  /\ cur.pc # "idle" => cur.uniq \cup cur.todo \subseteq feat[cur.u]
  /\ cur.pc \in {"add", "freq"} => cur.f \in feat[cur.u]

\* An input that was not evicted has the features it brought, and owns no others.
UniqInv ==
  /\ \A i \in DOMAIN Inputs : Live(i) => Inputs[i].uniq \subseteq feat[Inputs[i].u]
  /\ \A i \in DOMAIN Inputs : \A t \in Owned(i) : \E f \in Inputs[i].uniq : Slot(f) = t
  /\ \A t \in Owned(Pending) : \E f \in cur.uniq : Slot(f) = t

\* Every owner exists.
OwnersExist ==
  \A t \in Slots : InputSizesPerFeature[t] > 0 =>
    \/ SmallestElementPerFeature[t] \in DOMAIN Inputs /\ Live(SmallestElementPerFeature[t])
    \/ SmallestElementPerFeature[t] = Pending /\ cur.pc # "idle"

\* What the running input took has its size.
PendingSize == \A t \in Owned(Pending) : InputSizesPerFeature[t] = Size[cur.u]

\* A rare feature has an owner.
RareOwned == \A k \in DOMAIN RareFeatures : InputSizesPerFeature[RareFeatures[k]] > 0

\* An input is evicted only when another one takes over.
EvictedHasHeir == \A i \in DOMAIN Inputs : ~Live(i) => \E t \in Slots : InputSizesPerFeature[t] > 0

OwnerInv == NumFeaturesExact /\ UniqInv /\ OwnersExist /\ PendingSize /\ RecordedSizes /\ EvictedHasHeir
FreqInv == LocalFreqsAreRare /\ RareOwned

CorpusInv == CorpusTypeOK /\ RunInv /\ OwnerInv /\ FreqInv

\* The weights are those of now, unless an update is due.
WeightsCurrent == ~DistributionNeedsUpdate => Weights = MutateChoices

\* A chosen input is not evicted as long as the running one has taken nothing.
ChosenKept ==
  /\ chosen.base # 0 /\ cur.updates = 0 => Live(chosen.base)
  /\ chosen.cross # 0 /\ cur.updates = 0 /\ ~option.UniformDist => Live(chosen.cross)

ScheduleInv == ScheduleTypeOK /\ WeightsCurrent /\ ChosenKept

IInv == CorpusInv /\ ScheduleInv
-----------------------------------------------------------------------------
(* Facts about slots, sequences and counts. *)

\* A feature is mapped to a slot.
LEMMA SlotType == ASSUME NEW f \in Features PROVE Slot(f) \in Slots
BY FeaturesAssumption, FeatureSetSizeAssumption DEF Slot, Slots

\* The input with index i is a record, and the indices are 1..Len(Inputs).
LEMMA InputType ==
  ASSUME CorpusTypeOK
  PROVE  /\ DOMAIN Inputs = 1..Len(Inputs) /\ Len(Inputs) \in Nat
         /\ \A i \in DOMAIN Inputs : Inputs[i] \in InputInfo
BY DEF CorpusTypeOK

\* A sequence stays one when its elements are replaced.
LEMMA SameLength ==
  ASSUME NEW S, NEW T, NEW q \in Seq(S), NEW r, r = [i \in DOMAIN q |-> r[i]], \A i \in DOMAIN q : r[i] \in T
  PROVE  r \in Seq(T) /\ Len(r) = Len(q) /\ DOMAIN r = DOMAIN q
<1>1. Len(q) \in Nat /\ DOMAIN q = 1..Len(q)
  OBVIOUS
<1>2. r \in [1..Len(q) -> T]
  BY <1>1
<1> QED
  BY <1>1, <1>2

\* What an input owns is a finite set.
LEMMA OwnedFinite ==
  ASSUME NEW i
  PROVE  IsFiniteSet(Owned(i)) /\ Cardinality(Owned(i)) \in Nat
<1>1. IsFiniteSet(Slots)
  BY FS_Interval, FeatureSetSizeAssumption DEF Slots
<1>2. Owned(i) \in SUBSET Slots
  BY DEF Owned
<1> QED
  BY <1>1, <1>2, FS_Subset, FS_CardinalityType

\* An input owns something if and only if its count is positive.
LEMMA OwnedCount ==
  ASSUME NEW i
  PROVE  Cardinality(Owned(i)) = 0 <=> Owned(i) = {}
BY OwnedFinite, FS_EmptySet

\* The running input has a positive size.
LEMMA RunSize == ASSUME CorpusTypeOK, cur.pc # "idle" PROVE cur.u \in Units /\ Size[cur.u] \in Nat \ {0} /\ cur.u # NoUnit
BY UnitsAssumption DEF CorpusTypeOK
-----------------------------------------------------------------------------
(* The actions. *)

LEMMA InitInv == ASSUME Init PROVE CorpusInv
<1> USE DEF Init, Slots, NoFreqs, Idle
<1>1. CorpusTypeOK
  BY FrequencyAssumption DEF CorpusTypeOK, Runs
<1>2. DOMAIN Inputs = {} /\ \A i : Owned(i) = {}
  BY DEF Owned
<1>3. cur.updates = Cardinality(Owned(Pending))
  BY <1>2, FS_EmptySet
<1>4. OwnerInv
  BY <1>2, <1>3 DEF OwnerInv, NumFeaturesExact, UniqInv, OwnersExist, PendingSize, RecordedSizes, EvictedHasHeir
<1> QED
  BY <1>1, <1>2, <1>4 DEF CorpusInv, RunInv, FreqInv, LocalFreqsAreRare, RareOwned

\* A step that leaves the corpus alone, and of the run at most its place and the features to come.
LEMMA CorpusKept ==
  ASSUME CorpusInv, UNCHANGED <<world, Inputs, ownership, entropic>>,
         cur'.uniq = cur.uniq, cur'.updates = cur.updates,
         cur.pc # "idle" => cur'.pc # "idle" /\ cur'.u = cur.u
  PROVE  OwnerInv' /\ FreqInv'
<1> USE DEF CorpusInv, world, ownership, entropic
<1>1. FreqInv'
  BY DEF FreqInv, LocalFreqsAreRare, RareOwned, IsRare
<1>2. Pending' = Pending /\ \A i : Owned(i)' = Owned(i)
  BY DEF Pending, Owned
<1>3. Owned(Pending) # {} => cur.pc # "idle"
  BY InputType DEF OwnerInv, OwnersExist, Owned, Pending
<1>4. PendingSize'
  BY <1>2, <1>3 DEF OwnerInv, PendingSize
<1>5. NumFeaturesExact' /\ UniqInv'
  BY <1>2 DEF OwnerInv, NumFeaturesExact, UniqInv, Live
<1>6. OwnersExist' /\ RecordedSizes' /\ EvictedHasHeir'
  BY <1>2 DEF OwnerInv, OwnersExist, RecordedSizes, EvictedHasHeir, Live
<1> QED
  BY <1>1, <1>4, <1>5, <1>6 DEF OwnerInv

\* A run starts.
LEMMA RunStarts ==
  ASSUME CorpusInv, NEW u \in Units, NEW base \in 0..Len(Inputs), NEW may \in BOOLEAN, NEW force \in BOOLEAN,
         Run(u, base, may, force), phase' = phase, files' \subseteq Units,
         UNCHANGED <<world, Inputs, ownership, Hashes, entropic, featureFiles>>
  PROVE  CorpusInv'
<1> USE DEF CorpusInv
<1>1. cur = Idle
  BY DEF Run, RunInv
<1>2. OwnerInv' /\ FreqInv'
  BY <1>1, CorpusKept DEF Run, Idle
<1>3. feat[u] \subseteq Features
  BY FeaturesAssumption DEF CorpusTypeOK
<1>4. CorpusTypeOK'
  BY <1>3 DEF CorpusTypeOK, Run, Runs, world, ownership, entropic
<1>5. RunInv'
  BY DEF Run, RunInv, world
<1> QED
  BY <1>2, <1>4, <1>5

LEMMA LoadSeedInv == ASSUME CorpusInv, NEW u \in Units, LoadSeed(u) PROVE CorpusInv'
<1>1. option.KeepSeed \in BOOLEAN /\ 0 \in 0..Len(Inputs)
  BY InputType, OptionsAssumption DEF CorpusInv, CorpusTypeOK
<1>2. files' \subseteq Units
  BY DEF LoadSeed, CorpusInv, CorpusTypeOK, disk
<1> QED
  BY <1>1, <1>2, RunStarts DEF LoadSeed, disk

LEMMA ReloadInv == ASSUME CorpusInv, NEW u \in Units, Reload(u) PROVE CorpusInv'
<1>1. 0 \in 0..Len(Inputs)
  BY InputType DEF CorpusInv
<1>2. files' \subseteq Units
  BY DEF Reload, CorpusInv, CorpusTypeOK
<1> QED
  BY <1>1, <1>2, RunStarts DEF Reload

LEMMA MutateInv == ASSUME CorpusInv, ScheduleTypeOK, NEW u \in Units, Mutate(u) PROVE CorpusInv'
<1>1. chosen.base \in 0..Len(Inputs)
  BY DEF ScheduleTypeOK
<1>2. files' \subseteq Units
  BY DEF Mutate, CorpusInv, CorpusTypeOK, disk
<1> QED
  BY <1>1, <1>2, RunStarts DEF Mutate, disk

\* Drawing changes nothing but the schedule.
LEMMA DrawInv ==
  ASSUME CorpusInv, UNCHANGED <<world, phase, Inputs, ownership, Hashes, entropic, cur, disk>>
  PROVE  CorpusInv'
<1>1. OwnerInv' /\ FreqInv'
  BY CorpusKept
<1>2. CorpusTypeOK' /\ RunInv'
  BY DEF CorpusInv, CorpusTypeOK, RunInv, world, ownership, entropic, disk
<1> QED
  BY <1>1, <1>2 DEF CorpusInv

LEMMA SeedsLoadedInv == ASSUME CorpusInv, SeedsLoaded PROVE CorpusInv'
<1>1. OwnerInv' /\ FreqInv'
  BY CorpusKept DEF SeedsLoaded
<1>2. CorpusTypeOK' /\ RunInv'
  BY DEF CorpusInv, SeedsLoaded, CorpusTypeOK, RunInv, world, ownership, entropic, disk
<1> QED
  BY <1>1, <1>2 DEF CorpusInv

LEMMA NextFeatureInv == ASSUME CorpusInv, NextFeature PROVE CorpusInv'
<1> USE DEF CorpusInv
<1>1. PICK f \in cur.todo : cur' = [cur EXCEPT !.pc = "add", !.f = f, !.todo = @ \ {f}]
  BY DEF NextFeature
<1>2. OwnerInv' /\ FreqInv'
  BY <1>1, CorpusKept DEF NextFeature, CorpusTypeOK, Runs
<1>3. cur' \in Runs /\ f \in Features
  BY <1>1 DEF CorpusTypeOK, Runs
<1>4. CorpusTypeOK'
  BY <1>1, <1>3 DEF NextFeature, CorpusTypeOK, Runs, world, ownership, entropic, disk
<1>5. RunInv'
  BY <1>1 DEF NextFeature, CorpusTypeOK, Runs, RunInv, world
<1> QED
  BY <1>2, <1>4, <1>5

LEMMA NothingNewInv == ASSUME CorpusInv, NothingNew PROVE CorpusInv'
<1> USE DEF CorpusInv
<1>0. cur' = Idle
  BY DEF NothingNew
<1>1. Owned(Pending) = {}
  BY OwnedCount DEF NothingNew, OwnerInv, NumFeaturesExact
<1>2. Pending' = Pending /\ \A i : Owned(i)' = Owned(i)
  BY DEF NothingNew, Pending, Owned, ownership
<1>3. OwnerInv'
  BY <1>0, <1>1, <1>2, FS_EmptySet DEF NothingNew, OwnerInv, NumFeaturesExact, UniqInv, OwnersExist,
     PendingSize, RecordedSizes, EvictedHasHeir, Live, Idle, Owned, ownership, world
<1>4. FreqInv'
  BY DEF NothingNew, FreqInv, LocalFreqsAreRare, RareOwned, IsRare, entropic, ownership
<1>5. CorpusTypeOK' /\ RunInv'
  BY <1>0, InputType DEF NothingNew, CorpusTypeOK, RunInv, Runs, Idle, world, ownership, entropic, disk
<1> QED
  BY <1>3, <1>4, <1>5

\* A step that only changes the counts of the entropic schedule leaves the ownership as it is.
LEMMA OwnersKept ==
  ASSUME CorpusInv, UNCHANGED <<world, ownership>>,
         DOMAIN Inputs' = DOMAIN Inputs, Len(Inputs') = Len(Inputs),
         \A i \in DOMAIN Inputs : Inputs'[i].u = Inputs[i].u /\ Inputs'[i].num = Inputs[i].num /\ Inputs'[i].uniq = Inputs[i].uniq,
         cur.pc # "idle", cur'.pc # "idle", cur'.u = cur.u, cur'.uniq = cur.uniq, cur'.updates = cur.updates
  PROVE  OwnerInv'
<1> USE DEF CorpusInv, OwnerInv, world, ownership
<1>1. Pending' = Pending /\ \A i : Owned(i)' = Owned(i)
  BY DEF Pending, Owned
<1>2. NumFeaturesExact' /\ UniqInv' /\ PendingSize'
  BY <1>1 DEF NumFeaturesExact, UniqInv, PendingSize, Live
<1>3. OwnersExist' /\ EvictedHasHeir'
  BY <1>1 DEF OwnersExist, EvictedHasHeir, Live
<1>4. RecordedSizes'
  BY DEF RecordedSizes
<1> QED
  BY <1>2, <1>3, <1>4

\* The running input takes over the slot of the feature in hand: it owns that slot, nobody else does.
LEMMA TakeOwned ==
  ASSUME CorpusInv, cur.pc = "add", Take, Len(Inputs') = Len(Inputs), SmallestElementPerFeature[Idx] # Pending \/ InputSizesPerFeature[Idx] = 0
  PROVE  /\ Idx \in Slots /\ Pending' = Pending
         /\ Owned(Pending)' = Owned(Pending) \cup {Idx}
         /\ cur'.updates = Cardinality(Owned(Pending)')
         /\ \A i : i # Pending => Owned(i)' = Owned(i) \ {Idx}
         /\ \A t \in Owned(Pending)' : InputSizesPerFeature'[t] = Size[cur.u]
         /\ \A t \in Owned(Pending)' : \E f \in cur'.uniq : Slot(f) = t
         /\ cur' \in Runs /\ cur'.pc = "freq" /\ cur'.u = cur.u /\ cur'.base = cur.base /\ cur'.f = cur.f
         /\ cur'.todo = cur.todo /\ cur'.uniq = cur.uniq \cup {cur.f}
<1> USE DEF CorpusInv
<1>1. cur.f \in Features /\ Idx \in Slots
  BY SlotType DEF CorpusTypeOK, Idx
<1>2. Pending' = Pending /\ Pending \in Nat
  BY InputType DEF Pending
<1>3. cur' \in Runs /\ cur'.pc = "freq" /\ cur'.u = cur.u /\ cur'.base = cur.base /\ cur'.f = cur.f
      /\ cur'.todo = cur.todo /\ cur'.uniq = cur.uniq \cup {cur.f} /\ cur'.updates = cur.updates + 1
  <2>1. cur' = [cur EXCEPT !.pc = "freq", !.uniq = cur.uniq \cup {cur.f}, !.updates = cur.updates + 1] /\ cur \in Runs
    BY DEF Take, CorpusTypeOK
  <2>2. cur.uniq \cup {cur.f} \in SUBSET Features /\ cur.updates + 1 \in Nat
    BY <1>1, <2>1 DEF Runs
  <2>3. cur' \in Runs
    BY <2>1, <2>2 DEF Runs
  <2>4. cur'.pc = "freq" /\ cur'.u = cur.u /\ cur'.base = cur.base /\ cur'.f = cur.f
        /\ cur'.todo = cur.todo /\ cur'.uniq = cur.uniq \cup {cur.f} /\ cur'.updates = cur.updates + 1
    BY <2>1 DEF Runs
  <2> QED
    BY <2>3, <2>4
<1>4. Size[cur.u] \in Nat \ {0}
  BY RunSize
<1>5. \A t \in Slots : /\ InputSizesPerFeature'[t] = IF t = Idx THEN Size[cur.u] ELSE InputSizesPerFeature[t]
                       /\ SmallestElementPerFeature'[t] = IF t = Idx THEN Pending ELSE SmallestElementPerFeature[t]
  BY DEF Take, CorpusTypeOK
<1>6. Owned(Pending)' = Owned(Pending) \cup {Idx} /\ Idx \notin Owned(Pending)
  BY <1>1, <1>2, <1>4, <1>5 DEF Owned
<1>7. \A i : i # Pending => Owned(i)' = Owned(i) \ {Idx}
  BY <1>1, <1>2, <1>4, <1>5 DEF Owned
<1>8. Cardinality(Owned(Pending)') = Cardinality(Owned(Pending)) + 1
  BY <1>6, OwnedFinite, FS_AddElement
<1>9. cur'.updates = Cardinality(Owned(Pending)')
  BY <1>3, <1>8 DEF OwnerInv, NumFeaturesExact
<1>10. \A t \in Owned(Pending)' : InputSizesPerFeature'[t] = Size[cur.u]
  BY <1>5, <1>6 DEF OwnerInv, PendingSize, Owned
<1>11. \A t \in Owned(Pending)' : \E f \in cur'.uniq : Slot(f) = t
  BY <1>3, <1>6 DEF OwnerInv, UniqInv, Idx
<1> QED
  BY <1>1, <1>2, <1>3, <1>6, <1>7, <1>9, <1>10, <1>11

\* The owner of a feature of larger size is an input, and not evicted.
LEMMA ShrunkOwner ==
  ASSUME CorpusInv, cur.pc = "add", InputSizesPerFeature[Idx] > 0, Shrinks
  PROVE  LET i == SmallestElementPerFeature[Idx]
         IN  i \in DOMAIN Inputs /\ Live(i) /\ i # Pending /\ Idx \in Owned(i) /\ Inputs[i].num > 0
<1> USE DEF CorpusInv
<1>1. Idx \in Slots
  BY SlotType DEF CorpusTypeOK, Idx
<1>2. SmallestElementPerFeature[Idx] # Pending
  BY <1>1, RunSize DEF OwnerInv, PendingSize, Owned, Shrinks, CorpusTypeOK
<1>3. SmallestElementPerFeature[Idx] \in DOMAIN Inputs /\ Live(SmallestElementPerFeature[Idx])
  BY <1>1, <1>2 DEF OwnerInv, OwnersExist
<1>4. Idx \in Owned(SmallestElementPerFeature[Idx])
  BY <1>1 DEF Owned
<1>5. Inputs[SmallestElementPerFeature[Idx]].num > 0
  BY <1>3, <1>4, OwnedCount, OwnedFinite DEF OwnerInv, NumFeaturesExact
<1> QED
  BY <1>2, <1>3, <1>4, <1>5

LEMMA AddKnownFeatureInv == ASSUME CorpusInv, AddKnownFeature PROVE CorpusInv'
<1> USE DEF CorpusInv
<1>1. CASE ~Shrinks
  <2>1. cur' = [cur EXCEPT !.pc = "freq"] /\ UNCHANGED <<world, phase, Hashes, entropic, featureFiles, Inputs, files, ownership>> /\ cur.pc = "add"
    BY <1>1 DEF AddKnownFeature
  <2>2. OwnerInv' /\ FreqInv'
    BY <2>1, CorpusKept DEF CorpusTypeOK, Runs
  <2>3. CorpusTypeOK'
    BY <2>1 DEF CorpusTypeOK, Runs, world, ownership, entropic
  <2>4. RunInv'
    BY <2>1 DEF CorpusTypeOK, Runs, RunInv, world
  <2> QED
    BY <2>2, <2>3, <2>4
<1>2. CASE Shrinks
  <2>0. PICK i : i = SmallestElementPerFeature[Idx]
    OBVIOUS
  <2>1. /\ cur.pc = "add" /\ InputSizesPerFeature[Idx] > 0 /\ DeleteInput(i) /\ Take
        /\ UNCHANGED <<world, phase, Hashes, entropic, featureFiles>>
    BY <1>2, <2>0 DEF AddKnownFeature
  <2>2. i \in DOMAIN Inputs /\ Live(i) /\ i # Pending /\ Idx \in Owned(i) /\ Inputs[i].num > 0
    BY <1>2, <2>0, <2>1, ShrunkOwner
  <2>3. Inputs[i] \in InputInfo /\ \A j \in DOMAIN Inputs : Inputs[j] \in InputInfo
    BY <2>2, InputType
  <2>4. /\ Inputs' = [Inputs EXCEPT ![i] = Inputs'[i]]
        /\ Inputs'[i] \in InputInfo
        /\ Inputs'[i].num = Inputs[i].num - 1
        /\ Inputs'[i].u = IF Inputs[i].num = 1 THEN NoUnit ELSE Inputs[i].u
        /\ Inputs'[i].uniq = Inputs[i].uniq /\ Inputs'[i].freqs = Inputs[i].freqs
    <3>1. Inputs'[i] = [Inputs[i] EXCEPT !.num = Inputs[i].num - 1,
                                        !.u = IF Inputs[i].num = 1 THEN NoUnit ELSE Inputs[i].u]
      BY <2>1, <2>2 DEF DeleteInput
    <3>2. Inputs' = [Inputs EXCEPT ![i] = Inputs'[i]]
      BY <2>1, <2>2 DEF DeleteInput
    <3>3. Inputs[i].num - 1 \in Nat /\ (IF Inputs[i].num = 1 THEN NoUnit ELSE Inputs[i].u) \in Units \cup {NoUnit}
      BY <2>2, <2>3 DEF InputInfo
    <3>4. Inputs'[i] \in InputInfo
      BY <2>3, <3>1, <3>3 DEF InputInfo
    <3>5. /\ Inputs'[i].num = Inputs[i].num - 1
          /\ Inputs'[i].u = IF Inputs[i].num = 1 THEN NoUnit ELSE Inputs[i].u
          /\ Inputs'[i].uniq = Inputs[i].uniq /\ Inputs'[i].freqs = Inputs[i].freqs
      BY <2>3, <3>1 DEF InputInfo
    <3> QED
      BY <3>2, <3>4, <3>5
  <2>5. Inputs' \in Seq(InputInfo) /\ Len(Inputs') = Len(Inputs) /\ DOMAIN Inputs' = DOMAIN Inputs
        /\ \A j \in DOMAIN Inputs : j # i => Inputs'[j] = Inputs[j]
    <3>1. \A j \in DOMAIN Inputs : Inputs'[j] \in InputInfo
      BY <2>2, <2>3, <2>4
    <3>2. Inputs' = [j \in DOMAIN Inputs |-> Inputs'[j]]
      BY <2>4
    <3> QED
      BY <2>4, <3>1, <3>2, SameLength DEF CorpusTypeOK
  <2>6. /\ Idx \in Slots /\ Pending' = Pending
        /\ Owned(Pending)' = Owned(Pending) \cup {Idx}
        /\ cur'.updates = Cardinality(Owned(Pending)')
        /\ \A j : j # Pending => Owned(j)' = Owned(j) \ {Idx}
        /\ \A t \in Owned(Pending)' : InputSizesPerFeature'[t] = Size[cur.u]
        /\ \A t \in Owned(Pending)' : \E f \in cur'.uniq : Slot(f) = t
        /\ cur' \in Runs /\ cur'.pc = "freq" /\ cur'.u = cur.u /\ cur'.base = cur.base /\ cur'.f = cur.f
        /\ cur'.todo = cur.todo /\ cur'.uniq = cur.uniq \cup {cur.f}
    BY <2>0, <2>1, <2>2, <2>5, TakeOwned
  <2>7. Size[cur.u] \in Nat \ {0} /\ Pending \in Nat
    BY <2>1, RunSize, InputType DEF Pending
  <2>8. InputSizesPerFeature' \in [Slots -> Nat] /\ SmallestElementPerFeature' \in [Slots -> Nat]
        /\ \A t \in Slots : /\ InputSizesPerFeature'[t] = IF t = Idx THEN Size[cur.u] ELSE InputSizesPerFeature[t]
                            /\ SmallestElementPerFeature'[t] = IF t = Idx THEN Pending ELSE SmallestElementPerFeature[t]
    BY <2>1, <2>7 DEF Take, CorpusTypeOK
  <2>9. files' \subseteq Units
    BY <2>1 DEF DeleteInput, FilesWithout, CorpusTypeOK
  <2>10. CorpusTypeOK'
    BY <2>1, <2>5, <2>6, <2>8, <2>9, RunSize DEF CorpusTypeOK, world, entropic
  <2>11. RunInv'
    BY <2>1, <2>6 DEF RunInv, world
  <2>12. NumFeaturesExact'
    <3>1. Cardinality(Owned(i)') = Cardinality(Owned(i)) - 1
      BY <2>2, <2>6, OwnedFinite, FS_RemoveElement
    <3>2. \A j \in DOMAIN Inputs : j # i => Owned(j)' = Owned(j)
      <4>1. \A j \in DOMAIN Inputs : j # Pending
        BY InputType DEF Pending
      <4>2. \A j : j # i => Idx \notin Owned(j)
        BY <2>0 DEF Owned
      <4> QED
        BY <2>6, <4>1, <4>2
    <3>3. Inputs'[i].num = Cardinality(Owned(i)')
      BY <2>2, <2>4, <3>1 DEF OwnerInv, NumFeaturesExact
    <3>4. \A j \in DOMAIN Inputs' : Inputs'[j].num = Cardinality(Owned(j)')
      BY <2>5, <3>2, <3>3 DEF OwnerInv, NumFeaturesExact
    <3> QED
      BY <2>6, <3>4 DEF NumFeaturesExact
  <2>13. UniqInv'
    <3>1. \A j \in DOMAIN Inputs' : Live(j)' => Inputs'[j].uniq \subseteq feat'[Inputs'[j].u]
      BY <2>1, <2>4, <2>5 DEF OwnerInv, UniqInv, Live, world
    <3>2. \A j \in DOMAIN Inputs' : \A t \in Owned(j)' : \E f \in Inputs'[j].uniq : Slot(f) = t
      BY <2>4, <2>5, <2>6, InputType DEF OwnerInv, UniqInv, Pending
    <3> QED
      BY <2>6, <3>1, <3>2 DEF UniqInv
  <2>14. OwnersExist'
    <3> SUFFICES ASSUME NEW t \in Slots, InputSizesPerFeature'[t] > 0
                 PROVE  \/ SmallestElementPerFeature'[t] \in DOMAIN Inputs' /\ Live(SmallestElementPerFeature[t])'
                        \/ SmallestElementPerFeature'[t] = Pending' /\ cur'.pc # "idle"
      BY DEF OwnersExist
    <3>1. CASE t = Idx
      BY <3>1, <2>6, <2>8
    <3>2. CASE t # Idx /\ SmallestElementPerFeature[t] = i
      <4>1. {Idx, t} \subseteq Owned(i) /\ Idx # t
        BY <2>2, <2>8, <3>2 DEF Owned
      <4>2. Cardinality(Owned(i)) # 1
        BY <4>1, OwnedFinite, FS_Singleton
      <4>3. Inputs'[i].u = Inputs[i].u
        BY <2>2, <2>4, <4>2 DEF OwnerInv, NumFeaturesExact
      <4> QED
        BY <2>2, <2>5, <2>8, <3>2, <4>3 DEF Live
    <3>3. CASE t # Idx /\ SmallestElementPerFeature[t] # i
      BY <3>3, <2>5, <2>6, <2>8 DEF OwnerInv, OwnersExist, Live
    <3> QED
      BY <3>1, <3>2, <3>3
  <2>15. PendingSize'
    BY <2>6 DEF PendingSize
  <2>16. RecordedSizes'
    <3> SUFFICES ASSUME NEW t \in Slots, InputSizesPerFeature'[t] > 0, SmallestElementPerFeature'[t] \in DOMAIN Inputs'
                 PROVE  Size[Inputs'[SmallestElementPerFeature'[t]].u] <= InputSizesPerFeature'[t]
      BY DEF RecordedSizes
    <3>1. t # Idx
      BY <2>5, <2>8, InputType DEF Pending
    <3>2. Live(SmallestElementPerFeature[t])'
      BY <2>5, <2>6, <2>14, InputType DEF OwnersExist, Pending
    <3>3. Inputs'[SmallestElementPerFeature[t]].u = Inputs[SmallestElementPerFeature[t]].u
      BY <2>4, <2>5, <2>8, <3>1, <3>2 DEF Live
    <3> QED
      BY <2>5, <2>8, <3>1, <3>3 DEF OwnerInv, RecordedSizes
  <2>17. EvictedHasHeir'
    BY <2>6, <2>7, <2>8 DEF EvictedHasHeir
  <2>18. FreqInv'
    <3>1. \A j \in DOMAIN Inputs : Inputs'[j].freqs = Inputs[j].freqs
      BY <2>4, <2>5
    <3>2. LocalFreqsAreRare'
      BY <2>1, <2>5, <3>1 DEF FreqInv, LocalFreqsAreRare, IsRare, entropic
    <3>3. RareOwned'
      <4>1. \A k \in DOMAIN RareFeatures : RareFeatures[k] \in Slots
        BY DEF CorpusTypeOK
      <4> QED
        BY <2>1, <2>7, <2>8, <4>1 DEF FreqInv, RareOwned, entropic
    <3> QED
      BY <3>2, <3>3 DEF FreqInv
  <2> QED
    BY <2>10, <2>11, <2>12, <2>13, <2>14, <2>15, <2>16, <2>17, <2>18 DEF OwnerInv
<1> QED
  BY <1>1, <1>2

\* A record of an input stays one when its counts are replaced.
LEMMA FreqsReplaced ==
  ASSUME NEW x \in InputInfo, NEW g \in [Slots -> Nat]
  PROVE  [x EXCEPT !.freqs = g] \in InputInfo
BY DEF InputInfo

LEMMA ForgetFreqType ==
  ASSUME CorpusInv, NEW t \in Slots, Inputs' = ForgetFreq(t)
  PROVE  /\ Inputs' \in Seq(InputInfo) /\ Len(Inputs') = Len(Inputs) /\ DOMAIN Inputs' = DOMAIN Inputs
         /\ \A i \in DOMAIN Inputs : /\ Inputs'[i].u = Inputs[i].u /\ Inputs'[i].num = Inputs[i].num
                                     /\ Inputs'[i].uniq = Inputs[i].uniq
                                     /\ Inputs'[i].freqs = [Inputs[i].freqs EXCEPT ![t] = 0]
                                     /\ Inputs[i].freqs \in [Slots -> Nat]
<1>1. \A i \in DOMAIN Inputs : Inputs[i] \in InputInfo
  BY InputType DEF CorpusInv
<1>2. \A i \in DOMAIN Inputs : Inputs'[i] = [Inputs[i] EXCEPT !.freqs = [Inputs[i].freqs EXCEPT ![t] = 0]]
  BY DEF ForgetFreq, WithoutFreq
<1>3. \A i \in DOMAIN Inputs : Inputs[i].freqs \in [Slots -> Nat] /\ [Inputs[i].freqs EXCEPT ![t] = 0] \in [Slots -> Nat]
  BY <1>1 DEF InputInfo
<1>4. \A i \in DOMAIN Inputs : Inputs'[i] \in InputInfo
  <2> SUFFICES ASSUME NEW i \in DOMAIN Inputs PROVE Inputs'[i] \in InputInfo
    OBVIOUS
  <2>1. Inputs[i] \in InputInfo /\ [Inputs[i].freqs EXCEPT ![t] = 0] \in [Slots -> Nat]
    BY <1>1, <1>3
  <2>2. [Inputs[i] EXCEPT !.freqs = [Inputs[i].freqs EXCEPT ![t] = 0]] \in InputInfo
    BY <2>1, FreqsReplaced
  <2> QED
    BY <1>2, <2>2
<1>5. Inputs' = [i \in DOMAIN Inputs |-> Inputs'[i]]
  BY DEF ForgetFreq
<1>6. Inputs' \in Seq(InputInfo) /\ Len(Inputs') = Len(Inputs) /\ DOMAIN Inputs' = DOMAIN Inputs
  BY <1>4, <1>5, SameLength DEF CorpusInv, CorpusTypeOK
<1>7. \A i \in DOMAIN Inputs : /\ Inputs'[i].u = Inputs[i].u /\ Inputs'[i].num = Inputs[i].num
                               /\ Inputs'[i].uniq = Inputs[i].uniq
                               /\ Inputs'[i].freqs = [Inputs[i].freqs EXCEPT ![t] = 0]
  BY <1>1, <1>2 DEF InputInfo
<1> QED
  BY <1>3, <1>6, <1>7

LEMMA TrimRareFeaturesInv == ASSUME CorpusInv, TrimRareFeatures PROVE CorpusInv'
<1> USE DEF CorpusInv
<1>1. PICK most, second \in DOMAIN RareFeatures :
        /\ RareFeatures' = [k \in 1..(Len(RareFeatures) - 1) |-> RareFeatures[IF k = most THEN Len(RareFeatures) ELSE k]]
        /\ Inputs' = ForgetFreq(RareFeatures[most])
        /\ FreqOfMostAbundantRareFeature' = Freq(second)
  BY DEF TrimRareFeatures
<1> DEFINE n == Len(RareFeatures)
<1>2. n \in Nat /\ DOMAIN RareFeatures = 1..n /\ most \in 1..n /\ \A k \in 1..n : RareFeatures[k] \in Slots
  <2>1. RareFeatures \in Seq(Slots)
    BY DEF CorpusTypeOK
  <2>2. n \in Nat /\ DOMAIN RareFeatures = 1..n /\ \A k \in 1..n : RareFeatures[k] \in Slots
    BY <2>1
  <2> QED
    BY <2>2, <1>1
<1>3. UNCHANGED <<world, phase, ownership, Hashes, GlobalFeatureFreqs, cur, disk>> /\ cur.pc = "add"
  BY DEF TrimRareFeatures
<1>4. /\ Inputs' \in Seq(InputInfo) /\ Len(Inputs') = Len(Inputs) /\ DOMAIN Inputs' = DOMAIN Inputs
      /\ \A i \in DOMAIN Inputs : /\ Inputs'[i].u = Inputs[i].u /\ Inputs'[i].num = Inputs[i].num
                                  /\ Inputs'[i].uniq = Inputs[i].uniq
                                  /\ Inputs'[i].freqs = [Inputs[i].freqs EXCEPT ![RareFeatures[most]] = 0]
                                  /\ Inputs[i].freqs \in [Slots -> Nat]
  BY <1>1, <1>2, ForgetFreqType
<1>5. RareFeatures' \in Seq(Slots) /\ DOMAIN RareFeatures' = 1..(n - 1)
      /\ \A k \in 1..(n - 1) : RareFeatures'[k] = RareFeatures[IF k = most THEN n ELSE k]
  <2>1. n - 1 \in Nat /\ \A k \in 1..(n - 1) : RareFeatures[IF k = most THEN n ELSE k] \in Slots
    BY <1>2
  <2> QED
    BY <1>1, <2>1
<1>6. Freq(second) \in 0..MaxFreq
  BY <1>2 DEF Freq, CorpusTypeOK
<1>7. CorpusTypeOK'
  BY <1>1, <1>3, <1>4, <1>5, <1>6 DEF CorpusTypeOK, world, ownership, disk
<1>8. RunInv'
  BY <1>3 DEF RunInv, world
<1>9. OwnerInv'
  BY <1>3, <1>4, OwnersKept
<1>10. \A j, k \in DOMAIN RareFeatures : RareFeatures[j] = RareFeatures[k] => j = k
  BY DEF FreqInv, LocalFreqsAreRare
<1>11. \A j, k \in 1..(n - 1) : RareFeatures'[j] = RareFeatures'[k] => j = k
  BY <1>2, <1>5, <1>10
<1>12. \A t \in Slots : IsRare(t) /\ t # RareFeatures[most] => IsRare(t)'
  <2> SUFFICES ASSUME NEW t \in Slots, NEW k \in 1..n, RareFeatures[k] = t, t # RareFeatures[most]
               PROVE  \E m \in 1..(n - 1) : RareFeatures'[m] = t
    BY <1>2, <1>5 DEF IsRare
  <2>1. CASE k = n
    BY <1>2, <1>5, <2>1
  <2>2. CASE k # n
    <3>0. k # most
      OBVIOUS
    <3>1. k \in 1..(n - 1)
      <4> HIDE DEF n
      <4> QED
        BY <1>2, <2>2
    <3>2. RareFeatures'[k] = RareFeatures[k]
      BY <1>5, <3>0, <3>1
    <3> QED
      BY <3>1, <3>2
  <2> QED
    BY <2>1, <2>2
<1>13. \A i \in DOMAIN Inputs, t \in Slots : Inputs'[i].freqs[t] > 0 => t # RareFeatures[most] /\ Inputs'[i].freqs[t] = Inputs[i].freqs[t]
  <2> SUFFICES ASSUME NEW i \in DOMAIN Inputs, NEW t \in Slots, Inputs'[i].freqs[t] > 0
               PROVE  t # RareFeatures[most] /\ Inputs'[i].freqs[t] = Inputs[i].freqs[t]
    OBVIOUS
  <2>1. Inputs'[i].freqs = [Inputs[i].freqs EXCEPT ![RareFeatures[most]] = 0] /\ Inputs[i].freqs \in [Slots -> Nat]
    BY <1>4
  <2>2. Inputs'[i].freqs[t] = IF t = RareFeatures[most] THEN 0 ELSE Inputs[i].freqs[t]
    BY <2>1
  <2> QED
    BY <2>2
<1>14. LocalFreqsAreRare'
  BY <1>3, <1>4, <1>5, <1>11, <1>12, <1>13 DEF FreqInv, LocalFreqsAreRare
<1>15. RareOwned'
  BY <1>2, <1>3, <1>5 DEF FreqInv, RareOwned, ownership
<1> QED
  BY <1>7, <1>8, <1>9, <1>14, <1>15 DEF FreqInv

LEMMA AddNewFeatureInv == ASSUME CorpusInv, AddNewFeature PROVE CorpusInv'
<1> USE DEF CorpusInv
<1>1. cur.pc = "add" /\ InputSizesPerFeature[Idx] = 0 /\ Take
      /\ UNCHANGED <<world, phase, Hashes, FreqOfMostAbundantRareFeature, disk>>
  BY DEF AddNewFeature
<1>2. Idx \in Slots
  BY <1>1, SlotType DEF CorpusTypeOK, Idx
<1>3. /\ Inputs' \in Seq(InputInfo) /\ Len(Inputs') = Len(Inputs) /\ DOMAIN Inputs' = DOMAIN Inputs
      /\ \A i \in DOMAIN Inputs : /\ Inputs'[i].u = Inputs[i].u /\ Inputs'[i].num = Inputs[i].num
                                  /\ Inputs'[i].uniq = Inputs[i].uniq
  <2>1. CASE Inputs' = ForgetFreq(Idx)
    BY <1>2, <2>1, ForgetFreqType
  <2>2. CASE Inputs' = Inputs
    BY <2>2 DEF CorpusTypeOK
  <2> QED
    BY <2>1, <2>2 DEF AddNewFeature
<1>4. /\ Idx \in Slots /\ Pending' = Pending
      /\ Owned(Pending)' = Owned(Pending) \cup {Idx}
      /\ cur'.updates = Cardinality(Owned(Pending)')
      /\ \A j : j # Pending => Owned(j)' = Owned(j) \ {Idx}
      /\ \A t \in Owned(Pending)' : InputSizesPerFeature'[t] = Size[cur.u]
      /\ \A t \in Owned(Pending)' : \E f \in cur'.uniq : Slot(f) = t
      /\ cur' \in Runs /\ cur'.pc = "freq" /\ cur'.u = cur.u /\ cur'.base = cur.base /\ cur'.f = cur.f
      /\ cur'.todo = cur.todo /\ cur'.uniq = cur.uniq \cup {cur.f}
  BY <1>1, <1>3, TakeOwned
<1>5. Size[cur.u] \in Nat \ {0} /\ Pending \in Nat /\ \A j \in DOMAIN Inputs : j # Pending
  BY <1>1, RunSize, InputType DEF Pending
<1>6. InputSizesPerFeature' \in [Slots -> Nat] /\ SmallestElementPerFeature' \in [Slots -> Nat]
      /\ \A t \in Slots : /\ InputSizesPerFeature'[t] = IF t = Idx THEN Size[cur.u] ELSE InputSizesPerFeature[t]
                          /\ SmallestElementPerFeature'[t] = IF t = Idx THEN Pending ELSE SmallestElementPerFeature[t]
  BY <1>1, <1>5 DEF Take, CorpusTypeOK
<1>7. RareFeatures' \in Seq(Slots) /\ GlobalFeatureFreqs' \in [Slots -> 0..MaxFreq]
  <2>1. RareFeatures \in Seq(Slots) /\ GlobalFeatureFreqs \in [Slots -> 0..MaxFreq] /\ 0 \in 0..MaxFreq
    BY FrequencyAssumption DEF CorpusTypeOK
  <2>2. CASE RareFeatures' = Append(RareFeatures, Idx) /\ GlobalFeatureFreqs' = [GlobalFeatureFreqs EXCEPT ![Idx] = 0]
    BY <1>2, <2>1, <2>2
  <2>3. CASE UNCHANGED <<RareFeatures, GlobalFeatureFreqs>>
    BY <2>1, <2>3
  <2> QED
    BY <2>2, <2>3 DEF AddNewFeature
<1>8. CorpusTypeOK'
  BY <1>1, <1>3, <1>4, <1>6, <1>7, RunSize DEF CorpusTypeOK, world, disk
<1>9. RunInv'
  BY <1>1, <1>4 DEF RunInv, world
<1>10. \A j \in DOMAIN Inputs : Owned(j)' = Owned(j)
  <2>1. \A j : Idx \notin Owned(j)
    BY <1>1 DEF Owned
  <2> QED
    BY <1>4, <1>5, <2>1
<1>11. NumFeaturesExact'
  BY <1>3, <1>4, <1>10 DEF OwnerInv, NumFeaturesExact
<1>12. UniqInv'
  BY <1>1, <1>3, <1>4, <1>10 DEF OwnerInv, UniqInv, Live, world
<1>13. OwnersExist'
  <2> SUFFICES ASSUME NEW t \in Slots, InputSizesPerFeature'[t] > 0
               PROVE  \/ SmallestElementPerFeature'[t] \in DOMAIN Inputs' /\ Live(SmallestElementPerFeature[t])'
                      \/ SmallestElementPerFeature'[t] = Pending' /\ cur'.pc # "idle"
    BY DEF OwnersExist
  <2>1. CASE t = Idx
    BY <2>1, <1>4, <1>6
  <2>2. CASE t # Idx
    <3>1. InputSizesPerFeature'[t] = InputSizesPerFeature[t] /\ SmallestElementPerFeature'[t] = SmallestElementPerFeature[t]
      BY <1>6, <2>2
    <3>2. \/ SmallestElementPerFeature[t] \in DOMAIN Inputs /\ Live(SmallestElementPerFeature[t])
          \/ SmallestElementPerFeature[t] = Pending
      BY <3>1 DEF OwnerInv, OwnersExist
    <3> QED
      BY <1>3, <1>4, <3>1, <3>2 DEF Live
  <2> QED
    BY <2>1, <2>2
<1>14. PendingSize'
  BY <1>4 DEF PendingSize
<1>15. RecordedSizes'
  BY <1>3, <1>5, <1>6 DEF OwnerInv, RecordedSizes
<1>16. EvictedHasHeir'
  BY <1>2, <1>5, <1>6 DEF EvictedHasHeir
<1>17. FreqInv'
  <2>0. \A k \in DOMAIN RareFeatures : RareFeatures[k] \in Slots /\ RareFeatures[k] # Idx
    BY <1>1 DEF CorpusTypeOK, FreqInv, RareOwned
  <2>1. CASE UNCHANGED <<RareFeatures, GlobalFeatureFreqs, Inputs>>
    <3>1. LocalFreqsAreRare'
      BY <2>1 DEF FreqInv, LocalFreqsAreRare, IsRare
    <3>2. RareOwned'
      BY <2>0, <2>1, <1>5, <1>6 DEF FreqInv, RareOwned
    <3> QED
      BY <3>1, <3>2 DEF FreqInv
  <2>2. CASE RareFeatures' = Append(RareFeatures, Idx) /\ GlobalFeatureFreqs' = [GlobalFeatureFreqs EXCEPT ![Idx] = 0]
             /\ Inputs' = ForgetFreq(Idx)
    <3> DEFINE n == Len(RareFeatures)
    <3>1. n \in Nat /\ DOMAIN RareFeatures = 1..n /\ DOMAIN RareFeatures' = 1..(n + 1)
          /\ RareFeatures'[n + 1] = Idx /\ \A k \in 1..n : RareFeatures'[k] = RareFeatures[k]
      BY <2>2, <1>2 DEF CorpusTypeOK
    <3>2. \A j, k \in DOMAIN RareFeatures' : RareFeatures'[j] = RareFeatures'[k] => j = k
      BY <2>0, <3>1 DEF FreqInv, LocalFreqsAreRare
    <3>3. \A t \in Slots : IsRare(t) => IsRare(t)'
      BY <3>1 DEF IsRare
    <3>4. \A i \in DOMAIN Inputs, t \in Slots : Inputs'[i].freqs[t] > 0 =>
            t # Idx /\ Inputs'[i].freqs[t] = Inputs[i].freqs[t] /\ GlobalFeatureFreqs'[t] = GlobalFeatureFreqs[t]
      <4>1. \A i \in DOMAIN Inputs : /\ Inputs'[i].freqs = [Inputs[i].freqs EXCEPT ![Idx] = 0]
                                     /\ Inputs[i].freqs \in [Slots -> Nat]
        BY <1>2, <2>2, ForgetFreqType
      <4>2. \A t \in Slots : GlobalFeatureFreqs'[t] = IF t = Idx THEN 0 ELSE GlobalFeatureFreqs[t]
        BY <2>2, <1>2 DEF CorpusTypeOK
      <4>3. \A i \in DOMAIN Inputs, t \in Slots : Inputs'[i].freqs[t] = IF t = Idx THEN 0 ELSE Inputs[i].freqs[t]
        BY <4>1
      <4> QED
        BY <4>2, <4>3
    <3>5. LocalFreqsAreRare'
      BY <1>3, <3>2, <3>3, <3>4 DEF FreqInv, LocalFreqsAreRare
    <3>6. RareOwned'
      BY <2>0, <3>1, <1>2, <1>5, <1>6 DEF FreqInv, RareOwned
    <3> QED
      BY <3>5, <3>6 DEF FreqInv
  <2> QED
    BY <2>1, <2>2 DEF AddNewFeature
<1> QED
  BY <1>8, <1>9, <1>11, <1>12, <1>13, <1>14, <1>15, <1>16, <1>17 DEF OwnerInv

LEMMA UpdateFeatureFrequencyInv == ASSUME CorpusInv, UpdateFeatureFrequency PROVE CorpusInv'
<1> USE DEF CorpusInv
<1>1. cur.pc = "freq" /\ cur' = [cur EXCEPT !.pc = "collect"] /\ UNCHANGED <<world, phase, ownership, Hashes, disk>>
  BY DEF UpdateFeatureFrequency
<1>2. cur \in Runs /\ cur' \in Runs /\ cur'.pc = "collect" /\ cur'.u = cur.u /\ cur'.uniq = cur.uniq /\ cur'.updates = cur.updates
      /\ cur'.todo = cur.todo /\ cur'.base = cur.base
  BY <1>1 DEF CorpusTypeOK, Runs
<1>3. Idx \in Slots
  BY <1>1, SlotType DEF CorpusTypeOK, Idx
<1>4. RunInv'
  BY <1>1, <1>2 DEF RunInv, world
<1>5. CASE UNCHANGED <<Inputs, entropic>>
  <2>1. OwnerInv' /\ FreqInv'
    BY <1>1, <1>2, <1>5, CorpusKept
  <2>2. CorpusTypeOK'
    BY <1>1, <1>2, <1>5 DEF CorpusTypeOK, world, ownership, entropic, disk
  <2> QED
    BY <1>4, <2>1, <2>2
<1>6. CASE ~Saturated /\ ~UNCHANGED <<Inputs, entropic>>
  <2> DEFINE freq == GlobalFeatureFreqs[Idx]
             counted == freq <= FreqOfMostAbundantRareFeature /\ IsRare(Idx)
  <2>1. /\ GlobalFeatureFreqs' = [GlobalFeatureFreqs EXCEPT ![Idx] = @ + 1]
        /\ FreqOfMostAbundantRareFeature' =
             FreqOfMostAbundantRareFeature + (IF counted /\ freq = FreqOfMostAbundantRareFeature THEN 1 ELSE 0)
        /\ Inputs' = IF counted /\ cur.base # 0 THEN [Inputs EXCEPT ![cur.base].freqs[Idx] = @ + 1] ELSE Inputs
        /\ UNCHANGED RareFeatures
    BY <1>6 DEF UpdateFeatureFrequency
  <2>2. freq \in 0..MaxFreq /\ freq # MaxFreq /\ FreqOfMostAbundantRareFeature \in 0..MaxFreq /\ MaxFreq \in Nat
    BY <1>3, <1>6, FrequencyAssumption DEF CorpusTypeOK, Saturated
  <2>3. GlobalFeatureFreqs' \in [Slots -> 0..MaxFreq]
        /\ \A t \in Slots : GlobalFeatureFreqs'[t] = IF t = Idx THEN freq + 1 ELSE GlobalFeatureFreqs[t]
    <3>1. GlobalFeatureFreqs \in [Slots -> 0..MaxFreq] /\ freq + 1 \in 0..MaxFreq
      BY <2>2 DEF CorpusTypeOK
    <3> QED
      BY <1>3, <2>1, <3>1
  <2>4. FreqOfMostAbundantRareFeature' \in 0..MaxFreq
    BY <2>1, <2>2
  <2>5. /\ Inputs' \in Seq(InputInfo) /\ Len(Inputs') = Len(Inputs) /\ DOMAIN Inputs' = DOMAIN Inputs
        /\ \A i \in DOMAIN Inputs : /\ Inputs'[i].u = Inputs[i].u /\ Inputs'[i].num = Inputs[i].num
                                    /\ Inputs'[i].uniq = Inputs[i].uniq
        /\ \A i \in DOMAIN Inputs, t \in Slots :
              \/ Inputs'[i].freqs[t] = Inputs[i].freqs[t]
              \/ t = Idx /\ IsRare(Idx) /\ Inputs'[i].freqs[t] = Inputs[i].freqs[t] + 1
    <3>1. CASE Inputs' = Inputs
      BY <3>1 DEF CorpusTypeOK
    <3>2. CASE counted /\ cur.base # 0
      <4>1. PICK b : b = cur.base
        OBVIOUS
      <4>2. b \in DOMAIN Inputs /\ Inputs[b] \in InputInfo /\ \A i \in DOMAIN Inputs : Inputs[i] \in InputInfo
        BY <3>2, <4>1, InputType DEF CorpusTypeOK
      <4>3. Inputs[b].freqs \in [Slots -> Nat] /\ [Inputs[b].freqs EXCEPT ![Idx] = Inputs[b].freqs[Idx] + 1] \in [Slots -> Nat]
        BY <1>3, <4>2 DEF InputInfo
      <4>4. Inputs'[b] = [Inputs[b] EXCEPT !.freqs = [Inputs[b].freqs EXCEPT ![Idx] = Inputs[b].freqs[Idx] + 1]]
        BY <2>1, <3>2, <4>1, <4>2
      <4>5. Inputs' = [i \in DOMAIN Inputs |-> Inputs'[i]] /\ \A i \in DOMAIN Inputs : i # b => Inputs'[i] = Inputs[i]
        BY <2>1, <3>2, <4>1, <4>2
      <4>6. Inputs'[b] \in InputInfo /\ Inputs'[b].u = Inputs[b].u /\ Inputs'[b].num = Inputs[b].num
            /\ Inputs'[b].uniq = Inputs[b].uniq
            /\ Inputs'[b].freqs = [Inputs[b].freqs EXCEPT ![Idx] = Inputs[b].freqs[Idx] + 1]
        BY <4>2, <4>3, <4>4 DEF InputInfo
      <4>7. \A i \in DOMAIN Inputs : Inputs'[i] \in InputInfo
        BY <4>2, <4>5, <4>6
      <4>8. Inputs' \in Seq(InputInfo) /\ Len(Inputs') = Len(Inputs) /\ DOMAIN Inputs' = DOMAIN Inputs
        BY <4>5, <4>7, SameLength DEF CorpusTypeOK
      <4>9. \A t \in Slots : Inputs'[b].freqs[t] = IF t = Idx THEN Inputs[b].freqs[t] + 1 ELSE Inputs[b].freqs[t]
        BY <4>3, <4>6
      <4> QED
        BY <3>2, <4>5, <4>6, <4>8, <4>9
    <3> QED
      BY <2>1, <3>1, <3>2
  <2>6. CorpusTypeOK'
    BY <1>1, <1>2, <2>1, <2>3, <2>4, <2>5 DEF CorpusTypeOK, world, ownership, disk
  <2>7. OwnerInv'
    BY <1>1, <1>2, <2>5, OwnersKept
  <2>8. LocalFreqsAreRare'
    <3>1. \A t \in Slots : IsRare(t)' = IsRare(t)
      BY <2>1 DEF IsRare
    <3> SUFFICES ASSUME NEW i \in DOMAIN Inputs, NEW t \in Slots, Inputs'[i].freqs[t] > 0
                 PROVE  IsRare(t) /\ Inputs'[i].freqs[t] <= GlobalFeatureFreqs'[t]
      BY <2>1, <2>5, <3>1 DEF FreqInv, LocalFreqsAreRare
    <3>2. Inputs[i].freqs[t] \in Nat /\ GlobalFeatureFreqs[t] \in Nat
      BY InputType DEF InputInfo, CorpusTypeOK
    <3>3. Inputs[i].freqs[t] > 0 => IsRare(t) /\ Inputs[i].freqs[t] <= GlobalFeatureFreqs[t]
      BY DEF FreqInv, LocalFreqsAreRare
    <3> QED
      BY <2>3, <2>5, <3>2, <3>3
  <2>9. RareOwned'
    BY <1>1, <2>1 DEF FreqInv, RareOwned, ownership
  <2> QED
    BY <1>4, <2>6, <2>7, <2>8, <2>9 DEF FreqInv
<1> QED
  BY <1>5, <1>6 DEF UpdateFeatureFrequency

LEMMA AddToCorpusInv == ASSUME CorpusInv, AddToCorpus PROVE CorpusInv'
<1> USE DEF CorpusInv
<1> DEFINE II == [u |-> cur.u, num |-> cur.updates, may |-> cur.may, never |-> cur.force, uniq |-> cur.uniq, freqs |-> NoFreqs]
<1>1. /\ cur.pc = "collect" /\ Inputs' = Append(Inputs, II) /\ Hashes' = Hashes \cup {cur.u} /\ cur' = Idle
      /\ featureFiles' = IF cur.uniq = {} THEN featureFiles ELSE [featureFiles EXCEPT ![cur.u] = cur.uniq]
      /\ files' = IF cur.base = 0 THEN files ELSE files \cup {cur.u}
      /\ UNCHANGED <<world, phase, ownership, entropic>>
  BY DEF AddToCorpus
<1>2. cur.u \in Units /\ Size[cur.u] \in Nat \ {0} /\ cur.u # NoUnit
  BY <1>1, RunSize
<1>3. II \in InputInfo
  BY <1>2 DEF CorpusTypeOK, Runs, InputInfo, NoFreqs
<1>4. Len(Inputs) \in Nat /\ DOMAIN Inputs = 1..Len(Inputs) /\ Pending \in Nat /\ Pending = Len(Inputs) + 1
  BY InputType DEF Pending
<1>5. /\ Inputs' \in Seq(InputInfo) /\ Len(Inputs') = Pending /\ DOMAIN Inputs' = 1..Pending
      /\ Inputs'[Pending] = II /\ \A i \in DOMAIN Inputs : Inputs'[i] = Inputs[i]
  BY <1>1, <1>3, <1>4 DEF CorpusTypeOK
<1>6. /\ Pending' = Pending + 1 /\ \A i : Owned(i)' = Owned(i)
  BY <1>1, <1>5 DEF Pending, Owned, ownership
<1>7. Owned(Pending + 1) = {}
  BY <1>4 DEF OwnerInv, OwnersExist, Owned
<1>8. CorpusTypeOK'
  BY <1>1, <1>2, <1>4, <1>5 DEF CorpusTypeOK, world, ownership, entropic, Idle, Runs
<1>9. RunInv'
  BY <1>1 DEF RunInv, Idle
<1>10. NumFeaturesExact'
  <2>1. cur'.updates = Cardinality(Owned(Pending + 1))
    BY <1>1, <1>7, FS_EmptySet DEF Idle
  <2>2. \A i \in DOMAIN Inputs' : Inputs'[i].num = Cardinality(Owned(i))
    BY <1>4, <1>5 DEF OwnerInv, NumFeaturesExact
  <2> QED
    BY <1>6, <2>1, <2>2 DEF NumFeaturesExact
<1>11. UniqInv'
  <2>1. \A i \in DOMAIN Inputs' : Live(i)' => Inputs'[i].uniq \subseteq feat'[Inputs'[i].u]
    BY <1>1, <1>4, <1>5 DEF OwnerInv, UniqInv, Live, world, RunInv
  <2>2. \A i \in DOMAIN Inputs' : \A t \in Owned(i)' : \E f \in Inputs'[i].uniq : Slot(f) = t
    BY <1>4, <1>5, <1>6 DEF OwnerInv, UniqInv
  <2> QED
    BY <1>6, <1>7, <2>1, <2>2 DEF UniqInv
<1>12. OwnersExist'
  <2> SUFFICES ASSUME NEW t \in Slots, InputSizesPerFeature'[t] > 0
               PROVE  SmallestElementPerFeature'[t] \in DOMAIN Inputs' /\ Live(SmallestElementPerFeature[t])'
    BY DEF OwnersExist
  <2>1. SmallestElementPerFeature'[t] = SmallestElementPerFeature[t] /\ InputSizesPerFeature'[t] = InputSizesPerFeature[t]
    BY <1>1 DEF ownership
  <2>2. \/ SmallestElementPerFeature[t] \in DOMAIN Inputs /\ Live(SmallestElementPerFeature[t])
        \/ SmallestElementPerFeature[t] = Pending
    BY <2>1 DEF OwnerInv, OwnersExist
  <2> QED
    BY <1>2, <1>4, <1>5, <2>1, <2>2 DEF Live
<1>13. PendingSize'
  BY <1>6, <1>7 DEF PendingSize
<1>14. RecordedSizes'
  <2> SUFFICES ASSUME NEW t \in Slots, InputSizesPerFeature[t] > 0, SmallestElementPerFeature[t] \in DOMAIN Inputs'
               PROVE  Size[Inputs'[SmallestElementPerFeature[t]].u] <= InputSizesPerFeature[t]
    BY <1>1 DEF RecordedSizes, ownership
  <2>1. CASE SmallestElementPerFeature[t] = Pending
    <3>1. InputSizesPerFeature[t] = Size[cur.u]
      BY <2>1 DEF OwnerInv, PendingSize, Owned
    <3> QED
      BY <1>2, <1>5, <2>1, <3>1
  <2>2. CASE SmallestElementPerFeature[t] \in DOMAIN Inputs
    BY <1>5, <2>2 DEF OwnerInv, RecordedSizes
  <2> QED
    BY <1>4, <1>5, <2>1, <2>2
<1>15. EvictedHasHeir'
  BY <1>1, <1>2, <1>4, <1>5 DEF OwnerInv, EvictedHasHeir, Live, ownership
<1>16. FreqInv'
  <2>1. \A t \in Slots : Inputs'[Pending].freqs[t] = 0
    BY <1>5 DEF NoFreqs
  <2>2. LocalFreqsAreRare'
    BY <1>1, <1>4, <1>5, <2>1 DEF FreqInv, LocalFreqsAreRare, IsRare, entropic
  <2>3. RareOwned'
    BY <1>1 DEF FreqInv, RareOwned, entropic, ownership
  <2> QED
    BY <2>2, <2>3 DEF FreqInv
<1> QED
  BY <1>8, <1>9, <1>10, <1>11, <1>12, <1>13, <1>14, <1>15, <1>16 DEF OwnerInv

LEMMA ReplaceInv == ASSUME CorpusInv, Replace PROVE CorpusInv'
<1> USE DEF CorpusInv
<1>0. PICK b : b = cur.base
  OBVIOUS
<1>1. /\ cur.pc = "collect" /\ cur.updates = 0 /\ Reduces
      /\ Inputs' = [Inputs EXCEPT ![b].u = cur.u]
      /\ Hashes' = (Hashes \ {Inputs[b].u}) \cup {cur.u}
      /\ featureFiles' = IF featureFiles[Inputs[b].u] = {} THEN featureFiles
                         ELSE [featureFiles EXCEPT ![cur.u] = featureFiles[Inputs[b].u], ![Inputs[b].u] = {}]
      /\ files' = FilesWithout(b) \cup {cur.u}
      /\ cur' = Idle /\ UNCHANGED <<world, phase, ownership, entropic>>
  BY <1>0 DEF Replace
<1>2. cur.u \in Units /\ Size[cur.u] \in Nat \ {0} /\ cur.u # NoUnit
  BY <1>1, RunSize
<1>3. b \in DOMAIN Inputs /\ Inputs[b] \in InputInfo /\ Live(b) /\ Inputs[b].uniq \subseteq feat[cur.u]
      /\ Size[Inputs[b].u] > Size[cur.u] /\ Inputs[b].u \in Units /\ Size[Inputs[b].u] \in Nat
  <2>1. b \in DOMAIN Inputs /\ Inputs[b] \in InputInfo
    BY <1>0, <1>1, InputType DEF CorpusTypeOK, Reduces
  <2>2. Live(b) /\ Inputs[b].uniq \subseteq feat[cur.u] /\ Size[Inputs[b].u] > Size[cur.u]
    BY <1>0, <1>1 DEF Reduces
  <2>3. Inputs[b].u \in Units
    BY <2>1, <2>2 DEF Live, InputInfo
  <2> QED
    BY <2>1, <2>2, <2>3, UnitsAssumption
<1>4. /\ Inputs'[b] \in InputInfo /\ Inputs'[b].u = cur.u /\ Inputs'[b].num = Inputs[b].num
      /\ Inputs'[b].uniq = Inputs[b].uniq /\ Inputs'[b].freqs = Inputs[b].freqs
  <2>1. Inputs'[b] = [Inputs[b] EXCEPT !.u = cur.u]
    BY <1>1, <1>3
  <2> QED
    BY <1>2, <1>3, <2>1 DEF InputInfo
<1>5. \A i \in DOMAIN Inputs : i # b => Inputs'[i] = Inputs[i]
  BY <1>1
<1>6. Inputs' \in Seq(InputInfo) /\ Len(Inputs') = Len(Inputs) /\ DOMAIN Inputs' = DOMAIN Inputs
  <2>1. Inputs' = [i \in DOMAIN Inputs |-> Inputs'[i]]
    BY <1>1
  <2>2. \A i \in DOMAIN Inputs : Inputs'[i] \in InputInfo
    BY <1>4, <1>5, InputType
  <2> QED
    BY <2>1, <2>2, SameLength DEF CorpusTypeOK
<1>7. Owned(Pending) = {}
  BY <1>1, OwnedCount DEF OwnerInv, NumFeaturesExact
<1>8. Pending' = Pending /\ \A i : Owned(i)' = Owned(i)
  BY <1>1, <1>6 DEF Pending, Owned, ownership
<1>9. files' \subseteq Units /\ Hashes' \subseteq Units /\ featureFiles' \in [Units -> SUBSET Features]
  <2>1. files' \subseteq Units /\ Hashes' \subseteq Units
    BY <1>1, <1>2 DEF FilesWithout, CorpusTypeOK
  <2>2. featureFiles \in [Units -> SUBSET Features] /\ featureFiles[Inputs[b].u] \in SUBSET Features
    BY <1>3 DEF CorpusTypeOK
  <2> QED
    BY <1>1, <2>1, <2>2
<1>10. CorpusTypeOK'
  <2>1. cur' \in Runs /\ cur'.pc = "idle" /\ cur'.base = 0
    BY <1>1 DEF Idle, Runs
  <2>2. cur'.base \in 0..Len(Inputs')
    BY <1>6, <2>1, InputType
  <2> QED
    BY <1>1, <1>6, <1>9, <2>1, <2>2 DEF CorpusTypeOK, world, ownership, entropic
<1>11. RunInv'
  BY <1>1 DEF RunInv, Idle
<1>12. NumFeaturesExact'
  <2>1. cur'.updates = Cardinality(Owned(Pending))
    BY <1>1, <1>7, FS_EmptySet DEF Idle
  <2>2. \A i \in DOMAIN Inputs' : Inputs'[i].num = Cardinality(Owned(i))
    BY <1>4, <1>5, <1>6 DEF OwnerInv, NumFeaturesExact
  <2> QED
    BY <1>8, <2>1, <2>2 DEF NumFeaturesExact
<1>13. UniqInv'
  <2>1. \A i \in DOMAIN Inputs' : Live(i)' => Inputs'[i].uniq \subseteq feat'[Inputs'[i].u]
    BY <1>1, <1>3, <1>4, <1>5, <1>6 DEF OwnerInv, UniqInv, Live, world
  <2>2. \A i \in DOMAIN Inputs' : \A t \in Owned(i)' : \E f \in Inputs'[i].uniq : Slot(f) = t
    BY <1>4, <1>5, <1>6, <1>8 DEF OwnerInv, UniqInv
  <2> QED
    BY <1>7, <1>8, <2>1, <2>2 DEF UniqInv
<1>14. \A i \in DOMAIN Inputs : Live(i) => Live(i)'
  BY <1>2, <1>4, <1>5 DEF Live
<1>15. OwnersExist'
  <2> SUFFICES ASSUME NEW t \in Slots, InputSizesPerFeature'[t] > 0
               PROVE  SmallestElementPerFeature'[t] \in DOMAIN Inputs' /\ Live(SmallestElementPerFeature[t])'
    BY DEF OwnersExist
  <2>1. SmallestElementPerFeature'[t] = SmallestElementPerFeature[t] /\ InputSizesPerFeature'[t] = InputSizesPerFeature[t]
    BY <1>1 DEF ownership
  <2>2. SmallestElementPerFeature[t] \in DOMAIN Inputs /\ Live(SmallestElementPerFeature[t])
    BY <2>1, <1>7 DEF OwnerInv, OwnersExist, Owned
  <2> QED
    BY <1>6, <1>14, <2>1, <2>2 DEF Live
<1>16. PendingSize'
  BY <1>7, <1>8 DEF PendingSize
<1>17. RecordedSizes'
  <2> SUFFICES ASSUME NEW t \in Slots, InputSizesPerFeature[t] > 0, SmallestElementPerFeature[t] \in DOMAIN Inputs
               PROVE  Size[Inputs'[SmallestElementPerFeature[t]].u] <= InputSizesPerFeature[t]
    BY <1>1, <1>6 DEF RecordedSizes, ownership
  <2>1. Size[Inputs[SmallestElementPerFeature[t]].u] <= InputSizesPerFeature[t] /\ InputSizesPerFeature[t] \in Nat
    BY DEF OwnerInv, RecordedSizes, CorpusTypeOK
  <2> QED
    BY <1>2, <1>3, <1>4, <1>5, <2>1
<1>18. EvictedHasHeir'
  BY <1>1, <1>6, <1>14 DEF OwnerInv, EvictedHasHeir, ownership
<1>19. FreqInv'
  <2>1. \A i \in DOMAIN Inputs : Inputs'[i].freqs = Inputs[i].freqs
    BY <1>4, <1>5
  <2>2. LocalFreqsAreRare'
    BY <1>1, <1>6, <2>1 DEF FreqInv, LocalFreqsAreRare, IsRare, entropic
  <2>3. RareOwned'
    BY <1>1 DEF FreqInv, RareOwned, entropic, ownership
  <2> QED
    BY <2>2, <2>3 DEF FreqInv
<1> QED
  BY <1>10, <1>11, <1>12, <1>13, <1>15, <1>16, <1>17, <1>18, <1>19 DEF OwnerInv
-----------------------------------------------------------------------------
(* The schedule. *)

\* Who may be drawn was not evicted: owners are there, and without owners nobody was ever evicted.
LEMMA ChoicesLive == ASSUME CorpusInv, cur.pc = "idle", NEW i \in MutateChoices PROVE i \in DOMAIN Inputs /\ Live(i)
<1>1. i \in DOMAIN Inputs
  BY DEF MutateChoices
<1>2. CASE Inputs[i].num > 0
  <2>1. Owned(i) # {}
    BY <1>1, <1>2, OwnedCount DEF CorpusInv, OwnerInv, NumFeaturesExact
  <2>2. i # Pending
    BY <1>1, InputType DEF CorpusInv, Pending
  <2> QED
    BY <2>1, <2>2 DEF CorpusInv, OwnerInv, OwnersExist, Owned
<1>3. CASE ~(Inputs[i].num > 0)
  <2>1. \A j \in DOMAIN Inputs : ~(Inputs[j].num > 0)
    BY <1>3 DEF MutateChoices
  <2>2. \A j \in DOMAIN Inputs : Owned(j) = {}
    BY <2>1, OwnedCount, OwnedFinite DEF CorpusInv, OwnerInv, NumFeaturesExact
  <2>3. \A t \in Slots : ~(InputSizesPerFeature[t] > 0)
    BY <2>2 DEF CorpusInv, OwnerInv, OwnersExist, Owned
  <2> QED
    BY <1>1, <2>3 DEF CorpusInv, OwnerInv, EvictedHasHeir
<1> QED
  BY <1>1, <1>2, <1>3

\* After UpdateCorpusDistribution, its early return included, the weights are those of now.
LEMMA UpdateIsCurrent ==
  ASSUME WeightsCurrent, UpdateCorpusDistribution
  PROVE  Weights' = MutateChoices /\ DistributionNeedsUpdate' = FALSE
BY DEF WeightsCurrent, UpdateCorpusDistribution, Refresh

LEMMA ChoicesSame == ASSUME UNCHANGED Inputs PROVE MutateChoices' = MutateChoices /\ \A i : Live(i)' = Live(i)
BY DEF MutateChoices, Live

LEMMA ChoicesAreInputs == ASSUME CorpusInv PROVE MutateChoices \subseteq Nat
<1>1. MutateChoices \subseteq DOMAIN Inputs
  BY DEF MutateChoices
<1>2. DOMAIN Inputs = 1..Len(Inputs) /\ Len(Inputs) \in Nat
  BY InputType DEF CorpusInv
<1> QED
  BY <1>1, <1>2

LEMMA ChooseUnitToMutateSchedule ==
  ASSUME CorpusInv, ScheduleInv, NEW i \in DOMAIN Inputs, ChooseUnitToMutate(i) PROVE ScheduleInv'
<1>1. /\ cur.pc = "idle" /\ UpdateCorpusDistribution /\ i \in Weights' /\ chosen' = [chosen EXCEPT !.base = i]
      /\ UNCHANGED <<Inputs, cur>> /\ option' = option
  BY DEF ChooseUnitToMutate, world
<1>2. Weights' = MutateChoices /\ DistributionNeedsUpdate' = FALSE
  BY <1>1, UpdateIsCurrent DEF ScheduleInv
<1>3. MutateChoices' = MutateChoices /\ \A k : Live(k)' = Live(k)
  BY <1>1, ChoicesSame
<1>4. DOMAIN Inputs = 1..Len(Inputs) /\ Len(Inputs) \in Nat
  BY InputType DEF CorpusInv
<1>5. chosen \in [base : 0..Len(Inputs), cross : 0..Len(Inputs)]
  BY DEF ScheduleInv, ScheduleTypeOK
<1>6. chosen'.base = i /\ chosen'.cross = chosen.cross /\ chosen' \in [base : 0..Len(Inputs), cross : 0..Len(Inputs)]
  BY <1>1, <1>4, <1>5
<1>7. ScheduleTypeOK'
  BY <1>1, <1>2, <1>6, ChoicesAreInputs DEF ScheduleTypeOK
<1>8. Live(i)
  BY <1>1, <1>2, ChoicesLive
<1>9. ChosenKept'
  BY <1>1, <1>3, <1>6, <1>8 DEF ChosenKept, ScheduleInv
<1> QED
  BY <1>2, <1>3, <1>7, <1>9 DEF ScheduleInv, WeightsCurrent

LEMMA ChooseUnitToCrossOverWithSchedule ==
  ASSUME CorpusInv, ScheduleInv, NEW j \in DOMAIN Inputs, ChooseUnitToCrossOverWith(j) PROVE ScheduleInv'
<1>1. /\ cur.pc = "idle" /\ chosen' = [chosen EXCEPT !.cross = j]
      /\ UNCHANGED <<Inputs, cur>> /\ option' = option
      /\ \/ option.UniformDist /\ UNCHANGED <<DistributionNeedsUpdate, Weights>>
         \/ ~option.UniformDist /\ UpdateCorpusDistribution /\ j \in Weights'
  BY DEF ChooseUnitToCrossOverWith, world
<1>2. MutateChoices' = MutateChoices /\ \A k : Live(k)' = Live(k)
  BY <1>1, ChoicesSame
<1>3. DOMAIN Inputs = 1..Len(Inputs) /\ Len(Inputs) \in Nat
  BY InputType DEF CorpusInv
<1>4. chosen \in [base : 0..Len(Inputs), cross : 0..Len(Inputs)]
  BY DEF ScheduleInv, ScheduleTypeOK
<1>5. chosen'.base = chosen.base /\ chosen'.cross = j /\ chosen' \in [base : 0..Len(Inputs), cross : 0..Len(Inputs)]
  BY <1>1, <1>3, <1>4
<1>6. CASE option.UniformDist /\ UNCHANGED <<DistributionNeedsUpdate, Weights>>
  <2>1. ScheduleTypeOK' /\ WeightsCurrent'
    BY <1>1, <1>2, <1>5, <1>6 DEF ScheduleInv, ScheduleTypeOK, WeightsCurrent
  <2>2. ChosenKept'
    BY <1>1, <1>2, <1>5, <1>6 DEF ScheduleInv, ChosenKept
  <2> QED
    BY <2>1, <2>2 DEF ScheduleInv
<1>7. CASE ~option.UniformDist /\ UpdateCorpusDistribution /\ j \in Weights'
  <2>1. Weights' = MutateChoices /\ DistributionNeedsUpdate' = FALSE
    BY <1>7, UpdateIsCurrent DEF ScheduleInv
  <2>2. Live(j)
    BY <1>1, <1>7, <2>1, ChoicesLive
  <2>3. ScheduleTypeOK'
    BY <1>1, <1>5, <2>1, ChoicesAreInputs DEF ScheduleTypeOK
  <2>4. ChosenKept'
    BY <1>1, <1>2, <1>5, <2>2 DEF ScheduleInv, ChosenKept
  <2> QED
    BY <1>2, <2>1, <2>3, <2>4 DEF ScheduleInv, WeightsCurrent
<1> QED
  BY <1>1, <1>6, <1>7

\* A step that moves no ownership keeps the schedule, also when the mutations of the chosen input end.
LEMMA ScheduleKept ==
  ASSUME CorpusInv, ScheduleInv, option' = option, UNCHANGED <<DistributionNeedsUpdate, Weights>>,
         chosen' \in {chosen, NoChoice},
         DOMAIN Inputs' = DOMAIN Inputs, Len(Inputs') = Len(Inputs),
         \A i \in DOMAIN Inputs : Inputs'[i].u = Inputs[i].u /\ Inputs'[i].num = Inputs[i].num,
         cur'.updates = 0 => cur.updates = 0
  PROVE  ScheduleInv'
<1>1. DOMAIN Inputs = 1..Len(Inputs) /\ Len(Inputs) \in Nat
  BY InputType DEF CorpusInv
<1>2. ScheduleTypeOK'
  BY <1>1 DEF ScheduleInv, ScheduleTypeOK, NoChoice
<1>3. MutateChoices' = MutateChoices
  BY DEF MutateChoices
<1>4. chosen \in [base : 0..Len(Inputs), cross : 0..Len(Inputs)]
  BY DEF ScheduleInv, ScheduleTypeOK
<1>5. \A i \in 1..Len(Inputs) : Live(i)' = Live(i)
  BY <1>1 DEF Live
<1>6. ChosenKept'
  BY <1>1, <1>4, <1>5 DEF ScheduleInv, ChosenKept, NoChoice
<1> QED
  BY <1>2, <1>3, <1>6 DEF ScheduleInv, WeightsCurrent

\* A step that adds or replaces asks for an update, and MutateAndTestOne leaves its loop.
LEMMA ScheduleReset ==
  ASSUME DistributionNeedsUpdate' = TRUE, Weights' = Weights, chosen' = NoChoice, Len(Inputs') \in Nat, ScheduleInv
  PROVE  ScheduleInv'
BY DEF ScheduleInv, ScheduleTypeOK, WeightsCurrent, ChosenKept, NoChoice

\* The running input took a feature: from now on the schedule is about what an update makes of it.
LEMMA ScheduleTaken ==
  ASSUME CorpusInv, ScheduleInv, Take, Len(Inputs') = Len(Inputs), UNCHANGED <<Weights, chosen>>,
         DistributionNeedsUpdate' \in BOOLEAN, ~DistributionNeedsUpdate' => ~DistributionNeedsUpdate /\ MutateChoices' = MutateChoices
  PROVE  ScheduleInv'
<1>1. cur \in Runs /\ cur'.updates = cur.updates + 1
  BY DEF CorpusInv, CorpusTypeOK, Take, Runs
<1>2. cur'.updates # 0
  BY <1>1 DEF Runs
<1> QED
  BY <1>2 DEF ScheduleInv, ScheduleTypeOK, WeightsCurrent, ChosenKept

LEMMA AddKnownFeatureSchedule == ASSUME CorpusInv, ScheduleInv, AddKnownFeature PROVE ScheduleInv'
<1>1. CASE ~Shrinks
  <2>1. cur'.updates = cur.updates /\ UNCHANGED <<Inputs, DistributionNeedsUpdate, Weights, chosen>> /\ option' = option
    BY <1>1 DEF AddKnownFeature, CorpusInv, CorpusTypeOK, Runs, world
  <2> QED
    BY <2>1, ScheduleKept
<1>2. CASE Shrinks
  <2>0. PICK i : i = SmallestElementPerFeature[Idx]
    OBVIOUS
  <2>1. cur.pc = "add" /\ InputSizesPerFeature[Idx] > 0 /\ DeleteInput(i) /\ Take /\ UNCHANGED <<Weights, chosen>>
    BY <1>2, <2>0 DEF AddKnownFeature
  <2>2. i \in DOMAIN Inputs /\ Inputs[i].num > 0 /\ Inputs[i].num \in Nat
    BY <1>2, <2>0, <2>1, ShrunkOwner, InputType DEF CorpusInv, InputInfo
  <2>3. /\ DOMAIN Inputs' = DOMAIN Inputs /\ Inputs'[i].num = Inputs[i].num - 1
        /\ \A j \in DOMAIN Inputs : j # i => Inputs'[j] = Inputs[j]
        /\ DistributionNeedsUpdate' = (DistributionNeedsUpdate \/ Inputs[i].num = 1)
    <3>1. Inputs[i] \in InputInfo
      BY <2>2, InputType DEF CorpusInv
    <3>2. Inputs'[i] = [Inputs[i] EXCEPT !.num = Inputs[i].num - 1,
                                        !.u = IF Inputs[i].num = 1 THEN NoUnit ELSE Inputs[i].u]
      BY <2>1, <2>2 DEF DeleteInput
    <3>3. Inputs'[i].num = Inputs[i].num - 1
      BY <3>1, <3>2 DEF InputInfo
    <3> QED
      BY <2>1, <2>2, <3>3 DEF DeleteInput
  <2>4. Len(Inputs') = Len(Inputs)
    <3>1. CorpusInv'
      BY AddKnownFeatureInv
    <3> QED
      BY <2>3, <3>1, InputType DEF CorpusInv, CorpusTypeOK
  <2>5. ~DistributionNeedsUpdate' => ~DistributionNeedsUpdate /\ MutateChoices' = MutateChoices
    <3> SUFFICES ASSUME ~DistributionNeedsUpdate' PROVE ~DistributionNeedsUpdate /\ MutateChoices' = MutateChoices
      OBVIOUS
    <3>1. ~DistributionNeedsUpdate /\ Inputs[i].num # 1
      BY <2>3
    <3>2. \A j \in DOMAIN Inputs : Inputs'[j].num > 0 <=> Inputs[j].num > 0
      BY <2>2, <2>3, <3>1
    <3> QED
      BY <2>3, <3>1, <3>2 DEF MutateChoices
  <2> QED
    BY <2>1, <2>3, <2>4, <2>5, ScheduleTaken DEF ScheduleInv, ScheduleTypeOK
<1> QED
  BY <1>1, <1>2

LEMMA AddNewFeatureSchedule == ASSUME CorpusInv, ScheduleInv, AddNewFeature PROVE ScheduleInv'
<1>1. Take /\ UNCHANGED <<Weights, chosen>>
  BY DEF AddNewFeature
<1>2. Idx \in Slots
  BY SlotType DEF AddNewFeature, CorpusInv, CorpusTypeOK, Idx
<1>3. CASE Inputs' = ForgetFreq(Idx) /\ DistributionNeedsUpdate' = TRUE
  BY <1>1, <1>2, <1>3, ForgetFreqType, ScheduleTaken
<1>4. CASE UNCHANGED <<Inputs, DistributionNeedsUpdate>>
  BY <1>1, <1>4, ChoicesSame, ScheduleTaken DEF ScheduleInv, ScheduleTypeOK
<1> QED
  BY <1>3, <1>4 DEF AddNewFeature

LEMMA TrimRareFeaturesSchedule == ASSUME CorpusInv, ScheduleInv, TrimRareFeatures PROVE ScheduleInv'
<1>1. PICK most \in DOMAIN RareFeatures : Inputs' = ForgetFreq(RareFeatures[most])
  BY DEF TrimRareFeatures
<1>2. RareFeatures[most] \in Slots
  BY DEF CorpusInv, CorpusTypeOK
<1>3. UNCHANGED <<cur, DistributionNeedsUpdate, Weights, chosen>> /\ option' = option
  BY DEF TrimRareFeatures, schedule, world
<1> QED
  BY <1>1, <1>2, <1>3, ForgetFreqType, ScheduleKept

LEMMA UpdateFeatureFrequencySchedule == ASSUME CorpusInv, ScheduleInv, UpdateFeatureFrequency PROVE ScheduleInv'
<1>1. cur'.updates = cur.updates /\ UNCHANGED <<DistributionNeedsUpdate, Weights, chosen>> /\ option' = option
  BY DEF UpdateFeatureFrequency, CorpusInv, CorpusTypeOK, Runs, schedule, world
<1>2. CASE UNCHANGED Inputs
  BY <1>1, <1>2, ScheduleKept
<1>3. CASE cur.base # 0 /\ Inputs' = [Inputs EXCEPT ![cur.base].freqs[Idx] = @ + 1]
  <2>1. \A i \in DOMAIN Inputs : Inputs[i] \in InputInfo
    BY InputType DEF CorpusInv
  <2>2. DOMAIN Inputs' = DOMAIN Inputs /\ \A i \in DOMAIN Inputs : Inputs'[i].u = Inputs[i].u /\ Inputs'[i].num = Inputs[i].num
    BY <1>3, <2>1 DEF InputInfo
  <2>3. Len(Inputs') = Len(Inputs)
    <3>1. CorpusInv'
      BY UpdateFeatureFrequencyInv
    <3> QED
      BY <2>2, <3>1, InputType DEF CorpusInv, CorpusTypeOK
  <2> QED
    BY <1>1, <2>2, <2>3, ScheduleKept
<1> QED
  BY <1>2, <1>3 DEF UpdateFeatureFrequency

LEMMA RunOneSchedule == ASSUME CorpusInv, ScheduleInv, RunOne PROVE ScheduleInv'
<1>1. ASSUME NextFeature PROVE ScheduleInv'
  <2>1. cur'.updates = cur.updates /\ UNCHANGED <<Inputs, DistributionNeedsUpdate, Weights, chosen>> /\ option' = option
    BY <1>1 DEF NextFeature, CorpusInv, CorpusTypeOK, Runs, schedule, world
  <2> QED
    BY <2>1, ScheduleKept
<1>2. ASSUME NothingNew PROVE ScheduleInv'
  <2>1. cur.updates = 0 /\ chosen' \in {chosen, NoChoice} /\ UNCHANGED <<Inputs, DistributionNeedsUpdate, Weights>> /\ option' = option
    BY <1>2 DEF NothingNew, world
  <2> QED
    BY <2>1, ScheduleKept
<1>3. ASSUME AddToCorpus \/ Replace PROVE ScheduleInv'
  <2>1. CorpusInv'
    BY <1>3, AddToCorpusInv, ReplaceInv
  <2>2. Len(Inputs') \in Nat
    BY <2>1 DEF CorpusInv, CorpusTypeOK
  <2> QED
    BY <1>3, <2>2, ScheduleReset DEF AddToCorpus, Replace
<1> QED
  BY <1>1, <1>2, <1>3, AddKnownFeatureSchedule, AddNewFeatureSchedule, TrimRareFeaturesSchedule, UpdateFeatureFrequencySchedule DEF RunOne

\* Between the runs: loading, reloading and the start of a mutation leave the schedule alone.
LEMMA StartSchedule ==
  ASSUME CorpusInv, ScheduleInv, UNCHANGED <<option, Inputs, schedule>>, cur.pc = "idle"
  PROVE  ScheduleInv'
<1>1. cur.updates = 0
  BY DEF CorpusInv, RunInv, Idle
<1> QED
  BY <1>1, ScheduleKept DEF schedule
-----------------------------------------------------------------------------
(* The theorems. *)

LEMMA InitSchedule == ASSUME Init PROVE IInv
<1>1. Inputs = <<>> /\ Len(Inputs) = 0
  BY DEF Init
<1>2. ScheduleInv
  BY <1>1 DEF Init, ScheduleInv, ScheduleTypeOK, WeightsCurrent, ChosenKept, NoChoice
<1> QED
  BY <1>2, InitInv DEF IInv

LEMMA NextInv == ASSUME IInv, [Next]_vars PROVE IInv'
<1> USE DEF IInv
<1>1. ASSUME UNCHANGED vars PROVE IInv'
  <2>1. CorpusInv'
    BY <1>1, DrawInv DEF vars
  <2>2. ScheduleInv'
    BY <1>1, ScheduleKept DEF vars, schedule, world
  <2> QED
    BY <2>1, <2>2
<1>2. ASSUME RunOne PROVE IInv'
  <2>1. CorpusInv'
    BY <1>2, NextFeatureInv, AddKnownFeatureInv, TrimRareFeaturesInv, AddNewFeatureInv, UpdateFeatureFrequencyInv,
       AddToCorpusInv, ReplaceInv, NothingNewInv DEF RunOne
  <2> QED
    BY <1>2, <2>1, RunOneSchedule
<1>3. ASSUME NEW u \in Units, LoadSeed(u) \/ Reload(u) \/ Mutate(u) PROVE IInv'
  <2>1. CorpusInv'
    BY <1>3, LoadSeedInv, ReloadInv, MutateInv DEF ScheduleInv
  <2>2. cur.pc = "idle" /\ UNCHANGED <<option, Inputs, schedule>>
    BY <1>3 DEF LoadSeed, Reload, Mutate, Run, world
  <2> QED
    BY <2>1, <2>2, StartSchedule
<1>4. ASSUME NEW i \in DOMAIN Inputs, ChooseUnitToMutate(i) \/ ChooseUnitToCrossOverWith(i) PROVE IInv'
  <2>1. CorpusInv'
    BY <1>4, DrawInv DEF ChooseUnitToMutate, ChooseUnitToCrossOverWith
  <2> QED
    BY <1>4, <2>1, ChooseUnitToMutateSchedule, ChooseUnitToCrossOverWithSchedule
<1>5. ASSUME SeedsLoaded PROVE IInv'
  <2>1. cur.pc = "idle" /\ UNCHANGED <<option, Inputs, schedule>>
    BY <1>5 DEF SeedsLoaded, world
  <2> QED
    BY <1>5, <2>1, SeedsLoadedInv, StartSchedule
<1> QED
  BY <1>1, <1>2, <1>3, <1>4, <1>5 DEF Next

THEOREM Inductive == Spec => []IInv
BY InitSchedule, NextInv, PTL DEF Spec

\* The variables keep their ranges: in particular no count of features falls below zero, as
\* assert(II.NumFeatures > 0) of AddFeature demands.
THEOREM TypeCorrect == Spec => []TypeOK
<1>1. IInv => TypeOK
  BY DEF IInv, CorpusInv, ScheduleInv, TypeOK
<1> QED
  BY <1>1, Inductive, PTL

\* NumFeatures counts what an input owns, at every point of AddFeature.
THEOREM CountsExact == Spec => []NumFeaturesExact
<1>1. IInv => NumFeaturesExact
  BY DEF IInv, CorpusInv, OwnerInv
<1> QED
  BY <1>1, Inductive, PTL

\* No feature of the corpus is lost to eviction, shrinking or reduction.
THEOREM FeaturesKept == Spec => []OwnersHaveFeatures
<1>1. IInv => OwnersHaveFeatures
  <2> SUFFICES ASSUME IInv, NEW t \in Slots, InputSizesPerFeature[t] > 0
               PROVE  LET i == SmallestElementPerFeature[t]
                      IN \/ i \in DOMAIN Inputs /\ Live(i) /\ t \in SlotsOf(Inputs[i].u)
                         \/ i = Pending /\ cur.pc # "idle" /\ t \in SlotsOf(cur.u)
    BY DEF OwnersHaveFeatures
  <2>1. t \in Owned(SmallestElementPerFeature[t])
    BY DEF Owned
  <2> QED
    BY <2>1 DEF IInv, CorpusInv, OwnerInv, OwnersExist, UniqInv, RunInv, SlotsOf
<1> QED
  BY <1>1, Inductive, PTL

\* Although the distribution is cached, what it draws for a mutation was not evicted, from the draw to
\* the last mutation; and no input that owns features is left out for longer than until the next draw.
THEOREM DrawnIsLive == Spec => []ChosenIsLive
<1>1. IInv => ChosenIsLive
  <2> SUFFICES ASSUME IInv PROVE ChosenIsLive
    OBVIOUS
  <2>1. cur.pc = "idle" => cur.updates = 0
    BY DEF IInv, CorpusInv, RunInv, Idle
  <2>2. ASSUME ~DistributionNeedsUpdate, NEW i \in DOMAIN Inputs, Inputs[i].num > 0 PROVE i \in Weights
    BY <2>2 DEF IInv, ScheduleInv, WeightsCurrent, MutateChoices
  <2> QED
    BY <2>1, <2>2 DEF ChosenIsLive, IInv, ScheduleInv, ChosenKept
<1> QED
  BY <1>1, Inductive, PTL

\* The recorded size of a feature is an upper bound of the size of its owner.
THEOREM SizesBound == Spec => []RecordedSizes
<1>1. IInv => RecordedSizes
  BY DEF IInv, CorpusInv, OwnerInv
<1> QED
  BY <1>1, Inductive, PTL

\* The counts of an input are about rare features, each of which is listed once.
THEOREM CountsAreRare == Spec => []LocalFreqsAreRare
<1>1. IInv => LocalFreqsAreRare
  BY DEF IInv, CorpusInv, FreqInv
<1> QED
  BY <1>1, Inductive, PTL
=============================================================================
