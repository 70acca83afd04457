------------------------------- MODULE Corpus -------------------------------
(***************************************************************************)
(* The corpus of one fuzzing process of the customised libFuzzer           *)
(* (custom-libfuzzer/fuzzer/FuzzerCorpus.h) and the loop that fills it     *)
(* (RunOne, MutateAndTestOne and the loading of seeds of FuzzerLoop.cpp).  *)
(*                                                                         *)
(* Every feature has an owner, the input that found it first or, with      *)
(* -shrink, a smaller one; an input that owns nothing any more is evicted  *)
(* and its file is removed.  -reduce_inputs puts a smaller input in the    *)
(* place of a larger one.  The entropic schedule counts how often rare     *)
(* features are met.  The corpus directory and the directory of feature    *)
(* files are what fork mode reads when the process is gone.                *)
(*                                                                         *)
(* Running an input is deterministic: feat gives its features, which are   *)
(* met in ascending order.  Energies are real numbers and left out: which  *)
(* of the inputs with a positive weight is drawn is any.  The weights are  *)
(* those of the last update of the distribution, which is put off.         *)
(***************************************************************************)
EXTENDS Integers, Sequences, FiniteSets

CONSTANTS Units,          \* inputs the mutator can produce
          Size,           \* their sizes
          Features,       \* features, as collected
          Worlds,         \* what the target may do: functions from inputs to sets of features
          FeatureSetSize, \* kFeatureSetSize
          Options,        \* settings to try: Shrink, ReduceInputs, KeepSeed, UniformDist, Entropic
          NumberOfRarestFeatures, FeatureFrequencyThreshold, MaxFreq,  \* MaxFreq is 0xFFFF
          MaxInputs       \* bound: inputs ever added

NoUnit == "empty"

ASSUME UnitsAssumption == NoUnit \notin Units /\ Size \in [Units -> Nat \ {0}]
ASSUME FeaturesAssumption == Features \subseteq Nat /\ Worlds \subseteq [Units -> SUBSET Features]
                             /\ \A w \in Worlds, u \in Units : IsFiniteSet(w[u])
ASSUME FeatureSetSizeAssumption == FeatureSetSize \in Nat \ {0}
ASSUME OptionsAssumption ==
  Options \subseteq [Shrink : BOOLEAN, ReduceInputs : BOOLEAN, KeepSeed : BOOLEAN, UniformDist : BOOLEAN, Entropic : BOOLEAN]
ASSUME FrequencyAssumption ==
  NumberOfRarestFeatures \in Nat /\ FeatureFrequencyThreshold \in Nat /\ MaxFreq \in Nat \ {0}
ASSUME MaxInputsAssumption == MaxInputs \in Nat

VARIABLES feat, option,               \* the target and the settings of this run
          phase,                      \* "seeds" are loaded, then "fuzz"
          Inputs,                     \* the inputs, evicted ones too
          InputSizesPerFeature, SmallestElementPerFeature,
          Hashes,                     \* of the inputs that were added
          RareFeatures, GlobalFeatureFreqs, FreqOfMostAbundantRareFeature,
          DistributionNeedsUpdate,
          Weights,                    \* the inputs that CorpusDistribution may draw
          chosen,                     \* by MutateAndTestOne: the input to mutate and the one to cross over with
          cur,                        \* the run in hand
          files, featureFiles         \* OutputCorpus, FeaturesDir

ownership == <<InputSizesPerFeature, SmallestElementPerFeature>>
entropic == <<RareFeatures, GlobalFeatureFreqs, FreqOfMostAbundantRareFeature>>
schedule == <<DistributionNeedsUpdate, Weights, chosen>>
disk == <<files, featureFiles>>
world == <<feat, option>>
vars == <<world, phase, Inputs, ownership, Hashes, entropic, schedule, cur, disk>>

Slots == 0..(FeatureSetSize - 1)
Slot(f) == f % FeatureSetSize
NoFreqs == [s \in Slots |-> 0]

NoChoice == [base |-> 0, cross |-> 0]
Idle == [pc |-> "idle", u |-> NoUnit, todo |-> {}, f |-> 0, uniq |-> {}, updates |-> 0, base |-> 0, may |-> FALSE, force |-> FALSE]

Init ==
  /\ feat \in Worlds /\ option \in Options
  /\ phase = "seeds"
  /\ Inputs = <<>>
  /\ InputSizesPerFeature = [s \in Slots |-> 0] /\ SmallestElementPerFeature = [s \in Slots |-> 0]
  /\ Hashes = {}
  /\ RareFeatures = <<>> /\ GlobalFeatureFreqs = NoFreqs /\ FreqOfMostAbundantRareFeature = 0
  /\ DistributionNeedsUpdate = TRUE /\ Weights = {1} /\ chosen = NoChoice
  /\ cur = Idle
  /\ files = {} /\ featureFiles = [u \in Units |-> {}]

Pending == Len(Inputs) + 1     \* the index the running input would get
Live(i) == Inputs[i].u # NoUnit
-----------------------------------------------------------------------------
(* Which input runs next. *)

Run(u, base, may, force) ==
  /\ cur.pc = "idle"
  /\ Len(Inputs) < MaxInputs
  /\ cur' = [pc |-> "collect", u |-> u, todo |-> feat[u], f |-> 0, uniq |-> {}, updates |-> 0,
             base |-> base, may |-> may, force |-> force]

\* ReadAndExecuteSeedCorpora: one seed.
LoadSeed(u) ==
  /\ phase = "seeds"
  /\ Run(u, 0, FALSE, option.KeepSeed)
  /\ UNCHANGED <<world, phase, Inputs, ownership, Hashes, entropic, schedule, disk>>

\* Without an interesting seed the process exits.
SeedsLoaded ==
  /\ phase = "seeds" /\ cur.pc = "idle" /\ Inputs # <<>>
  /\ phase' = "fuzz"
  /\ UNCHANGED <<world, Inputs, ownership, Hashes, entropic, schedule, cur, disk>>

\* Only inputs that own features have a weight (an energy may make it zero; what is drawn is then one of
\* the others).  Without any the distribution has no defined result.
MutateChoices ==
  LET owners == {i \in DOMAIN Inputs : Inputs[i].num > 0}
  IN IF owners = {} THEN DOMAIN Inputs ELSE owners

Refresh == DistributionNeedsUpdate' = FALSE /\ Weights' = MutateChoices

\* Mutant of UpdateCorpusDistribution: its early return has an "or" for the "and".
UpdateCorpusDistributionSeldom == Refresh \/ UNCHANGED <<DistributionNeedsUpdate, Weights>>

\* Without a need the entropic schedule updates at random, the other one never.
UpdateCorpusDistribution ==
  \/ (DistributionNeedsUpdate \/ option.Entropic) /\ Refresh
  \/ ~DistributionNeedsUpdate /\ UNCHANGED <<DistributionNeedsUpdate, Weights>>

\* MutateAndTestOne: first the input to mutate is drawn ...
ChooseUnitToMutate(i) ==
  /\ phase = "fuzz" /\ cur.pc = "idle" /\ chosen.base = 0
  /\ UpdateCorpusDistribution
  /\ i \in Weights'
  /\ chosen' = [chosen EXCEPT !.base = i]
  /\ UNCHANGED <<world, phase, Inputs, ownership, Hashes, entropic, cur, disk>>

\* ... then the one to cross over with (-cross_over is on), a second draw with another chance of an update ...
ChooseUnitToCrossOverWith(j) ==
  /\ cur.pc = "idle" /\ chosen.base # 0 /\ chosen.cross = 0
  /\ \/ option.UniformDist /\ UNCHANGED <<DistributionNeedsUpdate, Weights>>
     \/ ~option.UniformDist /\ UpdateCorpusDistribution /\ j \in Weights'
  /\ chosen' = [chosen EXCEPT !.cross = j]
  /\ UNCHANGED <<world, phase, Inputs, ownership, Hashes, entropic, cur, disk>>

\* ... and up to MutateDepth mutations run, until one of them is added or replaces its base.
Mutate(u) ==
  /\ chosen.cross # 0
  /\ Run(u, chosen.base, TRUE, FALSE)
  /\ UNCHANGED <<world, phase, Inputs, ownership, Hashes, entropic, schedule, disk>>

\* RereadOutputCorpus, between two calls of MutateAndTestOne: a file that another process wrote.
Reload(u) ==
  /\ phase = "fuzz" /\ chosen = NoChoice /\ u \notin Hashes
  /\ Run(u, 0, FALSE, FALSE)
  /\ files' = files \cup {u}
  /\ UNCHANGED <<world, phase, Inputs, ownership, Hashes, entropic, schedule, featureFiles>>
-----------------------------------------------------------------------------
(* RunOne: for every feature AddFeature, then UpdateFeatureFrequency.  cur.pc is *)
(* the place in that loop; nothing else runs in the meantime.                    *)

Idx == Slot(cur.f)

\* The next feature.
NextFeature ==
  /\ cur.pc = "collect" /\ cur.todo # {}
  /\ \E f \in cur.todo :
       /\ \A g \in cur.todo : f <= g
       /\ cur' = [cur EXCEPT !.pc = "add", !.f = f, !.todo = @ \ {f}]
  /\ UNCHANGED <<world, phase, Inputs, ownership, Hashes, entropic, schedule, disk>>

\* Mutant of Take: NumUpdatedFeatures counts new features only.
TakeUncounted ==
  /\ SmallestElementPerFeature' = [SmallestElementPerFeature EXCEPT ![Idx] = Pending]
  /\ InputSizesPerFeature' = [InputSizesPerFeature EXCEPT ![Idx] = Size[cur.u]]
  /\ cur' = [cur EXCEPT !.pc = "freq", !.uniq = @ \cup {cur.f}, !.updates = @ + (IF InputSizesPerFeature[Idx] = 0 THEN 1 ELSE 0)]

\* The running input becomes the owner of the feature.
Take ==
  /\ SmallestElementPerFeature' = [SmallestElementPerFeature EXCEPT ![Idx] = Pending]
  /\ InputSizesPerFeature' = [InputSizesPerFeature EXCEPT ![Idx] = Size[cur.u]]
  /\ cur' = [cur EXCEPT !.pc = "freq", !.uniq = @ \cup {cur.f}, !.updates = @ + 1]

Shrinks == option.Shrink /\ InputSizesPerFeature[Idx] > Size[cur.u]

\* DeleteFile: the file of an input that a mutation brought.
FilesWithout(i) == IF Inputs[i].may THEN files \ {Inputs[i].u} ELSE files

\* Mutant of DeleteInput: an input with one feature left is evicted.
DeleteInputEarly(i) ==
  /\ Inputs' = [Inputs EXCEPT ![i].num = @ - 1, ![i].u = IF Inputs[i].num <= 2 THEN NoUnit ELSE @]
  /\ files' = IF Inputs[i].num <= 2 THEN FilesWithout(i) ELSE files
  /\ DistributionNeedsUpdate' = (DistributionNeedsUpdate \/ Inputs[i].num <= 2)

\* The owner of the feature loses it, and is deleted when it was the last one.
DeleteInput(i) ==
  /\ Inputs' = [Inputs EXCEPT ![i].num = @ - 1, ![i].u = IF Inputs[i].num = 1 THEN NoUnit ELSE @]
  /\ files' = IF Inputs[i].num = 1 THEN FilesWithout(i) ELSE files
  /\ DistributionNeedsUpdate' = (DistributionNeedsUpdate \/ Inputs[i].num = 1)

\* AddFeature for a feature that has an owner.
AddKnownFeature ==
  /\ cur.pc = "add" /\ InputSizesPerFeature[Idx] > 0
  /\ \/ Shrinks /\ DeleteInput(SmallestElementPerFeature[Idx]) /\ Take
     \/ ~Shrinks /\ cur' = [cur EXCEPT !.pc = "freq"] /\ UNCHANGED <<Inputs, files, ownership, DistributionNeedsUpdate>>
  /\ UNCHANGED <<world, phase, Hashes, entropic, Weights, chosen, featureFiles>>

\* AddFeature for a new feature, AddRareFeature included: as long as there are too many rare
\* features, and the most frequent of them is above the threshold, one is removed ...
TooManyRare ==
  /\ Len(RareFeatures) > NumberOfRarestFeatures
  /\ FreqOfMostAbundantRareFeature > FeatureFrequencyThreshold

Freq(k) == GlobalFeatureFreqs[RareFeatures[k]]

\* The scan of the loop: a frequency at least as high as all before is the highest so far, and the
\* one that was the highest until then is the second (MostAbundantRareFeatureIndices).
Highest(k, upto) ==
  /\ k <= upto
  /\ \A j \in 1..upto : IF j <= k THEN Freq(j) <= Freq(k) ELSE Freq(j) < Freq(k)
IsMostAbundant(k) == Highest(k, Len(RareFeatures))
IsSecondMostAbundant(k, most) == IF most = 1 THEN k = 1 ELSE Highest(k, most - 1)

WithoutFreq(i, slot) == [Inputs[i] EXCEPT !.freqs[slot] = 0]

\* Mutant of ForgetFreq: the counts of the inputs stay.
ForgetFreqNever(slot) == Inputs

\* DeleteFeatureFreq for every input.
ForgetFreq(slot) == [i \in DOMAIN Inputs |-> WithoutFreq(i, slot)]

TrimRareFeatures ==
  /\ cur.pc = "add" /\ InputSizesPerFeature[Idx] = 0
  /\ option.Entropic /\ TooManyRare
  /\ \E most, second \in DOMAIN RareFeatures :
       /\ IsMostAbundant(most) /\ IsSecondMostAbundant(second, most)
       /\ RareFeatures' = [k \in 1..(Len(RareFeatures) - 1) |->
                            RareFeatures[IF k = most THEN Len(RareFeatures) ELSE k]]
       /\ Inputs' = ForgetFreq(RareFeatures[most])
       /\ FreqOfMostAbundantRareFeature' = Freq(second)
  /\ UNCHANGED <<world, phase, ownership, Hashes, GlobalFeatureFreqs, schedule, cur, disk>>

\* ... and then the new one is added.
AddNewFeature ==
  /\ cur.pc = "add" /\ InputSizesPerFeature[Idx] = 0
  /\ \/ /\ option.Entropic /\ ~TooManyRare
        /\ RareFeatures' = Append(RareFeatures, Idx)
        /\ GlobalFeatureFreqs' = [GlobalFeatureFreqs EXCEPT ![Idx] = 0]
        /\ Inputs' = ForgetFreq(Idx)
        /\ DistributionNeedsUpdate' = TRUE
     \/ /\ ~option.Entropic
        /\ UNCHANGED <<RareFeatures, GlobalFeatureFreqs, Inputs, DistributionNeedsUpdate>>
  /\ Take
  /\ UNCHANGED <<world, phase, Hashes, FreqOfMostAbundantRareFeature, Weights, chosen, disk>>

IsRare(slot) == \E k \in DOMAIN RareFeatures : RareFeatures[k] = slot

Saturated == GlobalFeatureFreqs[Idx] = MaxFreq

\* UpdateFeatureFrequency: saturated; a feature that is not rare is counted globally only.
UpdateFeatureFrequency ==
  /\ cur.pc = "freq"
  /\ cur' = [cur EXCEPT !.pc = "collect"]
  /\ IF ~option.Entropic \/ Saturated
     THEN UNCHANGED <<Inputs, entropic>>
     ELSE LET freq == GlobalFeatureFreqs[Idx]
              counted == freq <= FreqOfMostAbundantRareFeature /\ IsRare(Idx)
          IN /\ GlobalFeatureFreqs' = [GlobalFeatureFreqs EXCEPT ![Idx] = @ + 1]
             /\ FreqOfMostAbundantRareFeature' =
                  FreqOfMostAbundantRareFeature + (IF counted /\ freq = FreqOfMostAbundantRareFeature THEN 1 ELSE 0)
             /\ Inputs' = IF counted /\ cur.base # 0 THEN [Inputs EXCEPT ![cur.base].freqs[Idx] = @ + 1] ELSE Inputs
             /\ UNCHANGED RareFeatures
  /\ UNCHANGED <<world, phase, ownership, Hashes, schedule, disk>>

\* The end of RunOne: with a new feature, or a seed that is kept, the input is added ...
AddToCorpus ==
  /\ cur.pc = "collect" /\ cur.todo = {}
  /\ cur.updates > 0 \/ cur.force
  /\ Inputs' = Append(Inputs, [u |-> cur.u, num |-> cur.updates, may |-> cur.may, never |-> cur.force,
                               uniq |-> cur.uniq, freqs |-> NoFreqs])
  /\ Hashes' = Hashes \cup {cur.u}
  /\ featureFiles' = IF cur.uniq = {} THEN featureFiles ELSE [featureFiles EXCEPT ![cur.u] = cur.uniq]
  /\ files' = IF cur.base = 0 THEN files ELSE files \cup {cur.u}
  /\ DistributionNeedsUpdate' = TRUE /\ chosen' = NoChoice
  /\ cur' = Idle
  /\ UNCHANGED <<world, phase, ownership, entropic, Weights>>

\* The mutation is smaller than the input it comes from and has all the features that one brought.
Reduces ==
  /\ cur.base # 0 /\ option.ReduceInputs /\ ~Inputs[cur.base].never
  /\ Inputs[cur.base].uniq # {} /\ Inputs[cur.base].uniq \subseteq feat[cur.u]
  /\ Live(cur.base) /\ Size[Inputs[cur.base].u] > Size[cur.u]

\* ... or it takes the place of its base (Replace, RenameFeatureSetFile), the file of which goes;
\* WriteToOutputCorpus writes the new one.
Replace ==
  /\ cur.pc = "collect" /\ cur.todo = {}
  /\ cur.updates = 0 /\ ~cur.force /\ Reduces
  /\ LET old == Inputs[cur.base].u
     IN /\ Inputs' = [Inputs EXCEPT ![cur.base].u = cur.u]
        /\ Hashes' = (Hashes \ {old}) \cup {cur.u}
        /\ featureFiles' = IF featureFiles[old] = {} THEN featureFiles
                           ELSE [featureFiles EXCEPT ![cur.u] = featureFiles[old], ![old] = {}]
  /\ files' = FilesWithout(cur.base) \cup {cur.u}
  /\ DistributionNeedsUpdate' = TRUE /\ chosen' = NoChoice
  /\ cur' = Idle
  /\ UNCHANGED <<world, phase, ownership, entropic, Weights>>

\* Nothing: the mutations of the chosen input go on, or end.
NothingNew ==
  /\ cur.pc = "collect" /\ cur.todo = {}
  /\ cur.updates = 0 /\ ~cur.force /\ ~Reduces
  /\ cur' = Idle
  /\ chosen' \in {chosen, NoChoice}
  /\ UNCHANGED <<world, phase, Inputs, ownership, Hashes, entropic, DistributionNeedsUpdate, Weights, disk>>
-----------------------------------------------------------------------------
RunOne == \/ NextFeature \/ AddKnownFeature \/ TrimRareFeatures \/ AddNewFeature \/ UpdateFeatureFrequency
          \/ AddToCorpus \/ Replace \/ NothingNew

Next ==
  \/ \E u \in Units : LoadSeed(u) \/ Reload(u) \/ Mutate(u)
  \/ \E i \in DOMAIN Inputs : ChooseUnitToMutate(i) \/ ChooseUnitToCrossOverWith(i)
  \/ SeedsLoaded
  \/ RunOne

Spec == Init /\ [][Next]_vars
-----------------------------------------------------------------------------
(* Properties. *)

InputInfo == [u : Units \cup {NoUnit}, num : Nat, may : BOOLEAN, never : BOOLEAN,
              uniq : SUBSET Features, freqs : [Slots -> Nat]]

Runs == [pc : {"idle", "collect", "add", "freq"}, u : Units \cup {NoUnit}, todo : SUBSET Features, f : Features \cup {0},
         uniq : SUBSET Features, updates : Nat, base : Nat, may : BOOLEAN, force : BOOLEAN]

CorpusTypeOK ==
  /\ feat \in Worlds /\ option \in Options /\ phase \in {"seeds", "fuzz"}
  /\ Inputs \in Seq(InputInfo)
  /\ InputSizesPerFeature \in [Slots -> Nat]
  /\ SmallestElementPerFeature \in [Slots -> Nat]
  /\ Hashes \subseteq Units
  /\ RareFeatures \in Seq(Slots) /\ GlobalFeatureFreqs \in [Slots -> 0..MaxFreq]
  /\ FreqOfMostAbundantRareFeature \in 0..MaxFreq
  /\ cur \in Runs /\ cur.base \in 0..Len(Inputs) /\ (cur.pc # "idle" => cur.u \in Units)
  /\ (cur.pc \in {"add", "freq"} => cur.f \in Features)
  /\ files \subseteq Units /\ featureFiles \in [Units -> SUBSET Features]

ScheduleTypeOK ==
  /\ DistributionNeedsUpdate \in BOOLEAN /\ Weights \subseteq Nat
  /\ chosen \in [base : 0..Len(Inputs), cross : 0..Len(Inputs)]

\* The variables keep their ranges: a run has a base that exists, and what was chosen exists.
TypeOK == CorpusTypeOK /\ ScheduleTypeOK

Owned(i) == {t \in Slots : InputSizesPerFeature[t] > 0 /\ SmallestElementPerFeature[t] = i}

\* What ValidateFeatureSet would check (its call is commented out): NumFeatures of an input counts
\* the features it owns, at every point of the loop that moves features from input to input.
NumFeaturesExact ==
  /\ \A i \in DOMAIN Inputs : Inputs[i].num = Cardinality(Owned(i))
  /\ cur.updates = Cardinality(Owned(Pending))

SlotsOf(u) == {Slot(f) : f \in feat[u]}

\* No feature is lost: the owner of a feature is an input that was not evicted, or the running one,
\* and it has the feature, however often it was reduced.
OwnersHaveFeatures ==
  \A t \in Slots : InputSizesPerFeature[t] > 0 =>
    LET i == SmallestElementPerFeature[t]
    IN \/ i \in DOMAIN Inputs /\ Live(i) /\ t \in SlotsOf(Inputs[i].u)
       \/ i = Pending /\ cur.pc # "idle" /\ t \in SlotsOf(cur.u)

\* assert(!II.U.empty()) of ChooseUnitToMutate and ChooseUnitToCrossOverWith, kept up from the draw
\* through all the mutations: although the distribution is updated late, what is drawn was not evicted,
\* unless -cross_over_uniform_dist draws among all the inputs.  And no input that owns features is
\* forgotten by the flag: when it has no weight yet, an update is due.
ChosenIsLive ==
  /\ cur.pc = "idle" /\ chosen.base # 0 => Live(chosen.base)
  /\ cur.pc = "idle" /\ chosen.cross # 0 /\ ~option.UniformDist => Live(chosen.cross)
  /\ DistributionNeedsUpdate \/ \A i \in DOMAIN Inputs : Inputs[i].num > 0 => i \in Weights

\* The recorded size of a feature is never below the size of its owner (a reduction makes the owner
\* smaller and leaves the record): with -shrink a feature only moves to a smaller input.
RecordedSizes ==
  \A t \in Slots : InputSizesPerFeature[t] > 0 /\ SmallestElementPerFeature[t] \in DOMAIN Inputs =>
    Size[Inputs[SmallestElementPerFeature[t]].u] <= InputSizesPerFeature[t]

\* An input counts rare features only, and each of them once: UpdateEnergy subtracts the number of
\* its counts from the number of rare features, in an unsigned type.
LocalFreqsAreRare ==
  /\ \A j, k \in DOMAIN RareFeatures : RareFeatures[j] = RareFeatures[k] => j = k
  /\ \A i \in DOMAIN Inputs, t \in Slots : Inputs[i].freqs[t] > 0 => IsRare(t) /\ Inputs[i].freqs[t] <= GlobalFeatureFreqs[t]
=============================================================================
