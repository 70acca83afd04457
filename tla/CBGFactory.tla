----------------------------- MODULE CBGFactory -----------------------------
(***************************************************************************)
(* The feedback-guided driver factory                                      *)
(* (framework/driver/factory/constraint_based_grammar/CBGFactory.py) and   *)
(* the biases it draws with (framework/bias).                              *)
(*                                                                         *)
(* The factory remembers, for every API sequence that was fuzzed, whether  *)
(* it behaved.  A new driver grows call by call along the dependency       *)
(* graph, avoids the sequences known as NEGATIVE, and stops once it took   *)
(* number_of_unknown + 1 calls whose outcome is unknown.                   *)
(*                                                                         *)
(* Abstracted: try_to_instantiate_api_call (module DriverContext) either   *)
(* finds values for all the arguments of a call or not, so the doable      *)
(* candidates are any subset of the allowed ones.  A driver is the         *)
(* sequence of its APIs; its last one is the local variable api_n.         *)
(***************************************************************************)
EXTENDS Integers, Sequences, FiniteSets, FiniteSetsExt

CONSTANTS Apis,             \* the APIs of the library
          SourceApi,        \* source_api: the ones that can begin a chain
          DepGraph,         \* dependency_graph: API -> the APIs that may follow
          DriverSize,       \* driver_size
          NumbersOfUnknown, \* the values of number_of_unknown
          Biases,           \* the values of bias: "none", "field_sum", "seed_number"
          NAst,             \* FBias.calc_ast: API -> number of its access types
          NamePrefix        \* <<a, b>>: the name of b starts with the name of a

ASSUME SourceApiAssumption == SourceApi \subseteq Apis /\ SourceApi # {}
ASSUME DepGraphAssumption == DepGraph \in [Apis -> SUBSET Apis]
ASSUME DriverSizeAssumption == DriverSize \in Nat \ {0}
ASSUME NumbersOfUnknownAssumption == NumbersOfUnknown \subseteq Nat
ASSUME BiasesAssumption == Biases \subseteq {"none", "field_sum", "seed_number"} /\ NAst \in [Apis -> Nat]
ASSUME NamePrefixAssumption == NamePrefix \subseteq Apis \X Apis /\ \A a \in Apis : <<a, a>> \in NamePrefix

VARIABLES number_of_unknown,  \* unknown calls that a driver may take beyond the first: the configuration
          bias,               \* which bias draws the candidates: the configuration
          history,  \* history_api_sequence: sequence -> [state, n_seeds]
          drv,      \* the driver under construction, then the one being fuzzed
          left,     \* left_accepted_unknown
          pc        \* control of the task: create_random_driver is in
                    \* "create", "grow" or "built", the rest is module Campaign

factoryVars == <<history, drv, left, pc>>

ApiSeqState == {"POSITIVE", "NEGATIVE", "UNKNOWN"}

\* calc_api_state of a driver, extended or not: UNKNOWN until it was fuzzed.
calc_api_state(s) == IF s \in DOMAIN history THEN history[s].state ELSE "UNKNOWN"

PrefixOf(s, n) == SubSeq(s, 1, n)

api_n == drv[Len(drv)]
-----------------------------------------------------------------------------
(* The biases.  Each operator is the set of the APIs that the draw may return; *)
(* it is empty when the draw raises: on an empty list, or when random.choices   *)
(* gets weights whose total is not positive.                                    *)

\* SBias.seeds_per_apiseq, which update_api_state keeps in step with the
\* history: -1 marks a NEGATIVE sequence.
seeds_per_apiseq(s) == IF history[s].state = "NEGATIVE" THEN -1 ELSE history[s].n_seeds

\* str.startswith on joined sequences: the last name of t may be a mere prefix.
StartsWith(s, t) ==
  /\ Len(t) <= Len(s)
  /\ \A i \in 1..(Len(t) - 1) : s[i] = t[i]
  /\ <<t[Len(t)], s[Len(t)]>> \in NamePrefix

\* SBias.calc_seeds: the mean over the longest recorded sequences that start
\* with t, as a fraction.
calc_seeds(t) ==
  LET ok_seq == {s \in DOMAIN history : StartsWith(s, t)}
      longest == {s \in ok_seq : ~\E l \in ok_seq : l # s /\ StartsWith(l, s)}
  IN  [num |-> MapThenSumSet(seeds_per_apiseq, longest), den |-> Cardinality(longest)]

\* Whether a sum of such fractions is positive.
TotalPositive(W) ==
  LET common == FoldSet(LAMBDA w, product : w[2].den * product, 1, W)
  IN  MapThenSumSet(LAMBDA w : w[2].num * (common \div w[2].den), W) > 0

\* SBias.get_random_candidate: the seed counts of the known sequences, and the
\* same total again shared by the unknown ones.  With a positive total any
\* candidate may come out (some weight may be negative, which random.choices
\* does not reject).
SBiasDraw(d, cand) ==
  LET positive == {a \in cand : Append(d, a) \in DOMAIN history /\ seeds_per_apiseq(Append(d, a)) # -1}
  IN  IF positive = {} \/ TotalPositive({<<a, calc_seeds(Append(d, a))>> : a \in positive})
        THEN cand
        ELSE {}

\* bias.get_random_candidate(driver, candidate_api).
get_random_candidate(d, cand) ==
  CASE bias = "none" -> cand
    [] bias = "field_sum" -> {a \in cand : NAst[a] > 0}
    [] bias = "seed_number" -> SBiasDraw(d, cand)
-----------------------------------------------------------------------------
\* Mutant of source_candidates: the NEGATIVE sources stay in the draw.
source_candidatesAll == SourceApi

\* The candidates of get_random_source_api: no source known as NEGATIVE.
source_candidates == {sa \in SourceApi : calc_api_state(<<sa>>) # "NEGATIVE"}

\* create_random_driver begins with a source API; a source never fuzzed before
\* makes a driver on its own.
BeginDriver ==
  /\ pc = "create"
  /\ \E a \in get_random_candidate(<<>>, source_candidates) :
       /\ drv' = <<a>>
       /\ pc' = IF calc_api_state(<<a>>) = "UNKNOWN" THEN "built" ELSE "grow"
  /\ left' = number_of_unknown
  /\ UNCHANGED history

\* The draw of the first source raises.
BeginRaises ==
  /\ pc = "create"
  /\ get_random_candidate(<<>>, source_candidates) = {}
  /\ pc' = "raised"
  /\ UNCHANGED <<history, drv, left>>

\* "Cannot instantiate the first function [first]": exit(1).
BeginUnsat ==
  /\ pc = "create"
  /\ get_random_candidate(<<>>, source_candidates) # {}
  /\ pc' = "exited"
  /\ UNCHANGED <<history, drv, left>>

\* Mutant of Allowed: the NEGATIVE extensions are tried again.
AllowedNegative == {a \in DepGraph[api_n] \ SourceApi : TRUE}

\* The APIs the loop tries to instantiate after api_n.
Allowed == {a \in DepGraph[api_n] \ SourceApi : calc_api_state(Append(drv, a)) # "NEGATIVE"}

\* The values of candidate_api: any subset of them may be instantiable, and a
\* lone repetition of the last call is dropped.
CandidateSets == {IF C = {api_n} THEN {} ELSE C : C \in SUBSET Allowed}

\* The test of the while loop.
Growing == pc = "grow" /\ Len(drv) < DriverSize

\* Mutant of Extend: an unknown call does not count when more are accepted.
ExtendUncounted ==
  /\ Growing
  /\ \E C \in CandidateSets : \E a \in get_random_candidate(drv, C) :
       LET unknown == calc_api_state(Append(drv, a)) = "UNKNOWN"
       IN  /\ drv' = Append(drv, a)
           /\ pc' = IF unknown /\ left = 0 THEN "built" ELSE "grow"
           /\ UNCHANGED left
  /\ UNCHANGED history

\* A candidate is drawn and appended; the first unknown call beyond the
\* accepted ones is the last of the driver.
Extend ==
  /\ Growing
  /\ \E C \in CandidateSets : \E a \in get_random_candidate(drv, C) :
       LET unknown == calc_api_state(Append(drv, a)) = "UNKNOWN"
       IN  /\ drv' = Append(drv, a)
           /\ pc' = IF unknown /\ left = 0 THEN "built" ELSE "grow"
           /\ left' = IF unknown /\ left > 0 THEN left - 1 ELSE left
  /\ UNCHANGED history

\* There are candidates and the draw among them raises.
ExtendRaises ==
  /\ Growing
  /\ \E C \in CandidateSets \ {{}} : get_random_candidate(drv, C) = {}
  /\ pc' = "raised"
  /\ UNCHANGED <<history, drv, left>>

\* No candidate, and no unknown call is left to spend.
StopChain ==
  /\ Growing
  /\ {} \in CandidateSets
  /\ left = 0
  /\ pc' = "built"
  /\ UNCHANGED <<history, drv, left>>

\* No candidate: a new chain starts in the same driver with any live source,
\* whatever is known of the resulting sequence.  This draw has the arguments of
\* the one that began the driver, so it does not raise either.
NewChain ==
  /\ Growing
  /\ {} \in CandidateSets
  /\ left > 0
  /\ \E a \in get_random_candidate(<<>>, source_candidates) : drv' = Append(drv, a)
  /\ left' = left - 1
  /\ UNCHANGED <<history, pc>>

\* "Cannot instantiate the first function [second]": exit(1).
NewChainUnsat ==
  /\ Growing
  /\ {} \in CandidateSets
  /\ left > 0
  /\ pc' = "exited"
  /\ UNCHANGED <<history, drv, left>>

\* The loop ends with driver_size calls.
SizeReached ==
  /\ pc = "grow"
  /\ Len(drv) >= DriverSize
  /\ pc' = "built"
  /\ UNCHANGED <<history, drv, left>>

create_random_driver ==
  \/ BeginDriver
  \/ BeginRaises
  \/ BeginUnsat
  \/ Extend
  \/ ExtendRaises
  \/ StopChain
  \/ NewChain
  \/ NewChainUnsat
  \/ SizeReached

\* update_api_state(driver, api_seq_state, n_seeds): the verdict on the driver
\* replaces an older one.
update_api_state(state, n_seeds) ==
  history' = [s \in DOMAIN history \union {drv} |->
                IF s = drv THEN [state |-> state, n_seeds |-> n_seeds] ELSE history[s]]
=============================================================================
