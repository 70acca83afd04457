------------------------------ MODULE Campaign ------------------------------
(***************************************************************************)
(* The campaign of one task: the body of dyn_drv_gen                       *)
(* (fuzzing_campaigns/run_dynamic_drv_creation.py) between claiming and    *)
(* releasing its CPU.                                                      *)
(*                                                                         *)
(* Until its time is over the task asks the factory (module CBGFactory)    *)
(* for a driver, has a container compile and fuzz it, reads the feedback   *)
(* file the fuzzer leaves, and tells the factory its verdict.  Then it     *)
(* clusters the good drivers (tool/misc/cluster.py) and fuzzes one of each *)
(* cluster for its share of DEEP_TIMEOUT.                                  *)
(*                                                                         *)
(* Drivers are numbered in the order of their creation (driver0, ...).     *)
(* External: the container (compiler and libFuzzer) is any outcome of      *)
(* KickFuzzing, the clustering algorithm any partition.                    *)
(***************************************************************************)
EXTENDS CBGFactory

CONSTANTS MaxTrial,       \* max_trial of get_new_driver
          MaxDrivers,     \* bound: drivers generated before the time is over
          ApiPercMax,     \* API_PERC_UPPERBOUND, or more than 100 when not set
          DeepTimeout,    \* DEEP_TIMEOUT as [value, unit], or NoDeep
          NoDeep,
          Causes,         \* first lines of feedback.txt met in this instance
          SeedCounts,     \* sizes of corpus_new met in this instance
          NoInput,        \* APIs whose call alone reads no input: the seed is empty
          Key(_)          \* make_key of cluster.py: the names, without separator

ASSUME MaxTrialAssumption == MaxTrial \in Nat \ {0}
ASSUME MaxDriversAssumption == MaxDrivers \in Nat
ASSUME CausesAssumption == Causes \subseteq {"C", "O", "T", "I", "L", "P", ""}
ASSUME SeedCountsAssumption == SeedCounts \subseteq Nat \ {0}
ASSUME DeepTimeoutAssumption == DeepTimeout = NoDeep \/ DeepTimeout \in [value : 1..99, unit : {"h", "m", "s"}]

VARIABLES trial,                \* max_trial: creations get_new_driver may still make
          driver_list_history,  \* the sequences emitted so far
          drivers_list,         \* the drivers, see DriverRecord
          library_api_used,     \* APIs of the drivers that found new coverage
          feedback,             \* feedback.txt, or NoFeedback when it is not there
          drivers_for_deep,     \* <<driver, its api_seq>> still to be fuzzed in depth
          deep_slice            \* deep_timeout_per_driver, in seconds

deepVars == <<drivers_for_deep, deep_slice>>

campaignVars == <<trial, driver_list_history, drivers_list, library_api_used, feedback, deepVars>>

vars == <<number_of_unknown, bias, factoryVars, campaignVars>>

NoFeedback == [of |-> 0, cause |-> "", late |-> FALSE]

\* feedback.txt: the run that wrote it, the cause of its end and whether it ran
\* for longer than time_plateau.
Feedbacks == [of : 1..MaxDrivers, cause : Causes, late : BOOLEAN]

\* An entry of drivers_list, with what the file system keeps of the driver: its
\* binary, the number of files of corpus_new/<driver> (0: no such directory) and
\* its line in feedback_received.txt.
DriverRecord == [seq : Seq(Apis), state : ApiSeqState, n_seeds : SeedCounts \union {0}, binary : BOOLEAN,
                 corpus_new : SeedCounts \union {0}, received : Feedbacks \union {NoFeedback}]

Init ==
  /\ number_of_unknown \in NumbersOfUnknown /\ bias \in Biases
  /\ history = <<>>
  /\ drv = <<>>
  /\ left = 0
  /\ pc = "loop"
  /\ trial = 0
  /\ driver_list_history = {}
  /\ drivers_list = <<>>
  /\ library_api_used = {}
  /\ feedback = NoFeedback
  /\ drivers_for_deep = {}
  /\ deep_slice = 0

\* perc_used >= api_perc_max, with tot_api the APIs of the project.
EnoughApis == Cardinality(library_api_used) * 100 >= ApiPercMax * Cardinality(Apis)

\* The while loop of dyn_drv_gen goes on with a new driver.
NextDriver ==
  /\ pc = "loop"
  /\ ~EnoughApis
  /\ Len(drivers_list) < MaxDrivers
  /\ pc' = "create"
  /\ trial' = MaxTrial
  /\ UNCHANGED <<history, drv, left, driver_list_history, drivers_list, library_api_used, feedback,
                 deepVars>>

\* The loop ends: TIMEOUT is over (at any time) or enough APIs were used.  The
\* paths are stored.
StorePaths ==
  /\ pc = "loop"
  /\ pc' = IF DeepTimeout = NoDeep THEN "done" ELSE "cluster"
  /\ UNCHANGED <<history, drv, left, campaignVars>>

Create == create_random_driver /\ UNCHANGED campaignVars

\* Mutant of TryAgain: the trials are not counted.
TryAgainForever ==
  /\ pc = "built"
  /\ drv \in driver_list_history
  /\ trial > 1
  /\ pc' = "create"
  /\ UNCHANGED <<history, drv, left, campaignVars>>

\* get_new_driver: the sequence was emitted before, another one is created.
TryAgain ==
  /\ pc = "built"
  /\ drv \in driver_list_history
  /\ trial > 1
  /\ trial' = trial - 1
  /\ pc' = "create"
  /\ UNCHANGED <<history, drv, left, driver_list_history, drivers_list, library_api_used, feedback,
                 deepVars>>

Emitted == [seq |-> drv, state |-> "UNKNOWN", n_seeds |-> 0, binary |-> FALSE, corpus_new |-> 0,
            received |-> NoFeedback]

\* Mutant of EmitDriver: the feedback of the previous run is left on the host.
EmitDriverStale ==
  /\ pc = "built"
  /\ drv \notin driver_list_history \/ trial = 1
  /\ driver_list_history' = driver_list_history \union {drv}
  /\ drivers_list' = Append(drivers_list, Emitted)
  /\ pc' = "fuzz"
  /\ UNCHANGED <<history, drv, left, trial, library_api_used, feedback, deepVars>>

\* A new sequence, or the one left when the trials are over, becomes a driver;
\* the feedback of the previous run is removed.
EmitDriver ==
  /\ pc = "built"
  /\ drv \notin driver_list_history \/ trial = 1
  /\ driver_list_history' = driver_list_history \union {drv}
  /\ drivers_list' = Append(drivers_list, Emitted)
  /\ feedback' = NoFeedback
  /\ pc' = "fuzz"
  /\ UNCHANGED <<history, drv, left, trial, library_api_used, deepVars>>

current == Len(drivers_list)

\* kick_fuzzing_camp, the container does not compile the driver.
CompileFails ==
  /\ pc = "fuzz"
  /\ pc' = "judge"
  /\ UNCHANGED <<history, drv, left, campaignVars>>

\* kick_fuzzing_camp: the fuzzer runs, adds to the corpus and ends, writing
\* feedback.txt unless it is killed.
KickFuzzing ==
  /\ pc = "fuzz"
  /\ \E n \in SeedCounts :
       drivers_list' = [drivers_list EXCEPT ![current] = [@ EXCEPT !.binary = TRUE, !.corpus_new = n]]
  /\ \/ UNCHANGED feedback
     \/ \E c \in Causes, l \in BOOLEAN : feedback' = [of |-> current, cause |-> c, late |-> l]
  /\ pc' = "judge"
  /\ UNCHANGED <<history, drv, left, trial, driver_list_history, library_api_used, deepVars>>

\* No feedback.txt: the driver stays UNKNOWN.
NoVerdict ==
  /\ pc = "judge"
  /\ feedback = NoFeedback
  /\ pc' = "loop"
  /\ UNCHANGED <<history, drv, left, campaignVars>>

\* push_feedfback: the verdict on the driver.  An empty cause counts as C.
Verdict(fb, n_seeds) ==
  IF \/ fb.cause = "I"
     \/ fb.cause \in {"O", "P"} /\ fb.late
     \/ n_seeds = 1 /\ Len(drv) = 1
    THEN "POSITIVE"
    ELSE "NEGATIVE"

\* Mutant of Judged: the binary of a driver without new coverage is kept.
JudgedKept(d, state) ==
  [d EXCEPT !.state = state, !.n_seeds = d.corpus_new, !.received = feedback]

\* The entry of a judged driver.  Its binaries are deleted when it added nothing
\* to its seed.
Judged(d, state) ==
  [d EXCEPT !.state = state, !.n_seeds = d.corpus_new, !.received = feedback,
            !.binary = d.binary /\ d.corpus_new # 1]

\* The feedback is pushed to the factory; the APIs of a driver that found new
\* coverage count as used.
PushFeedback ==
  /\ pc = "judge"
  /\ feedback # NoFeedback
  /\ LET n_seeds == drivers_list[current].corpus_new
         state == Verdict(feedback, n_seeds)
     IN  /\ update_api_state(state, n_seeds)
         /\ drivers_list' = [drivers_list EXCEPT ![current] = Judged(drivers_list[current], state)]
         /\ library_api_used' = library_api_used \union IF n_seeds = 1 THEN {} ELSE {drv[i] : i \in 1..Len(drv)}
  /\ pc' = "loop"
  /\ UNCHANGED <<drv, left, trial, driver_list_history, feedback, deepVars>>
-----------------------------------------------------------------------------
(* cluster_drivers and the deep phase. *)

\* The lines of paths_observed.txt that cluster_drivers keeps.
Clustered == {i \in 1..Len(drivers_list) : drivers_list[i].state = "POSITIVE" /\ drivers_list[i].binary}

\* driver_info[key] of each of them: the last driver with the same key.
driver_info ==
  LET key == [i \in Clustered |-> Key(drivers_list[i].seq)]
  IN  [i \in Clustered |-> Max({j \in Clustered : key[j] = key[i]})]

\* The champion of a cluster: the most seeds, the first of equals (sorted is
\* stable).  Where keys collide, the driver and the sequence may not belong
\* together.
Champion(cluster, info) ==
  LET i == Min({c \in cluster : \A j \in cluster : drivers_list[info[j]].n_seeds <= drivers_list[info[c]].n_seeds})
  IN  <<info[i], drivers_list[i].seq>>

\* convert_to_seconds: for seconds only the first digit is read (timeout[:1]);
\* values below 100.
convert_to_seconds(t) ==
  CASE t.unit = "h" -> t.value * 3600
    [] t.unit = "m" -> t.value * 60
    [] t.unit = "s" -> IF t.value < 10 THEN t.value ELSE t.value \div 10

\* cluster_drivers: the clustering labels the drivers, one driver per label is
\* selected, and the time is shared.
cluster_drivers ==
  /\ pc = "cluster"
  /\ Clustered # {}
  /\ LET info == driver_info
     IN  \E labels \in [Clustered -> Clustered] :
           drivers_for_deep' = {Champion({j \in Clustered : labels[j] = labels[i]}, info) : i \in Clustered}
  /\ deep_slice' = convert_to_seconds(DeepTimeout) \div Cardinality(drivers_for_deep')
  /\ pc' = "deep"
  /\ UNCHANGED <<history, drv, left, trial, driver_list_history, drivers_list, library_api_used, feedback>>

\* Nothing to select: deep_timeout / len(drivers_for_deep) divides by zero.
NothingToDeepen ==
  /\ pc = "cluster"
  /\ Clustered = {}
  /\ pc' = "raised"
  /\ UNCHANGED <<history, drv, left, campaignVars>>

\* A selected driver is fuzzed until its time is over.  `timeout 0s` sets no
\* limit, and no plateau is given: with a share of 0 the run does not end.
FuzzInDepth ==
  /\ pc = "deep"
  /\ deep_slice > 0
  /\ \E d \in drivers_for_deep : drivers_for_deep' = drivers_for_deep \ {d}
  /\ UNCHANGED <<factoryVars, trial, driver_list_history, drivers_list, library_api_used, feedback, deep_slice>>

EndDeep ==
  /\ pc = "deep"
  /\ drivers_for_deep = {}
  /\ pc' = "done"
  /\ UNCHANGED <<history, drv, left, campaignVars>>

\* The end of the body, as module CpuPool distinguishes them.
Ended == pc \in {"done", "raised", "exited"} /\ UNCHANGED vars

Step ==
  /\ \/ NextDriver
     \/ StorePaths
     \/ Create
     \/ TryAgain
     \/ EmitDriver
     \/ CompileFails
     \/ KickFuzzing
     \/ NoVerdict
     \/ PushFeedback
     \/ cluster_drivers
     \/ NothingToDeepen
     \/ FuzzInDepth
     \/ EndDeep
  /\ UNCHANGED <<number_of_unknown, bias>>

Next == Step \/ Ended

Spec == Init /\ [][Next]_vars

\* The task is one sequential process, and every container it waits for runs
\* under a time limit (when it has one): the task always goes on.
FairSpec == Spec /\ WF_vars(Step)
-----------------------------------------------------------------------------
\* The variables of the task stay in their ranges: in particular only verdicts
\* enter the history, and only sequences of at most driver_size calls.
TypeOK ==
  /\ DOMAIN history \subseteq Seq(Apis)
  /\ \A s \in DOMAIN history : history[s] \in [state : {"POSITIVE", "NEGATIVE"}, n_seeds : SeedCounts]
  /\ drv \in Seq(Apis) /\ Len(drv) <= DriverSize
  /\ number_of_unknown \in NumbersOfUnknown /\ bias \in Biases /\ left \in 0..number_of_unknown
  /\ pc \in {"loop", "create", "grow", "built", "fuzz", "judge", "cluster", "deep", "done", "raised", "exited"}
  /\ trial \in 0..MaxTrial
  /\ driver_list_history \subseteq Seq(Apis)
  /\ drivers_list \in Seq(DriverRecord) /\ Len(drivers_list) <= MaxDrivers
  /\ library_api_used \subseteq Apis
  /\ feedback \in Feedbacks \union {NoFeedback}
  /\ drivers_for_deep \subseteq (1..Len(drivers_list)) \X Seq(Apis)
  /\ deep_slice \in Nat

\* create_random_driver spends what it is given: of the prefixes of a finished driver at most
\* number_of_unknown + 1 were never fuzzed, new chains included.  And a driver never runs through a
\* sequence known to fail, except where a new chain was started, at a source API.
PrefixesAccounted ==
  pc \in {"built", "fuzz"} =>
    LET In(state) == {n \in 1..Len(drv) : calc_api_state(PrefixOf(drv, n)) = state} IN
    /\ Cardinality(In("UNKNOWN")) <= number_of_unknown + 1
    /\ \A n \in In("NEGATIVE") : n > 1 /\ drv[n] \in SourceApi

\* With number_of_unknown = 0 (the configured value) a verdict blames the last
\* call only: every proper prefix of the driver being judged was fuzzed before and
\* is POSITIVE, and the driver itself is not known to fail.
BlameIsLocal ==
  number_of_unknown = 0 /\ pc \in {"built", "fuzz", "judge"} =>
    /\ \A n \in 1..(Len(drv) - 1) : calc_api_state(PrefixOf(drv, n)) = "POSITIVE"
    /\ calc_api_state(drv) # "NEGATIVE"

\* With number_of_unknown = 0 a NEGATIVE verdict is final: the sequence is never
\* fuzzed again, so no later feedback can change its entry.
NegativeIsFinal ==
  [][number_of_unknown = 0 =>
       \A s \in DOMAIN history :
         history[s].state = "NEGATIVE" => s \in DOMAIN history' /\ history'[s] = history[s]]_vars

\* A driver is judged by its own run only: the feedback.txt that dyn_drv_gen reads
\* was written by the container of the current driver.
OwnFeedback ==
  /\ pc = "judge" /\ feedback # NoFeedback => feedback.of = current /\ drivers_list[current].corpus_new > 0
  /\ \A i \in 1..Len(drivers_list) :
       drivers_list[i].state # "UNKNOWN" => drivers_list[i].received.of = i

\* The deep phase only fuzzes drivers that earned it: their own run was judged
\* POSITIVE, they grew their corpus, and their binary was not deleted.
DeepDriversEarned ==
  \A d \in drivers_for_deep :
    /\ drivers_list[d[1]].state = "POSITIVE"
    /\ drivers_list[d[1]].corpus_new > 1
    /\ drivers_list[d[1]].binary

\* The body of a task ends, the deep phase included.
CampaignEnds == <>(pc \in {"done", "raised", "exited"})
-----------------------------------------------------------------------------
\* The comment in SBias, "n seeds -1 means a negative sequence": -1 is a mark and
\* not a count, so the weight of a POSITIVE source is a mean of seed counts.
WeightsCountSeeds ==
  pc = "create" =>
    \A sa \in source_candidates : <<sa>> \in DOMAIN history => calc_seeds(<<sa>>).num > 0
-----------------------------------------------------------------------------
(* The inductive invariant behind the theorems of Campaign_proofs. *)

\* While a driver grows without accepted unknowns, all of it is POSITIVE.
GrowInv ==
  /\ pc \in {"grow", "built", "fuzz", "judge"} => drv # <<>>
  /\ number_of_unknown = 0 /\ pc = "grow" =>
       \A n \in 1..Len(drv) : calc_api_state(PrefixOf(drv, n)) = "POSITIVE"

\* The driver that is fuzzed and judged is the last one of the list, and the
\* feedback of an earlier run is gone when its run starts.
RunInv ==
  /\ pc \in {"create", "grow", "built"} => Len(drivers_list) < MaxDrivers
  /\ pc \in {"fuzz", "judge"} =>
       current > 0 /\ drivers_list[current].seq = drv /\ drivers_list[current].state = "UNKNOWN"
  /\ pc = "fuzz" => feedback = NoFeedback

\* A judged driver that still has its binary grew its corpus.
FilesInv ==
  \A i \in 1..Len(drivers_list) :
    drivers_list[i].state # "UNKNOWN" /\ drivers_list[i].binary => drivers_list[i].corpus_new > 1

\* The drivers of the deep phase are among those that were clustered.
DeepInv ==
  /\ pc = "cluster" => DeepTimeout # NoDeep
  /\ pc # "deep" => drivers_for_deep = {}
  /\ drivers_for_deep \subseteq Clustered \X Seq(Apis)

\* The strengthening that every step of the task preserves.
IInv == TypeOK /\ GrowInv /\ BlameIsLocal /\ RunInv /\ OwnFeedback /\ FilesInv /\ DeepInv
=============================================================================
