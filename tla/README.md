# libErator: a TLA+ verification project

libErator generates fuzz drivers for C libraries without looking at consumer
code. A static analyzer extracts constraints on the API of a library, a driver
generator synthesises sequences of API calls that respect them, and a
customised libFuzzer runs each driver; what the fuzzer reports decides which
sequences the generator extends next. This directory models the parts of that
loop that carry state, checks them with TLC on small instances, and proves the
main safety properties of every one of them with TLAPS for every value of the
constants.

All paths below are relative to the root of the repository.

## 1. Inventory

| Component | State | Operations | Talks to |
|---|---|---|---|
| Process pool, CPU allocation (`fuzzing_campaigns/run_dynamic_drv_creation.py`, `_main`, head and tail of `dyn_drv_gen`) | `running_threads` (managed dictionary), a lock, the pool's queue and result cache | submit, close, join; claim and release a CPU | runs campaigns |
| Campaign (same file, body of `dyn_drv_gen`) | `driver_list_history`, `drivers_list`, `library_api_used`; files: `feedback.txt`, `feedback_received.txt`, `paths_observed.txt`, corpora, binaries | generate, fuzz, judge, store paths, cluster, fuzz in depth | factory, container, `cluster.py` |
| Clustering (`tool/misc/cluster.py`) | `driver_info`, read from the files | select, label, champion per cluster | campaign |
| Feedback-guided factory (`framework/driver/factory/constraint_based_grammar/CBGFactory.py`) | `history_api_sequence`, driver under construction, `left_accepted_unknown` | `create_random_driver`, `update_api_state` | biases, instantiation of calls |
| Biases (`framework/bias`) | `seeds_per_apiseq` | draw a source API, draw the next API | factory |
| Instantiation of calls (`CBFactory.py`, `RunningContext.py`) | variables alive, their conditions, pending length variables, counters of buffers | find or create a value for each argument of a call; update the context | condition manager |
| Condition manager, dependency graphs (`framework/constraints`, `framework/dependency`) | sets of APIs and arguments by role, graph edges | classify, follow | factories |
| Other factories, generator, IR and back ends, generation service (`framework/`, `tool/`) | pool of drivers, one session | build, print, serve | factory |
| Fork mode of libFuzzer (`custom-libfuzzer/fuzzer/FuzzerFork.cpp`, callbacks of `FuzzerLoop.cpp`) | two job queues, `Env.Cov`, plateau timer, `feedback.txt` | spawn, pop, merge, push, stop, join; store feedback | container, campaign |
| Crash-resistant merge (`FuzzerMerge.cpp`, `Merge` of `FuzzerDriver.cpp`) | the control file; corpus directories | write, run, record, parse, merge, copy; restart | fork mode |
| Corpus (`FuzzerCorpus.h`, `RunOne` and its callers in `FuzzerLoop.cpp`) | inputs, owner and size of each feature, rare features and counts, files | add, replace, evict, draw, reload | mutation, fork mode |
| Mutation and tracing of libFuzzer | counters of the instrumentation | mutate, collect | corpus |
| Condition extractor: block graph, dominators, their cache (`condition_extractor/`) | block graph and dominator sets over SVF's graphs, cache files | analyse one library, load, dump, prune, write JSON | generator |
| Condition extractor: access tracker (`AccessTracker.cpp`, `IntraAnalysis.cpp`) | summaries of parameters and of returned pointers, worklist and visited paths of a walk | walk, merge at a call, return, rounds of a recursive component | generator |
| Coverage campaign (`fuzzing_campaigns/run_coverage.sh`) | `CPU_ALLOCATED`, running containers | count, free, allocate, start, wait | containers |
| Library statistics, other static scripts, targets | none of their own | build, fuzz, print | containers |

The hard behaviours: tasks of the pool race for CPUs and may die holding one;
a driver is judged from a file that several processes overwrite; the verdicts
accumulate into a history that steers all later drivers, so one wrong entry is
permanent; threads of the fuzzer share queues and an unlocked set; a merge must
survive the death of its processes between and inside the lines of its only
record; inputs take features from each other while one of them is still
running; a driver's variables live through calls that create, initialise and
free them; the dominators are computed in an order that depends on addresses,
and kept in files that their own writer asks the user to cut short; summaries of
functions that call each other are used while they are still growing.
`PROJECT.json` lists these hazards line by line with the properties that watch
them.

## 2. Modules

| Module | Models | Role |
|---|---|---|
| `CpuPool` | pool, lock, `running_threads` | detailed specification |
| `CpuLease` | what the allocation promises | abstract specification, implemented by `CpuPool` (`ImplementsLease`) |
| `CBGFactory` | factory and biases | actions and operators, extended by `Campaign` |
| `Campaign` | the body of `dyn_drv_gen`, clustering, deep phase | composes factory, campaign and files |
| `ForkMode` | parent, workers, children, plateau thread, `feedback.txt`, time limit | detailed specification |
| `CrashMerge` | outer and inner processes, control file, restarts | detailed specification |
| `Corpus` | `InputCorpus` and `RunOne` | detailed specification |
| `DriverContext` | `CBFactory`, `RunningContext`, `ConditionManager` | detailed specification |
| `IBBGraph` | the block graph of the extractor | first phase, extended by `Dominators` |
| `Dominators` | dominators, post-dominators, and executions of the analysed program | composes the block graph, the analysis and what it is about |
| `DomCache` | cache files of the dominators, pruning of access types, kills and restarts | detailed specification; `Doms` stands for what `Dominators` computes |
| `AccessSummaries` | the access tracker, and values on their way through the analysed program | composes the analysis and what it is about |
| `CoverageSlots` | CPUs and containers of `run_coverage.sh` | detailed specification |
| `MC...` | instances for TLC | constants |
| `CpuPool_proofs` (also of `CoverageSlots`), `Campaign_proofs`, `ForkMode_proofs`, `Corpus_proofs`, `Dominators_proofs` (also of `DomCache`), `DriverContext_proofs`, `CrashMerge_proofs`, `AccessSummaries_proofs` | theorems | proofs checked by tlapm |

### CpuPool

One variable per piece of state: `main` and `submitted` for `_main`, `started`
and `pending` for the pool (`pending` is `Pool._cache`), `running_threads` and
`lock`, and the locals `pc`, `k`, `cpu_id` of `dyn_drv_gen`, indexed by task. The
scan of the dictionary reads one key per step. A body succeeds, raises (the
process survives and takes the next task, the CPU stays marked) or calls `exit`
(the process dies with its result unreturned). `FreeCpu` resets the entry of
the CPU, or adds the stray key -1 for a task that never had one, as the code
does. External: `multiprocessing.Pool` and the scheduling of processes.

### CBGFactory and Campaign

`history` maps a sequence of APIs to its verdict and number of seeds. A driver
grows one API per step (`create_random_driver`); candidates follow the
dependency graph and are not known to be NEGATIVE, any subset of them can be
instantiated, and the bias restricts the draw. `Campaign` adds the loop:
`TryAgain`/`EmitDriver` (`get_new_driver`), `KickFuzzing` (the container, any
outcome the fuzzer can leave: any cause, late or not, no file, no binary),
`push_feedfback` with all its exceptions, the paths file, `cluster.py`, and the
deep phase with its time shares. A driver is its sequence of APIs; names matter
only through `NamePrefix` (the weight of a seed count is taken by string
prefix) and `Key` (sequences joined without separator), which are constants.
`AffinityPropagation` is any labelling. `number_of_unknown` and the bias are
variables that `Init` sets from sets of the instance, so that one run checks
several configurations.

### ForkMode

The main thread (`main`, `job`, `pushes`), one worker thread and one child per
job, the detached plateau thread (`periodic`), the handler of SIGTERM, and the
file all of them overwrite (`feedback`, with its writer, its cause and whether
its time exceeds the plateau). `flags` is the command line, one of those of the
instance. Storing takes two steps, because `ofstream::open` truncates first.
Time is counted in periods of the plateau thread (ten seconds). Assumptions,
each narrower than the code's own margin: a check of the plateau thread is on
time to less than a second (its period is ten seconds, its work a comparison of
two sets); inserting into `Env.Cov` takes less than a period. The unlocked read
of `Env.Cov` is a choice: the old set, the new one, or a fault. A push and its
notification are one step: nothing happens to a queue between them that a
waiting thread could miss, since `Pop` tests the queue under the mutex before it
waits.

`Campaign` takes the feedback that `ForkMode` leaves as any feedback: it is
checked against more than fork mode can produce.

### CrashMerge

`cf` is the control file line by line: its header, then STARTED, FT and COV
lines with the numbers they hold, and for the last one whether it has its
newline. `ParseOK` and the operators named `Parsed...` are `Merger::Parse`;
`LineOK` is what it demands of a line. `InnerStart` to `InnerDone` are the steps
of `CrashResistantMergeInternalStep`: the marker and the record of an input are
two writes, and `DiesInRecord` leaves any piece of the second one, with the last
number cut or not. `NothingToDo`, `Continue`, `StartAfresh`,
`WriteNewControlFile` and `Conclude` are the outer process, `CopyFile` the loop
that follows it. `Killed` and `KilledWriting` end it; `Restart` starts it with
the same control file and other new inputs: the records in `KnownFiles` were in
memory only, so `recorded` forgets those that are in no control file any more. `Merge` and `SetCoverMerge` compute
the sets of results; `std::sort` may order equal files in any way. The features
of an input stand for its COV numbers too. `faults` and `recorded` are history
variables of the properties.

### Corpus

`Inputs`, `InputSizesPerFeature`, `SmallestElementPerFeature`, `RareFeatures` and
the counts are the fields of `InputCorpus`; `cur` is the local state of `RunOne`,
one feature per pair of steps (`AddFeature`, `UpdateFeatureFrequency`). The owner
of a new feature is the index that the running input will have (`Pending`).
Eviction keeps the entry and empties its unit, as in the code. An iteration of
`MutateAndTestOne` is two draws (`ChooseUnitToMutate`, `ChooseUnitToCrossOverWith`)
and then mutations of the same input (`Mutate`) until one is added or replaces it,
or the loop ends; `chosen` is its local state. Draws are from a cached distribution:
`Weights` is what it may draw, and `UpdateCorpusDistribution` recomputes it when
`DistributionNeedsUpdate` says so, which adding, replacing and evicting an input and
a new rare feature set; the entropic schedule also updates it at random. Which input
of those with a weight is drawn is any: energies are real numbers, and the property
is about which of them may be positive. `files` is the output corpus,
`featureFiles` the directory of features; both are keyed by the content of the
input, as file names are hashes.

### DriverContext

`ctx` is the running context (`variables_alive`, `var_to_cond`, `new_vars`, the
counters), `drv` the calls that were appended. One call goes through the loops of
`try_to_instantiate_api_call` one argument per step: `FirstRound` (arrays and
their lengths), `SecondRound` (`try_to_get_var`, `ArgumentChoices` with the
branches in the order of the code), `Return`, `Update` with the condition that
the loop before it left over, `Flush` of the pending lengths. `ConditionManager`
is the operators `IsSink` to `NeedsInit` on an API, which is the list of what
the conditions say of its arguments. Attempts that fail are dropped with their
copy of the context and are left out.

### IBBGraph and Dominators

`working` is the stack of `inferSubGraph`; each of its branches is an action
(`AlreadyVisited`, `AtExit`, `AtCall`, `Straight`, `DeadEnd`, `Split`), and a
successor's place on the stack is any, as SVF's edge set is ordered by address.
`AddEdges` is the loop over the nodes with `get_phi_function`. `UpdateDom` is one
iteration of the inner loop of `buildDom` for any block that the sweep has not
visited; `post` chooses the direction, in which `ahead` and `behind`, R and C swap
roles. After the analysis the model goes on with an execution of the analysed
program (`Walk`), whose calls return to where they came from: what the
dominators are about. Or it goes on with all executions that avoid a block
(`Avoid`, `GoOn`): `reached` grows by pairs of the start of a function and a block
that an execution can come to from there with its calls matched, so no call stack
has to be bounded, and `Beyond` is one step of each of them.

### DomCache

`StartRun` is one run of the extractor on one function; `option` is
`-do_indirect_jumps`, which changes the graph but not the name of the cache file.
`Load` and `Create` are the branches of `ConditionExtractor.cpp`, `Dump` and
`DumpPart` the ends of `dumpDom`: complete, or cut by a kill or a full disk
between two numbers or inside one. What a file was made with and where it ends
is in the model (`by`, `cut`) for the properties only; `Load` cannot see it. A
number that names no block is a null pointer in the release build, which
dominates nothing (`Read`). `Prune` is `prune_access_types` on the access types of
the instance. The relation that `createDom` computes is a constant: that it is
the right one is the matter of `Dominators`.

### AccessSummaries

`prog` is the analysed program as SVF presents it: nodes of the value flow graph
with their operation, edges, calls with their targets, the components of the
call graph. `scc`, `iter`, `changed` and `todo` are the loops of
`walk_inverted_scc` and `process_scc`; `cur`, `worklist` and `visited` those of
`summarize_from`, `sources` that of `summarize_return`. `Track` is one iteration
of the worklist: `Next3`, `Passed` and `Returned` are its three cases, and
`EffectsMerged`, `PathsMerged` and `ArrayMerged` what `merge_summary` does with the
first of them. The order of the worklist (a stack, filled from SVF's sets) and of
the functions in a component is any. `old` is the summary before the walk: the
code keeps its sizes, which `EndItem` compares. An access is the fields from the
value on and a kind; types of debug information are taken to be there and to
match. When the summaries are complete the model goes on with walks of a value
through the program (`Origins`, `Along`, `Into`, `Back`), which enter a call with
the value and come back to where they went in. They decide at each node as the
transfer function does, so `Covered` and `NothingInvented` are about summaries,
calls and rounds, not about what one instruction does. A walk passes a value at
every position of a call; `twice` remembers that it did so at one that
`merge_summary` does not look at. `places` holds all ways of the value `whom` at once: a
place is where the value can be, with the item its function began with and its
fields then, and stands for any open calls it may have come through. `Further` adds
the steps, the calls that are entered and the returns to a call that leads to where the
function began, until there are no more, so open calls have no bound here.

### CoverageSlots

`Count`, `FreeEnded` (one CPU per step), `Launch`, `NoCpuLeft` and `Finish` are the
script, line by line; `CPU_ALLOCATED` has one slot more than containers may run,
as in the code. `Matches` is the `grep` for a name among names: a number is found
in those that begin with it. `on` says which containers really run on a CPU, and
`ContainerEnds` may come between any two steps.

## 3. Runs

TLC finds no error in the passing runs, and reaches every action.

* `pool` (4 tasks, 2 CPUs; 11 977 states). Two CPUs are the least with a race
  for a CPU; four tasks let two of them crash and the others meet the leaked
  entries. `CpuExclusive`, `SlotsAccounted`, `DropNeedsCrash`, the refinement
  `ImplementsLease`, and `JoinsWithoutExit`: the pool joins unless a body called
  `exit`. Deadlock is not checked, because after `exit` the join really waits for
  ever.
* `campaign` (629 982 states). Four APIs, of which two sources; names such that
  one is a prefix of another and two sequences share a key; drivers of up to 4
  calls, 3 drivers, `field_sum`, with no unknown call accepted (the default) and
  with one, a deep phase of five minutes. A chain restarts from its third call
  on, so four calls let a restart follow an extension. `BlameIsLocal`: a verdict
  is about the last call only, all proper prefixes are POSITIVE.
  `NegativeIsFinal`, `OwnFeedback`, `DeepDriversEarned`, `PrefixesAccounted`,
  `CampaignEnds`.
* `fork` (250 276 states). Three command lines. Two jobs, no plateau, failures
  not ignored, which is the least with a worker asleep while another waits for a
  child during the stop: `JobsConserved`, `QuietCleanup`, `StopEnds`.
  One job with the flags of `targets/start_fuzz_driver.sh`, a plateau of two
  periods, two gains of coverage, and a time limit that cuts the plateau or is
  out of reach: `IgnoredFailureIsNotTheCause`, `LatePlateauHasCoverage`,
  `PlateauEndsRun`. Two periods tell "at the plateau" from "after it", and two
  gains let a second one come while the first is seen half inserted.
* `merge` (3 477 837 states). One old input and one or two new ones over three features, both kinds
  of merge, one kill and restart with a changed corpus, any input crashing at any
  attempt, a record torn at any place, an input missing, SIGUSR1. Two new inputs
  let a second process record what the first had met before it died; two of them
  of one size let the sort choose. `EveryInputTried`, `NoFeatureLost`,
  `FailureExplained`. Deadlock is not checked: a merge
  ends, and is started at most twice (`MaxStarts`).
* `corpus` (4 628 259 states). Four inputs of three sizes and four features in
  three slots, so that two features collide; two targets; settings with
  `-reduce_inputs` (the default), with `-shrink` and a uniform cross-over, and
  with `-shrink` and seeds that are kept; one rare feature and a saturated count
  of two, so that trimming and saturation happen; two of the settings are entropic, with
  updates of the distribution that come or do not come, and the third is not. `NumFeaturesExact`,
  `OwnersHaveFeatures`, `ChosenIsLive`, `LocalFreqsAreRare`. Deadlock is not
  checked because of the bound on inputs, `MaxInputs`.
* `context` (32 556 states). Ten APIs: a handle that is opened and closed, a
  structure that the handle initialises, one that nothing but a number does, arrays that share
  a length, strings returned and freed, file paths. Six calls are enough to open, set up, use, close and
  use again. `NoUseAfterSink`, `LengthOfLastArray` (an array that is alive has the
  length its call was given if no later array of the call has the same length argument, and only
  then), `InitialisedOnce`,
  `SourcedAreProduced`, `FlushFindsArrays`. Deadlock is not checked: a
  driver that is complete stops.
* `dominators` (45 798 states). Seven programs with two branches into one function,
  a loop around a recursive one, a call after a join, an abort, a dead end that two
  branches share, and functions that never return; both directions; every order of the sweeps.
  `BlocksAreStraight`, `DominatorsWerePassed` (up to two open calls),
  `DomIsExact` (against all executions that avoid a block, with any number of
  open calls), `AnalysisEnds`. Deadlock is not checked: analyses and
  executions end.
* `dom_cache` (374 708 states). Three runs over one folder: one to be cut, one to
  load and dump the rest, one to load what both left. A diamond-free graph of
  three blocks, and of four with indirect jumps, with block 25 so that a cut
  number reads as another block; access types for every rule of the pruning.
  `CompleteCacheIsExact`, `ShortCacheOnlyKeeps`. Deadlock is not checked:
  the number of runs is bounded by `MaxStarts`.
* `coverage` (644 687 states). Three CPUs and 23 containers, the first numbers at
  which two ended containers can block the one slot that is spare and one more.
  `OnePerCpu`, `FailsLate`. Deadlock is not checked: the script
  ends.
* `access` (6 218 states). Twelve programs: fields passed on, an identity called
  twice, two pairs of functions and a ring of three that call each other, calls
  through pointers with one and with two targets, allocations, stores and loads
  that alias or not, loops, one value at two positions, a function that calls
  itself. Two fields deep, three rounds, one target of an indirect call, so that each limit
  is met; up to three open calls. `Covered`: unless the tracker warned that a
  component did not reach its fixed point, a summary tells all that happens to
  the value, within the limits. `NothingInvented`: it tells nothing that happens
  at no place the value can come to, however many calls are open there. `AnalysisEnds`. Deadlock is not checked: analysis, walks and places end.

Runs that find a violation, each a finding in `PROJECT.json`:

* `campaign_seed_weight`: the mark -1 of NEGATIVE sequences is summed with seed
  counts, and a POSITIVE source gets a weight of 0 or less.
* `context_paths`: the last argument's condition is put on all the variables of
  a call, so a handle passed beside a path is no longer found for any call.

Seen in the models, beside the findings: a merge killed between its last input
and the copy of its result is not resumed, and the restart says that it was
completed before (`NothingToDo`). One that started from scratch with the records of
the merge before and is killed after it overwrote the control file (line 408) loses
those records, which were in memory only: its continuation merges without the files
they are about (`Killed`, `KnownNames`), and the coverage only these had stays out of
the first corpus. Two inputs reduced to the same bytes share
a file, and the next reduction of one of them removes what the other covers from
the corpus directory (`Replace`, `files`). A call that is the first node that two
branches have in common is visited twice, and the second visit aborts the
extractor (`AddIBBNode`, which stops with `pc = "conflict"`). A dump that was killed,
as its own message suggests, is loaded by the next run, which prints "Dom loaded
correctly" (`Load`). A write of a field that another write of it dominates is
removed, although the comment on the rule speaks of a write and a read
(`WriteRead`). The CPUs of the coverage containers 1 and 2 stay taken while the
names of 1x and 2x contain theirs, so container 21 may get the CPU -1 (`NoCpuLeft`).
After a body that raises, a later task
of the pool may find no CPU and return without having run (`DropNeedsCrash` says
only then); after one that calls `exit` the pool never joins. The exception for "the only seed is
empty" only counts seeds. A deep share of 0 seconds is the string `0s`, which
`timeout` takes as no limit. A torn FT record may leave a number that is not a
feature of its input and is taken for one. With the ignore flags a crash is on
file at the end only if its writer outlived the parent, or the parent was killed
by SIGKILL or faulted in the race on `Env.Cov`; and a plateau reached at the first
moment it can be is stored with a time equal to the plateau, which
`push_feedfback` does not count as late, so such a driver is NEGATIVE. With
`-cross_over_uniform_dist` an evicted input may be drawn to be crossed over with
(`ChooseUnitToCrossOverWith`; `ChosenIsLive` excludes that draw under that flag). Where two arrays of a
call have the same length argument, the second one replaces the argument
(`CBFactory.py:133-143`): the first array is allocated with a length of its own
(`RunningContext.py:1062`) that the call is never told, although the repository's README
promises "one arg is an array and another arg controls its length"
(`README.md:152`); `LengthOfLastArray` says that this is the only case in which
the two part. Post-dominators of a call that does not return dereference a null
pair (`NoPair`), and an entry function that never returns has no root
(`NoRoot`); both end the extractor, the second one at the assertion of `getIBBNode`
(`IBBG.cpp:34`) or, in the release build of `bootstrap.sh:16`, where the lookup leaves a null
block in the map (39), in `dumpDom`, which takes its identifier. A cache made without `-do_indirect_jumps` is
loaded with it, and a cut number that names another block adds a pair that does
not hold: `ShortCacheOnlyKeeps` is about files without one, and both properties of the cache
about files of the same option. A value passed twice
in one call is followed into its first position only (`Position`); a path that
enters a store as the stored value is dropped if one that entered it as the
address was there before, and the other way round (`Key`; `collided` takes these
out of `Covered`). Three functions that call each other may need
more rounds than three, depending on the order in which they are taken; the
tracker then says so and goes on (`NextScc`). The positions of parameters that a
function returns are not passed on to its callers (`FromCall`).

Fairness. `CpuPool`: weak fairness of the main process, of the pool and of each
task; processes are scheduled by the kernel and a body runs under time limits.
The lock needs no strong fairness because each task takes it twice. `Campaign`:
weak fairness of the one sequential process; each container it waits for runs
under `timeout`, except with a share of zero, where the step that ends the
container is never enabled. `ForkMode`: weak fairness of the main thread, each
worker and each child (every job has `max_total_time` of at most 300 seconds);
the clock has none, so that `StopEnds` does not lean on the time limit.
`Dominators` and `AccessSummaries`: weak fairness of the one process of the
extractor, none of the execution or the walk. The other modules state safety only.

Every property of a passing run has a mutant of the code it is about in its
module, marked "Mutant of", under which TLC finds it violated.

## 4. Theorems

Assumptions are the named `ASSUME`s of the modules: the ranges of the constants, and
of libraries, graphs and programs what the front end guarantees about them; nothing
about their size.

`CpuPool_proofs` proves, for any number of tasks and CPUs and any mix of
failures, `Invariant` (`IInv`), from which `TypeCorrect`, `Exclusive`, `Accounted`,
`NoDropWithoutCrash`, `JoinIsQuiet`, `Leak` and `Refinement` follow. The safety
properties are not inductive alone. `LockInv` says that whoever reads or writes
the dictionary holds the lock; `ScanInv` that what the scan saw still holds when
it is used; `LeaseUnique` that two marks never come from one CPU;
`PoolBound` that no more tasks are active than there are processes; `OrderInv` and
`PendingInv` order the tasks and tie them to the result cache; `DropInv` that a
task on its way to being dropped is preceded by a crash. The last is the counting
argument: without a crash, each used entry belongs to another active task, so
fewer than `MaxCpu` entries are used and the scan finds one.

`Campaign_proofs` proves, for any library, bias, driver size and behaviour of
the fuzzer, `Invariant` (`IInv`), `TypeCorrect`, `Blame`, `Final`, `Own`,
`DeepEarned` and `Accounted`. `GrowInv` carries "all of it is POSITIVE" through the growth of a
driver, which `BlameIsLocal` needs when the driver is judged; `RunInv` says that
the driver being fuzzed is the last of the list and that no feedback of an
earlier run is left when its run starts (`OwnFeedback`); `FilesInv` and `DeepInv`
tie binaries and the selection to the verdicts (`DeepDriversEarned`).
`AccountInv` counts the prefixes of the driver under construction: while it grows,
those never fuzzed and what is left of the account are at most
`number_of_unknown`, so the call that overdraws it is the last
(`PrefixesAccounted`).

`ForkMode_proofs` proves, for every command line (any number of jobs, any plateau,
time limit, gains and failures), `TypeCorrect`, `JobsKept`, `CleanIsQuiet`,
`FailureIsNotTheCause`, `RunEnds` and `LatePlateau`. `FlowInv` counts the jobs
outside the hand of the main thread in each of its states; workers only move
them. `StopInv` counts the Nulls and the ended workers: together they are what
`StopJobs` pushed, Nulls are behind all jobs, and once a worker ended nothing else
is in the queue; so when all are joined the queue is empty. `CauseInv` follows the
code of an interruption from the child to the main thread; with one job nothing
else can write meanwhile (`OneAtATime`, from `FlowInv`). `ClockInv` is the
argument about the plateau: the time of the last seed is within one plateau and
one period per unit of the coverage the thread has copied, or the copy is stale
and the check of the next period sees it.

`Corpus_proofs` proves, for any target, any setting and any number of inputs,
`Inductive` (`IInv`), `TypeCorrect`, `CountsExact`, `FeaturesKept`, `DrawnIsLive`,
`SizesBound` and `CountsAreRare`. That the owner of a feature has it is not
inductive: a reduction replaces an input by one that has the features the old one
*brought*, so `UniqInv` says that all it owns are among those. `OwnersExist` and
`NumFeaturesExact` together give that the input whose last feature is taken owns
nothing else, which eviction needs. `PendingSize` and `RecordedSizes` bound the
sizes for `-shrink`; `RareOwned` ties the rare features to the owned ones, so a new
feature is never rare already; `EvictedHasHeir` says that some input has a weight
once one was evicted, so that the draw is defined. All this is `CorpusInv`. For the
cached distribution `IInv` adds `ScheduleInv`: unless an update is due, the weights
are those an update would give (`WeightsCurrent`): an input that loses a feature and is not evicted has another one, and
all other changes of the weights raise the flag. And what was drawn is not evicted while the
running input has taken nothing (`ChosenKept`); once it has, it will be added, and
with that the mutations of the drawn input end.

`Dominators_proofs` proves, for any graph, either direction and any order of the
sweeps, `Inductive` (`IInv`), `DominatorsSound`, `DominatorsExact` and `SweepsShrink`. `Shrinking` says
that the next value of any block is within its present one, which a step keeps
because `NewDom` is monotone; `Stable` that the blocks passed in a sweep without
a change are at their fixed point, so the end of such a sweep is a fixed point
of all (`Fixed`). Soundness is then an invariant of the execution (`Walked`): what
dominates the block it is in, and the blocks that its open calls came from, was
passed. A return relies on the second part, since its dominators come from the
function's end and from the call.

It proves that the dominators are exact, too (`DominatorsExact`), which says more: nothing
that an execution can avoid is left in `dom`, although the sweeps stop at the first
fixed point they come to from above. `Complete` carries this through the sweeps:
whatever they have taken away from a block can be avoided on the way to it, that
is, every set of pairs that is closed under the steps of the executions that
avoid the one has the other (`Reaches`). A sweep that takes `b` from `n` found an edge into
`n` through which `b` does not come: neither from the block before the edge nor, after a
return, from the call; both can be reached without `b`, so `n` can (`ReachesThrough`).
For that the two have to be reached from the same start, the function's own: an
edge that is not a call stays in its function (`EdgeStarts`), because a block has nodes
of one function only (`OneOwner`), which rests on `BlocksAreStraight` and on
`FunctionsAssumption`: every node belongs to a function, edges inside functions and
the two ends of a call stay in it. The converse is `Avoiding`: at the fixed point, no step
of an execution that avoids a block leads to one that it dominates. A block
without an edge into it (after a call that does not return) is dominated by itself only,
although no execution comes to it; with one in the graph `DomIsExact` says nothing, since what
follows it may have lost dominators as well.

It also proves `BlocksStraight` for any graph whose entries, exits, calls and
returns are different nodes (`NodeKindsAssumption`, how SVF builds them). While a
function is explored, `BlocksAreStraight` is not even meaningful: nodes that were
visited are in lists on the stack, and edges lead to nodes not visited yet. So
`BlocksInv` speaks of the blocks and the pending visits together: a node is in one
of them, once (`NodesOnce`; the successors of a join start with the same list of
one node, the others with an empty one); consecutive nodes are edges (`OnlyEdges`)
and edges are consecutive or lead from the end of a block to a head, a node that
starts a block or will (`AllEdges`). What a second visit finds is `JoinsStart`, and
why there is none of a node with one edge into it is `VisitedOnce`: such a node is
pending or visited only after the one node before it. `CallsLast` and
`EntriesFirst` carry this to the edges between functions. The lemmas `Closes`, `Extends`,
`Joins` and `Drops` say what a step on the top of the stack may do with its list.
The proof failed at first, for a good reason: `inferSubGraph` looks for dead ends
(line 423) before it looks for joins (427), so a dead end that paths share stays in
the block that reached it first, and `OutNodes(e[2]) = {}` is the exception that
`BlocksAreStraight` names.

It also holds the proofs about `DomCache`: `CacheTypeCorrect`, `CompleteExact` and
`ShortOnlyKeeps`, for any graphs, access types and number of runs. `ReadOfOwn` says that a file that is not
misread, read under the options it was made with, holds a part of the relation;
`DominatesMonotone` and `PruneMonotone` that smaller relations prune less.

`CrashMerge_proofs` proves `EveryInputTried`, `NoFeatureLost` and `FailureExplained` for
any corpora, inputs, features and number of starts, and for both kinds of merge
(`AllInputsTried`, `CoverageKept`, `FailuresExplained`). `Typed` and `Control`, the
phases of the two processes and the header of the file, hold always. `Intact` holds
until a line is torn, and has four parts. `LinesOK`: Parse accepts every line, and
records hold features of their inputs. `Position`: the inner process is where the
markers say; STARTED lines are numbered, so their number (`Tried`) is the input that
was started last. `Counted`: attempts and inputs tried together are at least the
inputs, and one more while an input runs, which is what pays for its crash. `Records`:
what a record leaves out is in another record of the same control file or in
`KnownFiles`. `MergeKeeps` and `SetCoverKeeps` say that the two merges leave out nothing
that the records hold, in any order of equal files and, for the set cover, until no
file adds a slot (`NoneBest`); `InOrderFacts` that a finite set can be listed in
the order of a relation, on which the lists of files rest. `Records` was not inductive
at first, for a good reason: with a third start the property itself was false, since
the records of `KnownFiles` die with the outer process (section 3, Seen in
the models), and `recorded` still counted them.

`CpuPool_proofs` also holds the proofs about the other allocator of CPUs, `CoverageSlots`:
`CpusAreExclusive` for any number of CPUs and up to 999 containers (the names of which have three digits at most): a container that runs is found by its own name, so its CPU is never
freed, and a CPU without a name has nothing on it; and `NoFailureBefore21`:
a look around frees the CPU of every name that is not part of a listed one
(`Kept`), and among the first nineteen containers only `1` is part of the name of another
(`Spare`), so one CPU more than there may be containers is always enough.

`DriverContext_proofs` proves, for any library that meets the named assumptions
and any length of the driver, `FlushSucceeds`, `SinksAreFinal`, `LengthsAgree`,
`SourcesAreUsed` and `InitialisersRunOnce`. Lemmas say what the operations of the
context return (`UpdateVarResult`) and what each action does in terms of the
variables that are alive, created and pending (`FirstRoundEffect` to
`FlushEffect`); on these rest `Typed` (every variable in sight was created, the list
and the dictionary agree) and one invariant per property. `PendingInv` says that a
pending length belongs to something alive, or to what the call at hand will make
alive before the flush. What a sink took is `Gone`: created, so that nothing new equals it, and neither alive,
in hand nor pending; this is kept until a call returns into it. `Tracked` and
`Known` do the same for the length of an array and the mark of an initialised
argument. The length in `Tracked` need not be the one the call was given: `OwnArrays`
says that the two are equal exactly when no array was set up since with the same length
argument (`SharedBefore`), because the length of a new array differs from all old
ones, and `PastArrays` keeps this for finished calls. Both need that results only land in values that are not pointers.
`AliveInv` says where the structures that are alive come from, which is what
turns "something usable is there" at the choice of a call (`NeedsInv`) into "an
earlier call had it". That an argument is set by others only, and through a pointer, is
an assumption: it is how the extractor finds it
(`my_extract_dependency_among_parameters` skips the parameter itself and follows
stores).

`AccessSummaries_proofs` proves `Inductive` (`IInv`) and `SummariesComplete` for any
program, any order of the work list, any number of open calls and any bounds of the tracker.
Of the program it assumes what LLVM and SVF guarantee (`ProgramsAssumption`): components
come callees first and every function that calls itself is known to be recursive
(`CallOrder`), values leave a function only through calls and returns (`ValueFlow`),
and the nodes of a call are in its caller (`CallSites`). A summary of a recursive component
is not complete while its rounds go on, so `Covered` says nothing of a running analysis.
`Settled` does: every item of an earlier component is `Closed`, its tracked
paths under the steps of the walk (`PathsClosed`, with what it takes from the summaries
of callees) and under the ways a walk begins (`BeginsClosed`); and so is every
item that was walked in a round in which nothing has changed so far (`Stable`). `Growing`
says that a round only adds, so the sizes that the code compares tell whether it added
anything (`Same`), as far as entries without their nodes and exits of parameters go,
which is all that a user of the summary reads. That a returned pointer
is read only by what comes after needs the order of the items (`Ordered`). The walk is the
other half: at every open call, what the summary of the callee tells of the value
is told by the summary of where the walk began (`ToldAt`), because the call is on
a tracked path (`CalledAt`) of an item that is closed. Entering a call adds one level,
which is told because the level before it is; a return removes one and goes on at an exit that the
callee's summary has. The summaries do not change any more, so the levels below stay told.
The proof showed what `ProgramsAssumption` had left unsaid: that parameters belong to the function
that lists them, and all nodes of a call to one function.

`SummariesGenuine` is the other direction, `NothingInvented`, and holds while the analysis
runs, not only at its end. Its invariant (`AllGenuine`) says of every set of places that
holds the `Outset` of an item and is closed under `Further` that each access in the item's
summary is done at one of them, and each exit is the end of a path that comes to one
(`Genuine`); that the paths of the work list come there (`Comes`); and that the
parameters a function is said to return are those it can return. Only the least such set
is meant in the end, but with all of them the step for calls needs no induction on their
depth: `merge_summary` puts the fields of the caller before what the summary of the callee
tells, so the places of the callee are those that lie `Inside` the caller's set behind
these fields (`Deeper`). They are closed as well and hold the callee's outset
(`DeeperClosed`), so what the callee's summary tells is done there, and hence in the
caller's set; its exits resume where `Leaving` goes on. Recursion needs nothing more, since a
summary in progress is as genuine as a finished one. The prefix of fields within the bound
is where the cut at `MAX_FIELD_DEPTH` enters (`WithinPrefix`). Two more assumptions on
programs came out of it: that the value of an argument stands among the arguments of its
call (`CallSites`), and that no memory edge leads to the result of a call (`ValueFlow`:
SVF gives such a node direct edges from the returns only).

Only model-checked: liveness (`JoinsWithoutExit`, `CampaignEnds`, `StopEnds`,
`AnalysisEnds`), which the prover does not reach. Type invariants are
theorems (of `CpuPool`, `Campaign`, `ForkMode`, `Corpus` and `DomCache`; of `Dominators`,
`CoverageSlots`, `DriverContext`, `CrashMerge` and `AccessSummaries` the typing is part
of the inductive invariant) and are not run again.

## 5. Not modelled

* The text of generated drivers and the back ends, the generator, and the pool
  of drivers: printing and glue.
* The generation service: `update_api_state` is called with one argument fewer
  than the factory takes, so no request that pushes feedback succeeds.
* The factories by type, backward and by search: walks over the same graph with
  the same context. Of `CBFactory`: stubs of function pointers, constants, auxiliary
  statements, structures by value and pointers to pointers, variadic calls.
* The static biases (`IBias`, `WBias`): they change probabilities only.
* Of the access tracker: types of debug information and when two of them match,
  the flags for sizes and file paths, the sources of lengths, global variables,
  copies of memory (`addr_of` and `memcpy`), memory that a function reads or leaves
  behind without a pointer to it, and the cap on the size of a slice.
  `AccessType.cpp` holds an older walk for the same purpose; how values are printed
  as JSON is formatting. In the dominators: the functions that are pruned for the time of the analysis, the
  transient reduction (a drawing aid) and indirect calls.
* The library statistics: one pass that prints.
* Mutation and tracing of libFuzzer: transformations of bytes; `Corpus` takes any
  mutation and any set of features. Energies, the mutation graph, the focus
  function, data flow traces.
* In `ForkMode`: the seeds a job gets, corpus groups, the graceful exit on SIGUSR1,
  which nothing in the repository sends.
* Targets, build scripts and the other static campaign scripts: pure I/O and
  loops over containers of fixed numbers; `perc_api_<project>.txt`, a log without a reader. Vendored and
  generated code (jsoncpp, target drivers) is most of what remains of the
  repository's lines.

## 6. Plan

Done so far, in this order: pool, factory and campaign, fork mode; merge, corpus,
context and condition manager, block graph and dominators; cache of the
dominators, CPUs of the coverage campaign; summaries of the access tracker; proofs of
every safety property the runs check. Next:

1. Action properties of the corpus and the merge, proved from the same invariants.
2. The backward and search factories on top of `DriverContext`.
