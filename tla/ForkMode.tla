------------------------------ MODULE ForkMode ------------------------------
(***************************************************************************)
(* Fork mode of the customised libFuzzer                                   *)
(* (custom-libfuzzer/fuzzer/FuzzerFork.cpp and the callbacks of            *)
(* FuzzerLoop.cpp), inside the container of one driver.                    *)
(*                                                                         *)
(* The parent hands fuzzing jobs to worker threads, each of which waits    *)
(* for one child process, and merges what the finished jobs found.  A      *)
(* detached thread looks at the coverage every ten seconds and ends the    *)
(* run when it stays the same for CovPlateauTimeout.  The parent, its      *)
(* children and the processes that merge all inherit the path of           *)
(* feedback.txt, and each of them overwrites it when it stops; the         *)
(* campaign reads what is left once the container is gone.                 *)
(*                                                                         *)
(* Time is counted in periods of the detached thread, whose checks are     *)
(* assumed to be on time, and inserting into the coverage to take less.    *)
(* A job is a token: its seeds and limits decide when and how its child    *)
(* ends, which is any way here.  Coverage is the number of merges that     *)
(* added to it, up to the bound MaxCov.                                    *)
(***************************************************************************)
EXTENDS Integers, Sequences, FiniteSets

CONSTANT CommandLines  \* the runs of this instance: flags, limits and what may happen, see below

\* -fork=jobs; measure (MeasureCoveragePlateau: COV_PLATEAU_TIMEOUT is set) and plateau, in periods;
\* budget (-max_total_time or -runs is given to the parent); ignore (-ignore_crashes=1
\* -ignore_timeouts=1 -ignore_ooms=1); timeout, the limit of `timeout -k 10s` in periods; gains, the
\* bound on the merges that find new coverage; failures, the causes of a failing child: crash, out
\* of memory, timeout.
ASSUME CommandLinesAssumption ==
  \A f \in CommandLines :
    /\ f.jobs \in Nat \ {0} /\ f.measure \in BOOLEAN /\ f.budget \in BOOLEAN /\ f.ignore \in BOOLEAN
    /\ f.plateau \in Nat \ {0} /\ f.timeout \in Nat \ {0} /\ f.gains \in Nat
    /\ f.failures \subseteq {"C", "O", "T"}

VARIABLES flags,           \* the command line
          main,            \* control of the main thread of FuzzWithFork
          job,             \* ExitCode of the job the main thread has in hand
          pushes,          \* pushes done in the loop it is in
          FuzzQ, MergeQ,   \* the queues: jobs, or Null
          worker,          \* control of each worker thread
          child,           \* the process each worker waits for
          merging,         \* the inner process of a merge
          Cov,             \* Env.Cov
          periodic,        \* the detached thread
          handler,         \* the parent's handler of SIGTERM
          feedback,        \* feedback.txt
          now,             \* periods since FuzzingStart
          box              \* the parent runs ("up"), it is gone ("exiting"),
                           \* the container is gone ("down")

mainVars == <<main, job, pushes>>
queueVars == <<FuzzQ, MergeQ>>
threadVars == <<worker, child, merging>>
clockVars == <<now, flags>>

vars == <<mainVars, queueVars, threadVars, Cov, periodic, handler, feedback, clockVars, box>>

NumJobs == flags.jobs
Measure == flags.measure
Plateau == flags.plateau
Budget == flags.budget
Ignore == flags.ignore
Timeout == flags.timeout
MaxCov == flags.gains
Failures == flags.failures

Workers == 1..NumJobs
Null == "null"
NoFile == [by |-> "nobody", cause |-> "", late |-> FALSE]

\* ofstream::open truncates the file; the two lines follow on close.
Torn(writer) == [by |-> writer, cause |-> "", late |-> FALSE]

\* StoreFeedbackAndExit(cause) of a process that started at `since`: the cause, and
\* whether the time beside it is above the plateau.
Stored(writer, cause, since) == [by |-> writer, cause |-> cause, late |-> now - since > Plateau]

NoChild == [pc |-> "none", cause |-> "", code |-> "", since |-> 0]

Init ==
  /\ flags \in CommandLines
  /\ main = "seeds" /\ job = "" /\ pushes = 0
  /\ FuzzQ = <<>> /\ MergeQ = <<>>
  /\ worker = [w \in Workers |-> "none"]
  /\ child = [w \in Workers |-> NoChild]
  /\ merging = "none"
  /\ Cov = 0
  /\ periodic = [pc |-> IF Measure THEN "sleep" ELSE "off", first |-> TRUE, cov |-> 0, last |-> 0, next |-> 0]
  /\ handler = "none"
  /\ feedback = NoFile
  /\ now = 0
  /\ box = "up"
-----------------------------------------------------------------------------
(* JobQueue.  A push adds to the queue under the mutex and wakes one waiting   *)
(* thread; a pop that finds nothing waits on the condition variable.           *)

\* Mutant of PushFuzz: nobody is notified.
PushFuzzSilent(x) ==
  /\ FuzzQ' = Append(FuzzQ, x)
  /\ UNCHANGED worker

\* FuzzQ.Push(x), by the main thread.
PushFuzz(x) ==
  /\ FuzzQ' = Append(FuzzQ, x)
  /\ \/ \E w \in Workers : worker[w] = "asleep" /\ worker' = [worker EXCEPT ![w] = "pop"]
     \/ (\A w \in Workers : worker[w] # "asleep") /\ UNCHANGED worker

\* MergeQ.Push(x): only the main thread waits there.
PushMerge(x) ==
  /\ MergeQ' = Append(MergeQ, x)
  /\ main' = IF main = "asleep" THEN "pop" ELSE main
-----------------------------------------------------------------------------
(* The main thread of FuzzWithFork. *)

\* CrashResistantMerge, of the seeds or of a job: an inner process that fails in a
\* callback stores that, and the merge goes on with a new one.
MergeCrashes ==
  /\ box = "up" /\ main \in {"seeds", "merge"}
  /\ merging = "none"
  /\ Measure
  /\ merging' = "store"
  /\ feedback' = Torn("merge")
  /\ UNCHANGED <<mainVars, queueVars, worker, child, Cov, periodic, handler, clockVars, box>>

\* A process stores its feedback even when the parent is gone.
MergeStores ==
  /\ box # "down" /\ merging = "store"
  /\ merging' = "none"
  /\ \E cause \in Failures \union (IF handler = "none" THEN {} ELSE {"I"}), late \in BOOLEAN :
       feedback' = [by |-> "merge", cause |-> cause, late |-> late]
  /\ UNCHANGED <<mainVars, queueVars, worker, child, Cov, periodic, handler, clockVars, box>>

\* The merge of the seeds or of a job ends: it found nothing, or the insertion
\* into Env.Cov begins.
MergeEnds ==
  /\ box = "up" /\ main \in {"seeds", "merge"} /\ merging = "none"
  /\ \/ main' = IF main = "seeds" THEN "spawn" ELSE "decide"
     \/ Cov < MaxCov /\ main' = IF main = "seeds" THEN "insertSeeds" ELSE "insert"
  /\ UNCHANGED <<job, pushes, queueVars, threadVars, Cov, periodic, handler, feedback, clockVars, box>>

\* Env.Cov.insert is over.
Inserted ==
  /\ box = "up" /\ main \in {"insertSeeds", "insert"}
  /\ Cov' = Cov + 1
  /\ main' = IF main = "insertSeeds" THEN "spawn" ELSE "decide"
  /\ UNCHANGED <<job, pushes, queueVars, threadVars, periodic, handler, feedback, clockVars, box>>

\* A worker is started, which may find the queue empty; then its job is pushed.
SpawnWorker ==
  /\ box = "up" /\ main = "spawn"
  /\ worker' = [worker EXCEPT ![pushes + 1] = "pop"]
  /\ main' = "spawned"
  /\ UNCHANGED <<job, pushes, queueVars, child, merging, Cov, periodic, handler, feedback, clockVars, box>>

PushFirstJob ==
  /\ box = "up" /\ main = "spawned"
  /\ PushFuzz("job")
  /\ pushes' = pushes + 1
  /\ main' = IF pushes + 1 = NumJobs THEN "pop" ELSE "spawn"
  /\ UNCHANGED <<job, MergeQ, child, merging, Cov, periodic, handler, feedback, clockVars, box>>

\* MergeQ.Pop().  A child that was interrupted ends the run, before its merge.
PopMerge ==
  /\ box = "up" /\ main = "pop"
  /\ IF MergeQ = <<>>
       THEN main' = "asleep" /\ UNCHANGED <<job, pushes, MergeQ>>
       ELSE /\ job' = Head(MergeQ)
            /\ MergeQ' = Tail(MergeQ)
            /\ main' = IF Head(MergeQ) = "interrupt" THEN "stop" ELSE "merge"
            /\ pushes' = 0
  /\ UNCHANGED <<FuzzQ, threadVars, Cov, periodic, handler, feedback, clockVars, box>>

\* After the merge: a failure that is not ignored stops the run, else a new job
\* is pushed.
PushNewJob ==
  /\ box = "up" /\ main = "decide"
  /\ job = "fail" => Ignore
  /\ PushFuzz("job")
  /\ main' = "pop"
  /\ UNCHANGED <<job, pushes, MergeQ, child, merging, Cov, periodic, handler, feedback, clockVars, box>>

\* Mutant of StopOnFailure: a failure stops the run although it is to be ignored.
StopOnFailureAlways ==
  /\ box = "up" /\ main = "decide"
  /\ job = "fail"
  /\ main' = "stop"
  /\ UNCHANGED <<job, pushes, queueVars, threadVars, Cov, periodic, handler, feedback, clockVars, box>>

StopOnFailure ==
  /\ box = "up" /\ main = "decide"
  /\ job = "fail" /\ ~Ignore
  /\ main' = "stop"
  /\ UNCHANGED <<job, pushes, queueVars, threadVars, Cov, periodic, handler, feedback, clockVars, box>>

\* The time or the runs given to the parent are used up.
StopOnBudget ==
  /\ box = "up" /\ main = "decide"
  /\ job = "fail" => Ignore
  /\ Budget
  /\ main' = "stop"
  /\ UNCHANGED <<job, pushes, queueVars, threadVars, Cov, periodic, handler, feedback, clockVars, box>>

\* StopJobs: one Null per worker, then one for MergeQ and the stop file, which the
\* children look for.
StopJobs ==
  /\ box = "up" /\ main = "stop"
  /\ IF pushes < NumJobs
       THEN PushFuzz(Null) /\ pushes' = pushes + 1 /\ UNCHANGED <<main, MergeQ>>
       ELSE MergeQ' = Append(MergeQ, Null) /\ main' = "join" /\ UNCHANGED <<pushes, FuzzQ, worker>>
  /\ UNCHANGED <<job, child, merging, Cov, periodic, handler, feedback, clockVars, box>>

\* Mutant of JoinThreads: the directory is removed without waiting.
JoinThreadsNoWait ==
  /\ box = "up" /\ main = "join"
  /\ main' = "clean"
  /\ UNCHANGED <<job, pushes, queueVars, threadVars, Cov, periodic, handler, feedback, clockVars, box>>

\* All the workers are joined; then the temporary directory is removed.
JoinThreads ==
  /\ box = "up" /\ main = "join"
  /\ \A w \in Workers : worker[w] = "end"
  /\ main' = "clean"
  /\ UNCHANGED <<job, pushes, queueVars, threadVars, Cov, periodic, handler, feedback, clockVars, box>>

ExitMain ==
  /\ box = "up" /\ main = "clean"
  /\ box' = "exiting"
  /\ UNCHANGED <<mainVars, queueVars, threadVars, Cov, periodic, handler, feedback, clockVars>>
-----------------------------------------------------------------------------
(* The workers and their children. *)

\* Mutant of PopFuzz: front() without pop().
PopFuzzKeeps(w) ==
  /\ box = "up" /\ worker[w] = "pop"
  /\ IF FuzzQ = <<>>
       THEN worker' = [worker EXCEPT ![w] = "asleep"] /\ UNCHANGED child
       ELSE IF Head(FuzzQ) = Null
         THEN worker' = [worker EXCEPT ![w] = "end"] /\ UNCHANGED child
         ELSE /\ worker' = [worker EXCEPT ![w] = "wait"]
              /\ child' = [child EXCEPT ![w] = [NoChild EXCEPT !.pc = "run", !.since = now]]
  /\ UNCHANGED <<mainVars, queueVars, merging, Cov, periodic, handler, feedback, clockVars, box>>

\* FuzzQ.Pop(): Null ends the worker, a job starts a child.
PopFuzz(w) ==
  /\ box = "up" /\ worker[w] = "pop"
  /\ IF FuzzQ = <<>>
       THEN worker' = [worker EXCEPT ![w] = "asleep"] /\ UNCHANGED <<FuzzQ, child>>
       ELSE /\ FuzzQ' = Tail(FuzzQ)
            /\ IF Head(FuzzQ) = Null
                 THEN worker' = [worker EXCEPT ![w] = "end"] /\ UNCHANGED child
                 ELSE /\ worker' = [worker EXCEPT ![w] = "wait"]
                      /\ child' = [child EXCEPT ![w] = [NoChild EXCEPT !.pc = "run", !.since = now]]
  /\ UNCHANGED <<mainVars, MergeQ, merging, Cov, periodic, handler, feedback, clockVars, box>>

\* The child is over: its exit code goes to the main thread.
PushResult(w) ==
  /\ box = "up" /\ worker[w] = "wait" /\ child[w].pc = "gone"
  /\ PushMerge(child[w].code)
  /\ worker' = [worker EXCEPT ![w] = "pop"]
  /\ child' = [child EXCEPT ![w] = NoChild]
  /\ UNCHANGED <<job, pushes, FuzzQ, merging, Cov, periodic, handler, feedback, clockVars, box>>

Runs(w) == box # "down" /\ child[w].pc \in {"run", "signalled"}

\* The child reaches its max_total_time or finds the stop file; or the sanitizer
\* ends it, whose DeathCallback stores nothing.
ChildEnds(w) ==
  /\ Runs(w)
  /\ \E code \in {"ok", "fail"} : child' = [child EXCEPT ![w].pc = "gone", ![w].code = code]
  /\ UNCHANGED <<mainVars, queueVars, worker, merging, Cov, periodic, handler, feedback, clockVars, box>>

\* A child stops early and, when coverage is measured, opens the feedback file.
ChildStops(w, cause, code) ==
  /\ Runs(w)
  /\ child' = [child EXCEPT ![w].pc = IF Measure THEN "store" ELSE "gone", ![w].cause = cause, ![w].code = code]
  /\ feedback' = IF Measure THEN Torn("child") ELSE feedback
  /\ UNCHANGED <<mainVars, queueVars, worker, merging, Cov, periodic, handler, clockVars, box>>

\* CrashCallback, ExitCallback, CrashOnOverwrittenData, HandleMalloc,
\* RssLimitCallback or AlarmCallback.
ChildFails(w) == \E cause \in Failures : ChildStops(w, cause, "fail")

\* MutateAndTestOne: no new coverage for CovPlateauTimeout in this child.
ChildPlateau(w) ==
  /\ Measure
  /\ now - child[w].since >= Plateau
  /\ ChildStops(w, "P", "interrupt")

\* InterruptCallback of a child that got the SIGTERM of the process group.
ChildInterrupted(w) ==
  /\ child[w].pc = "signalled"
  /\ ChildStops(w, "I", "interrupt")

ChildStores(w) ==
  /\ box # "down" /\ child[w].pc = "store"
  /\ child' = [child EXCEPT ![w].pc = "gone"]
  /\ feedback' = Stored("child", child[w].cause, child[w].since)
  /\ UNCHANGED <<mainVars, queueVars, worker, merging, Cov, periodic, handler, clockVars, box>>
-----------------------------------------------------------------------------
(* startPeriodicHandler.  It reads Env.Cov without a lock: while the main      *)
(* thread inserts, the comparison and the copy may give the old set, the new,  *)
(* or a part (which, like the old, differs from what comes next), or fault.    *)

CovSeen == IF main \in {"insertSeeds", "insert"} THEN {Cov, Cov + 1} ELSE {Cov}

Due == box = "up" /\ periodic.pc = "sleep" /\ periodic.next <= now

\* The fault ends the parent: in CrashCallback, or in a handler that stores nothing.
RaceFaults ==
  /\ Due /\ main \in {"insertSeeds", "insert"}
  /\ feedback' \in {feedback, Stored("parent", "C", 0)}
  /\ box' = "exiting"
  /\ UNCHANGED <<mainVars, queueVars, threadVars, Cov, periodic, handler, clockVars>>

\* The first check takes the coverage as it is.
CollectCoverage ==
  /\ Due /\ periodic.first
  /\ \E c \in CovSeen : periodic' = [periodic EXCEPT !.first = FALSE, !.cov = c, !.last = now, !.next = now + 1]
  /\ UNCHANGED <<mainVars, queueVars, threadVars, Cov, handler, feedback, clockVars, box>>

CoverageChanged ==
  /\ Due /\ ~periodic.first
  /\ \E c \in CovSeen \ {periodic.cov}, copied \in CovSeen :
       periodic' = [periodic EXCEPT !.cov = copied, !.last = now, !.next = now + 1]
  /\ UNCHANGED <<mainVars, queueVars, threadVars, Cov, handler, feedback, clockVars, box>>

\* Mutant of CoverageSame: the plateau must be exceeded.
CoverageSameLonger ==
  /\ Due /\ ~periodic.first
  /\ periodic.cov \in CovSeen
  /\ IF now - periodic.last > Plateau
       THEN periodic' = [periodic EXCEPT !.pc = "store"] /\ feedback' = Torn("parent")
       ELSE periodic' = [periodic EXCEPT !.next = now + 1] /\ UNCHANGED feedback
  /\ UNCHANGED <<mainVars, queueVars, threadVars, Cov, handler, clockVars, box>>

\* Mutant of CoverageSame: the time of the last seed is refreshed as well.
CoverageSameRefreshes ==
  /\ Due /\ ~periodic.first
  /\ periodic.cov \in CovSeen
  /\ IF now - periodic.last >= Plateau
       THEN periodic' = [periodic EXCEPT !.pc = "store"] /\ feedback' = Torn("parent")
       ELSE periodic' = [periodic EXCEPT !.last = now, !.next = now + 1] /\ UNCHANGED feedback
  /\ UNCHANGED <<mainVars, queueVars, threadVars, Cov, handler, clockVars, box>>

\* The same coverage: for long enough, the run is to stop.
CoverageSame ==
  /\ Due /\ ~periodic.first
  /\ periodic.cov \in CovSeen
  /\ IF now - periodic.last >= Plateau
       THEN periodic' = [periodic EXCEPT !.pc = "store"] /\ feedback' = Torn("parent")
       ELSE periodic' = [periodic EXCEPT !.next = now + 1] /\ UNCHANGED feedback
  /\ UNCHANGED <<mainVars, queueVars, threadVars, Cov, handler, clockVars, box>>

\* StoreFeedbackAndExit('P'), and exit(0) of the whole parent.
PlateauExit ==
  /\ box = "up" /\ periodic.pc = "store"
  /\ periodic' = [periodic EXCEPT !.pc = "off"]
  /\ feedback' = Stored("parent", "P", 0)
  /\ box' = "exiting"
  /\ UNCHANGED <<mainVars, queueVars, threadVars, Cov, handler, clockVars>>
-----------------------------------------------------------------------------
(* The clock, `timeout -k 10s` and the container (external). *)

\* A period passes; the check of the detached thread is not late.
Tick ==
  /\ box = "up" /\ ~Due /\ periodic.pc # "store"
  /\ main \notin {"insertSeeds", "insert"}
  /\ now <= Timeout
  /\ now = Timeout => handler # "none"
  /\ now' = now + 1
  /\ UNCHANGED <<flags, mainVars, queueVars, threadVars, Cov, periodic, handler, feedback, box>>

\* The time is over: SIGTERM to the process group.  InterruptCallback begins by
\* removing the temporary directory; in a child that is storing, it comes on top.
Terminate ==
  /\ box = "up" /\ handler = "none" /\ now = Timeout
  /\ handler' = "remove"
  /\ \E caught \in SUBSET {w \in Workers : child[w].pc = "store"} :
       child' = [w \in Workers |->
                   IF child[w].pc = "run" THEN [child[w] EXCEPT !.pc = "signalled"]
                   ELSE IF w \in caught THEN [child[w] EXCEPT !.cause = "I", !.code = "interrupt"]
                   ELSE child[w]]
  /\ UNCHANGED <<mainVars, queueVars, worker, merging, Cov, periodic, feedback, clockVars, box>>

InterruptOpens ==
  /\ box = "up" /\ handler = "remove"
  /\ handler' = "store"
  /\ feedback' = IF Measure THEN Torn("parent") ELSE feedback
  /\ UNCHANGED <<mainVars, queueVars, threadVars, Cov, periodic, clockVars, box>>

InterruptExit ==
  /\ box = "up" /\ handler = "store"
  /\ handler' = "done"
  /\ feedback' = IF Measure THEN Stored("parent", "I", 0) ELSE feedback
  /\ box' = "exiting"
  /\ UNCHANGED <<mainVars, queueVars, threadVars, Cov, periodic, clockVars>>

\* SIGKILL ten seconds after SIGTERM.
Kill ==
  /\ box = "up" /\ now = Timeout + 1
  /\ box' = "exiting"
  /\ UNCHANGED <<mainVars, queueVars, threadVars, Cov, periodic, handler, feedback, clockVars>>

\* start_fuzz_driver.sh returns and the container is removed with all it runs.
ContainerEnds ==
  /\ box = "exiting"
  /\ box' = "down"
  /\ UNCHANGED <<mainVars, queueVars, threadVars, Cov, periodic, handler, feedback, clockVars>>

Ended == box = "down" /\ UNCHANGED vars

FuzzWithFork == MergeEnds \/ Inserted \/ SpawnWorker \/ PushFirstJob \/ PopMerge \/ PushNewJob \/ StopOnFailure
                  \/ StopOnBudget \/ StopJobs \/ JoinThreads \/ ExitMain

WorkerThread(w) == PopFuzz(w) \/ PushResult(w)

Child(w) == ChildEnds(w) \/ ChildFails(w) \/ ChildPlateau(w) \/ ChildInterrupted(w) \/ ChildStores(w)

startPeriodicHandler == RaceFaults \/ CollectCoverage \/ CoverageChanged \/ CoverageSame \/ PlateauExit

Environment == Tick \/ Terminate \/ InterruptOpens \/ InterruptExit \/ Kill \/ ContainerEnds

Next ==
  \/ FuzzWithFork
  \/ MergeCrashes \/ MergeStores
  \/ \E w \in Workers : WorkerThread(w) \/ Child(w)
  \/ startPeriodicHandler
  \/ Environment
  \/ Ended

Spec == Init /\ [][Next]_vars

MaxJobs == CHOOSE n \in {f.jobs : f \in CommandLines} : \A f \in CommandLines : f.jobs <= n

\* The threads and the processes run; the clock need not help.
FairSpec ==
  /\ Spec
  /\ WF_vars(FuzzWithFork)
  /\ \A w \in 1..MaxJobs : WF_vars(w \in Workers /\ WorkerThread(w)) /\ WF_vars(w \in Workers /\ Child(w))
  /\ WF_vars(MergeStores)
-----------------------------------------------------------------------------
(* Properties. *)

\* Jobs in FuzzQ, with a worker, in MergeQ, and in the hand of the main thread.
Jobs ==
  Cardinality({i \in DOMAIN FuzzQ : FuzzQ[i] = "job"}) + Cardinality({w \in Workers : worker[w] = "wait"})
    + Cardinality({i \in DOMAIN MergeQ : MergeQ[i] # Null})
    + IF main \in {"merge", "insert", "decide"} THEN 1 ELSE 0

\* No job is lost or doubled on its way through the two queues, the workers and the
\* main thread: as long as fuzzing goes on there are exactly NumJobs, so every
\* worker has work and each popped job is pushed once (FuzzWithFork,
\* WorkerThread).
JobsConserved == main \in {"pop", "asleep", "merge", "insert", "decide"} => Jobs = NumJobs

\* When the temporary directory is removed no worker runs and no child uses it, and
\* each Null of StopJobs has ended one worker ("Don't try to remove the directory
\* before they terminate", FuzzerFork.cpp:540).
QuietCleanup ==
  main = "clean" => /\ FuzzQ = <<>>
                    /\ \A w \in Workers : worker[w] = "end" /\ child[w].pc = "none"

\* With the ignore flags, a run of one job at a time that ends through its join was
\* ended by a plateau or an interruption, and that is the cause on file, whatever
\* crashes came before; only the parent may be about to write (StoreFeedbackAndExit,
\* FuzzWithFork).
IgnoredFailureIsNotTheCause ==
  /\ Ignore /\ NumJobs = 1 /\ Measure /\ ~Budget /\ main = "clean" /\ box = "up"
  /\ periodic.pc # "store" /\ handler \notin {"store", "done"}
  => feedback.cause \in {"P", "I"}

\* A plateau of the parent is stored with a time above CovPlateauTimeout only when
\* the run gained coverage, so that push_feedfback does not count a driver without
\* any coverage as positive (startPeriodicHandler, StoreFeedbackAndExit).
LatePlateauHasCoverage ==
  feedback.by = "parent" /\ feedback.cause = "P" /\ feedback.late => Cov > 0

\* The detached thread ends the run: each gain of coverage prolongs it by the plateau
\* and, when it is seen half inserted and then again, by one period; after the last
\* gain it ends at the plateau (startPeriodicHandler).
PlateauEndsRun == Measure /\ box = "up" => now < (MaxCov + 1) * (Plateau + 1)

\* Once StopJobs is called, every worker gets its Null, the threads are joined and
\* the parent exits, without the help of the time limit (StopJobs, WorkerThread).
StopEnds == main = "stop" ~> box # "up"
=============================================================================
