------------------------------ MODULE CpuPool ------------------------------
(***************************************************************************)
(* The process pool of a dynamic campaign                                  *)
(* (fuzzing_campaigns/run_dynamic_drv_creation.py).                        *)
(*                                                                         *)
(* _main() submits one task per (project, iteration) to a                  *)
(* multiprocessing.Pool of MaxCpu processes.  A task claims a CPU in the   *)
(* shared dictionary running_threads, under a lock, pins its containers to *)
(* it, and gives it back at its end, under the lock again.  There is no    *)
(* try/finally around the body: a task whose body raises, or ends its      *)
(* process with exit(), never gives its CPU back.                          *)
(*                                                                         *)
(* Tasks are numbered in the order itertools.product yields them, which is *)
(* the order in which apply_async queues them and the pool starts them.    *)
(* The local variables of dyn_drv_gen are indexed by task, pc included;    *)
(* what a task does between claiming and releasing its CPU is module       *)
(* Campaign.                                                               *)
(***************************************************************************)
EXTENDS Integers, FiniteSets

CONSTANTS NTasks,   \* |projects| * ITERATIONS
          MaxCpu,   \* MAX_CPUs: the CPUs, and the processes of the pool
          Failures  \* the ways a task body may fail in this instance

ASSUME NTasksAssumption == NTasks \in Nat
ASSUME MaxCpuAssumption == MaxCpu \in Nat \ {0}
ASSUME FailuresAssumption == Failures \subseteq {"raise", "exit"}

VARIABLES main,             \* control of _main(): "submit", "join", "end"
          submitted,        \* tasks 1..submitted went through apply_async
          started,          \* tasks 1..started were taken by a process
          pending,          \* Pool._cache: tasks whose result is awaited
          running_threads,  \* the managed dictionary, CPU -> in use
          lock,             \* the task holding the lock, or NoTask
          pc,               \* control of each task
          k,                \* next key the loop over the dictionary reads
          cpu_id            \* the CPU of each task, -1 before it has one

vars == <<main, submitted, started, pending, running_threads, lock, pc, k, cpu_id>>

Tasks == 1..NTasks
Cpus == 0..(MaxCpu - 1)
NoTask == 0
NoCpu == -1

\* The tasks that occupy a process of the pool.
Active == {t \in Tasks : pc[t] \in {"acquire", "scan", "claim", "check", "body", "release", "free"}}

\* The tasks that took a CPU and can still give it back.
Holding == {t \in Tasks : pc[t] \in {"body", "release", "free"}}

\* The tasks whose body failed: the CPU each of them took is lost.
Crashed == {t \in Tasks : pc[t] \in {"raised", "exited"}}

Init ==
  /\ main = "submit"
  /\ submitted = 0
  /\ started = 0
  /\ pending = {}
  /\ running_threads = [c \in Cpus |-> FALSE]
  /\ lock = NoTask
  /\ pc = [t \in Tasks |-> "queued"]
  /\ k = [t \in Tasks |-> 0]
  /\ cpu_id = [t \in Tasks |-> NoCpu]

\* pool.apply_async(func=dyn_drv_gen, ...) of the next (project, iteration).
ApplyAsync ==
  /\ main = "submit"
  /\ submitted < NTasks
  /\ submitted' = submitted + 1
  /\ pending' = pending \union {submitted + 1}
  /\ UNCHANGED <<main, started, running_threads, lock, pc, k, cpu_id>>

\* pool.close() after the last submission; _main() then blocks in join().
Close ==
  /\ main = "submit"
  /\ submitted = NTasks
  /\ main' = "join"
  /\ UNCHANGED <<submitted, started, pending, running_threads, lock, pc, k, cpu_id>>

\* pool.join() returns: the pool keeps its processes up for as long as the
\* result of some task is missing.
Join ==
  /\ main = "join"
  /\ pending = {}
  /\ main' = "end"
  /\ UNCHANGED <<submitted, started, pending, running_threads, lock, pc, k, cpu_id>>

\* Mutant of TakeTask: one process more than CPUs.
TakeTaskOneMore ==
  /\ started < submitted
  /\ Cardinality(Active) <= MaxCpu
  /\ started' = started + 1
  /\ pc' = [pc EXCEPT ![started + 1] = "acquire"]
  /\ UNCHANGED <<main, submitted, pending, running_threads, lock, k, cpu_id>>

\* A free process of the pool takes the oldest task of the queue.
TakeTask ==
  /\ started < submitted
  /\ Cardinality(Active) < MaxCpu
  /\ started' = started + 1
  /\ pc' = [pc EXCEPT ![started + 1] = "acquire"]
  /\ UNCHANGED <<main, submitted, pending, running_threads, lock, k, cpu_id>>

\* Mutant of AcquireToScan: the scan starts without the lock.
AcquireToScanUnlocked(t) ==
  /\ pc[t] = "acquire"
  /\ pc' = [pc EXCEPT ![t] = "scan"]
  /\ k' = [k EXCEPT ![t] = 0]
  /\ UNCHANGED <<main, submitted, started, pending, running_threads, lock, cpu_id>>

\* `with lock:` before the scan.
AcquireToScan(t) ==
  /\ pc[t] = "acquire"
  /\ lock = NoTask
  /\ lock' = t
  /\ pc' = [pc EXCEPT ![t] = "scan"]
  /\ k' = [k EXCEPT ![t] = 0]
  /\ UNCHANGED <<main, submitted, started, pending, running_threads, cpu_id>>

\* The loop reads one key, a round trip to the manager process: the first
\* key whose value is False ends the loop.
ScanKey(t) ==
  /\ pc[t] = "scan"
  /\ k[t] < MaxCpu
  /\ IF running_threads[k[t]]
       THEN /\ k' = [k EXCEPT ![t] = @ + 1]
            /\ UNCHANGED <<pc, cpu_id>>
       ELSE /\ cpu_id' = [cpu_id EXCEPT ![t] = k[t]]
            /\ pc' = [pc EXCEPT ![t] = "claim"]
            /\ UNCHANGED k
  /\ UNCHANGED <<main, submitted, started, pending, running_threads, lock>>

\* The loop ends without a free CPU.  The key -1, once there, is the last one,
\* and whatever its value cpu_id ends up as -1.
ScanEnd(t) ==
  /\ pc[t] = "scan"
  /\ k[t] = MaxCpu
  /\ pc' = [pc EXCEPT ![t] = "claim"]
  /\ UNCHANGED <<main, submitted, started, pending, running_threads, lock, k, cpu_id>>

\* running_threads[cpu_id] = True, then the lock is released.  The assignment
\* is made for cpu_id = -1 too, which adds that key to the dictionary.
Claim(t) ==
  /\ pc[t] = "claim"
  /\ running_threads' = [c \in DOMAIN running_threads \union {cpu_id[t]} |->
                           IF c = cpu_id[t] THEN TRUE ELSE running_threads[c]]
  /\ lock' = NoTask
  /\ pc' = [pc EXCEPT ![t] = "check"]
  /\ UNCHANGED <<main, submitted, started, pending, k, cpu_id>>

\* cpu_id == -1: the task prints an error and returns, its work not done.
DropTask(t) ==
  /\ pc[t] = "check"
  /\ cpu_id[t] = NoCpu
  /\ pc' = [pc EXCEPT ![t] = "dropped"]
  /\ pending' = pending \ {t}
  /\ UNCHANGED <<main, submitted, started, running_threads, lock, k, cpu_id>>

StartBody(t) ==
  /\ pc[t] = "check"
  /\ cpu_id[t] # NoCpu
  /\ pc' = [pc EXCEPT ![t] = "body"]
  /\ UNCHANGED <<main, submitted, started, pending, running_threads, lock, k, cpu_id>>

\* The campaign of the task reaches its end.
FinishBody(t) ==
  /\ pc[t] = "body"
  /\ pc' = [pc EXCEPT ![t] = "release"]
  /\ UNCHANGED <<main, submitted, started, pending, running_threads, lock, k, cpu_id>>

\* The body raises an Exception: the pool hands it to error_callback, which
\* logs it, and the process goes on with the next task.
RaiseInBody(t) ==
  /\ "raise" \in Failures
  /\ pc[t] = "body"
  /\ pc' = [pc EXCEPT ![t] = "raised"]
  /\ pending' = pending \ {t}
  /\ UNCHANGED <<main, submitted, started, running_threads, lock, k, cpu_id>>

\* The body calls exit(1) (`embed(); exit(1)` in the framework).  SystemExit is
\* no Exception: it ends the process, which the pool replaces, and the task
\* never has a result.
ExitInBody(t) ==
  /\ "exit" \in Failures
  /\ pc[t] = "body"
  /\ pc' = [pc EXCEPT ![t] = "exited"]
  /\ UNCHANGED <<main, submitted, started, pending, running_threads, lock, k, cpu_id>>

\* `with lock:` at the end of the task.
AcquireToFree(t) ==
  /\ pc[t] = "release"
  /\ lock = NoTask
  /\ lock' = t
  /\ pc' = [pc EXCEPT ![t] = "free"]
  /\ UNCHANGED <<main, submitted, started, pending, running_threads, k, cpu_id>>

\* Mutant of FreeCpu: the entry of the CPU is not reset.
FreeCpuNoReset(t) ==
  /\ pc[t] = "free"
  /\ lock' = NoTask
  /\ pc' = [pc EXCEPT ![t] = "done"]
  /\ pending' = pending \ {t}
  /\ UNCHANGED <<main, submitted, started, running_threads, k, cpu_id>>

\* Mutant of FreeCpu: the lock is acquired by hand and not released.
FreeCpuKeepLock(t) ==
  /\ pc[t] = "free"
  /\ running_threads' = [running_threads EXCEPT ![cpu_id[t]] = FALSE]
  /\ pc' = [pc EXCEPT ![t] = "done"]
  /\ pending' = pending \ {t}
  /\ UNCHANGED <<main, submitted, started, lock, k, cpu_id>>

\* running_threads[cpu_id] = False, then the lock is released and the task
\* returns.
FreeCpu(t) ==
  /\ pc[t] = "free"
  /\ running_threads' = [running_threads EXCEPT ![cpu_id[t]] = FALSE]
  /\ lock' = NoTask
  /\ pc' = [pc EXCEPT ![t] = "done"]
  /\ pending' = pending \ {t}
  /\ UNCHANGED <<main, submitted, started, k, cpu_id>>

\* The end of the campaign: _main() returned.
Ended == main = "end" /\ UNCHANGED vars

ClaimCpu(t) == AcquireToScan(t) \/ ScanKey(t) \/ ScanEnd(t) \/ Claim(t) \/ DropTask(t) \/ StartBody(t)

Body(t) == FinishBody(t) \/ RaiseInBody(t) \/ ExitInBody(t)

Release(t) == AcquireToFree(t) \/ FreeCpu(t)

Next ==
  \/ ApplyAsync
  \/ Close
  \/ Join
  \/ TakeTask
  \/ \E t \in Tasks : ClaimCpu(t) \/ Body(t) \/ Release(t)
  \/ Ended

Spec == Init /\ [][Next]_vars
\* Every process of the machine is scheduled and the campaign of a task is
\* bounded by its timeouts, so no step stays possible for ever without being
\* taken.  The steps of a task form a finite path: weak fairness is enough for
\* the lock too, although it is not a fair one.
Fairness ==
  /\ WF_vars(ApplyAsync \/ Close \/ Join)
  /\ WF_vars(TakeTask)
  /\ \A t \in Tasks : WF_vars(ClaimCpu(t) \/ Body(t) \/ Release(t))

FairSpec == Spec /\ Fairness
-----------------------------------------------------------------------------
\* The tasks whose CPU is marked as used in running_threads.
Leasing == {t \in Tasks : cpu_id[t] # NoCpu /\ pc[t] \in {"check", "body", "release", "free", "raised", "exited"}}

TaskStates == {"queued", "acquire", "scan", "claim", "check", "body", "release", "free",
               "done", "dropped", "raised", "exited"}

\* The dictionary holds every CPU and may hold the stray key -1; the other
\* variables of the pool and of dyn_drv_gen keep their ranges.
TypeOK ==
  /\ main \in {"submit", "join", "end"}
  /\ submitted \in 0..NTasks
  /\ started \in 0..submitted
  /\ pending \subseteq 1..submitted
  /\ running_threads \in [Cpus -> BOOLEAN] \union [Cpus \union {NoCpu} -> BOOLEAN]
  /\ lock \in Tasks \union {NoTask}
  /\ pc \in [Tasks -> TaskStates]
  /\ k \in [Tasks -> 0..MaxCpu]
  /\ cpu_id \in [Tasks -> Cpus \union {NoCpu}]

\* Two campaigns never share a CPU: dyn_drv_gen pins its containers to a CPU that
\* no running task, and no crashed one, took before and still has.
CpuExclusive ==
  \A t \in Holding, u \in Leasing :
    t # u => cpu_id[t] # cpu_id[u]

\* running_threads tells the truth: a CPU is marked as used exactly when a task
\* that took it runs, or ended without giving it back.
SlotsAccounted ==
  \A c \in Cpus : running_threads[c] <=> \E t \in Leasing : cpu_id[t] = c

\* With as many processes as CPUs, the `cpu_id == -1` branch of dyn_drv_gen is
\* only reached after some task crashed and leaked its CPU.
DropNeedsCrash ==
  (\E t \in Tasks : pc[t] = "dropped") => Crashed # {}

\* When pool.join() returns no task runs, none waits, and the lock is free.
JoinedMeansQuiet ==
  main = "end" => Active = {} /\ started = NTasks /\ lock = NoTask

\* A CPU leaked by a crashed task is never used again by the campaign: nothing
\* but the end of the task that took it resets its entry.
LeakIsForever ==
  [][\A t \in Crashed : t \in Crashed' /\ running_threads'[cpu_id[t]]]_vars

\* The CPU leases of CpuLease, as running_threads and the tasks carry them.
OwnerOf(c) ==
  IF \E t \in Leasing : cpu_id[t] = c
    THEN CHOOSE t \in Leasing : cpu_id[t] = c
    ELSE NoTask

Served == {t \in Tasks : cpu_id[t] # NoCpu /\ pc[t] # "claim"}

Lease == INSTANCE CpuLease WITH
  owner <- [c \in Cpus |-> OwnerOf(c)],
  served <- Served

\* The locked dictionary implements CPU leases: claiming a CPU grants it to a task
\* that never had one, resetting the entry ends the lease of that task, and no
\* other step, a crash included, changes a lease.
ImplementsLease == Lease!Spec

\* pool.join() returns unless a body ended its process: a body that raises, a task
\* without a CPU and the order in which the lock is taken keep nobody waiting.
JoinsWithoutExit == <>(main = "end" \/ \E t \in Tasks : pc[t] = "exited")

-----------------------------------------------------------------------------
(* The inductive invariant behind the theorems of CpuPool_proofs. *)

\* Only the task that holds the lock reads or writes the dictionary.
LockInv == \A t \in Tasks : pc[t] \in {"scan", "claim", "free"} <=> lock = t

\* Tasks start in order, and a task has a CPU once its scan found one.
OrderInv ==
  /\ \A t \in Tasks : pc[t] = "queued" <=> t > started
  /\ \A t \in Tasks : pc[t] \in {"queued", "acquire", "scan"} => cpu_id[t] = NoCpu
  /\ \A t \in Tasks : pc[t] \in {"body", "release", "free", "done", "raised", "exited"} => cpu_id[t] # NoCpu

\* pending holds the submitted tasks that did not return, those that ended their
\* process included.
PendingInv ==
  /\ pending = {t \in 1..submitted : pc[t] \notin {"done", "dropped", "raised"}}
  /\ main # "submit" => submitted = NTasks
  /\ main = "end" => pending = {}

\* What the scan saw is still true when the task acts on it.
ScanInv ==
  /\ \A t \in Tasks : pc[t] = "scan" => \A c \in Cpus : c < k[t] => running_threads[c]
  /\ \A t \in Tasks : pc[t] = "claim" /\ cpu_id[t] = NoCpu => \A c \in Cpus : running_threads[c]
  /\ \A t \in Tasks : pc[t] = "claim" /\ cpu_id[t] # NoCpu => ~running_threads[cpu_id[t]]

LeaseUnique == \A t, u \in Leasing : cpu_id[t] = cpu_id[u] => t = u

PoolBound == Cardinality(Active) <= MaxCpu

\* A task on its way to being dropped proves an earlier crash.
DropInv ==
  \A t \in Tasks : pc[t] = "dropped" \/ (pc[t] = "check" /\ cpu_id[t] = NoCpu) => Crashed # {}

\* The strengthening of the safety properties that every step of the pool and of
\* its tasks preserves.
IInv ==
  /\ TypeOK
  /\ LockInv
  /\ OrderInv
  /\ PendingInv
  /\ ScanInv
  /\ SlotsAccounted
  /\ LeaseUnique
  /\ PoolBound
  /\ DropInv
=============================================================================
