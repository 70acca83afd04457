--------------------------- MODULE CpuPool_proofs ---------------------------
(***************************************************************************)
(* Proofs about CpuPool, for every number of tasks and CPUs and every      *)
(* choice of failures.  IInv is inductive: there is one lemma per action,  *)
(* and the safety properties and the refinement of CpuLease follow.  The   *)
(* last sections are about CoverageSlots, whose CPUs a script gives away.  *)
(***************************************************************************)
EXTENDS CpuPool, CoverageSlots, FiniteSetTheorems, TLAPS

-----------------------------------------------------------------------------
(* Facts shared by the steps. *)

\* The tasks that occupy a process of the pool form a finite set.
LEMMA ActiveFinite == IsFiniteSet(Active) /\ Cardinality(Active) \in Nat
<1>1. IsFiniteSet(Tasks)
  BY FS_Interval, NTasksAssumption DEF Tasks
<1>2. Active \in SUBSET Tasks
  BY DEF Active
<1> QED
  BY <1>1, <1>2, FS_Subset, FS_CardinalityType

\* A step that puts no task on a process keeps the bound of the pool.
LEMMA ActiveShrinks ==
  ASSUME PoolBound, Active' \subseteq Active
  PROVE  PoolBound'
<1>1. Cardinality(Active') <= Cardinality(Active) /\ Cardinality(Active') \in Nat
  BY ActiveFinite, FS_Subset, FS_CardinalityType
<1> QED
  BY <1>1, ActiveFinite, MaxCpuAssumption DEF PoolBound

\* A step that touches neither the dictionary nor who took which CPU keeps the
\* dictionary truthful.
LEMMA LeasesKept ==
  ASSUME IInv, UNCHANGED running_threads, Leasing' = Leasing,
         \A t \in Leasing : cpu_id'[t] = cpu_id[t]
  PROVE  SlotsAccounted' /\ LeaseUnique'
BY DEF IInv, SlotsAccounted, LeaseUnique

\* The counting argument: a task that holds the lock and finds all CPUs in use is
\* itself on one of the MaxCpu processes, so at most MaxCpu - 1 live tasks account
\* for MaxCpu used CPUs, and a crashed task has to account for the rest.
LEMMA FullNeedsCrash ==
  ASSUME IInv, NEW t \in Tasks, pc[t] = "claim", \A c \in Cpus : running_threads[c]
  PROVE  Crashed # {}
<1> SUFFICES ASSUME Crashed = {} PROVE FALSE
  OBVIOUS
<1> DEFINE Others == Active \ {t}
<1> DEFINE f == [c \in Cpus |-> CHOOSE u \in Leasing : cpu_id[u] = c]
<1>1. \A c \in Cpus : f[c] \in Leasing /\ cpu_id[f[c]] = c
  BY DEF IInv, SlotsAccounted
<1>2. Leasing \subseteq Others
  BY DEF Leasing, Active, Crashed
<1>3. f \in [Cpus -> Others]
  BY <1>1, <1>2
<1>4. IsFiniteSet(Others) /\ Cardinality(Others) = Cardinality(Active) - 1
  BY ActiveFinite, FS_RemoveElement DEF Active
<1>5. IsFiniteSet(Cpus) /\ Cardinality(Cpus) = MaxCpu
  BY FS_Interval, MaxCpuAssumption DEF Cpus
<1>6. Cardinality(Others) < Cardinality(Cpus)
  BY <1>4, <1>5, ActiveFinite, MaxCpuAssumption DEF IInv, PoolBound
<1>7. PICK x, y \in Cpus : x # y /\ f[x] = f[y]
  <2> HIDE DEF f, Others
  <2> QED
    BY <1>3, <1>4, <1>5, <1>6, FS_PigeonHole
<1> QED
  BY <1>1, <1>7

-----------------------------------------------------------------------------
(* The invariant holds initially and every action preserves it. *)

\* The campaign starts with no task submitted and every CPU free.
LEMMA InitIInv == Init => IInv
<1> SUFFICES ASSUME Init PROVE IInv
  OBVIOUS
<1>1. TypeOK /\ LockInv /\ OrderInv /\ PendingInv
  BY NTasksAssumption, MaxCpuAssumption
     DEF Init, TypeOK, TaskStates, LockInv, OrderInv, PendingInv, Tasks, Cpus, NoTask, NoCpu
<1>2. ScanInv /\ SlotsAccounted /\ LeaseUnique /\ DropInv
  BY DEF Init, ScanInv, SlotsAccounted, LeaseUnique, DropInv, Leasing
<1>3. Active = {}
  BY DEF Init, Active
<1>4. PoolBound
  BY <1>3, FS_EmptySet, MaxCpuAssumption DEF PoolBound
<1> QED
  BY <1>1, <1>2, <1>4 DEF IInv

\* The steps of _main() leave the tasks and the dictionary alone.
LEMMA MainStep ==
  ASSUME IInv, ApplyAsync \/ Close \/ Join
  PROVE  IInv'
<1>1. UNCHANGED <<started, running_threads, lock, pc, k, cpu_id>>
  BY DEF ApplyAsync, Close, Join
<1>2. TypeOK'
  <2>1. CASE ApplyAsync
    BY <2>1, NTasksAssumption DEF IInv, TypeOK, ApplyAsync
  <2>2. CASE Close \/ Join
    BY <2>2 DEF IInv, TypeOK, Close, Join
  <2> QED
    BY <2>1, <2>2
<1>3. PendingInv'
  <2>1. CASE ApplyAsync
    BY <2>1, NTasksAssumption DEF IInv, TypeOK, OrderInv, PendingInv, ApplyAsync, Tasks
  <2>2. CASE Close
    BY <2>2 DEF IInv, PendingInv, Close
  <2>3. CASE Join
    BY <2>3 DEF IInv, PendingInv, Join
  <2> QED
    BY <2>1, <2>2, <2>3
<1>4. LockInv' /\ OrderInv' /\ ScanInv'
  BY <1>1 DEF IInv, LockInv, OrderInv, ScanInv
<1>5. SlotsAccounted' /\ LeaseUnique' /\ PoolBound' /\ DropInv'
  BY <1>1 DEF IInv, SlotsAccounted, LeaseUnique, Leasing, PoolBound, Active, DropInv, Crashed
<1> QED
  BY <1>2, <1>3, <1>4, <1>5 DEF IInv

\* A process takes a task: the pool had a free one.
LEMMA TakeTaskStep ==
  ASSUME IInv, TakeTask
  PROVE  IInv'
<1>1. started + 1 \in Tasks /\ pc[started + 1] = "queued"
  BY NTasksAssumption DEF IInv, TypeOK, OrderInv, TakeTask, Tasks
<1>2. TypeOK' /\ OrderInv' /\ PendingInv'
  BY <1>1, NTasksAssumption DEF IInv, TypeOK, TaskStates, OrderInv, PendingInv, TakeTask, Tasks
<1>3. LockInv'
  BY <1>1, NTasksAssumption DEF IInv, TypeOK, LockInv, TakeTask, Tasks
<1>4. ScanInv' /\ DropInv'
  BY <1>1 DEF IInv, TypeOK, ScanInv, DropInv, Crashed, TakeTask
<1>5. SlotsAccounted' /\ LeaseUnique'
  <2>1. Leasing' = Leasing
    BY <1>1 DEF IInv, TypeOK, Leasing, TakeTask
  <2> QED
    BY <2>1, LeasesKept DEF TakeTask
<1>6. PoolBound'
  <2>1. Active' \subseteq Active \union {started + 1}
    BY <1>1 DEF Active, TakeTask, IInv, TypeOK
  <2>2. /\ IsFiniteSet(Active \union {started + 1})
        /\ Cardinality(Active \union {started + 1}) <= Cardinality(Active) + 1
    BY ActiveFinite, FS_AddElement
  <2>3. /\ Cardinality(Active') \in Nat
        /\ Cardinality(Active') <= Cardinality(Active \union {started + 1})
    BY <2>1, <2>2, FS_Subset, FS_CardinalityType
  <2>4. Cardinality(Active \union {started + 1}) \in Nat
    BY <2>2, FS_CardinalityType
  <2> QED
    BY <2>2, <2>3, <2>4, ActiveFinite, MaxCpuAssumption DEF PoolBound, TakeTask
<1> QED
  BY <1>2, <1>3, <1>4, <1>5, <1>6 DEF IInv

\* Taking the lock before the scan.
LEMMA AcquireToScanStep ==
  ASSUME IInv, NEW t \in Tasks, AcquireToScan(t)
  PROVE  IInv'
<1>1. TypeOK' /\ LockInv'
  BY NTasksAssumption, MaxCpuAssumption DEF IInv, TypeOK, TaskStates, LockInv, AcquireToScan, Tasks, NoTask
<1>2. OrderInv' /\ PendingInv'
  BY NTasksAssumption DEF IInv, TypeOK, OrderInv, PendingInv, AcquireToScan, Tasks
<1>3. ScanInv'
  BY MaxCpuAssumption DEF IInv, TypeOK, ScanInv, AcquireToScan, Cpus
<1>4. DropInv'
  BY DEF IInv, TypeOK, DropInv, Crashed, AcquireToScan
<1>5. SlotsAccounted' /\ LeaseUnique'
  <2>1. Leasing' = Leasing
    BY DEF IInv, TypeOK, Leasing, AcquireToScan
  <2> QED
    BY <2>1, LeasesKept DEF AcquireToScan
<1>6. PoolBound'
  <2>1. Active' \subseteq Active
    BY DEF IInv, TypeOK, Active, AcquireToScan
  <2> QED
    BY <2>1, ActiveShrinks DEF IInv
<1> QED
  BY <1>1, <1>2, <1>3, <1>4, <1>5, <1>6 DEF IInv

\* Taking the lock before the release.
LEMMA AcquireToFreeStep ==
  ASSUME IInv, NEW t \in Tasks, AcquireToFree(t)
  PROVE  IInv'
<1>1. TypeOK' /\ LockInv'
  BY NTasksAssumption, MaxCpuAssumption DEF IInv, TypeOK, TaskStates, LockInv, AcquireToFree, Tasks, NoTask
<1>2. OrderInv' /\ PendingInv'
  BY NTasksAssumption DEF IInv, TypeOK, OrderInv, PendingInv, AcquireToFree, Tasks
<1>3. ScanInv'
  BY MaxCpuAssumption DEF IInv, TypeOK, ScanInv, AcquireToFree, Cpus
<1>4. DropInv'
  BY DEF IInv, TypeOK, DropInv, Crashed, AcquireToFree
<1>5. SlotsAccounted' /\ LeaseUnique'
  <2>1. Leasing' = Leasing
    BY DEF IInv, TypeOK, Leasing, AcquireToFree
  <2> QED
    BY <2>1, LeasesKept DEF AcquireToFree
<1>6. PoolBound'
  <2>1. Active' \subseteq Active
    BY DEF IInv, TypeOK, Active, AcquireToFree
  <2> QED
    BY <2>1, ActiveShrinks DEF IInv
<1> QED
  BY <1>1, <1>2, <1>3, <1>4, <1>5, <1>6 DEF IInv

\* Reading one key of the dictionary.
LEMMA ScanKeyStep ==
  ASSUME IInv, NEW t \in Tasks, ScanKey(t)
  PROVE  IInv'
<1>1. k[t] \in Cpus /\ running_threads[k[t]] \in BOOLEAN /\ k[t] # NoCpu
  BY MaxCpuAssumption DEF IInv, TypeOK, ScanKey, Cpus, NoCpu
<1>2. CASE running_threads[k[t]]
  <2>1. /\ k' = [k EXCEPT ![t] = @ + 1]
        /\ UNCHANGED <<main, submitted, started, pending, running_threads, lock, pc, cpu_id>>
    BY <1>2 DEF ScanKey
  <2>2. TypeOK'
    BY <2>1, <1>1, MaxCpuAssumption DEF IInv, TypeOK, Cpus
  <2>3. ScanInv'
    BY <2>1, <1>2, <1>1, MaxCpuAssumption DEF IInv, TypeOK, ScanInv, Cpus
  <2>4. LockInv' /\ OrderInv' /\ PendingInv' /\ DropInv'
    BY <2>1 DEF IInv, LockInv, OrderInv, PendingInv, DropInv, Crashed
  <2>5. SlotsAccounted' /\ LeaseUnique' /\ PoolBound'
    BY <2>1 DEF IInv, SlotsAccounted, LeaseUnique, Leasing, PoolBound, Active
  <2> QED
    BY <2>2, <2>3, <2>4, <2>5 DEF IInv
<1>3. CASE ~running_threads[k[t]]
  <2>1. /\ pc[t] = "scan"
        /\ cpu_id' = [cpu_id EXCEPT ![t] = k[t]]
        /\ pc' = [pc EXCEPT ![t] = "claim"]
        /\ UNCHANGED <<main, submitted, started, pending, running_threads, lock, k>>
    BY <1>3 DEF ScanKey
  <2>2. TypeOK' /\ LockInv' /\ OrderInv'
    BY <2>1, <1>1 DEF IInv, TypeOK, TaskStates, LockInv, OrderInv
  <2>3. PendingInv'
    BY <2>1, NTasksAssumption DEF IInv, TypeOK, PendingInv, Tasks
  <2>4. ScanInv' /\ DropInv'
    BY <2>1, <1>3, <1>1 DEF IInv, TypeOK, ScanInv, DropInv, Crashed
  <2>5. Leasing' = Leasing /\ \A u \in Leasing : cpu_id'[u] = cpu_id[u]
    BY <2>1 DEF IInv, TypeOK, Leasing
  <2>6. SlotsAccounted' /\ LeaseUnique'
    BY <2>1, <2>5, LeasesKept
  <2>7. Active' \subseteq Active
    BY <2>1 DEF IInv, TypeOK, Active
  <2>8. PoolBound'
    BY <2>7, ActiveShrinks DEF IInv
  <2> QED
    BY <2>2, <2>3, <2>4, <2>6, <2>8 DEF IInv
<1> QED
  BY <1>1, <1>2, <1>3

\* The loop ends: every CPU was seen in use, under the lock.
LEMMA ScanEndStep ==
  ASSUME IInv, NEW t \in Tasks, ScanEnd(t)
  PROVE  IInv'
<1>1. cpu_id[t] = NoCpu
  BY DEF IInv, OrderInv, ScanEnd
<1>2. TypeOK' /\ LockInv' /\ OrderInv' /\ PendingInv'
  BY <1>1, NTasksAssumption
     DEF IInv, TypeOK, TaskStates, LockInv, OrderInv, PendingInv, ScanEnd, Tasks
<1>3. ScanInv'
  <2>1. \A c \in Cpus : running_threads[c]
    BY MaxCpuAssumption DEF IInv, ScanInv, ScanEnd, Cpus
  <2> QED
    BY <2>1, <1>1 DEF IInv, TypeOK, ScanInv, ScanEnd
<1>4. DropInv'
  BY DEF IInv, TypeOK, DropInv, Crashed, ScanEnd
<1>5. SlotsAccounted' /\ LeaseUnique'
  <2>1. Leasing' = Leasing
    BY DEF IInv, TypeOK, Leasing, ScanEnd
  <2> QED
    BY <2>1, LeasesKept DEF ScanEnd
<1>6. PoolBound'
  <2>1. Active' \subseteq Active
    BY DEF IInv, TypeOK, Active, ScanEnd
  <2> QED
    BY <2>1, ActiveShrinks DEF IInv
<1> QED
  BY <1>2, <1>3, <1>4, <1>5, <1>6 DEF IInv

\* Marking the CPU: what Claim does to the dictionary and to the leases.
LEMMA ClaimFacts ==
  ASSUME IInv, NEW t \in Tasks, Claim(t)
  PROVE  /\ \A c \in Cpus : running_threads'[c] = IF c = cpu_id[t] THEN TRUE ELSE running_threads[c]
         /\ cpu_id[t] = NoCpu => Leasing' = Leasing
         /\ cpu_id[t] # NoCpu => Leasing' = Leasing \union {t}
         /\ t \notin Leasing
<1>1. Cpus \subseteq DOMAIN running_threads
  BY DEF IInv, TypeOK
<1> QED
  BY <1>1 DEF Claim, IInv, TypeOK, Leasing

\* The claimed CPU was free; without one, some task has crashed.
LEMMA ClaimStep ==
  ASSUME IInv, NEW t \in Tasks, Claim(t)
  PROVE  IInv'
<1>1. TypeOK'
  BY NTasksAssumption, MaxCpuAssumption DEF IInv, TypeOK, TaskStates, Claim, Tasks, Cpus, NoTask, NoCpu
<1>2. LockInv' /\ OrderInv' /\ PendingInv'
  BY NTasksAssumption DEF IInv, TypeOK, LockInv, OrderInv, PendingInv, Claim, Tasks, NoTask
<1>3. ScanInv'
  BY DEF IInv, TypeOK, ScanInv, LockInv, Claim
<1>4. SlotsAccounted'
  <2>1. \A c \in Cpus : running_threads'[c] = IF c = cpu_id[t] THEN TRUE ELSE running_threads[c]
    BY ClaimFacts
  <2>2. CASE cpu_id[t] = NoCpu
    <3>1. Leasing' = Leasing
      BY <2>2, ClaimFacts
    <3>2. cpu_id[t] \notin Cpus
      BY <2>2, MaxCpuAssumption DEF NoCpu, Cpus
    <3> QED
      BY <2>1, <3>1, <3>2 DEF IInv, SlotsAccounted, Claim
  <2>3. CASE cpu_id[t] # NoCpu
    <3>1. Leasing' = Leasing \union {t}
      BY <2>3, ClaimFacts
    <3> QED
      BY <2>1, <3>1 DEF IInv, SlotsAccounted, Claim
  <2> QED
    BY <2>2, <2>3
<1>5. LeaseUnique'
  <2>1. \A u \in Leasing : cpu_id[t] # NoCpu => cpu_id[u] # cpu_id[t]
    BY DEF IInv, TypeOK, SlotsAccounted, ScanInv, Claim, Leasing
  <2>2. CASE cpu_id[t] = NoCpu
    <3>1. Leasing' = Leasing
      BY <2>2, ClaimFacts
    <3> QED
      BY <3>1 DEF IInv, LeaseUnique, Claim
  <2>3. CASE cpu_id[t] # NoCpu
    <3>1. Leasing' = Leasing \union {t}
      BY <2>3, ClaimFacts
    <3> QED
      BY <2>1, <2>3, <3>1 DEF IInv, LeaseUnique, Claim
  <2> QED
    BY <2>2, <2>3
<1>6. DropInv'
  <2>1. Crashed' = Crashed
    BY DEF Claim, IInv, TypeOK, Crashed
  <2>2. CASE cpu_id[t] = NoCpu
    <3>1. Crashed # {}
      BY <2>2, FullNeedsCrash DEF Claim, IInv, ScanInv
    <3> QED
      BY <2>1, <3>1 DEF DropInv
  <2>3. CASE cpu_id[t] # NoCpu
    BY <2>1, <2>3 DEF Claim, IInv, TypeOK, DropInv
  <2> QED
    BY <2>2, <2>3
<1>7. PoolBound'
  <2>1. Active' \subseteq Active
    BY DEF IInv, TypeOK, Active, Claim
  <2> QED
    BY <2>1, ActiveShrinks DEF IInv
<1> QED
  BY <1>1, <1>2, <1>3, <1>4, <1>5, <1>6, <1>7 DEF IInv

\* Entering the body, or returning for want of a CPU.
LEMMA CheckStep ==
  ASSUME IInv, NEW t \in Tasks, DropTask(t) \/ StartBody(t)
  PROVE  IInv'
<1>1. TypeOK' /\ LockInv' /\ OrderInv'
  BY DEF IInv, TypeOK, TaskStates, LockInv, OrderInv, DropTask, StartBody
<1>2. PendingInv'
  <2>1. CASE DropTask(t)
    BY <2>1, NTasksAssumption DEF IInv, TypeOK, PendingInv, DropTask, Tasks
  <2>2. CASE StartBody(t)
    BY <2>2, NTasksAssumption DEF IInv, TypeOK, PendingInv, StartBody, Tasks
  <2> QED
    BY <2>1, <2>2
<1>3. ScanInv'
  BY DEF IInv, TypeOK, ScanInv, DropTask, StartBody
<1>6. DropInv'
  <2>1. Crashed' = Crashed
    BY DEF IInv, TypeOK, Crashed, DropTask, StartBody
  <2> QED
    BY <2>1 DEF IInv, TypeOK, DropInv, DropTask, StartBody
<1>4. SlotsAccounted' /\ LeaseUnique'
  <2>1. Leasing' = Leasing
    BY DEF IInv, TypeOK, Leasing, DropTask, StartBody
  <2> QED
    BY <2>1, LeasesKept DEF DropTask, StartBody
<1>5. PoolBound'
  <2>1. Active' \subseteq Active
    BY DEF IInv, TypeOK, Active, DropTask, StartBody
  <2> QED
    BY <2>1, ActiveShrinks DEF IInv
<1> QED
  BY <1>1, <1>2, <1>3, <1>4, <1>5, <1>6 DEF IInv

\* The body ends, raises or exits: the CPU stays marked in all three cases.
LEMMA BodyStep ==
  ASSUME IInv, NEW t \in Tasks, Body(t)
  PROVE  IInv'
<1> USE DEF Body
<1>1. TypeOK' /\ LockInv' /\ OrderInv'
  BY DEF IInv, TypeOK, TaskStates, LockInv, OrderInv, FinishBody, RaiseInBody, ExitInBody
<1>2. PendingInv'
  <2>1. CASE FinishBody(t)
    BY <2>1, NTasksAssumption DEF IInv, TypeOK, PendingInv, FinishBody, Tasks
  <2>2. CASE RaiseInBody(t)
    BY <2>2, NTasksAssumption DEF IInv, TypeOK, PendingInv, RaiseInBody, Tasks
  <2>3. CASE ExitInBody(t)
    BY <2>3, NTasksAssumption DEF IInv, TypeOK, PendingInv, ExitInBody, Tasks
  <2> QED
    BY <2>1, <2>2, <2>3
<1>3. ScanInv'
  BY DEF IInv, TypeOK, ScanInv, FinishBody, RaiseInBody, ExitInBody
<1>4. DropInv'
  <2>1. Crashed \subseteq Crashed'
    BY DEF IInv, TypeOK, Crashed, FinishBody, RaiseInBody, ExitInBody
  <2> QED
    BY <2>1 DEF IInv, TypeOK, DropInv, FinishBody, RaiseInBody, ExitInBody
<1>5. SlotsAccounted' /\ LeaseUnique'
  <2>1. Leasing' = Leasing
    BY DEF IInv, TypeOK, OrderInv, Leasing, FinishBody, RaiseInBody, ExitInBody
  <2> QED
    BY <2>1, LeasesKept DEF FinishBody, RaiseInBody, ExitInBody
<1>6. PoolBound'
  <2>1. Active' \subseteq Active
    BY DEF IInv, TypeOK, Active, FinishBody, RaiseInBody, ExitInBody
  <2> QED
    BY <2>1, ActiveShrinks DEF IInv
<1> QED
  BY <1>1, <1>2, <1>3, <1>4, <1>5, <1>6 DEF IInv

\* Resetting the entry: what FreeCpu does to the dictionary and to the leases.
LEMMA FreeCpuFacts ==
  ASSUME IInv, NEW t \in Tasks, FreeCpu(t)
  PROVE  /\ cpu_id[t] \in Cpus /\ t \in Leasing
         /\ Leasing' = Leasing \ {t}
         /\ \A c \in Cpus : running_threads'[c] = IF c = cpu_id[t] THEN FALSE ELSE running_threads[c]
<1>1. cpu_id[t] \in Cpus /\ t \in Leasing
  BY DEF IInv, TypeOK, OrderInv, FreeCpu, Leasing
<1>2. Leasing' = Leasing \ {t}
  BY DEF FreeCpu, IInv, TypeOK, Leasing
<1>3. \A c \in Cpus : running_threads'[c] = IF c = cpu_id[t] THEN FALSE ELSE running_threads[c]
  BY <1>1 DEF FreeCpu, IInv, TypeOK
<1> QED
  BY <1>1, <1>2, <1>3

\* Giving the CPU back ends the lease of this task and of no other.
LEMMA FreeCpuStep ==
  ASSUME IInv, NEW t \in Tasks, FreeCpu(t)
  PROVE  IInv'
<1>1. TypeOK'
  BY FreeCpuFacts, NTasksAssumption DEF IInv, TypeOK, TaskStates, FreeCpu, Tasks, NoTask
<1>2. LockInv' /\ OrderInv' /\ PendingInv'
  BY NTasksAssumption DEF IInv, TypeOK, LockInv, OrderInv, PendingInv, FreeCpu, Tasks, NoTask
<1>3. ScanInv' /\ DropInv'
  BY DEF IInv, TypeOK, ScanInv, LockInv, DropInv, Crashed, FreeCpu
<1>4. SlotsAccounted'
  <2>1. Leasing' = Leasing \ {t} /\ t \in Leasing /\ cpu_id[t] \in Cpus /\ cpu_id' = cpu_id
    BY FreeCpuFacts DEF FreeCpu
  <2>2. \A c \in Cpus : running_threads'[c] = IF c = cpu_id[t] THEN FALSE ELSE running_threads[c]
    BY FreeCpuFacts
  <2> QED
    BY <2>1, <2>2 DEF IInv, SlotsAccounted, LeaseUnique
<1>5. LeaseUnique'
  BY FreeCpuFacts DEF FreeCpu, IInv, LeaseUnique
<1>6. PoolBound'
  <2>1. Active' \subseteq Active
    BY DEF IInv, TypeOK, Active, FreeCpu
  <2> QED
    BY <2>1, ActiveShrinks DEF IInv
<1> QED
  BY <1>1, <1>2, <1>3, <1>4, <1>5, <1>6 DEF IInv

\* Every step of the pool and of its tasks preserves the invariant.
LEMMA NextIInv == IInv /\ [Next]_vars => IInv'
<1> SUFFICES ASSUME IInv, [Next]_vars PROVE IInv'
  OBVIOUS
<1>1. CASE ApplyAsync \/ Close \/ Join
  BY <1>1, MainStep
<1>2. CASE TakeTask
  BY <1>2, TakeTaskStep
<1>3. ASSUME NEW t \in Tasks, ClaimCpu(t) PROVE IInv'
  BY <1>3, AcquireToScanStep, ScanKeyStep, ScanEndStep, ClaimStep, CheckStep DEF ClaimCpu
<1>4. ASSUME NEW t \in Tasks, Body(t) PROVE IInv'
  BY <1>4, BodyStep
<1>5. ASSUME NEW t \in Tasks, Release(t) PROVE IInv'
  BY <1>5, AcquireToFreeStep, FreeCpuStep DEF Release
<1>6. CASE UNCHANGED vars
  BY <1>6 DEF vars, IInv, TypeOK, LockInv, OrderInv, PendingInv, ScanInv, SlotsAccounted,
              LeaseUnique, Leasing, PoolBound, Active, DropInv, Crashed
<1> QED
  BY <1>1, <1>2, <1>3, <1>4, <1>5, <1>6 DEF Next, Ended

-----------------------------------------------------------------------------
(* The theorems. *)

\* The inductive invariant holds in every state of the campaign.
THEOREM Invariant == Spec => []IInv
BY InitIInv, NextIInv, PTL DEF Spec

\* The variables of the pool and the locals of dyn_drv_gen keep their ranges.
THEOREM TypeCorrect == Spec => []TypeOK
<1>1. IInv => TypeOK
  BY DEF IInv
<1> QED
  BY <1>1, Invariant, PTL

\* No campaign is pinned to a CPU that another task took and did not give back.
THEOREM Exclusive == Spec => []CpuExclusive
<1>1. IInv => CpuExclusive
  BY DEF IInv, OrderInv, LeaseUnique, CpuExclusive, Holding, Leasing
<1> QED
  BY <1>1, Invariant, PTL

\* running_threads is truthful in every state.
THEOREM Accounted == Spec => []SlotsAccounted
<1>1. IInv => SlotsAccounted
  BY DEF IInv
<1> QED
  BY <1>1, Invariant, PTL

\* The `cpu_id == -1` branch needs an earlier crash, whatever the number of tasks
\* and CPUs.
THEOREM NoDropWithoutCrash == Spec => []DropNeedsCrash
<1>1. IInv => DropNeedsCrash
  BY DEF IInv, DropInv, DropNeedsCrash
<1> QED
  BY <1>1, Invariant, PTL

\* pool.join() returns only once every task is over.
THEOREM JoinIsQuiet == Spec => []JoinedMeansQuiet
<1>1. IInv => JoinedMeansQuiet
  <2> SUFFICES ASSUME IInv, main = "end"
               PROVE  Active = {} /\ started = NTasks /\ lock = NoTask
    BY DEF JoinedMeansQuiet
  <2>1. \A t \in Tasks : pc[t] \in {"done", "dropped", "raised"}
    BY DEF IInv, PendingInv, Tasks
  <2>2. Active = {}
    BY <2>1 DEF Active
  <2>3. lock = NoTask
    BY <2>1 DEF IInv, TypeOK, LockInv
  <2>4. started = NTasks
    <3>1. NTasks \in Tasks => ~(NTasks > started)
      BY <2>1 DEF IInv, OrderInv
    <3> QED
      BY <3>1, NTasksAssumption DEF IInv, TypeOK, Tasks
  <2> QED
    BY <2>2, <2>3, <2>4
<1> QED
  BY <1>1, Invariant, PTL

\* A CPU leaked by a crash is out of the campaign for good.
THEOREM Leak == Spec => LeakIsForever
<1>1. ASSUME IInv, [Next]_vars, NEW t \in Crashed
      PROVE  t \in Crashed' /\ running_threads'[cpu_id[t]]
  <2> USE DEF Crashed
  <2>1. t \in Leasing /\ cpu_id[t] \in Cpus /\ t \in Tasks
    BY <1>1 DEF IInv, TypeOK, OrderInv, Leasing
  <2>2. running_threads[cpu_id[t]]
    BY <1>1, <2>1 DEF IInv, SlotsAccounted
  <2>3. ASSUME NEW u \in Tasks, Claim(u) PROVE t \in Crashed' /\ running_threads'[cpu_id[t]]
    BY <1>1, <2>1, <2>2, <2>3, ClaimFacts DEF Claim, IInv, TypeOK
  <2>4. ASSUME NEW u \in Tasks, FreeCpu(u) PROVE t \in Crashed' /\ running_threads'[cpu_id[t]]
    <3>1. u # t /\ t \in Crashed'
      BY <1>1, <2>1, <2>4 DEF FreeCpu, IInv, TypeOK
    <3>4. u \in Leasing
      BY <1>1, <2>4, FreeCpuFacts
    <3>2. cpu_id[u] # cpu_id[t]
      BY <1>1, <2>1, <3>1, <3>4 DEF IInv, LeaseUnique
    <3>3. running_threads'[cpu_id[t]] = running_threads[cpu_id[t]]
      BY <1>1, <2>1, <2>4, <3>2, FreeCpuFacts
    <3> QED
      BY <2>2, <3>1, <3>3
  <2>5. CASE UNCHANGED <<running_threads, pc>>
    BY <1>1, <2>1, <2>2, <2>5
  <2>6. CASE TakeTask
    <3>1. pc[started + 1] = "queued"
      BY <1>1, <2>6, NTasksAssumption DEF IInv, TypeOK, OrderInv, TakeTask, Tasks
    <3> QED
      BY <1>1, <2>1, <2>2, <2>6, <3>1 DEF TakeTask, IInv, TypeOK
  <2>7. ASSUME NEW u \in Tasks,
               AcquireToScan(u) \/ ScanKey(u) \/ ScanEnd(u) \/ DropTask(u) \/ StartBody(u)
                 \/ Body(u) \/ AcquireToFree(u)
        PROVE  t \in Crashed' /\ running_threads'[cpu_id[t]]
    BY <1>1, <2>1, <2>2, <2>7
       DEF AcquireToScan, ScanKey, ScanEnd, DropTask, StartBody, Body, FinishBody, RaiseInBody,
           ExitInBody, AcquireToFree, IInv, TypeOK
  <2> QED
    BY <1>1, <2>3, <2>4, <2>5, <2>6, <2>7
       DEF Next, ClaimCpu, Release, ApplyAsync, Close, Join, Ended, vars
<1>2. IInv /\ [Next]_vars => [\A t \in Crashed : t \in Crashed' /\ running_threads'[cpu_id[t]]]_vars
  BY <1>1
<1> QED
  BY <1>2, Invariant, PTL DEF Spec, LeakIsForever

-----------------------------------------------------------------------------
(* CpuPool implements CpuLease. *)

\* Under the invariant the abstract owner of a CPU is the task that took it.
LEMMA OwnerFacts ==
  ASSUME IInv
  PROVE  /\ \A t \in Leasing : OwnerOf(cpu_id[t]) = t
         /\ \A c \in Cpus : (\A t \in Leasing : cpu_id[t] # c) => OwnerOf(c) = NoTask
         /\ \A c \in Cpus : running_threads[c] \/ OwnerOf(c) = NoTask
BY DEF IInv, LeaseUnique, SlotsAccounted, OwnerOf

\* A step that changes neither the tasks with a CPU nor their CPUs changes no lease.
LEMMA LeaseStutter ==
  ASSUME Leasing' = Leasing, Served' = Served, \A t \in Leasing : cpu_id'[t] = cpu_id[t]
  PROVE  UNCHANGED Lease!leaseVars
<1>1. \A c \in Cpus : OwnerOf(c)' = OwnerOf(c)
  <2> SUFFICES ASSUME NEW c \in Cpus PROVE OwnerOf(c)' = OwnerOf(c)
    OBVIOUS
  <2>1. \A t : (t \in Leasing' /\ cpu_id'[t] = c) <=> (t \in Leasing /\ cpu_id[t] = c)
    OBVIOUS
  <2> QED
    BY <2>1 DEF OwnerOf
<1> QED
  BY <1>1 DEF Lease!leaseVars

\* Marking a free CPU as used grants it.
LEMMA ClaimGrants ==
  ASSUME IInv, NEW t \in Tasks, Claim(t)
  PROVE  [Lease!Next]_(Lease!leaseVars)
<1>1. IInv'
  BY ClaimStep
<1>2. CASE cpu_id[t] = NoCpu
  <2>1. Leasing' = Leasing
    BY <1>2, ClaimFacts
  <2>2. Served' = Served /\ cpu_id' = cpu_id
    BY <1>2 DEF Served, Claim, IInv, TypeOK
  <2> QED
    BY <2>1, <2>2, LeaseStutter
<1>3. CASE cpu_id[t] # NoCpu
  <2>1. cpu_id[t] \in Cpus /\ cpu_id' = cpu_id /\ ~running_threads[cpu_id[t]]
    BY <1>3 DEF IInv, TypeOK, ScanInv, Claim
  <2>2. Leasing' = Leasing \union {t}
    BY <1>3, ClaimFacts
  <2>3. t \notin Served /\ Served' = Served \union {t}
    BY <1>3 DEF Served, Claim, IInv, TypeOK
  <2>4. OwnerOf(cpu_id[t]) = NoTask
    BY <2>1, OwnerFacts
  <2>5. OwnerOf(cpu_id[t])' = t
    BY <1>1, <2>2, <2>1 DEF OwnerOf, IInv, LeaseUnique
  <2>6. \A c \in Cpus : c # cpu_id[t] => OwnerOf(c)' = OwnerOf(c)
    <3> SUFFICES ASSUME NEW c \in Cpus, c # cpu_id[t] PROVE OwnerOf(c)' = OwnerOf(c)
      OBVIOUS
    <3>1. \A u : (u \in Leasing' /\ cpu_id'[u] = c) <=> (u \in Leasing /\ cpu_id[u] = c)
      BY <2>1, <2>2
    <3> QED
      BY <3>1 DEF OwnerOf
  <2>7. Lease!Grant(t, cpu_id[t])
    BY <2>1, <2>3, <2>4, <2>5, <2>6 DEF Lease!Grant
  <2> QED
    BY <2>1, <2>7 DEF Lease!Next
<1> QED
  BY <1>2, <1>3

\* Resetting the entry gives the CPU back.
LEMMA FreeCpuGivesBack ==
  ASSUME IInv, NEW t \in Tasks, FreeCpu(t)
  PROVE  Lease!Next
<1>1. cpu_id[t] \in Cpus /\ t \in Leasing /\ cpu_id' = cpu_id
  BY FreeCpuFacts DEF FreeCpu
<1>2. Leasing' = Leasing \ {t}
  BY FreeCpuFacts
<1>3. Served' = Served
  BY DEF Served, FreeCpu, IInv, TypeOK
<1>4. OwnerOf(cpu_id[t]) = t
  BY <1>1, OwnerFacts
<1>5. OwnerOf(cpu_id[t])' = NoTask
  <2>1. \A u \in Leasing' : cpu_id'[u] # cpu_id[t]
    BY <1>1, <1>2 DEF IInv, LeaseUnique
  <2> QED
    BY <1>1, <2>1 DEF OwnerOf
<1>6. \A c \in Cpus : c # cpu_id[t] => OwnerOf(c)' = OwnerOf(c)
  <2> SUFFICES ASSUME NEW c \in Cpus, c # cpu_id[t] PROVE OwnerOf(c)' = OwnerOf(c)
    OBVIOUS
  <2>1. \A u : (u \in Leasing' /\ cpu_id'[u] = c) <=> (u \in Leasing /\ cpu_id[u] = c)
    BY <1>1, <1>2
  <2> QED
    BY <2>1 DEF OwnerOf
<1>7. Lease!GiveBack(t, cpu_id[t])
  BY <1>1, <1>3, <1>4, <1>5, <1>6 DEF Lease!GiveBack
<1> QED
  BY <1>1, <1>7 DEF Lease!Next

\* The locked dictionary implements CPU leases: the refinement checked by TLC, for
\* every number of tasks and CPUs.
THEOREM Refinement == Spec => ImplementsLease
<1>1. Init => Lease!Init
  <2> SUFFICES ASSUME Init PROVE Lease!Init
    OBVIOUS
  <2>1. Leasing = {} /\ Served = {}
    BY DEF Init, Leasing, Served
  <2> QED
    BY <2>1 DEF Lease!Init, OwnerOf
<1>2. IInv /\ [Next]_vars => [Lease!Next]_(Lease!leaseVars)
  <2> SUFFICES ASSUME IInv, [Next]_vars PROVE [Lease!Next]_(Lease!leaseVars)
    OBVIOUS
  <2>1. ASSUME NEW t \in Tasks, Claim(t) PROVE [Lease!Next]_(Lease!leaseVars)
    BY <2>1, ClaimGrants
  <2>2. ASSUME NEW t \in Tasks, FreeCpu(t) PROVE [Lease!Next]_(Lease!leaseVars)
    BY <2>2, FreeCpuGivesBack
  <2>3. CASE UNCHANGED <<pc, cpu_id>>
    BY <2>3, LeaseStutter DEF Leasing, Served
  <2>4. CASE TakeTask
    <3>1. started + 1 \in Tasks /\ pc[started + 1] = "queued" /\ cpu_id[started + 1] = NoCpu
      BY <2>4, NTasksAssumption DEF IInv, TypeOK, OrderInv, TakeTask, Tasks
    <3> QED
      BY <2>4, <3>1, LeaseStutter DEF TakeTask, IInv, TypeOK, Leasing, Served
  <2>5. ASSUME NEW t \in Tasks, ScanKey(t) PROVE UNCHANGED Lease!leaseVars
    <3>1. Leasing' = Leasing /\ \A u \in Leasing : cpu_id'[u] = cpu_id[u]
      BY <2>5 DEF ScanKey, IInv, TypeOK, Leasing
    <3>2. Served' = Served
      BY <2>5 DEF ScanKey, IInv, TypeOK, OrderInv, Served
    <3> QED
      BY <3>1, <3>2, LeaseStutter
  <2>6. ASSUME NEW t \in Tasks,
               AcquireToScan(t) \/ ScanEnd(t) \/ DropTask(t) \/ StartBody(t) \/ Body(t) \/ AcquireToFree(t)
        PROVE  UNCHANGED Lease!leaseVars
    <3>1. cpu_id' = cpu_id
      BY <2>6 DEF AcquireToScan, ScanEnd, DropTask, StartBody, Body, FinishBody, RaiseInBody,
                  ExitInBody, AcquireToFree
    <3>2. Leasing' = Leasing
      BY <2>6 DEF AcquireToScan, ScanEnd, DropTask, StartBody, Body, FinishBody, RaiseInBody,
                  ExitInBody, AcquireToFree, IInv, TypeOK, OrderInv, Leasing
    <3>3. Served' = Served
      BY <2>6 DEF AcquireToScan, ScanEnd, DropTask, StartBody, Body, FinishBody, RaiseInBody,
                  ExitInBody, AcquireToFree, IInv, TypeOK, OrderInv, Served
    <3> QED
      BY <3>1, <3>2, <3>3, LeaseStutter
  <2> QED
    BY <2>1, <2>2, <2>3, <2>4, <2>5, <2>6
       DEF Next, ClaimCpu, Release, ApplyAsync, Close, Join, Ended, vars
<1> QED
  BY <1>1, <1>2, Invariant, PTL DEF Spec, Lease!Spec, ImplementsLease

-----------------------------------------------------------------------------
(* The other allocator of CPUs, run_coverage.sh (CoverageSlots), for any number of CPUs and containers. *)

Typed ==
  /\ COV_ID \in Nat
  /\ CPU_ALLOCATED \in [CPUs -> Int]
  /\ on \in [CPUs -> SUBSET Nat]

\* A CPU is known by the container that runs on it; so no running container loses its CPU.
Owned == \A c \in CPUs : on[c] \subseteq {CPU_ALLOCATED[c]}

\* The limit, with room for one more while CPUs are made free.
Limited ==
  /\ IsFiniteSet(Running) /\ Cardinality(Running) <= MAX_CPUs
  /\ at = "free" => Cardinality(Running) < MAX_CPUs

SlotsInv == Typed /\ Owned /\ Limited
-----------------------------------------------------------------------------
LEMMA SlotsInvInit == InitSlots => SlotsInv
<1> SUFFICES ASSUME InitSlots PROVE SlotsInv
  OBVIOUS
<1>1. Typed /\ Owned
  BY DEF InitSlots, Typed, Owned, None
<1>2. Running = {}
  BY DEF InitSlots, Running
<1>3. Limited
  BY <1>2, FS_EmptySet, SlotsAssumption DEF InitSlots, Limited, SlotsAssumption
<1> QED BY <1>1, <1>3 DEF SlotsInv

\* A container that ends takes nothing from the others.
LEMMA FewerRunning ==
  ASSUME Limited, on' \in [CPUs -> SUBSET Nat], \A c \in CPUs : on'[c] \subseteq on[c], at' = "free" => at = "free"
  PROVE  Limited'
<1>1. Running' \subseteq Running
  BY DEF Running
<1>2. IsFiniteSet(Running') /\ Cardinality(Running') <= Cardinality(Running)
  BY <1>1, FS_Subset DEF Limited
<1>3. Cardinality(Running) \in Nat /\ Cardinality(Running') \in Nat
  BY <1>2, FS_CardinalityType DEF Limited
<1> QED BY <1>2, <1>3, SlotsAssumption DEF Limited, SlotsAssumption

LEMMA SlotsInvStep == SlotsInv /\ [NextSlots]_slotVars => SlotsInv'
<1> SUFFICES ASSUME SlotsInv, [NextSlots]_slotVars PROVE SlotsInv'
  OBVIOUS
<1> USE SlotsAssumption DEF SlotsInv, SlotsAssumption
<1>1. CASE Count
  <2>1. Running' = Running /\ Typed' /\ Owned'
    BY <1>1 DEF Count, Running, Typed, Owned
  <2>2. Cardinality(Running) \in Nat
    BY FS_CardinalityType DEF Limited
  <2> QED BY <1>1, <2>1, <2>2 DEF Count, Full, Limited
<1>2. CASE FreeEnded
  <2>1. Typed'
    BY <1>2 DEF FreeEnded, Typed, None
  <2>2. \A j \in on[looking] : InUse(looking)
    BY <1>2 DEF FreeEnded, InUse, Matches, Running, Owned
  <2>3. Owned'
    BY <1>2, <2>2 DEF FreeEnded, Owned, Typed
  <2>4. Limited'
    BY <1>2, FewerRunning DEF FreeEnded, Typed
  <2> QED BY <2>1, <2>3, <2>4
<1>3. CASE Launch
  <2>1. PICK c \in CPUs :
          /\ CPU_ALLOCATED[c] = None
          /\ CPU_ALLOCATED' = [CPU_ALLOCATED EXCEPT ![c] = COV_ID]
          /\ on' = [on EXCEPT ![c] = @ \cup {COV_ID}]
    <3> DEFINE c == CHOOSE c \in FreeCpus : TRUE
    <3>1. c \in FreeCpus
      BY <1>3 DEF Launch
    <3>2. c \in CPUs /\ CPU_ALLOCATED[c] = None
      BY <3>1 DEF FreeCpus, Slots
    <3> QED BY <1>3, <3>2 DEF Launch
  <2>2. on[c] = {}
    BY <2>1 DEF Owned, Typed, None
  <2>3. Typed' /\ Owned'
    <3>1. CPU_ALLOCATED'[c] = COV_ID /\ on'[c] = {COV_ID}
      BY <2>1, <2>2 DEF Typed
    <3>2. \A d \in CPUs \ {c} : CPU_ALLOCATED'[d] = CPU_ALLOCATED[d] /\ on'[d] = on[d]
      BY <2>1 DEF Typed
    <3>3. Owned'
      BY <3>1, <3>2 DEF Owned
    <3>4. Typed'
      <4>1. COV_ID \in Nat /\ COV_ID \in Int /\ on[c] \cup {COV_ID} \in SUBSET Nat /\ COV_ID' = COV_ID + 1
        BY <1>3 DEF Launch, Typed
      <4>2. CPU_ALLOCATED' \in [CPUs -> Int]
        BY <2>1, <4>1 DEF Typed
      <4>3. on' \in [CPUs -> SUBSET Nat]
        BY <2>1, <4>1 DEF Typed
      <4> QED BY <4>1, <4>2, <4>3 DEF Typed
    <3> QED BY <3>3, <3>4
  <2>4. Running' = Running \cup {COV_ID}
    BY <2>1 DEF Running, Typed
  <2>5. IsFiniteSet(Running') /\ Cardinality(Running') <= Cardinality(Running) + 1
    <3>1. IsFiniteSet(Running) /\ Cardinality(Running) \in Nat
      BY FS_CardinalityType DEF Limited
    <3>2. /\ IsFiniteSet(Running \cup {COV_ID})
          /\ Cardinality(Running \cup {COV_ID}) = (IF COV_ID \in Running THEN Cardinality(Running)
                                                  ELSE Cardinality(Running) + 1)
      BY <3>1, FS_AddElement
    <3> QED BY <2>4, <3>1, <3>2
  <2>6. Cardinality(Running) \in Nat /\ Cardinality(Running) < MAX_CPUs /\ Cardinality(Running') \in Nat /\ at' # "free"
    BY <1>3, <2>5, FS_CardinalityType DEF Launch, Limited
  <2>7. Limited'
    BY <2>5, <2>6 DEF Limited
  <2> QED BY <2>3, <2>7
<1>4. CASE NoCpuLeft \/ Finish
  <2>1. Typed' /\ Owned'
    BY <1>4 DEF NoCpuLeft, Finish, Typed, Owned
  <2> QED BY <1>4, <2>1, FewerRunning DEF NoCpuLeft, Finish, Typed
<1>5. ASSUME NEW c \in CPUs, ContainerEnds(c)
      PROVE  SlotsInv'
  <2>1. on' \in [CPUs -> SUBSET Nat] /\ \A d \in CPUs : on'[d] \subseteq on[d]
    BY <1>5 DEF ContainerEnds, Typed
  <2>2. Typed' /\ Owned'
    BY <1>5, <2>1 DEF ContainerEnds, Typed, Owned
  <2> QED BY <1>5, <2>1, <2>2, FewerRunning DEF ContainerEnds
<1>6. CASE UNCHANGED slotVars
  BY <1>6, FewerRunning DEF slotVars, Typed, Owned
<1> QED BY <1>1, <1>2, <1>3, <1>4, <1>5, <1>6 DEF NextSlots, Script
-----------------------------------------------------------------------------
\* The limit on containers holds, and no two of them ever share a CPU.
THEOREM CpusAreExclusive == SlotsSpec => []OnePerCpu
<1>1. SlotsInv => OnePerCpu
  <2> SUFFICES ASSUME SlotsInv, NEW c \in CPUs
               PROVE  Cardinality(on[c]) <= 1
    BY DEF OnePerCpu, SlotsInv, Limited
  <2>1. IsFiniteSet({CPU_ALLOCATED[c]}) /\ Cardinality({CPU_ALLOCATED[c]}) = 1
    BY FS_Singleton
  <2> QED BY <2>1, FS_Subset DEF SlotsInv, Owned
<1> QED BY <1>1, SlotsInvInit, SlotsInvStep, PTL DEF SlotsSpec
-----------------------------------------------------------------------------
(* No CPU is missing before container 21. *)

\* A CPU has the name of one container that was started, and no two have the same.
NamesOnce ==
  /\ \A c \in CPUs : CPU_ALLOCATED[c] < COV_ID
  /\ \A c, d \in CPUs : CPU_ALLOCATED[c] = CPU_ALLOCATED[d] /\ CPU_ALLOCATED[c] # None => c = d

\* The CPUs that a look around will leave allocated, or has left: those of running containers.  The
\* CPU of container 1 is not counted: its name may be found in another's.
Kept == {c \in CPUs : CPU_ALLOCATED[c] \notin {None, 1} /\ (c < looking \/ on[c] # {})}

\* Of one CPU more than containers there may be, one is for the next container and one for container 1.
Spare == at = "free" => looking \in Nat /\ Cardinality(Kept) < MAX_CPUs

LateInv == NamesOnce /\ (COV_ID <= 20 => Spare) /\ FailsLate

LEMMA CpusAreFinite == IsFiniteSet(CPUs) /\ Cardinality(CPUs) = MAX_CPUs + 1
BY FS_Interval, SlotsAssumption DEF CPUs, SlotsAssumption

\* Fewer CPUs are kept.
LEMMA FewerKept ==
  ASSUME Cardinality(Kept) < MAX_CPUs, Kept' \subseteq Kept
  PROVE  Cardinality(Kept') < MAX_CPUs
<1>1. IsFiniteSet(Kept)
  BY CpusAreFinite, FS_Subset DEF Kept
<1>2. Cardinality(Kept') <= Cardinality(Kept) /\ Cardinality(Kept) \in Nat /\ Cardinality(Kept') \in Nat
  BY <1>1, FS_Subset, FS_CardinalityType
<1> QED BY <1>2, SlotsAssumption DEF SlotsAssumption

\* A container that runs has a CPU of its own, so there are as many of these as containers.
LEMMA RunningCpus ==
  ASSUME SlotsInv, NamesOnce
  PROVE  Cardinality({c \in CPUs : on[c] # {}}) <= Cardinality(Running)
<1> DEFINE busy == {c \in CPUs : on[c] # {}}
           name == [c \in busy |-> CPU_ALLOCATED[c]]
<1>1. \A c \in busy : on[c] = {CPU_ALLOCATED[c]} /\ CPU_ALLOCATED[c] \in Running /\ CPU_ALLOCATED[c] # None
  BY DEF SlotsInv, Owned, Running, Typed, None
<1>2. name \in Injection(busy, Running)
  BY <1>1 DEF NamesOnce, Injection, IsInjective
<1> QED BY <1>2, FS_Injection DEF SlotsInv, Limited

\* Before container 21, a CPU that stays allocated is that of a container that runs, or of container 1.
LEMMA FoundInOne ==
  ASSUME SlotsInv, NamesOnce, COV_ID <= 20, NEW c \in CPUs, InUse(c)
  PROVE  CPU_ALLOCATED[c] = 1 \/ on[c] # {}
<1>1. PICK j \in Running : Matches(CPU_ALLOCATED[c], j)
  BY DEF InUse
<1>2. PICK d \in CPUs : j \in on[d]
  BY DEF Running
<1>3. j \in Nat /\ j = CPU_ALLOCATED[d] /\ j <= 19
  <2>1. j \in Nat /\ j = CPU_ALLOCATED[d]
    BY <1>2 DEF SlotsInv, Owned, Typed
  <2>2. COV_ID \in Nat /\ CPU_ALLOCATED[d] < COV_ID
    BY DEF NamesOnce, SlotsInv, Typed
  <2> QED BY <2>1, <2>2
<1>4. CASE CPU_ALLOCATED[c] = j
  <2>1. c = d
    BY <1>3, <1>4 DEF NamesOnce, None
  <2> QED BY <1>2, <2>1
<1>5. CASE CPU_ALLOCATED[c] > 0 /\ (j \div 10 = CPU_ALLOCATED[c] \/ j \div 100 = CPU_ALLOCATED[c])
  <2>1. j \div 10 \in {0, 1} /\ j \div 100 = 0
    BY <1>3
  <2>2. CPU_ALLOCATED[c] \in Int
    BY DEF SlotsInv, Typed
  <2> QED BY <1>5, <2>1, <2>2
<1> QED BY <1>1, <1>4, <1>5 DEF Matches

LEMMA LateStep == SlotsInv /\ LateInv /\ [NextSlots]_slotVars => LateInv'
<1> SUFFICES ASSUME SlotsInv, LateInv, [NextSlots]_slotVars PROVE LateInv'
  OBVIOUS
<1>1. COV_ID \in Nat /\ CPU_ALLOCATED \in [CPUs -> Int] /\ on \in [CPUs -> SUBSET Nat] /\ MAX_CPUs \in Nat \ {0}
  BY SlotsAssumption DEF SlotsInv, Typed, SlotsAssumption
<1>2. CASE Count
  <2>1. NamesOnce' /\ FailsLate'
    BY <1>2 DEF Count, LateInv, NamesOnce, FailsLate
  <2>2. Kept' \subseteq {c \in CPUs : on[c] # {}}
    BY <1>2 DEF Count, Kept, CPUs
  <2>3. Cardinality({c \in CPUs : on[c] # {}}) <= Cardinality(Running)
    BY RunningCpus DEF LateInv
  <2>4. IsFiniteSet({c \in CPUs : on[c] # {}})
    BY CpusAreFinite, FS_Subset
  <2>5. Cardinality(Kept') <= Cardinality({c \in CPUs : on[c] # {}})
    BY <2>2, <2>4, FS_Subset
  <2>6. Cardinality(Running) < MAX_CPUs /\ Cardinality(Running) \in Nat
    BY <1>1, <1>2, FS_CardinalityType DEF Count, Full, SlotsInv, Limited
  <2>7. Cardinality(Kept') \in Nat /\ Cardinality({c \in CPUs : on[c] # {}}) \in Nat
    BY <2>2, <2>4, FS_Subset, FS_CardinalityType
  <2>8. Cardinality(Kept') < MAX_CPUs
    BY <1>1, <2>3, <2>5, <2>6, <2>7
  <2> QED BY <1>2, <2>1, <2>8 DEF Count, LateInv, Spare
<1>3. CASE FreeEnded
  <2>1. NamesOnce' /\ FailsLate'
    BY <1>1, <1>3 DEF FreeEnded, LateInv, NamesOnce, FailsLate, None
  <2>2. ASSUME COV_ID <= 20
        PROVE  Spare'
    <3>1. looking \in Nat /\ Cardinality(Kept) < MAX_CPUs
      BY <1>3, <2>2 DEF FreeEnded, LateInv, Spare
    <3>2. ASSUME NEW c \in Kept'
          PROVE  c \in Kept
      <4>1. /\ c \in CPUs /\ CPU_ALLOCATED'[c] \notin {None, 1}
            /\ c < looking + 1 \/ on[c] # {}
        BY <1>3, <3>2 DEF Kept, FreeEnded
      <4>2. CPU_ALLOCATED'[c] = CPU_ALLOCATED[c] /\ (c = looking => InUse(c))
        BY <1>1, <1>3, <4>1 DEF FreeEnded
      <4>3. c < looking \/ on[c] # {}
        <5>1. CASE c = looking
          BY <2>2, <4>1, <4>2, <5>1, FoundInOne DEF LateInv
        <5>2. CASE c # looking
          BY <3>1, <4>1, <5>2, SlotsAssumption DEF CPUs, SlotsAssumption
        <5> QED BY <5>1, <5>2
      <4> QED BY <4>1, <4>2, <4>3 DEF Kept
    <3>3. Cardinality(Kept') < MAX_CPUs
      BY <3>1, <3>2, FewerKept
    <3>4. looking' \in Nat
      BY <1>3, <3>1 DEF FreeEnded
    <3> QED BY <3>3, <3>4 DEF Spare
  <2>3. COV_ID' = COV_ID
    BY <1>3 DEF FreeEnded
  <2> QED BY <2>1, <2>2, <2>3 DEF LateInv
<1>4. CASE Launch
  <2>1. \E c \in CPUs : CPU_ALLOCATED' = [CPU_ALLOCATED EXCEPT ![c] = COV_ID]
    <3> DEFINE c == CHOOSE c \in FreeCpus : TRUE
    <3>1. c \in CPUs
      BY <1>4 DEF Launch, FreeCpus, Slots
    <3> QED BY <1>4, <3>1 DEF Launch
  <2>2. PICK c \in CPUs : CPU_ALLOCATED' = [CPU_ALLOCATED EXCEPT ![c] = COV_ID]
    BY <2>1
  <2>3. CPU_ALLOCATED'[c] = COV_ID /\ \A d \in CPUs \ {c} : CPU_ALLOCATED'[d] = CPU_ALLOCATED[d]
    BY <1>1, <2>2
  <2>4. COV_ID' = COV_ID + 1
    BY <1>4 DEF Launch
  <2>5. \A d \in CPUs : CPU_ALLOCATED[d] \in Int /\ CPU_ALLOCATED[d] < COV_ID
    BY <1>1 DEF LateInv, NamesOnce
  <2>6. \A d \in CPUs : CPU_ALLOCATED'[d] < COV_ID'
    BY <1>1, <2>3, <2>4, <2>5
  <2>7. \A d, e \in CPUs : CPU_ALLOCATED'[d] = CPU_ALLOCATED'[e] /\ CPU_ALLOCATED'[d] # None => d = e
    BY <1>1, <2>3, <2>5 DEF LateInv, NamesOnce
  <2>8. at' = "count"
    BY <1>4 DEF Launch
  <2> QED BY <2>6, <2>7, <2>8 DEF LateInv, NamesOnce, Spare, FailsLate
<1>5. CASE NoCpuLeft
  <2>1. COV_ID > 20
    <3> SUFFICES ASSUME COV_ID <= 20 PROVE FALSE
      BY <1>1
    <3>1. Cardinality(Kept) < MAX_CPUs /\ IsFiniteSet(Kept) /\ Cardinality(Kept) \in Nat
      BY <1>5, CpusAreFinite, FS_Subset, FS_CardinalityType DEF NoCpuLeft, LateInv, Spare, Kept
    <3>2. \A c \in CPUs : c < looking
      BY <1>1, <1>5 DEF NoCpuLeft, LateInv, Spare, CPUs
    <3>3. \A c \in CPUs : CPU_ALLOCATED[c] # None
      BY <1>5 DEF NoCpuLeft, FreeCpus, Slots
    <3>4. PICK d : \A c \in CPUs : CPU_ALLOCATED[c] = 1 => c = d
      BY DEF LateInv, NamesOnce, None
    <3>5. CPUs \subseteq Kept \cup {d}
      BY <3>2, <3>3, <3>4 DEF Kept
    <3>6. IsFiniteSet(Kept \cup {d}) /\ Cardinality(Kept \cup {d}) <= Cardinality(Kept) + 1
      BY <3>1, FS_AddElement
    <3>7. Cardinality(CPUs) <= Cardinality(Kept \cup {d}) /\ Cardinality(Kept \cup {d}) \in Nat
      BY <3>5, <3>6, FS_Subset, FS_CardinalityType
    <3> QED BY <1>1, <3>1, <3>6, <3>7, CpusAreFinite
  <2> QED BY <1>5, <2>1 DEF NoCpuLeft, LateInv, NamesOnce, Spare, FailsLate
<1>6. CASE Finish
  BY <1>6 DEF Finish, LateInv, NamesOnce, Spare, FailsLate
<1>7. ASSUME NEW c \in CPUs, ContainerEnds(c)
      PROVE  LateInv'
  <2>1. \A d \in CPUs : on'[d] \subseteq on[d]
    BY <1>1, <1>7 DEF ContainerEnds
  <2>2. Kept' \subseteq Kept
    BY <1>7, <2>1 DEF Kept, ContainerEnds
  <2>3. Cardinality(Kept) < MAX_CPUs => Cardinality(Kept') < MAX_CPUs
    BY <2>2, FewerKept
  <2> QED BY <1>7, <2>3 DEF ContainerEnds, LateInv, NamesOnce, Spare, FailsLate
<1>8. CASE UNCHANGED slotVars
  BY <1>8 DEF slotVars, LateInv, NamesOnce, Spare, FailsLate, Kept
<1> QED BY <1>2, <1>3, <1>4, <1>5, <1>6, <1>7, <1>8 DEF NextSlots, Script

\* The script does not run out of CPUs before container 21, whenever the others end.
THEOREM NoFailureBefore21 == SlotsSpec => []FailsLate
<1>1. InitSlots => LateInv
  BY DEF InitSlots, LateInv, NamesOnce, Spare, FailsLate, None
<1>2. LateInv => FailsLate
  BY DEF LateInv
<1> QED BY <1>1, <1>2, LateStep, SlotsInvInit, SlotsInvStep, PTL DEF SlotsSpec
=============================================================================
