---------------------------- MODULE CoverageSlots ----------------------------
(***************************************************************************)
(* The CPUs of fuzzing_campaigns/run_coverage.sh.  The script starts one   *)
(* container after another, each on a CPU of its own, and keeps the name   *)
(* of the container that has a CPU.  It waits while as many containers run *)
(* as it may start, then makes the CPUs of ended containers free: those    *)
(* whose container grep does not find among the running ones.              *)
(*                                                                         *)
(* A container is named by its number, COV_ID; all are of one project.     *)
(* Containers end at any time, also while the script looks.                *)
(***************************************************************************)
EXTENDS Integers, FiniteSets

CONSTANTS MAX_CPUs,
          Containers  \* how many the campaign asks for

ASSUME SlotsAssumption == MAX_CPUs \in Nat \ {0} /\ Containers \in 0..999

VARIABLES at,
          COV_ID,         \* the next container
          CPU_ALLOCATED,  \* cpu -> the container it was given to, or None
          looking,        \* the CPU the script looks at to free it
          on              \* cpu -> the containers that run there

slotVars == <<at, COV_ID, CPU_ALLOCATED, looking, on>>

None == -1  \* "x"

\* {0..MAX_CPUs}: one more than the containers that may run.
CPUs == 0..MAX_CPUs

\* Mutant of Slots: one CPU for each container that may run.
SlotsExact == 1..MAX_CPUs

\* The CPUs that are given away.
Slots == CPUs

InitSlots ==
  /\ at = "count" /\ COV_ID = 0 /\ looking = 0
  /\ CPU_ALLOCATED = [c \in CPUs |-> None]
  /\ on = [c \in CPUs |-> {}]
-----------------------------------------------------------------------------
Running == UNION {on[c] : c \in CPUs}

\* grep: the name occurs in the other, whose number begins with the same digits.
Matches(i, j) == i = j \/ (i > 0 /\ (j \div 10 = i \/ j \div 100 = i))

Full == Cardinality(Running) = MAX_CPUs

Count ==
  /\ at = "count" /\ COV_ID < Containers /\ ~Full
  /\ at' = "free" /\ looking' = 0
  /\ UNCHANGED <<COV_ID, CPU_ALLOCATED, on>>

\* Mutant of InUse: the container to be started is looked for.
InUseNext(c) == \E j \in Running : Matches(COV_ID, j)

InUse(c) == \E j \in Running : Matches(CPU_ALLOCATED[c], j)

FreeEnded ==
  /\ at = "free" /\ looking \in CPUs
  /\ CPU_ALLOCATED' = IF InUse(looking) THEN CPU_ALLOCATED ELSE [CPU_ALLOCATED EXCEPT ![looking] = None]
  /\ looking' = looking + 1
  /\ UNCHANGED <<at, COV_ID, on>>

FreeCpus == {c \in Slots : CPU_ALLOCATED[c] = None}

\* find_free_cpuid takes the first CPU in the order of bash's hash table, a choice that depends on the set only.
Launch ==
  /\ at = "free" /\ looking \notin CPUs /\ FreeCpus # {}
  /\ LET c == CHOOSE c \in FreeCpus : TRUE
     IN  /\ CPU_ALLOCATED' = [CPU_ALLOCATED EXCEPT ![c] = COV_ID]
         /\ on' = [on EXCEPT ![c] = @ \cup {COV_ID}]
  /\ COV_ID' = COV_ID + 1 /\ at' = "count"
  /\ UNCHANGED looking

\* The CPU is -1: docker refuses it, and with bash -e the script is over.
NoCpuLeft ==
  /\ at = "free" /\ looking \notin CPUs /\ FreeCpus = {}
  /\ at' = "failed"
  /\ UNCHANGED <<COV_ID, CPU_ALLOCATED, looking, on>>

\* The wait for the last containers.
Finish ==
  /\ at = "count" /\ COV_ID = Containers /\ Running = {}
  /\ at' = "done"
  /\ UNCHANGED <<COV_ID, CPU_ALLOCATED, looking, on>>

ContainerEnds(c) ==
  /\ \E i \in on[c] : on' = [on EXCEPT ![c] = @ \ {i}]
  /\ UNCHANGED <<at, COV_ID, CPU_ALLOCATED, looking>>

Script == Count \/ FreeEnded \/ Launch \/ NoCpuLeft \/ Finish

NextSlots == Script \/ \E c \in CPUs : ContainerEnds(c)

SlotsSpec == InitSlots /\ [][NextSlots]_slotVars
-----------------------------------------------------------------------------
(* Properties. *)

\* The limit holds, and two containers never share a CPU, whenever others end and whatever their names.
OnePerCpu == Cardinality(Running) <= MAX_CPUs /\ \A c \in CPUs : Cardinality(on[c]) <= 1

\* Two ended containers must keep their CPUs before none is free, for there is one CPU more than
\* containers: only from container 21 on, when the names of 1 and 2 may both be found in others.
FailsLate == at = "failed" => COV_ID > 20
=============================================================================
