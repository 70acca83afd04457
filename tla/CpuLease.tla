----------------------------- MODULE CpuLease -----------------------------
(***************************************************************************)
(* What the campaign promises about the CPUs of the machine: a CPU is      *)
(* leased to at most one task at a time, a task is given at most one CPU   *)
(* in its life, and a lease ends only by its holder giving the CPU back.   *)
(* A task that crashes simply never gives it back.                         *)
(***************************************************************************)
CONSTANTS Tasks, Cpus, NoTask

VARIABLES owner,   \* the task each CPU is leased to, or NoTask
          served   \* the tasks that were given a CPU

leaseVars == <<owner, served>>

Init ==
  /\ owner = [c \in Cpus |-> NoTask]
  /\ served = {}

Grant(t, c) ==
  /\ t \notin served
  /\ owner[c] = NoTask
  /\ owner' = [owner EXCEPT ![c] = t]
  /\ served' = served \union {t}

GiveBack(t, c) ==
  /\ owner[c] = t
  /\ owner' = [owner EXCEPT ![c] = NoTask]
  /\ UNCHANGED served

Next == \E t \in Tasks, c \in Cpus : Grant(t, c) \/ GiveBack(t, c)

Spec == Init /\ [][Next]_leaseVars
=============================================================================
