----------------------------- MODULE MCCpuPool -----------------------------
(***************************************************************************)
(* Small instances of CpuPool: four tasks on two CPUs, so that tasks wait  *)
(* for a process, for the lock and for a CPU, and a crash can starve a     *)
(* later task.                                                             *)
(***************************************************************************)
EXTENDS CpuPool
=============================================================================
