--------------------------- MODULE MCCoverageSlots ---------------------------
(* The instance of CoverageSlots for TLC: 1 and 2 are contained in the names of the ten containers each
   that follow, and three CPUs leave one spare. *)
EXTENDS CoverageSlots

MCCpus == 3
MCContainers == 23
=============================================================================
