SPECIFICATION SlotsSpec
CONSTANTS
  MAX_CPUs <- MCCpus
  Containers <- MCContainers
INVARIANTS OnePerCpu FailsLate
CHECK_DEADLOCK FALSE
