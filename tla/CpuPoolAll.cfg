CONSTANTS
  NTasks = 4
  MaxCpu = 2
  Failures = {"raise", "exit"}
SPECIFICATION FairSpec
CHECK_DEADLOCK FALSE
INVARIANTS
  CpuExclusive
  SlotsAccounted
  DropNeedsCrash
PROPERTIES
  ImplementsLease
  JoinsWithoutExit
