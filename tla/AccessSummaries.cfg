SPECIFICATION FairSpec
CONSTANTS
  Programs <- MCPrograms
  MAX_FIELD_DEPTH = 2
  MAX_FIXPOINT_ITERATIONS = 3
  MAX_INDIRECT_TARGETS = 1
  MaxCalls = 3
INVARIANTS
  Covered
  NothingInvented
PROPERTIES
  AnalysisEnds
CHECK_DEADLOCK FALSE
