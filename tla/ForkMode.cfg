SPECIFICATION FairSpec
CONSTANTS
  CommandLines <- MCCommandLines
INVARIANTS
  JobsConserved
  QuietCleanup
  IgnoredFailureIsNotTheCause
  LatePlateauHasCoverage
  PlateauEndsRun
PROPERTIES
  StopEnds
