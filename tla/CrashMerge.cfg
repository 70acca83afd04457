SPECIFICATION Spec
CONSTANTS
  u = u
  v = v
  w = w
  Contents <- MCContents
  Size <- MCSize
  Rank <- MCRank
  Features <- MCFeatures
  FeatureSets <- MCFeatureSets
  FeatureSetSize = 2
  Initial = {}
  OldCorpora <- MCOldCorpora
  NewCorpora <- MCNewCorpora
  MaxStarts = 2
CHECK_DEADLOCK FALSE
INVARIANTS EveryInputTried NoFeatureLost FailureExplained
