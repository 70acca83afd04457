SPECIFICATION FairSpec
CONSTANTS
  f = f
  fg = fg
  gh = gh
  h = h
  NoDeep = NoDeep
  Apis <- MCApis
  SourceApi <- MCSourceApi
  DepGraph <- MCDepGraph
  NAst <- MCNAst
  NamePrefix <- MCNamePrefix
  Key <- MCKey
  DriverSize = 4
  NumbersOfUnknown = {0, 1}
  Biases = {"field_sum"}
  MaxTrial = 2
  MaxDrivers = 3
  ApiPercMax = 100
  DeepTimeout <- FiveMinutes
  Causes = {"C", "P"}
  NoInput = {fg}
  SeedCounts = {1, 2}
INVARIANTS
  BlameIsLocal
  OwnFeedback
  DeepDriversEarned
  PrefixesAccounted
PROPERTIES
  NegativeIsFinal
  CampaignEnds
