SPECIFICATION Spec
CONSTANTS
  f = f
  fg = fg
  gh = gh
  h = h
  NoDeep = NoDeep
  Apis <- MCApis
  SourceApi <- MCSourceApi
  DepGraph <- MCDepGraph
  NAst <- MCNAst
  NamePrefix <- MCNamePrefix
  Key <- MCKey
  DriverSize = 3
  NumbersOfUnknown = {0}
  Biases = {"seed_number"}
  MaxTrial = 2
  MaxDrivers = 4
  ApiPercMax = 101
  DeepTimeout <- FiveMinutes
  Causes = {"C", "I", "P"}
  NoInput = {fg}
  SeedCounts = {1, 2}
INVARIANTS
  WeightsCountSeeds
