SPECIFICATION Spec
CONSTANTS
  a = a
  b = b
  c = c
  d = d
  Units <- MCUnits
  Size <- MCSize
  Features <- MCFeatures
  Worlds <- MCWorlds
  FeatureSetSize = 3
  Options <- MCOptions
  NumberOfRarestFeatures = 1
  FeatureFrequencyThreshold = 1
  MaxFreq = 2
  MaxInputs = 4
CHECK_DEADLOCK FALSE
INVARIANTS NumFeaturesExact OwnersHaveFeatures ChosenIsLive LocalFreqsAreRare
