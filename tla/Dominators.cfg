SPECIFICATION FairSpec
CONSTANTS
  Icfgs <- MCIcfgs
  MaxDepth = 2
INVARIANTS
  BlocksAreStraight
  DominatorsWerePassed
  DomIsExact
PROPERTIES
  AnalysisEnds
CHECK_DEADLOCK FALSE
