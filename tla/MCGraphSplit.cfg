SPECIFICATION Spec
CONSTANTS
  MaxWorld  = 3
  MaxWindow = 3
  MaxLayers = 10
INVARIANTS
  LocalIdsFindTheLayer
  SubgraphIdsMatch
  OutputGoesToNextRank
CHECK_DEADLOCK FALSE
