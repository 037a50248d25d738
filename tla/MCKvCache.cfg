CONSTANTS
  Size = 3
  Pad = 1
  MinDefrag = 1
  Thold = 20
  MaxMoves = 1
  Ids = {a, b, c}
  NoId = none
  SeqIds = {0, 1}
  MaxPos = 1
  Ranges <- MCRanges
  Batches <- MCBatches
SPECIFICATION Spec
SYMMETRY Symmetry
INVARIANTS UsedIsAccurate KeysFollowPositions RowsAreDistinct
PROPERTIES FailsOnlyWithoutRoom StoresTokens
