CONSTANTS
  Size = 4
  Pad = 1
  MinDefrag = 128
  Thold = 25
  MaxMoves = 1
  Tokens = 4
  NBatch = 4
  NUbatch = 4
SPECIFICATION BatchSpec
INVARIANTS StoredOnce GivesUpForAReason
PROPERTIES LoopEnds
