CONSTANTS
  Size = 6
  Pad = 8
  MinDefrag = 128
  Thold = 100
  MaxMoves = 1
  Slots = {0}
  SlotCtx = 5
  PromptLens = {1, 3}
  NBatch = 2
  NUbatch = 2
  FirstSystem = 1
  NewSystems = {0, 2, 7}
  CanErase = TRUE
  EarlyTask = TRUE
SPECIFICATION Spec
INVARIANTS NoStrayTokens
CHECK_DEADLOCK FALSE
