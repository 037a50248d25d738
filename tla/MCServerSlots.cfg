CONSTANTS
  Size = 4
  Pad = 8
  MinDefrag = 128
  Thold = 100
  MaxMoves = 1
  Slots = {0, 1}
  SlotCtx = 4
  PromptLens = {1, 3}
  NBatch = 2
  NUbatch = 2
  FirstSystem = 0
  NewSystems = {}
  CanErase = FALSE
  EarlyTask = FALSE
SPECIFICATION Spec
INVARIANTS SlotsAreWhole SlotsAgree
PROPERTY PromptsEnd
