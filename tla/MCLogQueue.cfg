SPECIFICATION LogSpec
CONSTANTS
  Capacity = 2
  Messages = 7
INVARIANTS NothingLost PausedIsQuiet
PROPERTY PauseReturns
