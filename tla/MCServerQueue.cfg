SPECIFICATION Spec
CONSTANTS
  a = a
  b = b
  c3 = c3
  s1 = s1
  s2 = s2
  Client = {a, b, c3}
  Slot = {s1, s2}
  AnySlot = AnySlot
  Rounds = 2
  Scenarios <- ServedScenarios
INVARIANTS NoSleepOverDeferred
PROPERTIES EndsClean ServerEnds EveryRequestAnswered
