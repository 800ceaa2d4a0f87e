SPECIFICATION Spec
CONSTANTS
  Targets = {1, 2}
  Tries = 1
  OutMax = 1
  MaxSends = 3
  Flushes = {"f"}
  Programs <- Several
CHECK_DEADLOCK FALSE
INVARIANTS Accounted EndsOnce StreamsKept FlushHonest
PROPERTIES WrittenOutFirst
