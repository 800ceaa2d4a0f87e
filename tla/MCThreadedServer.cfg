SPECIFICATION FairSpec
CONSTANTS
  Conns = {c1}
  MaxVersion = 2
  MaxRouted = 2
  Room = 3
  InMax = 1
  Dispatch = TRUE
  Workers = {w1, w2}
  QueueSize = 0
  Programs <- MCPrograms
  w1 = w1
  w2 = w2
CHECK_DEADLOCK FALSE
INVARIANTS NoRequestLost NothingRefused AcknowledgedHolds
PROPERTIES ServedBeforeShutdown DrainEnds CallbackRuns CloseReturns
