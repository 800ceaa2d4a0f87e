SPECIFICATION FairSpec
CONSTANTS
  Conns = {c1}
  MaxVersion = 1
  MaxRouted = 2
  Room = 3
  InMax = 1
  Dispatch = FALSE
  MaxSends = 1
  Polls = TRUE
  Caps = {TRUE, FALSE}
CHECK_DEADLOCK FALSE
INVARIANTS NothingRefused
PROPERTIES DrainEnds
