SPECIFICATION FairSpec
CONSTANTS
  Targets = {1}
  Tries = 2
  OutMax = 1
  MaxSends = 1
  Flushes = {"f"}
  Programs <- Timed
CHECK_DEADLOCK FALSE
PROPERTIES AllEnd
