SPECIFICATION TurnsFairSpec
CONSTANTS
  Callers = {t1, t2}
  Loop = Loop
  Nobody = Nobody
  MaxCalls = 3
CHECK_DEADLOCK FALSE
INVARIANTS NoWakeLost
PROPERTIES EveryTurnComes
