SPECIFICATION BeatsSpec
CONSTANTS
    Interval = 2
    Prepare = 3
    Really = 2
    QueueMax = 2
    Forced = 1
    Loops = {"thread", "polls", "calls"}
    MaxTime = 9
    MaxWaiting = 1
CHECK_DEADLOCK FALSE
INVARIANTS OnTime SilentOnly IdlingKeeps
