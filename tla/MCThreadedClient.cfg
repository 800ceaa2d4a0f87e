SPECIFICATION FairSpec
CONSTANTS
    t1 = t1
    t2 = t2
    t3 = t3
    Threads <- MCThreads
    Io = Io
    None = None
    Capacity = 1
    Programs <- MCPrograms
INVARIANTS
    NoPostLost
    ReadersWoken
PROPERTIES
    EveryCallReturns
CHECK_DEADLOCK FALSE
