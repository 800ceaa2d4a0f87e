SPECIFICATION FairSpec
CONSTANTS
    Consumers = {k1}
    Conns = {c1}
    None = None
    Sizes = {1, 3}
    TooLarge <- Loose
    MaxNumber = 3
    MaxIds = 3
    MaxLost = 1
    InMax = 2
    Deadlines = FALSE
    Patient = TRUE
CHECK_DEADLOCK FALSE
PROPERTIES EverySendEnds
