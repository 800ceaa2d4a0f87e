SPECIFICATION Spec
CONSTANTS
    Consumers = {k1, k2}
    Conns = {c1}
    None = None
    Sizes = {1, 2}
    TooLarge <- Tight
    MaxNumber = 2
    MaxIds = 2
    MaxLost = 1
    InMax = 2
    Deadlines = TRUE
    Patient = FALSE
SYMMETRY Symmetry
CHECK_DEADLOCK FALSE
INVARIANTS BooksAgree GivenUpForCause
PROPERTIES AtLeastOnceSpec
