\* One query of every kind over two connections; two alike over one.
CONSTANTS
    Queries = {q1, q2}
    Conns = {c1, c2}
    First = q1
    OneConn = c1
    NoConn = NoConn
    Addressed = {TRUE, FALSE}
    Pinned = {TRUE, FALSE}
    Timed = {TRUE, FALSE}
    ClearSlack = 1
SPECIFICATION MCSpec
CHECK_DEADLOCK FALSE
INVARIANTS NoFalseFailure HopeRemembered NothingForgotten
PROPERTIES NeverBack EveryTimedQueryEnds
