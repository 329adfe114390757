CONSTANTS
    MaxAttempts = 3
    Overall = 5
    Idle = 2
    Base = 1
    Cap = 2
    Late = 1
    t = t
    a = a
    b = b
    c1 = c1
    c2 = c2
    None = None
    Names = {t, a, b}
    Tag = t
    Shas = {c1, c2}
    PerPage = 1
    MaxPages = 2
    FirstLists <- MCFirstLists
    MaxMoves = 1
SPECIFICATION FairLookupSpec
INVARIANTS
    OverByTheDeadline
    LookupIsTrue
PROPERTIES
    RetriesInTime
    EveryLookupEnds
CHECK_DEADLOCK FALSE
