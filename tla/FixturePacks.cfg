CONSTANTS
    d1 = d1
    d2 = d2
    a = a
    b = b
    c = c
    Protocols = {2, 28}
    Digests = {d1, d2}
    PathsOf <- MCPathsOf
    Damaged = Damaged
    None = None
    Releases <- MCReleases
    Foreign <- MCForeign
    MaxCalls = 2
    MaxMoves = 1
SPECIFICATION Spec
INVARIANTS
    HandedOutIsThePack
    CacheHoldsWholePacks
    OnlyVerifiedIsStaged
CHECK_DEADLOCK FALSE
