CONSTANTS
    Limit = 3
    MaxBody = 4
    Framings <- AllFramings
    Worlds <- AllWorlds
SPECIFICATION FairDownloadSpec
INVARIANTS
    WithinBudget
PROPERTIES
    KeepsFetchPromise
    EveryDownloadSettles
    EveryServedFileArrives
CHECK_DEADLOCK FALSE
