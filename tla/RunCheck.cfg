CONSTANTS
    Timeouts <- MCTimeouts
    MaxTimerMs = 2
    StdoutLimit = 2
    StderrLimit = 4
    Notice = 1
    MaxChunk = 3
    MaxStderr = 11
    MaxCancels = 2
    Heirs <- AnyHeir
SPECIFICATION FairSpec
INVARIANTS
    Supervised
    SettledForGood
    NewestStderrIsKept
PROPERTIES
    KeepsPromise
    ChildIsStopped
    EveryUnheldCallSettles
CHECK_DEADLOCK FALSE
