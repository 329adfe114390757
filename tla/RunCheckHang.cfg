CONSTANTS
    Timeouts <- MCTimeouts
    MaxTimerMs = 2
    StdoutLimit = 2
    StderrLimit = 4
    Notice = 1
    MaxChunk = 1
    MaxStderr = 2
    MaxCancels = 1
    Heirs <- AnyHeir
SPECIFICATION FairSpec
PROPERTY
    EveryCallSettles
CHECK_DEADLOCK FALSE
