CONSTANTS
    Inputs <- AllInputs
    Statuses = {"pass", "fail"}
    Workflows <- MCWorkflows
    Words <- MCWords
    AllowedWords <- MCAllowed
    DeniedWords <- MCDenied
    MaxNames = 2
    None = None
SPECIFICATION FairInputsSpec
INVARIANTS
    GreenIsEarned
    ExecutionFailedIsUnmistakable
    OutputsPointAtWholeFiles
    ExitCodeDecides
    EngineIsAskedAsMeant
    SecretsStayInside
PROPERTY
    EveryRunEnds
CHECK_DEADLOCK FALSE
