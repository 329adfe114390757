CONSTANTS
    Inputs <- AllInputs
    Statuses = {"pass", "fail"}
    Workflows <- MCWorkflows
    Words <- MCWords
    AllowedWords <- MCAllowed
    DeniedWords <- MCDenied
    MaxNames = 2
    None = None
SPECIFICATION InputsSpec
INVARIANT
    ProblemsAreNamed
CHECK_DEADLOCK FALSE
