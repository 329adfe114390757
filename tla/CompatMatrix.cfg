CONSTANTS
    e1 = e1
    e2 = e2
    p1 = p1
    malformed = malformed
    None = None
    Refs = {e1, e2, p1}
    Words = {e1, e2, p1, malformed}
    Requests <- MCRequests
    Defaults <- MCDefaults
    MaxCells = 2
    Signatures = {"known"}
    Registries <- MCRegistries
    CliRuns <- MCCliRuns
    Worlds = {{}, {"step"}, {"runner", "upload"}, {"download", "collect"}}
SPECIFICATION FairSpec
INVARIANTS
    GreenIsEarned
    RedIsWarranted
PROPERTIES
    KeepsGatePromise
    EveryMatrixConcludes
CHECK_DEADLOCK FALSE
