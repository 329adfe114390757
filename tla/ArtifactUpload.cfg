CONSTANTS
    l1 = l1
    l2 = l2
    l3 = l3
    matrix = matrix
    check = check
    other = other
    None = None
    Legs = {l1, l2, l3}
    Labels = {matrix}
    LabelOf <- SharedLabel
    MaxAttempts = 3
    Worlds <- AllWorlds
    Identities = {check, other}
    IdentityOf <- JobOf
    PerPage = 1
    MaxPages = 2
    Scenes <- AllScenes
    MaxEdits = 1
SPECIFICATION FairCommentSpec
INVARIANTS
    OutcomeIsTrue
    EveryLegArrivesOnce
    CommentsKeepTheirOwner
PROPERTIES
    OneCommentPerJob
    EveryLegEnds
CHECK_DEADLOCK FALSE
