CONSTANTS
    v1 = v1
    v2 = v2
    c1 = c1
    c2 = c2
    c3 = c3
    FirstTags <- MCFirstTags
    None = None
    Versions = {v1, v2}
    Commits = {c1, c2, c3}
    CommitSays <- MCCommitSays
    Published = {v1, v2}
    AssetSays <- TrueAssetSays
    MaxRuns = 2
    MaxMoves = 1
SPECIFICATION Spec
INVARIANT
    EarlierVersionIsReplaced
CHECK_DEADLOCK FALSE
