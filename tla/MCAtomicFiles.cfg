SPECIFICATION Spec
CHECK_DEADLOCK FALSE
CONSTANTS
    r = r
    d = d
    Recorders = {r}
    Corpora = {d}
    Size <- MCSize
    MaxChunks = 2
    MaxInodes = 14
    MaxStarts = 3
    MaxKills = 1
    MaxLosses = 1
INVARIANTS
    NeverInPart
    SuccessIsDurable
    CheckpointBacked
    TornIsLoud
