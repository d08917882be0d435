SPECIFICATION FairSpec
CONSTANTS
    Size <- MCTwoChunks
    Mtime <- MCTimes
    Workers = {w1, w2}
    PerByte = 8
    Retries = 1
    MaxRuns = 2
    MaxCrash = 1
    MaxEdits = 1
    MaxLoss = 1
INVARIANTS
    InstalledWhole
    OriginalKept
PROPERTIES
    DownloadEnds
CHECK_DEADLOCK FALSE
