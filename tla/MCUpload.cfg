SPECIFICATION Spec
CONSTANTS
    Uploaders = {u}
    NumNames = 1
    Size <- MCSameSize
    Retries = 1
    Orig = orig
    Servers <- MCAllServers
    MaxRuns = 2
INVARIANTS
    CommitComplete
    NothingLost
CHECK_DEADLOCK FALSE
