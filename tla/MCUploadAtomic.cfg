SPECIFICATION FairSpec
CONSTANTS
    Uploaders = {u}
    NumNames = 2
    Size <- MCOneSize
    Retries = 1
    Orig = orig
    Servers <- MCFullLength
    MaxRuns = 2
PROPERTIES
    ReplacesAtomically
    UploadEnds
CHECK_DEADLOCK FALSE
