SPECIFICATION Spec
CONSTANTS
    Specs = {a}
    Policies = {overwrite}
    Overwrite = overwrite
    NoSpec = nospec
    Slots = {s1, s2, s3}
    MaxActive = 2
    MaxTries = 1
    EvtCap = 2
    MaxXfer = 2
    MaxDrops = 1
    MaxManual = 0
    CmdCap = 2
SYMMETRY Symmetry
INVARIANTS
    OneWriterPerTarget
CHECK_DEADLOCK FALSE
