SPECIFICATION Spec
CONSTANTS
    Specs = {a, b}
    Policies = {overwrite}
    Overwrite = overwrite
    NoSpec = nospec
    Slots = {s1, s2}
    MaxActive = 1
    MaxTries = 1
    EvtCap = 2
    MaxXfer = 2
    MaxDrops = 1
    MaxManual = 0
    CmdCap = 2
SYMMETRY Symmetry
INVARIANTS
    TypeOK
    SlotAccounting
    QueueOnlyWhenFull
    AtMostOneAttempt
    StrandedOnlyOffline
    NoGhostRow
CHECK_DEADLOCK FALSE
