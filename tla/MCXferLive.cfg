SPECIFICATION FairSpec
CONSTANTS
    Specs = {a}
    Policies = {overwrite}
    Overwrite = overwrite
    NoSpec = nospec
    Slots = {s1, s2}
    MaxActive = 1
    MaxTries = 2
    EvtCap = 2
    MaxXfer = 1
    MaxDrops = 2
    MaxManual = 1
    CmdCap = 2
PROPERTIES
    Settles
    ReconnectsOrGivesUp
CHECK_DEADLOCK FALSE
