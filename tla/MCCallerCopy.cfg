SPECIFICATION FairSpec
CONSTANTS
    Uploads = {u}
    Downloads = {d}
    Old = old
    None = none
    Sizes = {2}
    MaxLen = 3
    MaxOdd = 1
INVARIANTS
    WholeOrKept
    LocalWhole
    OneReader
    AnswerHeard
    SlotsExplained
PROPERTIES
    CallEnds
CHECK_DEADLOCK FALSE
