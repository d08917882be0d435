SPECIFICATION FairSpec
CONSTANTS
  Remote = {a, b}
  Local = here
  Entries = {"file"}
  MaxPastes = 1
  MaxAgain = 1
  MaxDrops = 2
  MaxCloses = 1
  MaxClicks = 1
INVARIANTS
  CutKeepsCopy
  NoRowLeft
  OrphansExplained
PROPERTIES
  JobEnds
CHECK_DEADLOCK FALSE
