SPECIFICATION Spec
CONSTANTS
  Proc = {1, 2}
  NoBus = {2}
  Conn = {1, 2}
  Name = {1, 3}
  NoName = 0
  Place <- MCPlace
  OldKey = 0
  MaxKeys = 2
  Limits <- MCLimits
INVARIANTS
  LostOnlyUnsaved
PROPERTIES
  SaveKeeps
CHECK_DEADLOCK FALSE
