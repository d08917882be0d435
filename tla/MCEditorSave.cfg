SPECIFICATION Spec
CONSTANTS
  MaxOps = 2
  MaxSaves = 2
  MaxReads = 1
  MaxCalls = 1
  MaxContent = 2
  MaxClock = 2
  MaxTrouble = 2
INVARIANTS
  TargetOrBackup
  NoSilentOverwrite
  CleanMeansStored
  AnswerIsOwn
CHECK_DEADLOCK FALSE
