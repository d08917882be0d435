SPECIFICATION RunsFairSpec
CONSTANTS
  MaxRuns = 2
  MaxCalls = 1
  MaxDrops = 1
INVARIANTS
  FinishedExact
  LossNamed
PROPERTIES
  CallAnswered
  GateFreed
CHECK_DEADLOCK FALSE
