SPECIFICATION Spec
CONSTANTS
  copy = copy
  here = here
  there = there
  Ops = {copy}
  Sessions = {here, there}
  Src <- MCSrc
  Dest <- MCDest
  MaxLosses = 2
INVARIANTS
  AnswerTrue
  ResidueExplained
  FailureStopsRelay
PROPERTIES
  DeadlineAnswers
CHECK_DEADLOCK FALSE
