SPECIFICATION Spec
CONSTANTS
  W = 3
  EndOfTime = 4
  Increments <- MCIncrements
  FirstCycles <- MCFirstCycles
  MaxCalls = 2
INVARIANT
  AsksAtDeadline
CHECK_DEADLOCK FALSE
