SPECIFICATION Spec
CONSTANTS
  W = 3
  EndOfTime = 4
  Increments <- MCIncrements
  FirstCycles <- MCFirstCycles
  MaxCalls = 2
INVARIANTS
  NoSpuriousInterrupt
  ReadsWithinCall
  PcountResetClean
PROPERTIES
  DeadlineServed
CHECK_DEADLOCK FALSE
