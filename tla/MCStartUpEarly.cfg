SPECIFICATION Spec
CONSTANTS
  Outputs <- MCOutputs
INVARIANT
  ConfiguredBeforeStart
CHECK_DEADLOCK FALSE
