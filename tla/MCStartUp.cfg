SPECIFICATION Spec
CONSTANTS
  Outputs <- MCOutputs
INVARIANTS
  ConfigAsWritten
  NoMixedMode
  PinsChangeTogether
PROPERTIES
  StartUpEnds
CHECK_DEADLOCK FALSE
