SPECIFICATION CSpec
CONSTANTS
  Tape_Num = 7
  Samples <- MCSamples
  Taps <- MCTaps
  Lengths <- MCLengths
  Garbage <- MCGarbage
  DELAYS = 3
  PollsForOutput = TRUE
  N = 8
  InputSignal <- MCInputSignal
  TapValues <- MCTapValues
  Calls = 2
  MaxResets = 1
INVARIANT
  StoresConvolution
PROPERTIES
  KeepsTheRule
  ReturnsComplete
  Terminates
