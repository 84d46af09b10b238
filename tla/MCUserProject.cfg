SPECIFICATION USpec
CONSTANTS
  Tape_Num = 5
  Samples <- MCSamples
  Taps <- MCTaps
  Lengths <- MCLengths
  Garbage <- MCGarbage
  DELAYS = 3
  PollsForOutput = TRUE
INVARIANTS
  OneHandshakePerAccess
  ReadsAreFresh
  StatusStillTrue
PROPERTIES
  EngineContract
