SPECIFICATION USpec
CONSTANTS
  Tape_Num = 12
  Samples <- MCSamples
  Taps <- MCTaps
  Lengths <- MCLengths
  Garbage <- MCGarbage
  DELAYS = 3
  PollsForOutput = FALSE
INVARIANTS
  OneHandshakePerAccess
  AnswersInTime
  EagerOutputsLackLastTap
