SPECIFICATION Spec
CONSTANTS
  Tape_Num = 3
  Samples <- MCSamples
  Taps <- MCTaps
  Lengths <- MCLengths
  Garbage <- MCGarbage
INVARIANTS
  OutputsAreConvolutions
  OneOutputPerSample
  DoneMeansAll
  IInv
PROPERTIES
  ImplementsStream
