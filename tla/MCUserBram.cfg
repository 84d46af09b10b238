SPECIFICATION Spec
CONSTANTS
  DELAYS = 10
  N = 10
  Addresses <- MCWithin
  Lanes <- MCLanes
  Bytes <- MCBytes
  Garbage = 1
INVARIANTS
  ReadsLastWrite
  AnswersOnTime
