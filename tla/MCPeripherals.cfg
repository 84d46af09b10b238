SPECIFICATION Spec
CONSTANTS
  B = 2
  DW = 4
  Depth = 1
  Texts <- MCTexts
  Lengths <- MCLengths
  Buffers <- MCBuffers
  MaxReceived = 2
  MaxCalls = 3
INVARIANTS
  AccessorsSound
  PrintedInOrder
  CharactersHaveEvents
PROPERTIES
  PrintReturns
  TransferCompletes
CHECK_DEADLOCK FALSE
