SPECIFICATION Spec
INVARIANTS
  ChecksInStep
  LatencyIsOfFir
PROPERTY
  TestPassesInTheEnd
