SPECIFICATION Spec
CONSTANTS
  Vectors = 2
  PerVector = 2
  Near = 3
  AngleLimit = 6
  CabinOffsets = {0, 2}
  Distances = {0, 50}
  MinDistance = 40
  RefreshTime = 1
  InitialTrimTimes <- MCInitialTrimTimes
  MaxTurns = 2
  MaxTime = 3
INVARIANTS TypeOK AtMostOnePerTurn
PROPERTIES PublishedFresh NoEarlyTrim
CHECK_DEADLOCK FALSE
