SPECIFICATION Spec
CONSTANTS
  Measured <- MCMeasured
  Cabins <- MCCabins
  Vectors = 4
  PerVector = 5760
  CountLimit = 65536
INVARIANTS ClientReadsMeasured
PROPERTIES HalvesIndependent
CHECK_DEADLOCK FALSE
