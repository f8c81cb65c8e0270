SPECIFICATION Spec
CONSTANTS
  a1 = a1  a2 = a2  w1 = w1  k1 = k1  k2 = k2  s1 = s1
  Actors = {a1, a2}
  Keyed = {w1}
  PartitionKeys = {k1, k2}
  Route <- MCRoute
  KeyIds = {}
  Majors = {1, 2}
  InFlightLimit = 1
  StoreTimeouts = FALSE
  MaxPos = 2
  MaxBatch = 2
  MaxFiles = 2
  MaxFailures = 1
  MaxDeaths = 1
CHECK_DEADLOCK FALSE
SYMMETRY Symmetry
INVARIANTS AtLeastOnce KeyedOrder
PROPERTY WatermarkMonotone
