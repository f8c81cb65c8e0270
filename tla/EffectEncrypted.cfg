SPECIFICATION FairSpec
CONSTANTS
  a1 = a1  a2 = a2  w1 = w1  k1 = k1  k2 = k2  s1 = s1
  Actors = {a1}
  Keyed = {w1}
  PartitionKeys = {}
  Route <- MCRoute
  KeyIds = {s1}
  Majors = {1}
  InFlightLimit = 1
  StoreTimeouts = TRUE
  MaxPos = 4
  MaxBatch = 2
  MaxFiles = 1
  MaxFailures = 1
  MaxDeaths = 1
CHECK_DEADLOCK FALSE
INVARIANTS LostOnlyIfExposed InFlightBounded
PROPERTIES FallsOnlyToExposed EventuallyHandled
