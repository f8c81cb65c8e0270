SPECIFICATION FairSpec
CONSTANTS
  v1 = v1  v2 = v2
  Versions = {v1, v2}
  NoVersion = none
  Major <- MCMajor
  RETRY_ON_FAILURE = TRUE
  Careful = TRUE
  MaxActors = 7
  MaxFiles = 12
  MaxOps = 4
  MaxFailures = 2
  MaxCrashes = 1
CHECK_DEADLOCK FALSE
INVARIANTS OneLiveActor NoOrphan KeepsDatabase SettledVersion
PROPERTIES LifeSpec Converges
