SPECIFICATION FairSpec
CONSTANTS
  a1 = a1  a2 = a2  s1 = s1
  Actors = {a1, a2}
  KeyIds = {s1}
  Majors = {1}
  StoreTimeouts = FALSE
  MaxPos = 2
  MaxFiles = 1
  MaxStarts = 3
CHECK_DEADLOCK FALSE
PROPERTY CatchesUp
