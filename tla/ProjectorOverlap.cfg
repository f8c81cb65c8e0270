SPECIFICATION Spec
CONSTANTS
  a1 = a1  a2 = a2  s1 = s1
  Actors = {a1, a2}
  KeyIds = {}
  Majors = {1, 2}
  StoreTimeouts = FALSE
  MaxPos = 2
  MaxFiles = 2
  MaxStarts = 3
CHECK_DEADLOCK FALSE
SYMMETRY Symmetry
INVARIANTS ExactlyOnce
PROPERTY ReadModelSpec
