SPECIFICATION Spec
CONSTANTS
  a = a  b = b  js = js  s1 = s1  s2 = s2
  Rust = {a, b}
  Js = {js}
  Sources = {s1, s2, bad, renamed}
  Broken = {bad}
  Renamed = {renamed}
  Jobs = {w1, w2}
  Selections <- MCSelections
  VersionInBytes = FALSE
  MaxVersion = 2
  MaxEdits = 1
  MaxDeploys = 3
  MaxFaults = 1
SYMMETRY Symmetry
CHECK_DEADLOCK FALSE
INVARIANTS CountedOnce SuccessIsPublished RedeployUnchanged
