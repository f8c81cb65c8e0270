SPECIFICATION FairSpec
CONSTANTS
  cmd = cmd  c1 = c1  c2 = c2  v1 = v1  v2 = v2  A = A  B = B
  Modules = {cmd}
  CommandModules = {cmd}
  InvalidNames = {}
  Versions = {v1, v2}
  NoVersion = none
  Codes = {A, B}
  Keys = {k}
  Values = {x}
  ApiClients = {c1}
  UiClients = {c2}
  Broken = {B}
  Careful = TRUE
  MaxRequests = 3
  MaxReads = 1
  MaxRestarts = 1
CHECK_DEADLOCK FALSE
INVARIANTS UniqueRows ActiveRowOwned LoadedIsActive
PROPERTIES CatalogSpec UploadActivated FlaggedWasActive Settles
