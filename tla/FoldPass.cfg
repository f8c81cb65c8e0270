SPECIFICATION PassSpec
CONSTANTS
  account = account  owner = owner  x = x  y = y  Opened = Opened  Closed = Closed
  Fields = {account, owner}
  Values = {x, y}
  Types = {Opened, Closed}
  DOMAIN_ID_FIELDS <- MCDomainIds
  TEXT_FIELDS <- MCTextFields
  FoldTypes <- MCFoldTypes
  Declared <- MCDeclared
  Inputs <- MCInputs
  Given <- MCGiven
  Modes = {"command", "js", "query"}
  MaxLog = 2
  MaxFolds = 2
CHECK_DEADLOCK FALSE
INVARIANTS FoldMeaning FailsOnOwnEvent QueryIsTight
