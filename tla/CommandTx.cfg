SPECIFICATION FairSpec
CONSTANTS
  e1 = e1  e2 = e2  e3 = e3  x = x  y = y  k1 = k1  k2 = k2  s1 = s1
  Execs = {e1, e2, e3}
  Kinds = {x, y}
  Ikeys = {k1, k2}
  NoIkey = NoIkey
  Requests <- MCRequests
  Scopes = {s1}
  NoScope = NoScope
  ScopeOf <- MCScopeOf
  MaxDeletes = 1
CHECK_DEADLOCK FALSE
INVARIANTS TypeOK OncePerKey FoldsPrefixOfKey
PROPERTIES SerialSpec EventuallyAnswered
