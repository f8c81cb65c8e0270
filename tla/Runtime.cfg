SPECIFICATION FairSpec
CONSTANTS
  c1 = c1  c2 = c2
  Supervisors <- MCSupervisors
  Clients = {c1, c2}
  Capacity = 1
  Budget = 5
CHECK_DEADLOCK FALSE
 
PROPERTIES  Answered
