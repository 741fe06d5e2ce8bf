SPECIFICATION BusFairSpec
CONSTANTS
  None = None
  Slaves = {d1, d2}
  Commands = {c1}
  Recoveries = {TRUE, FALSE}
  Filter = FALSE
  MaxRequests = 1
  MaxLost = 0
  Cap = 2
PROPERTY FallsSilent
CHECK_DEADLOCK FALSE
