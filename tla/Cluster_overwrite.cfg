CONSTANTS
  n1 = n1
  n2 = n2
  Node = {n1, n2}
  Discovery <- MCPair
  Deployed = {n1, n2}
  Certified = {n1, n2}
  Populated = {}
  Faulty = TRUE
  DiskFails = FALSE
  MaxLaunch = 1
  MaxTry = 2
SPECIFICATION Spec
CHECK_DEADLOCK FALSE
PROPERTY KeyNotOverwritten
