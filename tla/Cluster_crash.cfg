CONSTANTS
  n1 = n1
  n2 = n2
  Node = {n1, n2}
  Discovery <- MCPair
  Deployed = {n1, n2}
  Certified = {n1}
  Populated = {n1}
  Faulty = FALSE
  DiskFails = FALSE
  MaxLaunch = 2
  MaxTry = 1
SPECIFICATION Spec
CHECK_DEADLOCK FALSE
INVARIANTS KeyFileKept AtMostOneFirstNode
