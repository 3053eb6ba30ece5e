CONSTANTS
  n1 = n1
  n2 = n2
  Node = {n1, n2}
  Discovery <- MCPair
  Deployed = {n1, n2}
  Certified = {n1, n2}
  Populated = {}
  Faulty = FALSE
  DiskFails = FALSE
  MaxLaunch = 1
  MaxTry = 1
SPECIFICATION DeployedSpec
CHECK_DEADLOCK FALSE
PROPERTY JoinerComesUp
