CONSTANTS
  n1 = n1
  n2 = n2
  n3 = n3
  Node = {n1, n2, n3}
  Discovery <- MCStar
  Deployed = {n1, n2, n3}
  Certified = {}
  Populated = {n1, n2, n3}
  Faulty = FALSE
  DiskFails = FALSE
  MaxLaunch = 1
  MaxTry = 1
SPECIFICATION DeployedSpec
CHECK_DEADLOCK FALSE
PROPERTY FirstNodeKnowsEveryone
