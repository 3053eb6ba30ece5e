CONSTANTS
  n1 = n1
  n2 = n2
  n3 = n3
  Node = {n1, n2, n3}
  Discovery <- MCLate
  Deployed = {n1, n2, n3}
  Certified = {n1, n2, n3}
  Populated = {n1, n2, n3}
  Faulty = FALSE
  DiskFails = FALSE
  MaxLaunch = 1
  MaxTry = 1
  MaxWrites = 1
INIT JoinInit
NEXT JoinNext
CHECK_DEADLOCK FALSE
INVARIANT NothingLost
