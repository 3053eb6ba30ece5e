CONSTANTS
  n1 = n1
  n2 = n2
  n3 = n3
  Node = {n1, n2}
  Discovery <- MCPair
  Deployed = {n1, n2}
  Certified = {n1, n2}
  Populated = {n1, n2}
  Faulty = FALSE
  DiskFails = FALSE
  MaxLaunch = 1
  MaxTry = 2
  MaxWrites = 2
SPECIFICATION JoinSpec
CHECK_DEADLOCK FALSE
INVARIANTS JoinTypeOK NothingLost
PROPERTIES SentIsKept WaitEnds EveryWriteArrives SyncKeepsData
