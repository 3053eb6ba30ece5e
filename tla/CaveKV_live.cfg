CONSTANTS
  a = a
  Node = {n1, n2}
  Slot = {s1, s2}
  Name = {a}
  Empty = Empty
  MaxDepth = 2
  Data = {none}
  NoData = none
  LockId <- MCLockId
  Absent = Absent
  Bucket = Bucket
  Requested <- MCAllKinds
  MaxOps = 2
  QueueCap = 1
SPECIFICATION FairSpec
CHECK_DEADLOCK FALSE
INVARIANT ReadersAgree
PROPERTY Delivered
PROPERTY ImplementsReplicas
