CONSTANTS
  a = a
  Node = {n1, n2}
  Slot = {s1}
  Name = {a}
  Empty = Empty
  MaxDepth = 2
  Data = {v}
  NoData = none
  LockId <- MCLockId
  Absent = Absent
  Bucket = Bucket
  Requested <- MCAllKinds
  MaxOps = 3
  QueueCap = 1
SPECIFICATION Spec
CHECK_DEADLOCK FALSE
SYMMETRY MCSymmetry
INVARIANTS TypeOK NoStrayBuckets Accounted Agreement ReadersAgree
