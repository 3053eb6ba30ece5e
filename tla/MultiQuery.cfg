CONSTANTS
  a = a
  b = b
  x = x
  e = e
  Key = {a, b}
  Taken = {b}
  Text = {x, e}
  Empty = e
  Asked <- MCAsked
  MaxQuery = 3
  MaxOther = 1
SPECIFICATION FairSpec
CHECK_DEADLOCK FALSE
PROPERTIES Responds ImplementsBatch
INVARIANTS TypeOK ClosedIsQuiet OneResultEach OKMeansStored
