CONSTANTS
  a = a
  b = b
  x = x
  e = e
  Key = {a, b}
  Taken = {b}
  Text = {x, e}
  Empty = e
  Asked <- MCAsked
  MaxQuery = 1
  MaxOther = 0
SPECIFICATION Spec
CHECK_DEADLOCK FALSE
INVARIANT SecretsRead
