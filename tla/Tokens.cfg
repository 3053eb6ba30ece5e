CONSTANTS
  n1 = n1
  n2 = n2
  Node = {n1, n2}
  Issuer = {n1}
  Skew <- MCBehind
  Plugins = 3
  Life = 2
  SweepEvery = 2
  MaxTime = 4
SPECIFICATION FairSpec
CHECK_DEADLOCK FALSE
INVARIANTS TypeOK OwnTokensKept NoGaps DeleteFindsToken
PROPERTY ExpiredGone
