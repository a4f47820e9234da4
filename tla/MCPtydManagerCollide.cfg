CONSTANTS
  k1 = k1
  k2 = k2
  Key = {k1, k2}
  YieldEvery = 3
  MaxAttempts = 1
  MaxConn = 3
  MaxEnsures = 2
CHECK_DEADLOCK FALSE
SPECIFICATION FairSpec
PROPERTY EnsureSettles
