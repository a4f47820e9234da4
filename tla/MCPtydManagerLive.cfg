CONSTANTS
  k1 = k1
  k2 = k2
  Key = {k1, k2}
  YieldEvery = 2
  MaxAttempts = 2
  MaxConn = 3
  MaxEnsures = 1
CHECK_DEADLOCK FALSE
SPECIFICATION FairSpec
PROPERTIES EndIsLearned EnsureEnds
