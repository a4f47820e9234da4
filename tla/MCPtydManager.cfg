CONSTANTS
  k1 = k1
  k2 = k2
  Key = {k1, k2}
  YieldEvery = 2
  MaxAttempts = 2
  MaxConn = 3
  MaxEnsures = 2
CHECK_DEADLOCK FALSE
SPECIFICATION Spec
SYMMETRY KeySymmetry
INVARIANTS TypeOK RunningIsLive NoOrphan
PROPERTY NoFalseExit
