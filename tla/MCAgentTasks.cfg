SPECIFICATION FairSpec
CONSTANTS
  Key = {k1}
  t1 = t1
  t2 = t2
  Task = {t1, t2}
  Deps <- InOrder
INVARIANTS TypeOK ClaimIsHeld RunningIsKnown
PROPERTY DeadClaimsEnd
CHECK_DEADLOCK FALSE
