CONSTANTS
  Id = {t1}
  Conn = {c1, c2}
  Mark = 2
  Hwm = 2
  RingCap = 1
  MaxInc = 2
  MaxOut = 2
  MaxQueue = 2
SPECIFICATION FairSpec
INVARIANTS TypeOK PausedIffHeld WaitersAreOwedDrain NoHole
PROPERTY PausedResumes
