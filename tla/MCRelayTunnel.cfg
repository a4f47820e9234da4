SPECIFICATION FairSpec
CONSTANTS
  Sock = {s1, s2}
  Http = {h1}
  Chan = {c1}
  MaxFaults = 1
INVARIANTS TypeOK RegisteredIsTunnel WaitsOnTheTunnel
PROPERTIES DeadStreamEnds LeftIsAborted TunnelReturns RevokedIsCut
CHECK_DEADLOCK FALSE
