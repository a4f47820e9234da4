CONSTANTS
  Id = {t1}
  N = 3
  MaxOut = 2
  PauseStopsReads = FALSE
SPECIFICATION FairSpec
INVARIANTS TypeOK OneReader NoGap CapturedSurvive
PROPERTIES WindDownKillsNothing OutputIsRead
CHECK_DEADLOCK FALSE
