SPECIFICATION FairSpec
CONSTANTS
  InputQuiet = 2
  OutputQuiet = 1
  StaleAfter = 2
  EnterDelay = 1
  MarkerTtl = 3
  RetryIn = 2
  QuickRetryIn = 1
  RetryMax = 2
  PullLimit = 2
  MaxMail = 2
  MaxLaunches = 2
  MaxLooks = 2
INVARIANT TypeOK
PROPERTIES NoTextIntoATurn EnterFollowsItsText NudgesEnd MailIsTold
CHECK_DEADLOCK FALSE
