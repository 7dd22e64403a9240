\* One win, one run after the other, nothing killed and no call failing.
SPECIFICATION FairSpec
CONSTANTS
  None = None
  alpha = alpha
  scheduled = scheduled
  Opps = {alpha}
  Owned = {alpha}
  Polls = {scheduled}
  MaxBatch = 2
  Lookback = 3
  MaxClock = 3
  MaxCrashes = 0
  MaxFailures = 0
PROPERTIES
  EveryWinIsOnboarded
CHECK_DEADLOCK FALSE
