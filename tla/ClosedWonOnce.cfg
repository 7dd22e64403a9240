\* One run after the other: two wins, one of them without an owner, a run that
\* is killed, calls that fail or time out.
SPECIFICATION FairSpec
CONSTANTS
  None = None
  alpha = alpha
  beta = beta
  scheduled = scheduled
  Opps = {alpha, beta}
  Owned = {alpha}
  Polls = {scheduled}
  MaxBatch = 2
  Lookback = 3
  MaxClock = 3
  MaxCrashes = 1
  MaxFailures = 1
INVARIANTS
  OneOnboardingPerWin
  HandledIsSettled
  UnownedIsAsked
PROPERTIES
  PickedUpIsSettled
CHECK_DEADLOCK FALSE
