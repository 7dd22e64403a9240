\* One delete gate and whatever confirmation gates come of it: a scheduled poll
\* and one by hand, a crash, and time enough for a cooldown to run out.
SPECIFICATION FairSpec
CONSTANTS
  o = o
  slack = slack
  scheduled = scheduled
  manual = manual
  Approvers = {o}
  Deciders = {slack}
  Pollers = {scheduled, manual}
  Requests = {"sf_schema_delete"}
  Cooldown = 2
  Ttl = 2
  MaxGates = 4
  MaxRequests = 1
  MaxBallots = 1
  MaxClock = 3
  MaxCrashes = 1
INVARIANTS
  ConfirmationFollowsCooldown
PROPERTIES
  PrimaryIsElevated
CHECK_DEADLOCK FALSE
