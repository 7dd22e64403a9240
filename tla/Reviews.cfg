\* Three days of snapshots of two deals; a deal out of each slice and two deals of a forecast;
\* three days of a deal's history and four rows of weights; two calls over three weeks; one
\* deal watched for three days; prospects and customers about the thresholds.
SPECIFICATION MCSpec
CONSTANTS
  Opps = {o1, o2}
  Edited = {o1}
  OpenRanks = {1, 2}
  Values = {0, 10}
  AcvDelta = 5
  CloseDates = {1, 2, 3}
  PushBy = 1
  NextQuarterEnd = 2
  LastMorning = 3
  Snappers = {p1}
  Windows = {1, 7}
  TopMovers = 1
  Weights <- MCWeights
  Offered <- MCOffered
  MaxDeals = 2
  Owners <- MCOwners
  Quotas <- MCQuotas
  RiskyOwners = {"bob"}
  Verdicts = {0, 150, 300}
  Elapsed = {40, 41}
  Acvs = {0, 5}
  Closes = {2, 3}
  LastDay = 3
  MaxChanges = 3
  MaxRows = 4
  Samples = {"w1", "w2"}
  Meetings = {c1, c2}
  Transcripts <- MCTranscripts
  Replies <- MCReplies
  LastSlot = 7
  Prices = {0, 8, 10}
  Dates = {1, 3, 5}
  WatchWindow = 1
  PushAt = 2
  BigPush = 3
  StaleDays = 1
  MaxMishaps = 1
  MaxMoves = 2
  LastWatch = 3
  Locations <- MCLocations
  Stacks <- MCStacks
  Healths <- MCHealths
  CaseCounts <- MCCaseCounts
INVARIANTS
  MoversInv
  ForecastInv
  ReplayInv
  CallsInv
  WatchInv
  ScoresInv
CHECK_DEADLOCK FALSE
