\* Jobs of launchd and of Slack side by side over two calls and one opportunity,
\* with an hour's limit of one grading and one alert; one may be killed.
SPECIFICATION Spec
CONSTANTS
  c1 = c1
  rep = rep
  slack = slack
  launchd = launchd
  Grader = Grader
  SyncAlert = SyncAlert
  NoBucket = NoBucket
  NoItem = NoItem
  c2 = c2
  o1 = o1
  Callers = {slack, launchd}
  Buckets = {Grader, SyncAlert}
  LimitOf <- Limits
  Soft = {}
  PeriodOf <- Periods
  MaxClock = 2
  Calls = {c1, c2}
  Opps = {o1}
  Reps = {rep}
  RepOf <- Reps_
  NameOf <- Names
  BriefWindow = 1
  MaxJobs = 3
  MaxCrashes = 1
SYMMETRY Symmetry
INVARIANTS
  CappedUnlessRaced
  NeverRefusedEarly
  GradedOncePerRunner
  ScanBriefsApart
CHECK_DEADLOCK FALSE
