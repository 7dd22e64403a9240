\* Two addresses, of which one has an opt-out or a competitor's domain; two nights of
\* Apollo; three SDRs; two months of Clay credits with one top-up.
SPECIFICATION MCSpec
CONSTANTS
  d1 = d1
  d2 = d2
  p1 = p1
  p2 = p2
  s1 = s1
  dflt = dflt
  Emails = {d1, d2}
  Checkers = {p1, p2}
  Competitors = {d2}
  CacheHours = 1
  MaxHour = 2
  Domains = {d1, d2}
  Addressed = {d1}
  Runners = {night, cmd}
  Nightly = night
  Briefers = {p1, p2}
  Grade <- MCGrade
  Sdrs = {s1}
  Fallback = dflt
  Nobody = nobody
  Reachable = {s1}
  NightHour = 0
  DayHours = 1
  StaleHours = 0
  SmallGate = 2
  PerSdr = 1
  Answers <- MCAnswers
  MaxClock = 1
  MaxLeads = 2
  MaxKills = 1
  MaxTold = 2
  Rotation <- MCRotation
  Routers = {p1, p2}
  UserHours = 1
  MaxTime = 3
  MaxShare = 2
  Spenders = {p1, p2}
  Months = {1, 2}
  Requests = {1, 3}
  Caps = {5, 7}
  MaxSpends = 4
SYMMETRY Symmetry
INVARIANTS
  SuppressionInv
  LeadInv
  RoutingInv
  ClayInv
CHECK_DEADLOCK FALSE
