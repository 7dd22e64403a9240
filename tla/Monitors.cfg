\* Two processes for each sweep: launchd's and one by hand. One subject over two days,
\* one integration, one onboarding with two stages, one described object that changes
\* three times.
SPECIFICATION MCSpec
CONSTANTS
  p1 = p1
  p2 = p2
  Subjects = {i1}
  Sweeps = {p1, p2}
  LastDate = 1
  MostTasks = 3
  Pollers = {p1, p2}
  CountShapes = {"total", "row"}
  Onboardings = {o1}
  Stages = {s1, s2}
  Scanners = {p1, p2}
  Threshold = 2
  Window = 3
  ExtendDays = 3
  FirstDay = 9
  LastDay = 15
  Watched = {o1}
  Drifters = {p1, p2}
  MaxSignature = 4
SYMMETRY Symmetry
INVARIANTS
  SignalInv
  HealthInv
  StallInv
  DriftInv
CHECK_DEADLOCK FALSE
