\* Two processes and three people decide a dual gate, a plain one or one that
\* agents approve themselves; no gate cools down and nothing is polled.
SPECIFICATION Spec
SYMMETRY ProcessSymmetry
CONSTANTS
  o = o
  jackie = jackie
  henry = henry
  slack = slack
  command = command
  Approvers = {o, jackie, henry}
  Deciders = {slack, command}
  Pollers = {}
  Requests = {"mark_churned", "single_record_update", "onboarding_auto_create"}
  Cooldown = 1
  Ttl = 1
  MaxGates = 1
  MaxRequests = 1
  MaxBallots = 3
  MaxClock = 0
  MaxCrashes = 1
INVARIANTS
  TypeOK
  DualTwoPeople
  DecisionsAreAudited
PROPERTIES
  ImplementsLedger
CHECK_DEADLOCK FALSE
