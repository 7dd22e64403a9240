\* One bundle that modifies the field, deployed up to twice, one command at a time.
SPECIFICATION MCSpec
CONSTANTS
  o = o
  p1 = p1
  creation = creation
  change = change
  deletion = deletion
  Approvers = {o}
  Bundles = {change}
  ActionOf <- Actions
  Procs = {p1}
  Cooldown = 1
  Ttl = 1
  DeployLimit = 2
  MaxGates = 2
  MaxClock = 0
  MaxCrashes = 0
PROPERTIES
  RollbackRestores
CHECK_DEADLOCK FALSE
