\* Two commands at work on one bundle that modifies the field; or one command at a time on a
\* bundle that creates it and one that deletes it.  One command may be killed.
SPECIFICATION MCSpec
SYMMETRY ProcSymmetry
CONSTANTS
  o = o
  p1 = p1
  p2 = p2
  creation = creation
  change = change
  deletion = deletion
  Approvers = {o}
  Bundles = {creation, change, deletion}
  ActionOf <- Actions
  Procs = {p1, p2}
  Cooldown = 1
  Ttl = 1
  DeployLimit = 2
  MaxGates = 3
  MaxClock = 1
  MaxCrashes = 1
INVARIANTS
  BundlesInv
PROPERTIES
  OrgChangesAreApproved
CHECK_DEADLOCK FALSE
