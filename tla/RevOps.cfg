\* One command and one poll on the canary's manifest; two stewards over two objects and two
\* snapshots; two users, one of them perhaps new, and two records; two rules and a lead; two
\* reads of each cache.
SPECIFICATION MCSpec
CONSTANTS
  p1 = p1
  p2 = p2
  Commands = {cmd}
  Polls = {poll}
  Intervals = {1}
  Deploys = 2
  MaxMembership = 1
  MaxMinute = 1
  Sections = {1, 2}
  Stewards = {p1, p2}
  MaxVersion = 2
  Written <- MCWritten
  MaxSnapshots = 2
  Scanned = {1}
  Hits = 3
  Users = {"ann", "bob"}
  NewUsers = {"ann"}
  Grants = {"ps", "g"}
  Records = {"r1", "r2"}
  ObjectOf <- MCObjectOf
  Jobs = {p1, p2}
  GateTypes = {"single_record_update", "bulk_update_small", "permission_grant"}
  MaxEdits = 1
  Rules = {"r1", "r2"}
  Leads = {"l1"}
  CustomFields = {"f1"}
  ReviewPolls = {p1, p2}
  MaxTasks = 3
  Readers = {p1, p2}
  DescribeTtl = 1
  StaleAfter = 1
  ApolloTtl = 1
  MaxDeploys = 1
  LastHour = 4
SYMMETRY Symmetry
INVARIANTS
  CanaryInv
  KnowledgeInv
  AccessInv
  TasksInv
  CachesInv
CHECK_DEADLOCK FALSE
