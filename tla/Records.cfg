\* Two requests and their confirmations for one account and one lead; one contract whose end
\* may move within the window; two bulk jobs on two records and an id the org lacks; three
\* records to merge.
SPECIFICATION MCSpec
CONSTANTS
  p1 = p1
  p2 = p2
  Accounts = {a1}
  Leads = {1}
  Workers = {p1, p2}
  DailyLimit = 1
  Doubles = {TRUE, FALSE}
  MaxGates = 3
  MaxRequests = 2
  MaxWrites = 2
  Customers = {c1}
  Cleaners = {p1, p2}
  Ends = {3, 4}
  WindowAhead = 2
  Tolerance = 1
  LastSweepDay = 1
  MaxOpps = 3
  MaxDied = 1
  Rows = {1, 2}
  Absent = {3}
  Jobs = {1, 2}
  Chunk = 2
  SmallBelow = 4
  DailyCap = 2
  MaxAudits = 4
  Edited = 3
  Signed = {"bulk_update_small"}
  Domains = {d1, d2}
  Cities = {k1}
  Nowhere = nowhere
  Weights = {0, 1}
  Records = {1, 2, 3}
  Dedupers = {p1, p2}
SYMMETRY Symmetry
INVARIANTS
  GatedInv
  RenewalInv
  BulkInv
  DedupInv
PROPERTIES
  ChurnNeedsBoth
CHECK_DEADLOCK FALSE
