\* Everything may fail or crash: what a deploy may never do, and must.
CONSTANTS
  old = old
  new = new
  v1 = v1
  v2 = v2
  None = None
  Empty = Empty
  Mixed = Mixed
  Builds = {old, new}
  Rows = {v1}
  Retention = 1
  Faults = {"crash", "dump", "on", "off", "restore", "torn", "lost"}
  MaxOps = 4
  MaxFaults = 2
CHECK_DEADLOCK FALSE
SPECIFICATION FairSpec
INVARIANTS RecoveryPoint VisitorsSafe
PROPERTIES MarkerHonest Reopens
