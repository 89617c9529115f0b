\* Every command, over what earlier ones left when they failed or were killed.
CONSTANTS
  a1 = a1
  a2 = a2
  NoApp = NoApp
  NoRev = NoRev
  Apps = {a1, a2}
  Commands = {"get", "new", "remove", "rename", "pull", "deps", "relock", "sync"}
  MaxRev = 1
  MaxFlake = 1
  MaxRuns = 2
  MaxFaults = 1
CHECK_DEADLOCK FALSE
SPECIFICATION FairSpec
INVARIANTS TypeOK DoneInStep PutsBack
PROPERTIES RemovalFinishes
