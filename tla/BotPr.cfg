SPECIFICATION FairSpec
CONSTANTS
  Prs = {1, 2}
  Metas <- MCMetas
  Confs <- MCConfs
  Limit = 1
  MaxHeads = 3
  MaxRebases = 1
  MaxPeople = 1
  MaxWeeks = 1
  MaxFaults = 1
INVARIANTS TypeOK
PROPERTIES NoLoop MergesRuled HeadsGetChecks
CHECK_DEADLOCK FALSE
