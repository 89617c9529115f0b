\* Pulls alone, and one failure.
CONSTANTS
  a1 = a1
  a2 = a2
  NoApp = NoApp
  NoRev = NoRev
  Apps = {a1, a2}
  Commands = {"pull"}
  MaxRev = 1
  MaxFlake = 0
  MaxRuns = 2
  MaxFaults = 1
CHECK_DEADLOCK FALSE
SPECIFICATION Spec
INVARIANTS PullRelocks
