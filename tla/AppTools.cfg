\* Two tools on one bench, with the developer at work beside them.
CONSTANTS
  a = a
  b = b
  Tools = {a, b}
  Lines <- BothShells
  Planned = {"tests", "coverage"}
  MaxRuns = 2
  MaxFaults = 1
  MaxUser = 1
CHECK_DEADLOCK FALSE
SPECIFICATION FairSpec
INVARIANTS TypeOK LeftAsPromised
PROPERTIES KeepsWhatWasThere RunEnds
