\* Two copies, failures and kills, and a bench that changes meanwhile.
CONSTANTS
  old = old
  new = new
  gone = gone
  heir = heir
  c1 = c1
  c2 = c2
  None = None
  Apps = {old, new, gone, heir}
  Renamed <- RenamedPairs
  Replaced <- ReplacedPairs
  Copies = {c1, c2}
  MaxStarts = 3
  MaxFaults = 1
  HandWaits = TRUE
CHECK_DEADLOCK FALSE
SPECIFICATION SiteFairSpec
INVARIANTS NeverBeside
PROPERTIES OldsReplaced CopyEnds
