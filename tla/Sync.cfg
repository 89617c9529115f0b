\* An entry of each strategy, two syncs, one of which may be cut short.
CONSTANTS
  flake = flake
  lint = lint
  keys = keys
  marks = marks
  seed = seed
  Entries = {flake, lint, keys, marks, seed}
  Kind <- Kinds
  Flake = flake
  MaxMajor = 2
  MaxEdits = 2
  MaxRuns = 2
  MaxFaults = 1
CHECK_DEADLOCK FALSE
SPECIFICATION Spec
INVARIANTS TypeOK CheckTells DoneInRun
PROPERTIES AppsOwnKept
