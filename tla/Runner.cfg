\* Two signals, the restart watch, two jobs and a request: what a drain may never do.
CONSTANTS
  t1 = t1
  t2 = t2
  j1 = j1
  j2 = j2
  r1 = r1
  NoJob = NoJob
  Threads = {t1, t2}
  Jobs = {j1}
  Requests = {r1}
  Limit = 1
  Idle = TRUE
  Dev = FALSE
  RedisFails = FALSE
  Contended = FALSE
  Overlap = FALSE
  MaxSignals = 2
  MaxExecs = 1
  MaxEdits = 0
CHECK_DEADLOCK FALSE
SYMMETRY Symmetric
SPECIFICATION Spec
INVARIANTS TypeOK
PROPERTIES DrainIsTrue
