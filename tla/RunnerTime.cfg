\* A source change, a Redis that goes away, a contended scheduler lock, a request, two jobs
\* and a signal: what must happen.
CONSTANTS
  t1 = t1
  t2 = t2
  j1 = j1
  j2 = j2
  r1 = r1
  NoJob = NoJob
  Threads = {t1}
  Jobs = {j1, j2}
  Requests = {r1}
  Limit = 0
  Idle = FALSE
  Dev = TRUE
  RedisFails = TRUE
  Contended = TRUE
  Overlap = FALSE
  MaxSignals = 1
  MaxExecs = 0
  MaxEdits = 1
CHECK_DEADLOCK FALSE
SPECIFICATION FairSpec
PROPERTIES WorkGoesOn
