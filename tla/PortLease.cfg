\* Two holders of one runtime against one of another, with show polling the first.
CONSTANTS
  A = A
  B = B
  a1 = a1
  a2 = a2
  b1 = b1
  d = d
  ready = ready
  show = show
  None = None
  Runtimes = {A, B}
  Holders = {a1, a2, b1}
  Readers = {show}
  RuntimeOf <- MCRuntimeOf
  DryRun = {}
  Lingering = {a2}
  Live = {show}
  NKeys = 2
  Preferred <- MCPreferred
  Strict <- MCStrict
  Span = 2
  LastPort = 3
  Outside = {2}
SPECIFICATION FairSpec
INVARIANTS PublishedLease LiveIsTruthful
PROPERTIES LeaseIsTable HoldDecides
