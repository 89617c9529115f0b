\* Every state an earlier session can leave, and one of two processes dying in this one.
CONSTANTS
  p1 = p1
  p2 = p2
  NoPort = NoPort
  Wrappers <- MCWrappers
  WebPorts = {p1, p2}
  Committed = p1
  Mortal = {"redis", "runtime"}
  MaxUps = 1
  MaxDeaths = 1
CHECK_DEADLOCK FALSE
SPECIFICATION Spec
INVARIANTS  RestsUp
PROPERTIES NoneSkipped
