\* Presence: two sockets of one user and one of another, which connects twice, over a document.
\* The rest: two or three commands each, with a step that fails and something done beside them.
CONSTANTS
  a1 = a1
  a2 = a2
  b1 = b1
  ann = ann
  bob = bob
  d1 = d1
  d2 = d2
  Sockets = {a1, a2, b1}
  Users = {ann, bob}
  UserOf <- MCUserOf
  Docs = {d1}
  Again = {b1}
  MaxAcks = 2
  Parts = {"presence", "merge", "repo", "rollout", "init", "rename", "node", "locks", "offline", "ratchet", "gate", "store",
           "release", "registry"}
  MaxGen = 2
  MaxEdits = 2
  MaxApplies = 2
  MaxAdmins = 1
  MaxFaults = 1
  MaxRolls = 2
  MaxOthers = 2
  MaxStops = 1
  MaxInits = 2
  MaxOwners = 1
  MaxCuts = 1
  MaxRenames = 2
  MaxDevs = 2
  MaxScripts = 1
  MaxInstalls = 2
  MaxYarns = 2
  MaxTorn = 1
  MaxLocks = 2
  MaxPulls = 2
  MaxUnresolved = 1
  MaxShipped = 2
  MaxMigrates = 2
  MaxOsc = 1
  MaxCommits = 2
  MaxLanded = 2
  MaxGates = 2
  MaxTouches = 1
  MaxUnlucky = 1
  MaxCalls = 3
  MaxProd = 1
  MaxAgain = 1
  MaxTip = 4
  MaxFlows = 4
  MaxHands = 1
  MaxFailed = 2
  MaxTags = 2
  MaxListings = 3
  MaxLands = 2
  MaxLost = 1
CHECK_DEADLOCK FALSE
SPECIFICATION MCSpec
INVARIANTS TypesOK NobodyMissed CloseIsSeen  HubSound BenchSound
PROPERTIES StepsKeep
