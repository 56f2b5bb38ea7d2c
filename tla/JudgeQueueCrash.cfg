SPECIFICATION Spec
CONSTANTS
  Solutions = {1, 2}
  Virtual = {}
  Sleepers = {}
  Outcomes = {"V_AC"}
  Clients = {"net"}
  Commands = {"auto-detect enable", "undo auto-detect enable", "undo judge enable"}
  JsonKinds = {"submit", "bad"}
  DetectNum = 2
  DetectInterval = 2
  MaxRequests = 1
  MaxLost = 1
  MaxCrashes = 2
INVARIANTS OrphansBounded
