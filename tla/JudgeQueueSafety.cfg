SPECIFICATION Spec
CONSTANTS
  Solutions = {1, 2}
  Virtual = {}
  Sleepers = {}
  Outcomes = {"V_AC"}
  Clients = {"net", "vty"}
  Commands = {"auto-detect enable"}
  JsonKinds = {"test"}
  DetectNum = 2
  DetectInterval = 1
  MaxRequests = 2
  MaxLost = 1
  MaxCrashes = 0
INVARIANTS TypeOK DetectedOnce
PROPERTIES NoScanWhileJudging ImplementsService
