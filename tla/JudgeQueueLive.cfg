SPECIFICATION FairSpec
CONSTANTS
  Solutions = {1, 2}
  Virtual = {1}
  Sleepers = {}
  Outcomes = {"V_AC"}
  Clients = {"net"}
  Commands = {"auto-detect enable"}
  JsonKinds = {}
  DetectNum = 2
  DetectInterval = 1
  MaxRequests = 2
  MaxLost = 0
  MaxCrashes = 0
PROPERTIES UnfinishedAreFound RequestsServed
CHECK_DEADLOCK FALSE
