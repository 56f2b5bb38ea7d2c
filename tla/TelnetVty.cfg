SPECIFICATION FairSpec
CONSTANTS
  MaxUserNum = 1
  Conns = {c1, c2}
  NoConn = NoConn
  Users = {"root"}
  Modes = {"none", "aaa"}
  MaxAccounts = 1
  MaxCommands = 1
INVARIANTS TypeOK NoVtyLost
PROPERTIES StaleOnlyByLogin PoolDrains
CHECK_DEADLOCK FALSE
