SPECIFICATION Spec
CONSTANTS
  MaxUserNum = 1
  Conns = {c1, c2}
  NoConn = NoConn
  Users = {}
  Modes = {"none"}
  MaxAccounts = 1
  MaxCommands = 0
INVARIANT ReadsItsOwn
CHECK_DEADLOCK FALSE
