SPECIFICATION Spec
CONSTANTS
  Kinds = {"submit", "test"}
  CaseNums = {0, 1, 2}
  TimeLimit = 20
  MemoryLimit = 1
  Specials = {TRUE, FALSE}
  Outs = {"V_AC", "V_PE", "V_WA"}
  Times = {19, 20}
  Mems = {1, 2}
  MaxSwitches = 1
  MaxFaults = 1
  MaxRefused = 2
INVARIANTS
  TypeOK AcceptedIsEarned VerdictOfSuite ReportIsComplete
  UsageReported LimitsStick
CHECK_DEADLOCK FALSE
