SPECIFICATION MCSpec
CONSTANTS
  MaxSockets = 4
  MaxThreads = 5
  Backlog = 2
  MaxFaults = 2
  Packets = {k1, k2}
  Main = main
  MaxActive = 2
  Chars = {"a", " "}
  Blank = " "
  NUL = "NUL"
  Words <- Completions
  Cells = 4
  ElemSize = 3
  Size = 2
INVARIANTS PartsTypeOK LeaksBounded AloneRunsItsLines ShownIsRun
PROPERTIES ListenerRecovers ImplementsLog
