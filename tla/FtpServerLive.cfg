SPECIFICATION FairSpec
CONSTANTS
  Conns = {c1, c2}
  MaxFd = 3
  Ports = {21}
  MaxListens = 1
  MaxPasv = 1
  MaxFaults = 1
PROPERTIES SessionsEnd
