SPECIFICATION Spec
CONSTANTS
  Conns = {c1, c2}
  MaxFd = 3
  Ports = {21}
  MaxListens = 3
  MaxPasv = 1
  MaxFaults = 0
SYMMETRY ConnSymmetry
INVARIANTS TypeOK Listens ConnectionsServed
