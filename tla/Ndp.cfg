SPECIFICATION MCSpec
CONSTANTS
  Clients = {c}
  Server = s
  Broadcast = b
  Peers = {s, b}
  Vtys = {v1, v2}
  Ports = {6000, 6001}
  AgeTime = 2
  EchoTime = 1
  MaxEnables = 2
  ClientEnables = 2
  MaxFaults = 1
INVARIANTS TypeOK HasListener EntryPerThread
PROPERTIES AliveListed StaleGone
