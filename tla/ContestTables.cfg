SPECIFICATION Spec
CONSTANTS
  Users = {u1}
  Problems = {p1, p2}
  Results = {5, 6}
  Points <- OnePoint
  StartTime = 0
  EndTime = 2
  Dates = {0, 1, 3}
  WrongPenalty = 5
  MaxRows = 3
  MaxFaults = 1
SYMMETRY Symmetry
INVARIANTS TypeOK StandingsRight CountersRight
