SPECIFICATION Spec
CONSTANTS
  Repos = {r1, r2}
  Issues = {i1, i2}
  Pulls = {p1}
  Requests = {q1, q2}
  MaxLegacy = 1
  MaxNumber = 3
  MaxFaults = 1
  MaxMoves = 2
  None = None
SYMMETRY Symmetry
CONSTRAINT Explored
CHECK_DEADLOCK FALSE
INVARIANTS
  TypeOK
  NumberNamesOne
  OldUrlPointsUnlessTangled
