SPECIFICATION Spec
CONSTANTS
  Devices = {d1, d2}
  Conns = {c1, c2}
  None = None
  Capacity = 1
  MaxConnects = 1
  MaxRequests = 0
  MaxRuns = 0
  MaxEdits = 1
SYMMETRY Symmetry
INVARIANTS TypeOK SessionIsTracked OnlyLateSessionsEscape
PROPERTIES OnlyRevokedAreCut
CHECK_DEADLOCK FALSE
