SPECIFICATION Spec
CONSTANTS
  Exchanges = {e1, e2, e3, e4}
  Intervals = {0, 1, 2}
  MaxAtOnce = 2
SYMMETRY Alike
INVARIANTS MemoryCovers
CHECK_DEADLOCK FALSE
