SPECIFICATION Spec
CONSTANTS
  Pieces <- Tagged
  MaxPieces = 5
INVARIANTS BlocksAreRemoved
CHECK_DEADLOCK FALSE
