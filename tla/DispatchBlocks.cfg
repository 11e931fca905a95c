SPECIFICATION Spec
CONSTANTS
  Pieces <- All
  MaxPieces = 5
INVARIANTS TypeOK LiveHidesBlocks LiveKeepsUp StripHidesBlocks ReasoningIsCut
CHECK_DEADLOCK FALSE
