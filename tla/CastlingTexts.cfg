SPECIFICATION Spec
CONSTANTS
  Starts <- CheckByCastling
  Settings <- AllSettings
  maxHalfMoves = 8
INVARIANT EveryTextReadsBack
