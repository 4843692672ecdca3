SPECIFICATION Spec
CONSTANTS
  Starts <- AllStarts
  Settings <- AllSettings
  maxHalfMoves = 8
INVARIANT Consistent
INVARIANT RepetitionsExact
INVARIANT KillersAreQuietMoves
INVARIANT SwapOffExact
INVARIANT TextsReadBack
INVARIANT ShortcutExact
INVARIANT ColoursAlike
PROPERTY TakingBackRestores
