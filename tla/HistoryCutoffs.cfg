SPECIFICATION Spec
CONSTANTS
  a = a
  b = b
  c = c
  NoMove = NoMove
  Moves = {a, b, c}
  MaxDepth = 4
  MaxInt = 15
  updateIncrements <- increments
  Depths = {0, 1, 2, 5}
  Plies = {0, 3, 4}
  MaxCutoffs = 5
PROPERTY OrderKept
