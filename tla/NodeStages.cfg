SPECIFICATION Spec
CONSTANTS
  p = p
  c1 = c1
  c2 = c2
  q1 = q1
  q2 = q2
  u = u
  e = e
  NoMove = NoMove
  Promotions = {p}
  Captures = {c1, c2}
  Quiets = {q1, q2}
  Underpromotions = {u}
  Elsewhere = {e}
  ReductionLimit = 3
  FullDepthMoves = 3
INVARIANT EachMoveOnce
INVARIANT OnlyLateQuietsReduced
