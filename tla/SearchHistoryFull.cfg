SPECIFICATION Spec
CONSTANTS
  MaxDepth = 4
  NullReduction = 1
  ReductionLimit = 2
  FullDepthMoves = 1
  HistoryLimit = 4
  RootPlies = 2
  Branching = 2
  TestDepths = {1, 3}
  WalkDepths = {}
INVARIANT PlyCountsMoves
