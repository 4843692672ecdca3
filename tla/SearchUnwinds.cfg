SPECIFICATION FairSpec
CONSTANTS
  MaxDepth = 5
  NullReduction = 1
  ReductionLimit = 2
  FullDepthMoves = 1
  HistoryLimit = 13
  RootPlies = 2
  Branching = 2
  TestDepths = {1, 4}
  WalkDepths = {2}
INVARIANT PlyCountsMoves
INVARIANT RootRestored
INVARIANT FlagsFollowStack
INVARIANT DepthCapped
PROPERTY StopIsObeyed
