SPECIFICATION Spec
CONSTANTS
  r1 = r1
  r2 = r2
  Nobody = Nobody
  entryCount = 5
  lockCount = 3
  threadCount = 2
  Word = 8
  Keys = {0, 10}
  Colors = {0}
  Clocks = {0}
  SearchDepths = {1, 2}
  Maintainers = {r1, r2}
  MaxWrites = 2
SYMMETRY MaintainerSymmetry
INVARIANT SlotsExclusive
INVARIANT AnswersProved
INVARIANT SharedSlotsDeepest
INVARIANT NoDeadlock
