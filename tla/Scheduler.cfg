SPECIFICATION Spec
CONSTANTS
  w1 = w1
  w2 = w2
  w3 = w3
  m1 = m1
  m2 = m2
  theOwner = theOwner
  TheTimer = TheTimer
  NoMove = NoMove
  Workers = {w1, w2, w3}
  Requesters = {theOwner}
  Moves = {m1, m2}
  MaximumDepth = 2
  GrainSize = 2
  Infty = 57
  MinCheckmateValue = 3
  MaxScore = 4
  InitialGuesses <- AnyGuess
  ScoreTables <- AnyTable
  Anything = Anything
  Timed = TRUE
SYMMETRY WorkerSymmetry
INVARIANT NoQuestionAskedTwice
INVARIANT NoQuestionLost
INVARIANT UnstoppedSearchCompletes
INVARIANT BoundsEncloseScore
INVARIANT ResultsExact
INVARIANT ReportedOnce
INVARIANT DeepestReportStands
PROPERTY CompletedDepthIsFinal
PROPERTY NothingMergedAfterDone
