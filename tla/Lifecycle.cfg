SPECIFICATION FairLifeSpec
CONSTANTS
  m1 = m1
  NoMove = NoMove
  Workers = {0, 1}
  Requesters = {0, 1, TheOwner, TheTimer, TheCoordinator}
  TheOwner = TheOwner
  TheTimer = TheTimer
  TheCoordinator = TheCoordinator
  Moves = {m1}
  Fallback = m1
  Preferences = {"even", "avoidDraws"}
  MaximumDepth = 1
  GrainSize = 2
  Infty = 37
  MinCheckmateValue = 100
  MaxScore = 0
  InitialGuesses <- ZeroGuess
  ScoreTables <- AnyAnswers
  Anything = Anything
  Timed = TRUE
  MaxSearches = 2
  Failures = TRUE
INVARIANT InactiveMeansQuiet
INVARIANT CachedBoundsMatchPreference
PROPERTY ImplementsService
