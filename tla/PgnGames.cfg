SPECIFICATION Spec
CONSTANTS
  Texts <- AllTexts
  Garbage <- AllGarbage
  Lines <- AllLines
  MaxHalfMoves = 2
INVARIANT GamesReadTrue
INVARIANT NothingLost
