SPECIFICATION FairSpec
CONSTANTS
  m1 = m1
  m2 = m2
  NoMove = NoMove
  Unlimited = Unlimited
  Moves = {m1, m2}
  Mates <- ShortMates
  Draws <- ShortDraws
  HistoryLimit = 3
  Budget = 7
INVARIANT SearchMatchesSession
INVARIANT NoSearchRepeated
PROPERTY EngineMoves
