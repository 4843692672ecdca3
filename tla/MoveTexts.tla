----------------------------- MODULE MoveTexts -----------------------------
(***************************************************************************)
(* The texts of moves (src/src/board.cpp): moveToStr writes a move with    *)
(* its source square and a mark for check or mate, makeTextMove reads that *)
(* form and the shorter ones a player or a game file uses, and makes the   *)
(* move.                                                                   *)
(*                                                                         *)
(* A text is a record of what its characters say: files and ranks are      *)
(* columns and rows, with Unsaid where the text is silent; a capture sign  *)
(* and the letters after the destination of an en-passant capture mean     *)
(* nothing to the reader and are left out.                                 *)
(***************************************************************************)
EXTENDS Legality

Unsaid == -1

\* A castling text names the side it is to; all others a square.
CastleText(side, mark) ==
  [castle |-> side, prefix |-> 0, file |-> Unsaid, rank |-> Unsaid, to |-> 0,
   promo |-> 0, mark |-> mark]
SquareText(prefix, file, rank, to, promo, mark) ==
  [castle |-> "none", prefix |-> prefix, file |-> file, rank |-> rank, to |-> to,
   promo |-> promo, mark |-> mark]
-----------------------------------------------------------------------------
\* The move is made to see whether it checks, or mates.
CheckMark(b, move) ==
  IF ~Makes(b, move) \/ ~Applied(b, move).flags.check THEN "none"
  ELSE IF \E after \in {Applied(b, move)}, color \in Colors : KingInCheckmate(after, color)
  THEN "mate" ELSE "check"

\* A pawn is written without a letter.
Letter(b, move) ==
  IF Magnitude(b.values[move.from]) = pawn THEN 0 ELSE Magnitude(b.values[move.from])

MoveToStr(b, move) ==
  IF IsCastleMove(b, move) THEN CastleText(CastledSide(move), CheckMark(b, move))
  ELSE SquareText(Letter(b, move), Column(move.from), Row(move.from),
                  move.to, move.promo, CheckMark(b, move))
-----------------------------------------------------------------------------
PieceMatches(b, move, text) ==
  \/ Magnitude(b.values[move.from]) = IF text.prefix = 0 THEN pawn ELSE text.prefix
  \/ text.prefix = 0 /\ text.file # Unsaid /\ text.rank # Unsaid

Matches(b, move, text) ==
  /\ move.to = text.to /\ move.promo = text.promo
  /\ PieceMatches(b, move, text)
  /\ text.rank \in {Unsaid, Row(move.from)}
  /\ text.file \in {Unsaid, Column(move.from)}

CastleNamed(b, side) ==
  LET home == FirstRow(b.flags.side) + 4
  IN [from |-> home, to |-> IF side = "king" THEN home + 2 ELSE home - 2, promo |-> 0]

\* Mutant: where a text leaves a choice, the first candidate is taken.
MeantByFirst(b, legal, text) ==
  {m \in legal : Matches(b, m, text) /\ \A other \in legal :
     Matches(b, other, text) => 64 * m.from + m.to <= 64 * other.from + other.to}

\* The legal move makeTextMove() makes, as a set that is empty when the text
\* means none or more than one.  The two castling texts are compared as a whole:
\* a mark behind them makes them unreadable.
MeantBy(b, legal, text) ==
  IF text.castle # "none"
  THEN {m \in legal : text.mark = "none" /\ m = CastleNamed(b, text.castle)}
  ELSE LET arriving == {m \in legal : m.to = text.to}
       IN {m \in arriving :
             /\ Matches(b, m, text)
             /\ \A other \in arriving \ {m} : ~Matches(b, other, text)}
-----------------------------------------------------------------------------
(***************************************************************************)
(* Properties.                                                             *)
(***************************************************************************)
\* Every legal move with its text, and who reaches what, be it pinned or not.
Written(b) == {<<m, MoveToStr(b, m)>> : m \in LegalMoves(b)}
Reaching(b) == {<<m.from, m.to>> : m \in PseudolegalMoves(b)}

ReadsBack(b, legal, entry) == MeantBy(b, legal, entry[2]) = {entry[1]}

\* With the source file alone, the rank alone or neither, as game files have it, a
\* text is read as a move only if no other legal move is worded the same: pinned
\* pieces leave no doubt, and where there is doubt no move is guessed.
Said == 0 .. 7 \union {Unsaid}
ShortTextsUnambiguous(b, legal, reaching) ==
  \A move \in {m \in legal : \E r \in reaching :
                  r[2] = m.to /\ r[1] # m.from /\ b.values[r[1]] = b.values[m.from]} :
    \A file \in Said, rank \in Said : Unsaid \in {file, rank} =>
      LET alike == {m \in legal : /\ m.to = move.to /\ m.promo = move.promo
                                 /\ b.values[m.from] = b.values[move.from]
                                 /\ file \in {Unsaid, Column(m.from)}
                                 /\ rank \in {Unsaid, Row(m.from)}}
          text == SquareText(Letter(b, move), file, rank, move.to, move.promo, "none")
      IN MeantBy(b, legal, text) = IF Cardinality(alike) = 1 THEN alike ELSE {}

\* What the engine writes it reads, but for a castling move that gives check; and
\* the shorter texts of game files are never read as a move they may not mean.
TextsReadBack ==
  \A written \in {Written(board)} : \A legal \in {{w[1] : w \in written}} :
    /\ \A w \in written :
         (w[2].castle = "none" \/ w[2].mark = "none") => ReadsBack(board, legal, w)
    /\ \A reaching \in {Reaching(board)} : ShortTextsUnambiguous(board, legal, reaching)

\* "Emit the engine's long algebraic form ... append check or mate notation";
\* "accepts algebraic and explicit-coordinate forms": every text reads back.
EveryTextReadsBack ==
  \A w \in Written(board) : ReadsBack(board, LegalMoves(board), w)
=============================================================================
