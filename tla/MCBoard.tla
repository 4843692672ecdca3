------------------------------ MODULE MCBoard ------------------------------
(***************************************************************************)
(* Instances of Board, and of the modules about its moves, for TLC:        *)
(* positions in which the special moves meet.                              *)
(***************************************************************************)
EXTENDS MoveTexts, Exchange, StaticEvaluator, TLC

Setup(pieces, side, rights, ep, halfMoves) ==
  [values |-> [s \in Squares |-> IF s \in DOMAIN pieces THEN pieces[s] ELSE empty],
   side |-> side, rights |-> rights, ep |-> ep, fifty |-> 0, plies |-> halfMoves]

\* Both kings and all rooks at home, pawns one step from promotion beside them.
CastlingAndPromotion ==
  Setup(4 :> king @@ 7 :> rook @@ 49 :> pawn
          @@ 60 :> -king @@ 56 :> -rook @@ 14 :> -pawn,
        white, {<<white, "king">>, <<black, "queen">>}, 0, 3)

\* A double step beside two pawns, one of which is pinned along the row.
PinnedEnPassant ==
  Setup(4 :> king @@ 24 :> rook @@ 12 :> pawn
          @@ 31 :> -king @@ 27 :> -pawn @@ 29 :> -pawn,
        white, {}, 0, 3)

\* Kings with few squares, a pawn move that cuts the history, and a history that
\* fills up.
Shuffling ==
  Setup(7 :> king @@ 15 :> pawn @@ 23 :> -pawn @@ 56 :> -king @@ 48 :> -pawn
          @@ 40 :> pawn, white, {}, 0, 9)

\* A double step to the h file while an enemy pawn stands on the a file one row
\* further: the square it would take en passant is 7 away, across the rim.
RimPawns ==
  Setup(4 :> king @@ 40 :> pawn @@ 38 :> pawn @@ 32 :> rook
          @@ 63 :> -king @@ 55 :> -pawn @@ 46 :> -knight,
        black, {}, 0, 2)

\* Two squares attacked by many: a knight that is pinned and comes first,
\* rooks one behind the other, a bishop behind a queen, a pawn that may promote.
Battery ==
  Setup(0 :> king @@ 9 :> knight @@ 4 :> rook @@ 12 :> rook @@ 11 :> knight @@ 26 :> pawn
          @@ 7 :> -bishop @@ 63 :> -bishop @@ 28 :> -pawn @@ 43 :> -knight
          @@ 62 :> -king @@ 52 :> -queen @@ 60 :> -rook @@ 50 :> pawn,
        white, {}, 0, 1)

\* Most pieces are there; pawns doubled, isolated, passed and left behind; a
\* king on either wing, with gaps before it; two knights on one file that reach
\* the same square.
Middlegame ==
  Setup(6 :> king @@ 13 :> pawn @@ 22 :> pawn @@ 8 :> pawn @@ 26 :> pawn @@ 34 :> pawn
          @@ 3 :> queen @@ 0 :> rook @@ 52 :> rook @@ 18 :> knight @@ 2 :> knight
          @@ 20 :> bishop
          @@ 58 :> -king @@ 49 :> -pawn @@ 42 :> -pawn @@ 55 :> -pawn @@ 47 :> -pawn
          @@ 29 :> -pawn @@ 59 :> -queen @@ 63 :> -rook @@ 45 :> -knight @@ 50 :> -bishop,
        white, {}, 0, 1)

\* A pawn that may be taken in passing from the start, and kings that can bring
\* the same men back without that right.
PassingFromTheStart ==
  Setup(7 :> king @@ 15 :> pawn @@ 24 :> pawn @@ 33 :> pawn
          @@ 56 :> -king @@ 23 :> -pawn @@ 32 :> -pawn, white, {}, 32, 4)

AllStarts ==
  {CastlingAndPromotion, PinnedEnPassant, Shuffling, RimPawns, Battery, Middlegame,
   PassingFromTheStart}

\* The default parameters, and terms that are often over their bound, which is
\* not a multiple of the grain.
Default ==
  [knight |-> 325, bishop |-> 325, rook |-> 500, queen |-> 900, bound |-> 199,
   pawnSquares |-> 100, doubled |-> 10, isolated |-> 20, backwards |-> 8, passed |-> 20,
   kingSquares |-> 100, knightSquares |-> 100, bishopSquares |-> 100,
   semiOpenFile |-> 10, openFile |-> 15, rank7 |-> 20]
AllSettings ==
  {Default, [Default EXCEPT !.knight = 301, !.bishop = 333, !.bound = 11, !.pawnSquares = 37]}

\* Castling puts the rook on the file of the enemy king.
CheckByCastling ==
  {Setup(4 :> king @@ 7 :> rook @@ 61 :> -king, white, {<<white, "king">>}, 0, 1)}
=============================================================================
