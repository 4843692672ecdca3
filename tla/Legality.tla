------------------------------ MODULE Legality ------------------------------
(***************************************************************************)
(* The questions the program asks a board about moves                      *)
(* (src/src/board.cpp): what each generator lists, whether a move that     *)
(* comes from elsewhere is pseudolegal or legal here, whether it captures  *)
(* and whether a king is mated.                                            *)
(***************************************************************************)
EXTENDS Board

\* makeMove() would return true.
Makes(b, move) == ~Refused(b, move) /\ MoverSafe(Applied(b, move))

Takes(b, move) ==
  \/ move.to \in b.occupied
  \/ Magnitude(b.values[move.from]) = pawn /\ Column(move.from) # Column(move.to)
-----------------------------------------------------------------------------
(***************************************************************************)
(* The three generators share the moves out; underpromotions, captures     *)
(* among them, are listed with the noncaptures.                            *)
(***************************************************************************)
Promotions(b) == {m \in PawnMoves(b, b.flags.side) : m.promo = queen}
Captures(b) == {m \in PseudolegalMoves(b) : m.promo = 0 /\ Takes(b, m)}
Noncaptures(b) ==
  {m \in PseudolegalMoves(b) : m.promo # queen /\ (m.promo = 0 => ~Takes(b, m))}
-----------------------------------------------------------------------------
(***************************************************************************)
(* moveIsCapture and isPseudoLegalMove judge a move by its squares alone,  *)
(* without the generators.                                                 *)
(***************************************************************************)
EnPassantTarget(b) == b.flags.ep + 8 * Forward(b.flags.side)

\* Mutant: a pawn that lands on an empty square does not capture.
MoveIsCaptureOnSquare(b, move) == move # Empty /\ b.values[move.to] # empty

MoveIsCapture(b, move) ==
  /\ move # Empty
  /\ \/ b.values[move.to] # empty
     \/ b.flags.ep # 0 /\ move.to = EnPassantTarget(b) /\ IsEnPassantMove(b, move)

\* No part of this looks at columns, but for captures on an occupied square.
PawnReaches(b, from, to) ==
  LET us == b.flags.side
      ahead == (to - from) * Forward(us)
  IN IF IsEnPassantMove(b, [from |-> from, to |-> to, promo |-> 0])
     THEN to = EnPassantTarget(b)
     ELSE IF b.values[to] = empty
     THEN \/ ahead = 8
          \/ /\ ahead = 16 /\ b.values[to - 8 * Forward(us)] = empty
             /\ Row(from) = IF us = white THEN 1 ELSE 6
     ELSE to \in PawnAttacks[us][from] \cap b.boards[Flip(us)][0]

Reaches(b, from) ==
  LET us == b.flags.side
      piece == Magnitude(b.values[from])
      castles == {m.to : m \in {m \in CastleMoves(b, us) : m.from = from}}
  IN IF piece = pawn THEN {to \in Squares : PawnReaches(b, from, to)}
     ELSE (Attacks(b, piece, from) \ b.boards[us][0])
            \union (IF piece = king THEN castles ELSE {})

IsPseudoLegalMove(b, move) ==
  /\ move # Empty
  /\ b.values[move.from] * Forward(b.flags.side) > 0
  /\ move.to \in Reaches(b, move.from)
  /\ IF Magnitude(b.values[move.from]) = pawn /\ Row(move.to) \in {0, 7}
     THEN move.promo \in knight .. queen
     ELSE move.promo = 0
-----------------------------------------------------------------------------
(***************************************************************************)
(* Legal moves, and checkmate.                                             *)
(***************************************************************************)
\* isLegalMove() looks for the move in the list of all pseudolegal ones.
LegalMoves(b) == {m \in PseudolegalMoves(b) : Makes(b, m)}

NoMove(b) == \A m \in PseudolegalMoves(b) : ~Makes(b, m)

KingInCheckmate(b, color) == color = b.flags.side /\ KingInCheck(b, color) /\ NoMove(b)
-----------------------------------------------------------------------------
(***************************************************************************)
(* Properties.                                                             *)
(***************************************************************************)
\* What the move picker lets through as a killer (src/src/node.cpp): a move
\* without promotion that is no capture here and pseudolegal here.
UsableKillers(b) ==
  {m \in UNION {Moves(from, Reaches(b, from), {0}) : from \in b.boards[b.flags.side][0]} :
     ~MoveIsCapture(b, m) /\ IsPseudoLegalMove(b, m)}

\* Exactly the quiet moves the third generator will list pass the filter, so a
\* killer is neither a move of another position nor one of another stage.
\* isPseudoLegalMove() alone would let an en-passant "capture" across the rim of
\* the board through, which moveIsCapture() takes for one as well.
KillersAreQuietMoves ==
  UsableKillers(board) = {m \in Noncaptures(board) : m.promo = 0}
=============================================================================
