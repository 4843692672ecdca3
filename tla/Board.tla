------------------------------- MODULE Board -------------------------------
(***************************************************************************)
(* The board (src/src/board.cpp): makeMove and undoMove on the square      *)
(* array and everything that is kept beside it (a set of squares per       *)
(* piece, counts, occupancy, two hash keys, flags), and the moves the      *)
(* generators offer them.                                                  *)
(*                                                                         *)
(* A hash key is the set of the features whose random words it is the XOR  *)
(* of, so that two keys are equal when the positions are: collisions are   *)
(* left out.  The four rotations of the occupancy are one set.             *)
(***************************************************************************)
EXTENDS Integers, Sequences, FiniteSets
LOCAL INSTANCE FiniteSetsExt

CONSTANTS
  Starts,        \* positions to load, each with the half moves to play from it
  maxHalfMoves   \* size of the undo history

VARIABLES
  board,   \* the Board
  past,    \* ghost: the Board before each recorded half move
  plies    \* bound on the half moves played

vars == <<board, past, plies>>

black == 0
white == 1
Colors == {black, white}
Flip(color) == 1 - color

empty == 0
pawn == 1
knight == 2
bishop == 3
rook == 4
queen == 5
king == 6

Magnitude(value) == IF value < 0 THEN -value ELSE value
Value(color, piece) == IF color = white THEN piece ELSE -piece

Squares == 0 .. 63
Row(square) == square \div 8
Column(square) == square % 8
\* The square dr rows and dc columns away, as a set that is empty off the board.
Step(square, dr, dc) ==
  {t \in Squares : Row(t) = Row(square) + dr /\ Column(t) = Column(square) + dc}

Empty == [from |-> 0, to |-> 0, promo |-> 1]
Sides == {"king", "queen"}
Rights == Colors \X Sides

ASSUME StartsAssumption ==
  /\ maxHalfMoves \in Nat
  /\ \A start \in Starts :
       /\ start.values \in [Squares -> -king .. king]
       /\ start.side \in Colors /\ start.rights \subseteq Rights /\ start.ep \in Squares
       /\ start.fifty \in Nat /\ start.plies \in Nat

FirstRow(color) == IF color = white THEN 0 ELSE 56
Forward(color) == IF color = white THEN 1 ELSE -1
-----------------------------------------------------------------------------
(***************************************************************************)
(* Attacks.                                                                *)
(***************************************************************************)
Straight == {<<0, 1>>, <<1, 0>>, <<0, -1>>, <<-1, 0>>}
Diagonal == {<<1, 1>>, <<1, -1>>, <<-1, 1>>, <<-1, -1>>}
Jumps == {d \in {-2, -1, 1, 2} \X {-2, -1, 1, 2} : d[1] * d[1] # d[2] * d[2]}

Leaps(directions) ==
  [s \in Squares |-> UNION {Step(s, d[1], d[2]) : d \in directions}]
KnightAttacks == Leaps(Jumps)
KingAttacks == Leaps(Straight \union Diagonal)
PawnAttacks ==
  [color \in Colors |-> Leaps({<<Forward(color), -1>>, <<Forward(color), 1>>})]

\* The squares of each ray, nearest first.
Rays ==
  [s \in Squares |->
    [d \in Straight \union Diagonal |->
      LET steps == {k \in 1 .. 7 : Step(s, k * d[1], k * d[2]) # {}}
      IN [k \in 1 .. Cardinality(steps) |->
            CHOOSE t \in Step(s, k * d[1], k * d[2]) : TRUE]]]

\* A ray reaches up to and including the first occupied square.
Slides(occupied, square, directions) ==
  UNION {LET ray == Rays[square][d]
         IN {ray[k] : k \in {k \in DOMAIN ray : \A j \in 1 .. k - 1 : ray[j] \notin occupied}}
         : d \in directions}

Attacks(b, piece, square) ==
  CASE piece = knight -> KnightAttacks[square]
    [] piece = bishop -> Slides(b.occupied, square, Diagonal)
    [] piece = rook   -> Slides(b.occupied, square, Straight)
    [] piece = queen  -> Slides(b.occupied, square, Straight \union Diagonal)
    [] piece = king   -> KingAttacks[square]

\* Seen from the square outward; pawns attack against their own direction.
SquareUnderAttackBy(b, square, color) ==
  \/ b.boards[color][pawn] \cap PawnAttacks[Flip(color)][square] # {}
  \/ \E piece \in {knight, bishop, rook, queen, king} :
       b.boards[color][piece] # {}
         /\ b.boards[color][piece] \cap Attacks(b, piece, square) # {}

KingInCheck(b, color) ==
  \E square \in b.boards[color][king] : SquareUnderAttackBy(b, square, Flip(color))
-----------------------------------------------------------------------------
(***************************************************************************)
(* Generators: every pseudolegal move.                                     *)
(***************************************************************************)
Moves(from, targets, promos) == [from : {from}, to : targets, promo : promos]

Ahead(occupied, us, from) == Step(from, Forward(us), 0) \ occupied
TwoAhead(occupied, us, from) ==
  UNION {Ahead(occupied, us, s) : s \in Ahead(occupied, us, from)}

PawnTargets(b, us, from) ==
  LET free == Ahead(b.occupied, us, from)
      double == {t \in TwoAhead(b.occupied, us, from) :
                   Row(t) = IF us = white THEN 3 ELSE 4}
      enPassant == {t \in PawnAttacks[us][from] :
                      b.flags.ep # 0 /\ t = b.flags.ep + 8 * Forward(us)}
  IN free \union double \union enPassant
       \union (PawnAttacks[us][from] \cap b.boards[Flip(us)][0])

PawnMoves(b, us) ==
  UNION {UNION {Moves(from, {to},
                      IF Row(to) \in {0, 7} THEN {queen, rook, bishop, knight} ELSE {0})
                : to \in PawnTargets(b, us, from)}
         : from \in b.boards[us][pawn]}

PieceMoves(b, us) ==
  UNION {UNION {Moves(from, Attacks(b, piece, from)
                              \ (b.occupied \ b.boards[Flip(us)][0]), {0})
                : from \in b.boards[us][piece]}
         : piece \in {knight, bishop, rook, queen, king}}

\* The king's start and landing squares, and what must be free and not attacked.
\* The landing square is left to makeMove.
Castlings(b, us, side, home, landing, between, passed) ==
  IF /\ <<us, side>> \in b.flags.rights
     /\ between \cap b.occupied = {}
     /\ \A s \in {home, passed} : ~SquareUnderAttackBy(b, s, Flip(us))
  THEN Moves(home, {landing}, {0}) ELSE {}

CastleMoves(b, us) ==
  LET home == FirstRow(us) + 4
  IN Castlings(b, us, "king", home, home + 2, {home + 1, home + 2}, home + 1)
       \union Castlings(b, us, "queen", home, home - 2, {home - 1, home - 2, home - 3},
                        home - 1)

PseudolegalMoves(b) ==
  LET us == b.flags.side
  IN PawnMoves(b, us) \union PieceMoves(b, us) \union CastleMoves(b, us)
-----------------------------------------------------------------------------
(***************************************************************************)
(* Updates of the squares, the piece sets and the keys.                    *)
(***************************************************************************)
Toggled(b, features) == [b EXCEPT !.key = SymDiff(@, features)]
PawnToggled(b, features) == [b EXCEPT !.pawnKey = SymDiff(@, features)]

At(color, piece, square) == <<"piece", Value(color, piece), square>>
\* Only the file of the pawn is in the key.
EnPassant(square) == IF square = 0 THEN {} ELSE {<<"ep", Column(square), 0>>}
Absent(right) == <<right[2], right[1], 0>>

\* In a colour's row of sets, 0 stands for all its pieces.
Without(row, piece, square) ==
  [row EXCEPT ![0] = @ \ {square}, ![piece] = @ \ {square}]
With(row, piece, square) ==
  [row EXCEPT ![0] = @ \union {square}, ![piece] = @ \union {square}]
Renamed(row, old, new, square) ==
  [row EXCEPT ![old] = @ \ {square}, ![new] = @ \union {square}]
More(row, piece, n) == [row EXCEPT ![0] = @ + n, ![piece] = @ + n]
Recounted(row, old, new) == [row EXCEPT ![old] = @ - 1, ![new] = @ + 1]

Lifted(b, color, piece, square) ==
  [b EXCEPT !.boards[color] = Without(@, piece, square),
            !.occupied = @ \ {square}, !.values[square] = empty]

Placed(b, color, piece, square) ==
  [b EXCEPT !.boards[color] = With(@, piece, square),
            !.occupied = @ \union {square}, !.values[square] = Value(color, piece)]

Counted(b, color, piece, n) == [b EXCEPT !.counts[color] = More(@, piece, n)]

\* A pawn becomes another piece, or that piece a pawn again.
Exchanged(b, color, old, new, square) ==
  [b EXCEPT !.boards[color] = Renamed(@, old, new, square),
            !.counts[color] = Recounted(@, old, new),
            !.values[square] = Value(color, new)]

IsCastleMove(b, move) ==
  Magnitude(b.values[move.from]) = king /\ Magnitude(move.from - move.to) = 2

IsEnPassantMove(b, move) ==
  /\ Magnitude(b.values[move.from]) = pawn /\ b.values[move.to] = empty
  /\ (move.to - move.from) * Forward(b.flags.side) \in {7, 9}

\* Where the rook of a castling king stands before and after.
RookFrom(us, move) == FirstRow(us) + IF move.from < move.to THEN 7 ELSE 0
RookTo(us, move) == FirstRow(us) + IF move.from < move.to THEN 5 ELSE 3
CastledSide(move) == IF move.from < move.to THEN "king" ELSE "queen"

\* A right goes when its king or rook leaves home, or is captured there.
Homes(color, side) ==
  {FirstRow(color) + 4, FirstRow(color) + IF side = "king" THEN 7 ELSE 0}
\* Mutant: the capture of a rook at home is forgotten.
LostRightsByMoving(b, move) ==
  {r \in b.flags.rights : r[1] = b.flags.side /\ move.from \in Homes(r[1], r[2])}
LostRights(b, move) ==
  {r \in b.flags.rights :
     (IF r[1] = b.flags.side THEN move.from ELSE move.to) \in Homes(r[1], r[2])}

WithoutRights(b, lost) ==
  Toggled([b EXCEPT !.flags.rights = @ \ lost], {Absent(r) : r \in lost})
-----------------------------------------------------------------------------
(***************************************************************************)
(* makeMove, in the order of the code.                                     *)
(***************************************************************************)
Captured(b, them, move) ==
  LET piece == Magnitude(b.values[move.to])
      taken == {At(them, piece, move.to)}
      gone == Toggled(Counted(Lifted(b, them, piece, move.to), them, piece, -1), taken)
  IN IF piece = empty THEN [b EXCEPT !.flags.capture = empty]
     ELSE [PawnToggled(gone, IF piece = pawn THEN taken ELSE {})
             EXCEPT !.flags.capture = piece, !.fifty = 0]

HandleCastle(b, us, move) ==
  LET here == RookFrom(us, move)
      there == RookTo(us, move)
      moved == Placed(Lifted(b, us, rook, here), us, rook, there)
  IN [Toggled(WithoutRights(moved, b.flags.rights \cap ({us} \X Sides)),
              {At(us, rook, here), At(us, rook, there)})
        EXCEPT !.castled = @ \union {<<us, CastledSide(move)>>}]

HandlePromotion(b, us, move) ==
  PawnToggled(Toggled(Exchanged(b, us, pawn, move.promo, move.to),
                      {At(us, pawn, move.to), At(us, move.promo, move.to)}),
              {At(us, pawn, move.to)})

HandleEnPassant(b, us, move) ==
  LET square == move.to - 8 * Forward(us)
      taken == {At(Flip(us), pawn, square)}
  IN PawnToggled(Toggled(Counted(Lifted(b, Flip(us), pawn, square),
                                 Flip(us), pawn, -1), taken), taken)

\* The part of makeMove that a null move skips.
Moved(b, move) ==
  LET us == b.flags.side
      piece == Magnitude(b.values[move.from])
      path == {At(us, piece, move.from), At(us, piece, move.to)}
      taken == Captured(Lifted(b, us, piece, move.from), Flip(us), move)
      landed == PawnToggled(Toggled(Placed(taken, us, piece, move.to), path),
                            IF piece \in {pawn, king} THEN path ELSE {})
      counted == IF piece = pawn THEN [landed EXCEPT !.fifty = 0] ELSE landed
      homed == IF IsCastleMove(b, move) THEN HandleCastle(counted, us, move)
               ELSE WithoutRights(counted, LostRights(counted, move))
  IN IF move.promo # 0 THEN HandlePromotion(homed, us, move)
     ELSE IF IsEnPassantMove(b, move) THEN HandleEnPassant(homed, us, move)
     ELSE homed

\* En-passant eligibility lasts one half move, a null move included.
EnPassantUpdated(b, double, move) ==
  LET new == IF double THEN move.to ELSE 0
      change == SymDiff(EnPassant(b.flags.ep), EnPassant(new))
  IN PawnToggled(Toggled([b EXCEPT !.flags.ep = new], change), change)

\* Earlier half moves of the same side, back to the last pawn move or capture.
\* Mutant: the position right after that move is left out.
WindowTooShort(b) ==
  {i \in 0 .. b.flags.halfMoveCount - 4 :
     i > b.flags.halfMoveCount - b.fifty /\ (b.flags.halfMoveCount - i) % 2 = 0}
Window(b) ==
  {i \in 0 .. b.flags.halfMoveCount - 4 :
     i >= b.flags.halfMoveCount - b.fifty /\ (b.flags.halfMoveCount - i) % 2 = 0}

RepeatAdjusted(b) ==
  LET seen == Cardinality({i \in Window(b) : b.undoInfo[i + 1].key = b.key})
  IN [b EXCEPT !.flags.repeats = IF seen > 2 THEN 2 ELSE seen]

whiteSquares == {s \in Squares : (Row(s) + Column(s)) % 2 = 0}

DrawByMaterial(b) ==
  LET Alone(c) == b.counts[c][0] = 1
      Minor(c) == b.counts[c][knight] = 1 \/ b.counts[c][bishop] = 1
      bishops == b.boards[white][bishop] \union b.boards[black][bishop]
  IN /\ \A c \in Colors : b.counts[c][0] <= 2
     /\ \/ \A c \in Colors : Alone(c)
        \/ \E c \in Colors : Alone(c) /\ ~Alone(Flip(c)) /\ Minor(Flip(c))
        \/ /\ \A c \in Colors : ~Alone(c) /\ b.counts[c][bishop] = 1
           /\ bishops \subseteq whiteSquares \/ bishops \cap whiteSquares = {}

Judged(b) ==
  LET counted == RepeatAdjusted(b)
      drawn == b.fifty >= 100 \/ DrawByMaterial(b) \/ counted.flags.repeats >= 2
  IN [counted EXCEPT !.flags.check = KingInCheck(b, b.flags.side),
                     !.flags.draw = drawn]

Info(b, move) ==
  [key |-> b.key, pawnKey |-> b.pawnKey, flags |-> b.flags, fifty |-> b.fifty,
   move |-> move]

\* makeMove up to the test of the mover's king.
Applied(b, move) ==
  LET us == b.flags.side
      stored == [b EXCEPT !.undoInfo = Append(@, Info(b, move)), !.fifty = @ + 1]
      moved == IF move = Empty THEN stored ELSE Moved(stored, move)
      double == /\ move # Empty /\ Magnitude(b.values[move.from]) = pawn
                /\ Magnitude(move.from - move.to) = 16
      passed == EnPassantUpdated(moved, double, move)
  IN Judged([passed EXCEPT !.flags.side = Flip(us), !.flags.halfMoveCount = @ + 1])
-----------------------------------------------------------------------------
(***************************************************************************)
(* undoMove: flags and keys come back verbatim, the pieces are put back.   *)
(***************************************************************************)
\* Mutant: the captured piece is read after the flags have been restored.
TakenPieceRestored(b, info) == info.flags.capture
TakenPiece(b, info) == b.flags.capture

PutBack(b, us, taken, move) ==
  LET piece == Magnitude(b.values[move.to])
      back == Placed(Lifted(b, us, piece, move.to), us, piece, move.from)
      freed == IF taken = empty THEN back
               ELSE Counted(Placed(back, Flip(us), taken, move.to), Flip(us), taken, 1)
      square == move.to - 8 * Forward(us)
  IN IF IsCastleMove(freed, move)
     THEN [Placed(Lifted(freed, us, rook, RookTo(us, move)), us, rook, RookFrom(us, move))
             EXCEPT !.castled = @ \ {<<us, CastledSide(move)>>}]
     ELSE IF move.promo # 0 THEN Exchanged(freed, us, move.promo, pawn, move.from)
     ELSE IF IsEnPassantMove(freed, move)
     THEN Counted(Placed(freed, Flip(us), pawn, square), Flip(us), pawn, 1)
     ELSE freed

Undone(b) ==
  LET n == b.flags.halfMoveCount
      info == b.undoInfo[n]
      taken == TakenPiece(b, info)
      restored == [b EXCEPT !.flags = info.flags, !.fifty = info.fifty,
                            !.key = info.key, !.pawnKey = info.pawnKey,
                            !.undoInfo = SubSeq(@, 1, n - 1)]
  IN IF info.move = Empty THEN restored
     ELSE PutBack(restored, restored.flags.side, taken, info.move)

MoverSafe(b) == ~KingInCheck(b, Flip(b.flags.side))

\* makeMove takes a move back that leaves the mover's king attacked.
Made(b, move) == LET after == Applied(b, move)
                 IN IF MoverSafe(after) THEN after ELSE Undone(after)
-----------------------------------------------------------------------------
(***************************************************************************)
(* loadFen, and the operations.                                            *)
(***************************************************************************)
ComputedKey(values, flags) ==
  {<<"piece", values[s], s>> : s \in {s \in Squares : values[s] # empty}}
    \union {Absent(r) : r \in Rights \ flags.rights} \union EnPassant(flags.ep)

ComputedPawnKey(values, flags) ==
  {<<"piece", values[s], s>> : s \in {s \in Squares : Magnitude(values[s]) \in {pawn, king}}}
    \union EnPassant(flags.ep)

SquaresOf(values, color, piece) == {s \in Squares : values[s] = Value(color, piece)}

\* What loadFen accepts, of positions that a game can reach.
Acceptable(start) ==
  /\ \A c \in Colors : Cardinality(SquaresOf(start.values, c, king)) = 1
  /\ \A s \in Squares : Magnitude(start.values[s]) = pawn => Row(s) \notin {0, 7}
  /\ \A r \in start.rights :
       /\ start.values[FirstRow(r[1]) + 4] = Value(r[1], king)
       /\ start.values[FirstRow(r[1]) + IF r[2] = "king" THEN 7 ELSE 0] = Value(r[1], rook)
  /\ start.ep # 0 =>
       /\ start.values[start.ep] = Value(Flip(start.side), pawn)
       /\ Row(start.ep) = IF start.side = white THEN 4 ELSE 3
       /\ start.values[start.ep + 8 * Forward(start.side)] = empty

BoardsOf(values) ==
  [c \in Colors |-> [p \in 0 .. king |->
     IF p = 0 THEN {s \in Squares : values[s] * Forward(c) > 0}
     ELSE SquaresOf(values, c, p)]]

CountsOf(boards) == [c \in Colors |-> [p \in 0 .. king |-> Cardinality(boards[c][p])]]

Loaded(start) ==
  LET boards == BoardsOf(start.values)
      flags == [halfMoveCount |-> 0, ep |-> start.ep, capture |-> empty, repeats |-> 0,
                check |-> FALSE, draw |-> FALSE, side |-> start.side,
                rights |-> start.rights]
  IN Judged([values |-> start.values, boards |-> boards,
             counts |-> CountsOf(boards),
             occupied |-> boards[white][0] \union boards[black][0],
             key |-> ComputedKey(start.values, flags),
             pawnKey |-> ComputedPawnKey(start.values, flags),
             flags |-> flags, fifty |-> start.fifty, castled |-> {}, undoInfo |-> <<>>])

Init ==
  \E start \in Starts :
    /\ Acceptable(start)
    /\ board = Loaded(start)
    /\ past = <<>>
    /\ plies = start.plies

\* A move that makeMove refuses leaves everything as it was.
Refused(b, move) ==
  \/ b.flags.halfMoveCount >= maxHalfMoves
  \/ move # Empty /\ Magnitude(b.values[move.to]) = king

Record == past' = IF board'.flags.halfMoveCount > board.flags.halfMoveCount
                  THEN Append(past, board) ELSE past

MakeMove ==
  /\ board.flags.halfMoveCount < plies
  /\ \E move \in PseudolegalMoves(board) :
       /\ ~Refused(board, move)
       /\ board' = Made(board, move)
  /\ Record
  /\ UNCHANGED plies

\* The search passes when it is not in check, at a position that repeats none (how
\* much material it wants for that is left out).
MakeNullMove ==
  /\ board.flags.halfMoveCount < plies
  /\ ~board.flags.check /\ board.flags.repeats = 0 /\ ~Refused(board, Empty)
  /\ board' = Made(board, Empty)
  /\ Record
  /\ UNCHANGED plies

UndoMove ==
  /\ board.flags.halfMoveCount # 0
  /\ board' = Undone(board)
  /\ past' = SubSeq(past, 1, Len(past) - 1)
  /\ UNCHANGED plies

Next == MakeMove \/ MakeNullMove \/ UndoMove

Spec == Init /\ [][Next]_vars
-----------------------------------------------------------------------------
(***************************************************************************)
(* Properties.                                                             *)
(***************************************************************************)
\* What assertBoardConsistency() rebuilds in a debug build: the piece sets, the
\* counts, the occupancy and both keys are those of the squares and the flags.
Consistent ==
  LET boards == BoardsOf(board.values)
  IN /\ board.boards = boards
     /\ board.counts = CountsOf(boards)
     /\ board.occupied = boards[white][0] \union boards[black][0]
     /\ board.key = ComputedKey(board.values, board.flags)
     /\ board.pawnKey = ComputedPawnKey(board.values, board.flags)

\* undoMove() gives back the whole board of before the move, and so does
\* makeMove() when it rejects a move that exposes the king.
Restores ==
  CASE Len(past') < Len(past) -> board' = past[Len(past)]
    [] Len(past') = Len(past) -> board' = board
    [] OTHER -> TRUE
TakingBackRestores == [][Restores]_vars

\* The position as a player sees it.
Position(b) == [values |-> b.values, side |-> b.flags.side, rights |-> b.flags.rights,
                ep |-> b.flags.ep]
NoTwoPasses ==
  \A i \in 2 .. Len(board.undoInfo) :
    ~(board.undoInfo[i].move = Empty /\ board.undoInfo[i - 1].move = Empty)

\* The window that adjustRepeatCount() looks at loses no earlier occurrence: the
\* count is that of equal positions since the game was loaded, up to two.  (A
\* line in which both sides pass in a row repeats two half moves back, which
\* only a search does and the window does not cover.)
RepetitionsExact ==
  NoTwoPasses =>
    LET before == Cardinality({i \in 1 .. Len(past) : Position(past[i]) = Position(board)})
    IN board.flags.repeats = IF before > 2 THEN 2 ELSE before
=============================================================================
