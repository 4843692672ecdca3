-------------------------- MODULE StaticEvaluator --------------------------
(***************************************************************************)
(* The evaluator of the search (src/src/static_evaluator.cpp): material    *)
(* and the terms of a position in centipawns, and test(), which asks       *)
(* whether the rounded sum is above a threshold and leaves the terms out   *)
(* where the material alone decides.                                       *)
(*                                                                         *)
(* Both colours are written out, as they are in the code.  An evaluator e  *)
(* is the record that configure() leaves behind; the doubles are given as  *)
(* the integers they are truncated to.  The pawn cache is left out.        *)
(***************************************************************************)
EXTENDS Board
Ext == INSTANCE FiniteSetsExt

CONSTANT Settings   \* what configure() is called with

\* What it takes: everything is bounded, and a piece is worth something.
PieceValues == 1 .. 10000
ParameterRange == -10000 .. 10000
Parameters ==
  [knight : PieceValues, bishop : PieceValues, rook : PieceValues, queen : PieceValues,
   bound : ParameterRange, pawnSquares : ParameterRange, doubled : ParameterRange, isolated : ParameterRange,
   backwards : ParameterRange, passed : ParameterRange, kingSquares : ParameterRange,
   knightSquares : ParameterRange, bishopSquares : ParameterRange, semiOpenFile : ParameterRange,
   openFile : ParameterRange, rank7 : ParameterRange]

ASSUME SettingsAssumption == Settings \subseteq Parameters

kDefaultGrainSize == 8
kEndgameDefinition == 1200

\* Division of C++: towards zero.
Quotient(a, n) == IF a >= 0 THEN a \div n ELSE -((-a) \div n)
OnLattice(score, grain) == Quotient(score, grain) * grain
Within(score, limit) ==
  LET most == IF score > limit THEN limit ELSE score
  IN IF most < -limit THEN -limit ELSE most
Percent(weight, value) == Quotient(weight * value, 100)
-----------------------------------------------------------------------------
(***************************************************************************)
(* Tables: rows from White's side.  Those of Black are their mirror images *)
(* but for the king's.                                                     *)
(***************************************************************************)
Mirrored(s) == 8 * (7 - Row(s)) + Column(s)

pawnSquareRows ==
  << <<0, 0, 0, 0, 0, 0, 0, 0>>, <<0, 0, 0, -40, -40, 0, 0, 0>>,
     <<1, 2, 3, -10, -10, 3, 2, 1>>, <<2, 4, 6, 8, 8, 6, 4, 2>>,
     <<3, 6, 9, 12, 12, 9, 6, 3>>, <<4, 8, 12, 16, 16, 12, 8, 4>>,
     <<5, 10, 15, 20, 20, 15, 10, 5>>, <<0, 0, 0, 0, 0, 0, 0, 0>> >>
pawnSquareValue == [s \in Squares |-> pawnSquareRows[Row(s) + 1][Column(s) + 1]]

Shelter(s) == <<0, 20, 40, -20, 0, -20, 40, 20>>[Column(s) + 1]
whiteKingSquareValue ==
  [s \in Squares |-> IF Row(s) = 0 THEN Shelter(s) ELSE IF Row(s) = 7 THEN -20 ELSE -40]
blackKingSquareValue ==
  [s \in Squares |-> IF Row(s) = 7 THEN Shelter(s) ELSE IF Row(s) = 6 THEN -20 ELSE -40]

\* Steps from the rim to the middle.
Inward(n) == IF n < 4 THEN n ELSE 7 - n
endgameKingSquareValue ==
  [s \in Squares |-> 10 * (Inward(Row(s)) + Inward(Column(s)))]

MinorSquare(s) ==
  CASE Inward(Row(s)) = 0 \/ Inward(Column(s)) = 0 -> -10
    [] Inward(Row(s)) = 1 \/ Inward(Column(s)) = 1 -> 0
    [] Inward(Row(s)) = 3 /\ Inward(Column(s)) = 3 -> 10
    [] OTHER -> 5
knightSquareValue ==
  [s \in Squares |-> IF s \in {1, 6} THEN -30 ELSE MinorSquare(s)]
bishopSquareValue ==
  [s \in Squares |-> IF s \in {2, 5} THEN -20 ELSE MinorSquare(s)]
-----------------------------------------------------------------------------
\* Mutant: the bound is left between two multiples of the grain.
BoundAsGiven(value) == IF value < 0 THEN 0 ELSE value
maximumNonMaterialScore(value) ==
  IF value < 0 THEN 0 ELSE OnLattice(value, kDefaultGrainSize)

\* configure()
Configured(p) ==
  LET start == 1600 + 4 * (p.knight + p.bishop + p.rook) + 2 * p.queen
  IN [values |-> <<100, p.knight, p.bishop, p.rook, p.queen>>,
      weights |-> p, bound |-> maximumNonMaterialScore(p.bound), start |-> start,
      most |-> start \div 2 - p.queen, mostPlain |-> start \div 2 - 1600]

MaterialOf(e, b, color) ==
  Ext!SumFunction([piece \in pawn .. queen |-> b.counts[color][piece] * e.values[piece]])

Minors(b, color) == b.counts[color][bishop] + b.counts[color][knight]

\* The bonuses of one colour's pieces among so many pawns.
PieceBonus(b, color) ==
  LET n == b.counts[color]
      pawns == b.counts[white][pawn] + b.counts[black][pawn]
  IN (IF n[knight] >= 1 THEN 2 * pawns - 16 ELSE 0) - (IF n[knight] > 1 THEN 11 ELSE 0)
       + (IF n[bishop] > 1 THEN 13 ELSE 0)
       + (IF n[queen] > 0 THEN pawns + Minors(b, white) + Minors(b, black) ELSE 0)
       + n[rook] * (32 - 2 * pawns)

ForMover(b, score) == IF b.flags.side = black THEN -score ELSE score

MaterialScore(e, b) ==
  LET lead == MaterialOf(e, b, white) - MaterialOf(e, b, black)
      total == MaterialOf(e, b, white) + MaterialOf(e, b, black)
      pawns == b.counts[IF lead > 0 THEN white ELSE black][pawn]
      trade == Quotient(lead * (e.start - total) * pawns, (e.start - 1600) * (pawns + 1))
      bonus == trade + PieceBonus(b, white) - PieceBonus(b, black)
  IN ForMover(b, Within(Within(lead, e.mostPlain) + bonus, e.most))
\* Board::evaluateMaterial (src/src/evaluate.cpp): fixed values, no bonuses for
\* pieces, and White's point of view whoever is to move.
Fixed == Configured([knight |-> 325, bishop |-> 350, rook |-> 500, queen |-> 900, bound |-> 0])

maxMaterial == 3100
maxMaterialWoBonus == 2400

EvaluateMaterial(b) ==
  LET lead == MaterialOf(Fixed, b, white) - MaterialOf(Fixed, b, black)
      total == MaterialOf(Fixed, b, white) + MaterialOf(Fixed, b, black)
      pawns == b.counts[IF lead > 0 THEN white ELSE black][pawn]
      trade == Quotient(lead * pawns * (Fixed.start - total), (Fixed.start - 1600) * (pawns + 1))
  IN Within(Within(lead, maxMaterialWoBonus) + trade, maxMaterial)
-----------------------------------------------------------------------------
(***************************************************************************)
(* Pawns and kings.  w and k are the rank of the pawn that is farthest     *)
(* behind on each file, White's and Black's, with a file on either side.   *)
(***************************************************************************)
OnFile(b, color, file) == {Row(s) : s \in {s \in b.boards[color][pawn] : Column(s) = file}}
WhiteRank(b) == [file \in -1 .. 8 |-> Ext!Min(OnFile(b, white, file) \union {7})]
BlackRank(b) == [file \in -1 .. 8 |-> Ext!Max(OnFile(b, black, file) \union {0})]

WhitePawn(e, w, k, s) ==
  LET r == Row(s)
      f == Column(s)
  IN Percent(e.weights.pawnSquares, pawnSquareValue[s])
       + (IF \A g \in f - 1 .. f + 1 : k[g] <= r THEN e.weights.passed * r ELSE 0)
       - (IF w[f] < r THEN e.weights.doubled ELSE 0)
       - (IF w[f - 1] = 7 /\ w[f + 1] = 7 THEN e.weights.isolated
          ELSE IF w[f - 1] < r /\ w[f + 1] < r THEN e.weights.backwards ELSE 0)

\* Mutant: a file without pawns is told as it is for White.
AloneAsForWhite(k, f) == k[f - 1] = 7 /\ k[f + 1] = 7
Alone(k, f) == k[f - 1] = 0 /\ k[f + 1] = 0

BlackPawn(e, w, k, s) ==
  LET r == Row(s)
      f == Column(s)
  IN Percent(e.weights.pawnSquares, pawnSquareValue[Mirrored(s)])
       + (IF \A g \in f - 1 .. f + 1 : w[g] >= r THEN e.weights.passed * (7 - r) ELSE 0)
       - (IF k[f] > r THEN e.weights.doubled ELSE 0)
       - (IF Alone(k, f) THEN e.weights.isolated
          ELSE IF k[f - 1] > r /\ k[f + 1] > r THEN e.weights.backwards ELSE 0)

WhiteKingPawn(w, k, f) ==
  -(CASE w[f] = 1 -> 0 [] w[f] = 2 -> 10 [] w[f] = 7 -> 25 [] OTHER -> 20)
    - (CASE k[f] = 0 -> 15 [] k[f] = 2 -> 10 [] k[f] = 3 -> 5 [] OTHER -> 0)
BlackKingPawn(w, k, f) ==
  -(CASE k[f] = 6 -> 0 [] k[f] = 5 -> 10 [] k[f] = 0 -> 25 [] OTHER -> 20)
    - (CASE w[f] = 7 -> 15 [] w[f] = 5 -> 10 [] w[f] = 4 -> 5 [] OTHER -> 0)

\* The three files of a king on a wing, the innermost with half its weight.
Wing(kingPawn, file) ==
  IF file < 3 THEN kingPawn[0] + kingPawn[1] + Quotient(kingPawn[2], 2)
  ELSE IF file > 4 THEN kingPawn[7] + kingPawn[6] + Quotient(kingPawn[5], 2)
  ELSE 0

KingSquare(b, color) == CHOOSE s \in b.boards[color][king] : TRUE
Endgame(e, b, color) == MaterialOf(e, b, Flip(color)) < kEndgameDefinition

evaluatePawnsAndKings(e, b) ==
  LET w == WhiteRank(b)
      k == BlackRank(b)
      here == KingSquare(b, white)
      there == KingSquare(b, black)
      whiteKing == IF Endgame(e, b, white) THEN endgameKingSquareValue[here]
                   ELSE whiteKingSquareValue[here]
                          + Wing([f \in 0 .. 7 |-> WhiteKingPawn(w, k, f)], Column(here))
      blackKing == IF Endgame(e, b, black) THEN endgameKingSquareValue[there]
                   ELSE blackKingSquareValue[there]
                          + Wing([f \in 0 .. 7 |-> BlackKingPawn(w, k, f)], Column(there))
  IN Ext!SumFunction([s \in b.boards[white][pawn] |-> WhitePawn(e, w, k, s)])
       - Ext!SumFunction([s \in b.boards[black][pawn] |-> BlackPawn(e, w, k, s)])
       + Percent(e.weights.kingSquares, whiteKing - blackKing)
-----------------------------------------------------------------------------
RookFile(e, b, color, s) ==
  IF OnFile(b, color, Column(s)) # {} THEN 0
  ELSE IF OnFile(b, Flip(color), Column(s)) = {} THEN e.weights.openFile
  ELSE e.weights.semiOpenFile

\* Knights, bishops and rooks of one colour; seen[s] is how it sees a square.
Pieces(e, b, color, seen) ==
  Ext!SumFunction([s \in b.boards[color][knight] |->
                     Percent(e.weights.knightSquares, knightSquareValue[seen[s]])])
    + Ext!SumFunction([s \in b.boards[color][bishop] |->
                         Percent(e.weights.bishopSquares, bishopSquareValue[seen[s]])])
    + Ext!SumFunction([s \in b.boards[color][rook] |->
                         RookFile(e, b, color, s)
                           + IF Row(seen[s]) = 6 THEN e.weights.rank7 ELSE 0])

\* An advantage shrinks with the reversible moves, never below half of itself.
Damped(score, clock) ==
  IF score > 0 THEN IF 2 * clock > score THEN Quotient(score, 2) ELSE score - clock
  ELSE IF score < 0 THEN IF 2 * clock > -score THEN Quotient(score, 2) ELSE score + clock
  ELSE 0

TermSum(e, b) ==
  evaluatePawnsAndKings(e, b)
    + Pieces(e, b, white, [s \in Squares |-> s])
    - Pieces(e, b, black, [s \in Squares |-> Mirrored(s)])

NonMaterialScore(e, b) == ForMover(b, Damped(Within(TermSum(e, b), e.bound), b.fifty))

\* test(): material, the bound on the terms, and the terms where they matter.
Above(material, terms, bound, grain, testValue) ==
  LET rounded == OnLattice(material, grain)
  IN IF rounded - bound > testValue THEN TRUE
     ELSE IF rounded + bound < testValue THEN FALSE
     ELSE OnLattice(material + terms, grain) > testValue

-----------------------------------------------------------------------------
(***************************************************************************)
(* Properties.                                                             *)
(***************************************************************************)
\* The grains in use: the search's and that of the learning.
Grains == {kDefaultGrainSize, 2}

\* "Whether the grain-rounded full score exceeds a threshold placed strictly
\* between score-grain multiples": the answer from material alone is never
\* another one, at the thresholds next to the score and next to where the
\* shortcut begins, with any reversible moves behind.
ShortcutExact ==
  \A p \in Settings : \E e \in {Configured(p)} :
    \E material \in {MaterialScore(e, board)}, sum \in {TermSum(e, board)} :
      \A grain \in Grains, clock \in {board.fifty, 3, 99} :
        LET terms == ForMover(board, Damped(Within(sum, e.bound), clock))
            score == OnLattice(material + terms, grain)
            rounded == OnLattice(material, grain)
            near == {score} \union {OnLattice(rounded + d, grain) : d \in {-e.bound, e.bound}}
        IN \A n \in near : \A testValue \in {n - grain \div 2, n + grain \div 2} :
             Above(material, terms, e.bound, grain, testValue) <=> score > testValue

Mirror(b) ==
  [b EXCEPT !.boards = [c \in Colors |-> [piece \in 0 .. king |->
                          {Mirrored(s) : s \in b.boards[Flip(c)][piece]}]],
            !.counts = [c \in Colors |-> b.counts[Flip(c)]],
            !.flags.side = Flip(@)]

\* Before the endgame the two king tables differ on the second and last rank.
KingsAlike(e, b) ==
  /\ Endgame(e, b, white) \/ Row(KingSquare(b, white)) \notin {1, 7}
  /\ Endgame(e, b, black) \/ Row(KingSquare(b, black)) \notin {6, 0}

\* "White-minus-Black": with the colours exchanged the mover sees the same
\* score, although each colour's terms are computed by code of their own.  Two
\* things are not alike: a king whose tables differ, and material where
\* configure() takes pieces worth so little (2 * (knight + bishop + rook) + queen
\* below 800) that its limit is negative and both clamps apply.
ColoursAlike ==
  \A p \in Settings : \E e \in {Configured(p)} :
    /\ e.mostPlain >= 0 => MaterialScore(e, Mirror(board)) = MaterialScore(e, board)
    /\ KingsAlike(e, board) => NonMaterialScore(e, Mirror(board)) = NonMaterialScore(e, board)
    /\ EvaluateMaterial(Mirror(board)) = -EvaluateMaterial(board)
=============================================================================
