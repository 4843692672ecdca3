------------------------- MODULE EvaluationProofs -------------------------
(***************************************************************************)
(* Theorems about what is computed from one position.                      *)
(*                                                                         *)
(* The shortcut of StaticEvaluator::test is exact, and the evaluator       *)
(* treats the colours alike, for all parameters; see() says what the       *)
(* exchange is worth and comes to an end; index and placement of three men *)
(* are inverse to each other.                                              *)
(***************************************************************************)
EXTENDS PositionProofs, Exchange, EndgameIndex
-----------------------------------------------------------------------------
(***************************************************************************)
(* The shortcut of the evaluator.                                          *)
(***************************************************************************)
\* Multiples of one number are at least that number apart.
LEMMA Apart ==
  ASSUME NEW a \in Int, NEW b \in Int, NEW g \in Nat \ {0}, a < b
  PROVE  a * g + g <= b * g
<1>1. b - a - 1 \in Nat
  OBVIOUS
<1>2. (b - a - 1) * g >= 0
  BY <1>1
<1>3. (b - a - 1) * g = b * g - a * g - g
  OBVIOUS
<1> QED
  BY <1>2, <1>3

\* What rounding towards zero yields: a multiple, less than one grain nearer to
\* zero.
LEMMA Rounding ==
  ASSUME NEW x \in Int, NEW g \in Nat \ {0}
  PROVE  \E q \in Int :
           /\ OnLattice(x, g) = q * g
           /\ x >= 0 => q >= 0 /\ q * g <= x /\ x < q * g + g
           /\ x < 0 => q <= 0 /\ q * g - g < x /\ x <= q * g
<1>1. ASSUME NEW y \in Nat
      PROVE  /\ y \div g \in Nat /\ (y \div g) * g <= y /\ y < (y \div g) * g + g
  <2>1. y = (y \div g) * g + (y % g) /\ y % g \in 0 .. g - 1 /\ y \div g \in Int
    OBVIOUS
  <2>2. y \div g >= 0
    OBVIOUS
  <2> QED
    BY <2>1, <2>2
<1>2. CASE x >= 0
  <2> DEFINE n == x \div g
  <2>1. /\ n \in Nat /\ n * g <= x /\ x < n * g + g
    BY <1>1, <1>2
  <2>2. OnLattice(x, g) = n * g
    BY <1>2 DEF OnLattice, Quotient
  <2> HIDE DEF n
  <2> QED
    BY <1>2, <2>1, <2>2
<1>3. CASE x < 0
  <2> DEFINE n == (-x) \div g
  <2>1. /\ n \in Nat /\ n * g <= -x /\ -x < n * g + g
    BY <1>1, <1>3
  <2>2. OnLattice(x, g) = (-n) * g
    BY <1>3, <2>1 DEF OnLattice, Quotient
  <2>3. (-n) * g = -(n * g) /\ -n \in Int
    BY <2>1
  <2> HIDE DEF n
  <2> QED
    BY <1>3, <2>1, <2>2, <2>3
<1> QED
  BY <1>2, <1>3

\* A sum is rounded to no less than the rounded first summand less a bound on
\* the second that is a multiple of the grain, and to no more than the two.
LEMMA RoundedSum ==
  ASSUME NEW m \in Int, NEW t \in Int, NEW g \in Nat \ {0}, NEW k \in Nat,
         -(k * g) <= t, t <= k * g
  PROVE  /\ OnLattice(m, g) - k * g <= OnLattice(m + t, g)
         /\ OnLattice(m + t, g) <= OnLattice(m, g) + k * g
<1>0. m + t \in Int
  OBVIOUS
<1>1. PICK q \in Int :
        /\ OnLattice(m, g) = q * g
        /\ m >= 0 => q >= 0 /\ q * g <= m /\ m < q * g + g
        /\ m < 0 => q <= 0 /\ q * g - g < m /\ m <= q * g
  BY Rounding
<1>2. PICK p \in Int :
        /\ OnLattice(m + t, g) = p * g
        /\ m + t >= 0 => p >= 0 /\ p * g <= m + t /\ m + t < p * g + g
        /\ m + t < 0 => p <= 0 /\ p * g - g < m + t /\ m + t <= p * g
  BY <1>0, Rounding
<1>3. /\ (q - k) * g = q * g - k * g
      /\ (q + k) * g = q * g + k * g
  OBVIOUS
<1>4. /\ p < q - k => p * g + g <= (q - k) * g
      /\ q + k < p => (q + k) * g + g <= p * g
  BY Apart
<1>5. /\ q - k <= p => (q - k) * g <= p * g
      /\ p <= q + k => p * g <= (q + k) * g
  <2>1. ASSUME NEW a \in Int, NEW b \in Int, a <= b
        PROVE  a * g <= b * g
    <3>1. CASE a = b
      BY <3>1
    <3>2. CASE a < b
      BY <3>2, Apart
    <3> QED
      BY <2>1, <3>1, <3>2
  <2> QED
    BY <2>1
<1>6. q - k <= p
  <2>1. CASE m >= 0 /\ m + t >= 0
    BY <1>1, <1>2, <1>3, <1>4, <2>1
  <2>2. CASE m >= 0 /\ m + t < 0
    BY <1>1, <1>2, <1>3, <1>4, <2>2
  <2>3. CASE m < 0 /\ m + t >= 0
    BY <1>1, <1>2, <2>3
  <2>4. CASE m < 0 /\ m + t < 0
    BY <1>1, <1>2, <1>3, <1>4, <2>4
  <2> QED
    BY <2>1, <2>2, <2>3, <2>4
<1>7. p <= q + k
  <2>1. CASE m >= 0 /\ m + t >= 0
    BY <1>1, <1>2, <1>3, <1>4, <2>1
  <2>2. CASE m >= 0 /\ m + t < 0
    BY <1>1, <1>2, <2>2
  <2>3. CASE m < 0 /\ m + t >= 0
    BY <1>1, <1>2, <1>3, <1>4, <2>3
  <2>4. CASE m < 0 /\ m + t < 0
    BY <1>1, <1>2, <1>3, <1>4, <2>4
  <2> QED
    BY <2>1, <2>2, <2>3, <2>4
<1> QED
  BY <1>1, <1>2, <1>3, <1>5, <1>6, <1>7

\* Neither the clamp nor the clock, nor whose turn it is, takes the terms past
\* the bound.
LEMMA TermsBounded ==
  ASSUME NEW sum \in Int, NEW bound \in Nat, NEW clock \in Nat, NEW b
  PROVE  LET terms == ForMover(b, Damped(Within(sum, bound), clock))
         IN terms \in Int /\ -bound <= terms /\ terms <= bound
<1> DEFINE w == Within(sum, bound)
           d == Damped(w, clock)
<1>1. w \in Int /\ -bound <= w /\ w <= bound
  BY DEF Within
<1>2. ASSUME NEW y \in Nat
      PROVE  y \div 2 \in Nat /\ y \div 2 <= y
  OBVIOUS
<1> HIDE DEF w
<1>3. d \in Int /\ -bound <= d /\ d <= bound
  <2>1. CASE w > 0
    BY <1>1, <1>2, <2>1 DEF Damped, Quotient
  <2>2. CASE w < 0
    BY <1>1, <1>2, <2>2 DEF Damped, Quotient
  <2>3. CASE w = 0
    BY <1>1, <2>3 DEF Damped
  <2> QED
    BY <1>1, <2>1, <2>2, <2>3
<1> HIDE DEF d
<1>4. ForMover(b, d) \in Int /\ -bound <= ForMover(b, d) /\ ForMover(b, d) <= bound
  BY <1>3 DEF ForMover
<1> QED
  BY <1>4 DEF d, w

\* configure() leaves a bound that every grain dividing the default one divides.
LEMMA BoundOnLattice ==
  ASSUME NEW value \in Int, NEW g \in Nat \ {0}, NEW n \in Nat,
         kDefaultGrainSize = n * g
  PROVE  \E k \in Nat : maximumNonMaterialScore(value) = k * g
<1>1. CASE value < 0
  <2>1. maximumNonMaterialScore(value) = 0 * g
    BY <1>1 DEF maximumNonMaterialScore
  <2> QED
    BY <2>1
<1>2. CASE value >= 0
  <2>1. kDefaultGrainSize \in Nat \ {0}
    BY DEF kDefaultGrainSize
  <2>2. PICK q \in Int : /\ OnLattice(value, kDefaultGrainSize) = q * kDefaultGrainSize
                         /\ q >= 0
    BY <1>2, <2>1, Rounding
  <2>3. maximumNonMaterialScore(value) = q * (n * g)
    BY <1>2, <2>2 DEF maximumNonMaterialScore
  <2>4. q * (n * g) = (q * n) * g /\ q * n \in Nat
    BY <2>2
  <2> QED
    BY <2>3, <2>4
<1> QED
  BY <1>1, <1>2

\* StaticEvaluator::test answers whether the rounded full score is above the
\* threshold, by whichever of its three branches.
THEOREM TestMeansScore ==
  ASSUME NEW material \in Int, NEW sum \in Int, NEW clock \in Nat, NEW b,
         NEW value \in Int, NEW grain \in Nat \ {0}, NEW n \in Nat,
         kDefaultGrainSize = n * grain, NEW testValue \in Int
  PROVE  LET bound == maximumNonMaterialScore(value)
             terms == ForMover(b, Damped(Within(sum, bound), clock))
         IN Above(material, terms, bound, grain, testValue)
              <=> OnLattice(material + terms, grain) > testValue
<1> DEFINE bound == maximumNonMaterialScore(value)
           terms == ForMover(b, Damped(Within(sum, bound), clock))
           rounded == OnLattice(material, grain)
           score == OnLattice(material + terms, grain)
<1>1. PICK k \in Nat : bound = k * grain
  BY BoundOnLattice
<1>2. bound \in Nat
  BY <1>1
<1> HIDE DEF bound
<1>3. terms \in Int /\ -bound <= terms /\ terms <= bound
  BY <1>2, TermsBounded
<1> HIDE DEF terms
<1>4. /\ rounded - bound <= score
      /\ score <= rounded + bound
  BY <1>1, <1>3, RoundedSum
<1>5. rounded \in Int /\ score \in Int
  <2>1. \A x \in Int : OnLattice(x, grain) \in Int
    BY Rounding
  <2> QED
    BY <1>3, <2>1
<1> HIDE DEF rounded, score
<1>6. Above(material, terms, bound, grain, testValue)
        <=> IF rounded - bound > testValue THEN TRUE
            ELSE IF rounded + bound < testValue THEN FALSE
            ELSE score > testValue
  BY DEF Above, rounded, score
<1>7. Above(material, terms, bound, grain, testValue) <=> score > testValue
  BY <1>2, <1>4, <1>5, <1>6
<1> QED
  BY <1>7 DEF score, terms, bound
-----------------------------------------------------------------------------
(***************************************************************************)
(* What the evaluator computes is a number.                                *)
(***************************************************************************)
\* What it reads of a board.
Settled(b) ==
  /\ b.flags.side \in Colors /\ b.fifty \in Nat
  /\ \A c \in Colors, p \in 0 .. king :
       b.counts[c][p] \in Nat /\ b.boards[c][p] \in SUBSET Squares
  /\ \A c \in Colors : \E k \in Squares : b.boards[c][king] = {k}

LEMMA WholeSettled ==
  ASSUME NEW b, Whole(b)
  PROVE  Settled(b)
<1>1. PICK v, fl, ff, cs, u : b = State(v, fl, ff, cs, u) /\ Wholly(v, fl, ff, cs, u)
  BY DEF Whole
<1>2. /\ b.flags = fl /\ b.fifty = ff /\ b.boards = BoardsOf(v)
      /\ b.counts = CountsOf(BoardsOf(v))
  BY <1>1 DEF State, Standing, Census
<1>3. v \in Contents /\ AreFlags(fl) /\ ff \in Nat /\ Crowned(v)
  BY <1>1 DEF Wholly
<1>4. ASSUME NEW c \in Colors, NEW p \in 0 .. king
      PROVE  b.counts[c][p] \in Nat /\ b.boards[c][p] \in SUBSET Squares
  <2>1. PICK S : S = BoardsOf(v)[c][p]
    OBVIOUS
  <2>2. S \in SUBSET Squares
    <3>1. p \in 0 .. 6
      BY DEF king
    <3> QED
      BY <1>3, <2>1, <3>1, BoardsTyped
  <2>3. CountsOf(BoardsOf(v))[c][p] = Cardinality(S)
    BY <2>1 DEF CountsOf
  <2>4. Cardinality(S) \in Nat
    BY <2>2, FiniteSquares, FS_Subset, FS_CardinalityType
  <2> QED
    BY <1>2, <2>1, <2>2, <2>3, <2>4
<1>5. ASSUME NEW c \in Colors
      PROVE  \E k \in Squares : b.boards[c][king] = {k}
  <2>1. PICK k : KingAt(v, c, k)
    BY <1>3 DEF Crowned
  <2>2. BoardsOf(v)[c][king] = SquaresOf(v, c, king)
    BY DEF BoardsOf, king
  <2>3. SquaresOf(v, c, king) = {k}
    BY <2>1 DEF KingAt, SquaresOf
  <2> QED
    BY <1>2, <2>1, <2>2, <2>3 DEF KingAt
<1> QED
  BY <1>2, <1>3, <1>4, <1>5 DEF Settled, AreFlags

\* A sum over a function is one over its domain.
LEMMA SumIsTotal ==
  ASSUME NEW f
  PROVE  Ext!SumFunction(f) = Total(f, DOMAIN f)
BY Zenon DEF Ext!SumFunction, Total

LEMMA SumTyped ==
  ASSUME NEW S, IsFiniteSet(S), NEW f \in [S -> Int]
  PROVE  Ext!SumFunction(f) = Total(f, S) /\ Total(f, S) \in Int
<1>1. DOMAIN f = S /\ \A x \in S : f[x] \in Int
  OBVIOUS
<1>2. PICK D : D = DOMAIN f
  OBVIOUS
<1>3. Ext!SumFunction(f) = Total(f, D)
  BY <1>2, SumIsTotal
<1> QED
  BY <1>1, <1>2, <1>3, TotalTyped

LEMMA QuotientTyped ==
  ASSUME NEW a \in Int, NEW n \in Nat \ {0}
  PROVE  Quotient(a, n) \in Int
BY DEF Quotient

LEMMA PercentTyped ==
  ASSUME NEW weight \in Int, NEW value \in Int
  PROVE  Percent(weight, value) \in Int
<1>1. PICK a : a = weight * value
  OBVIOUS
<1>2. a \in Int /\ 100 \in Nat \ {0}
  BY <1>1
<1> QED
  BY <1>1, <1>2, QuotientTyped DEF Percent

\* The tables hold numbers.
LEMMA TablesTyped ==
  /\ pawnSquareValue \in [Squares -> Int] /\ knightSquareValue \in [Squares -> Int]
  /\ bishopSquareValue \in [Squares -> Int] /\ endgameKingSquareValue \in [Squares -> Int]
  /\ whiteKingSquareValue \in [Squares -> Int] /\ blackKingSquareValue \in [Squares -> Int]
<1>1. ASSUME NEW s \in Squares
      PROVE  Row(s) \in 0 .. 7 /\ Column(s) \in 0 .. 7
  BY DEF Row, Column, Squares
<1>2. \A i \in 1 .. 8 : \A j \in 1 .. 8 : pawnSquareRows[i][j] \in Int
  <2>1. ASSUME NEW i \in 1 .. 8
        PROVE  \A j \in 1 .. 8 : pawnSquareRows[i][j] \in Int
    <3>1. PICK row : row = pawnSquareRows[i]
      OBVIOUS
    <3>2. \A j \in 1 .. 8 : row[j] \in Int
      BY <3>1 DEF pawnSquareRows
    <3> QED
      BY <3>1, <3>2
  <2> QED
    BY <2>1
<1>3. pawnSquareValue \in [Squares -> Int]
  <2>1. \A s \in Squares : Row(s) + 1 \in 1 .. 8 /\ Column(s) + 1 \in 1 .. 8
    BY <1>1
  <2> QED
    BY <1>2, <2>1 DEF pawnSquareValue
<1>4. \A s \in Squares : Inward(Row(s)) \in Int /\ Inward(Column(s)) \in Int
  BY <1>1 DEF Inward
<1>5. \A s \in Squares : MinorSquare(s) \in Int
  BY DEF MinorSquare
<1>6. \A s \in Squares : Shelter(s) \in Int
  BY <1>1 DEF Shelter
<1> QED
  BY <1>3, <1>4, <1>5, <1>6 DEF knightSquareValue, bishopSquareValue,
     endgameKingSquareValue, whiteKingSquareValue, blackKingSquareValue

\* What configure() leaves behind: the numbers that material is counted with,
\* and those of the terms.
Counting(e) ==
  /\ \A piece \in pawn .. queen : e.values[piece] \in Int
  /\ e.start \in Int /\ e.start > 1600 /\ e.most \in Int /\ e.mostPlain \in Int

Weighing(e) ==
  /\ e.weights.pawnSquares \in Int /\ e.weights.doubled \in Int
  /\ e.weights.isolated \in Int /\ e.weights.backwards \in Int
  /\ e.weights.passed \in Int /\ e.weights.kingSquares \in Int
  /\ e.weights.knightSquares \in Int /\ e.weights.bishopSquares \in Int
  /\ e.weights.semiOpenFile \in Int /\ e.weights.openFile \in Int
  /\ e.weights.rank7 \in Int

LEMMA FiveValues ==
  ASSUME NEW a \in Int, NEW b \in Int, NEW c \in Int, NEW d \in Int, NEW x \in Int,
         NEW values, values = <<a, b, c, d, x>>
  PROVE  \A piece \in pawn .. queen : values[piece] \in Int
<1>1. pawn .. queen = {1, 2, 3, 4, 5}
  BY DEF pawn, queen
<1> QED
  BY <1>1

LEMMA ParametersTyped ==
  ASSUME NEW p \in Parameters
  PROVE  /\ Counting(Configured(p)) /\ Weighing(Configured(p))
         /\ Configured(p).bound = maximumNonMaterialScore(p.bound) /\ p.bound \in Int
<1>1. /\ p.knight \in Nat \ {0} /\ p.bishop \in Nat \ {0} /\ p.rook \in Nat \ {0}
      /\ p.queen \in Nat \ {0}
  <2>1. /\ p.knight \in PieceValues /\ p.bishop \in PieceValues /\ p.rook \in PieceValues
        /\ p.queen \in PieceValues
    BY DEF Parameters
  <2>2. PieceValues \subseteq Nat \ {0}
    BY DEF PieceValues
  <2> QED
    BY <2>1, <2>2
<1>2. /\ p.bound \in Int /\ p.pawnSquares \in Int /\ p.doubled \in Int
      /\ p.isolated \in Int /\ p.backwards \in Int /\ p.passed \in Int
      /\ p.kingSquares \in Int /\ p.knightSquares \in Int /\ p.bishopSquares \in Int
      /\ p.semiOpenFile \in Int /\ p.openFile \in Int /\ p.rank7 \in Int
  <2>1. /\ p.bound \in ParameterRange /\ p.pawnSquares \in ParameterRange
        /\ p.doubled \in ParameterRange /\ p.isolated \in ParameterRange
    BY DEF Parameters
  <2>2. /\ p.backwards \in ParameterRange /\ p.passed \in ParameterRange
        /\ p.kingSquares \in ParameterRange /\ p.knightSquares \in ParameterRange
    BY DEF Parameters
  <2>3. /\ p.bishopSquares \in ParameterRange /\ p.semiOpenFile \in ParameterRange
        /\ p.openFile \in ParameterRange /\ p.rank7 \in ParameterRange
    BY DEF Parameters
  <2>4. ParameterRange \subseteq Int
    BY DEF ParameterRange
  <2> QED
    BY <2>1, <2>2, <2>3, <2>4
<1>3. PICK start : start = 1600 + 4 * (p.knight + p.bishop + p.rook) + 2 * p.queen
  OBVIOUS
<1>4. start \in Int /\ start > 1600 /\ start \div 2 \in Int
  BY <1>1, <1>3
<1>5. PICK values : values = <<100, p.knight, p.bishop, p.rook, p.queen>>
  OBVIOUS
<1>6. \A piece \in pawn .. queen : values[piece] \in Int
  <2>1. PICK n \in Int, b \in Int, r \in Int, q \in Int :
          n = p.knight /\ b = p.bishop /\ r = p.rook /\ q = p.queen
    BY <1>1
  <2>2. values = <<100, n, b, r, q>> /\ 100 \in Int
    BY <1>5, <2>1
  <2> QED
    BY <2>2, FiveValues, Zenon
<1>7. PICK e : e = Configured(p)
  OBVIOUS
<1>8. /\ e.values = values /\ e.weights = p /\ e.start = start
      /\ e.bound = maximumNonMaterialScore(p.bound)
      /\ e.most = start \div 2 - p.queen /\ e.mostPlain = start \div 2 - 1600
  BY <1>3, <1>5, <1>7 DEF Configured
<1>9. Counting(e)
  BY <1>1, <1>4, <1>6, <1>8 DEF Counting
<1>10. Weighing(e)
  BY <1>2, <1>8 DEF Weighing
<1> QED
  BY <1>2, <1>7, <1>8, <1>9, <1>10

LEMMA FixedCounts == Counting(Fixed)
<1>1. PICK p : p = [knight |-> 325, bishop |-> 350, rook |-> 500, queen |-> 900, bound |-> 0]
  OBVIOUS
<1>2. PICK values : values = <<100, 325, 350, 500, 900>>
  OBVIOUS
<1>3. \A piece \in pawn .. queen : values[piece] \in Int
  <2>1. PICK a \in Int, n \in Int, b \in Int, r \in Int, q \in Int :
          a = 100 /\ n = 325 /\ b = 350 /\ r = 500 /\ q = 900
    OBVIOUS
  <2>2. values = <<a, n, b, r, q>>
    BY <1>2, <2>1
  <2> QED
    BY <2>2, FiveValues, Zenon
<1>4. p.knight = 325 /\ p.bishop = 350 /\ p.rook = 500 /\ p.queen = 900
  BY <1>1
<1>5. Fixed = Configured(p)
  BY <1>1 DEF Fixed
<1>6. Fixed.values = values /\ Fixed.start = 8100 /\ Fixed.most = 3150 /\ Fixed.mostPlain = 2450
  BY <1>2, <1>4, <1>5 DEF Configured
<1> QED
  BY <1>3, <1>6 DEF Counting

\* Material is a number.
LEMMA MaterialTyped ==
  ASSUME NEW e, Counting(e), NEW b, Settled(b), NEW c \in Colors
  PROVE  MaterialOf(e, b, c) \in Int
<1>1. PICK f : f = [piece \in pawn .. queen |-> b.counts[c][piece] * e.values[piece]]
  OBVIOUS
<1>2. \A piece \in pawn .. queen : b.counts[c][piece] \in Nat /\ e.values[piece] \in Int
  <2>1. \A piece \in pawn .. queen : piece \in 0 .. king
    BY DEF pawn, queen, king
  <2> QED
    BY <2>1 DEF Counting, Settled
<1>3. f \in [pawn .. queen -> Int]
  BY <1>1, <1>2
<1>4. IsFiniteSet(pawn .. queen)
  <2>1. PICK first \in Int, last \in Int : first = pawn /\ last = queen
    BY DEF pawn, queen
  <2>2. IsFiniteSet(first .. last)
    BY FS_Interval, Zenon
  <2> QED
    BY <2>1, <2>2
<1>5. MaterialOf(e, b, c) = Ext!SumFunction(f)
  BY <1>1, Zenon DEF MaterialOf
<1> QED
  BY <1>3, <1>4, <1>5, SumTyped

\* The least and the greatest of some ranks.
LEMMA LeastRank ==
  ASSUME NEW S, S \subseteq 0 .. 7, S # {}
  PROVE  /\ Ext!Min(S) \in S /\ \A r \in S : Ext!Min(S) <= r
         /\ Ext!Max(S) \in S /\ \A r \in S : r <= Ext!Max(S)
<1>0. S \subseteq {0, 1, 2, 3, 4, 5, 6, 7}
  OBVIOUS
<1>1. \E x \in S : \A y \in S : x <= y
  <2>1. CASE 0 \in S
    BY <1>0, <2>1
  <2>2. CASE 1 \in S /\ S \cap {0} = {}
    BY <1>0, <2>2
  <2>3. CASE 2 \in S /\ S \cap {0, 1} = {}
    BY <1>0, <2>3
  <2>4. CASE 3 \in S /\ S \cap {0, 1, 2} = {}
    BY <1>0, <2>4
  <2>5. CASE 4 \in S /\ S \cap {0, 1, 2, 3} = {}
    BY <1>0, <2>5
  <2>6. CASE 5 \in S /\ S \cap {0, 1, 2, 3, 4} = {}
    BY <1>0, <2>6
  <2>7. CASE 6 \in S /\ S \cap {0, 1, 2, 3, 4, 5} = {}
    BY <1>0, <2>7
  <2>8. CASE 7 \in S /\ S \cap {0, 1, 2, 3, 4, 5, 6} = {}
    BY <1>0, <2>8
  <2> QED
    BY <1>0, <2>1, <2>2, <2>3, <2>4, <2>5, <2>6, <2>7, <2>8
<1>2. \E x \in S : \A y \in S : x >= y
  <2>1. CASE 7 \in S
    BY <1>0, <2>1
  <2>2. CASE 6 \in S /\ S \cap {7} = {}
    BY <1>0, <2>2
  <2>3. CASE 5 \in S /\ S \cap {6, 7} = {}
    BY <1>0, <2>3
  <2>4. CASE 4 \in S /\ S \cap {5, 6, 7} = {}
    BY <1>0, <2>4
  <2>5. CASE 3 \in S /\ S \cap {4, 5, 6, 7} = {}
    BY <1>0, <2>5
  <2>6. CASE 2 \in S /\ S \cap {3, 4, 5, 6, 7} = {}
    BY <1>0, <2>6
  <2>7. CASE 1 \in S /\ S \cap {2, 3, 4, 5, 6, 7} = {}
    BY <1>0, <2>7
  <2>8. CASE 0 \in S /\ S \cap {1, 2, 3, 4, 5, 6, 7} = {}
    BY <1>0, <2>8
  <2> QED
    BY <1>0, <2>1, <2>2, <2>3, <2>4, <2>5, <2>6, <2>7, <2>8
<1> QED
  BY <1>1, <1>2 DEF Ext!Min, Ext!Max

LEMMA RanksTyped ==
  ASSUME NEW b, Settled(b)
  PROVE  WhiteRank(b) \in [-1 .. 8 -> 0 .. 7] /\ BlackRank(b) \in [-1 .. 8 -> 0 .. 7]
<1>1. ASSUME NEW c \in Colors, NEW file
      PROVE  OnFile(b, c, file) \subseteq 0 .. 7
  <2>1. b.boards[c][pawn] \in SUBSET Squares
    BY DEF Settled, pawn, king
  <2> QED
    BY <2>1 DEF OnFile, Row, Squares
<1>2. ASSUME NEW file
      PROVE  /\ Ext!Min(OnFile(b, white, file) \union {7}) \in 0 .. 7
             /\ Ext!Max(OnFile(b, black, file) \union {0}) \in 0 .. 7
  <2>1. PICK S : S = OnFile(b, white, file) \union {7}
    OBVIOUS
  <2>2. PICK T : T = OnFile(b, black, file) \union {0}
    OBVIOUS
  <2>3. white \in Colors /\ black \in Colors
    BY DEF Colors, white, black
  <2>4. S \subseteq 0 .. 7 /\ S # {} /\ T \subseteq 0 .. 7 /\ T # {}
    BY <1>1, <2>1, <2>2, <2>3
  <2>5. Ext!Min(S) \in S /\ Ext!Max(T) \in T
    BY <2>4, LeastRank
  <2> QED
    BY <2>1, <2>2, <2>4, <2>5
<1> QED
  BY <1>2 DEF WhiteRank, BlackRank

LEMMA KingStands ==
  ASSUME NEW b, Settled(b), NEW c \in Colors
  PROVE  KingSquare(b, c) \in Squares /\ b.boards[c][king] = {KingSquare(b, c)}
<1>1. PICK k \in Squares : b.boards[c][king] = {k}
  BY DEF Settled
<1>2. (CHOOSE s \in {k} : TRUE) = k
  OBVIOUS
<1>3. KingSquare(b, c) = k
  BY <1>1, <1>2 DEF KingSquare
<1> QED
  BY <1>1, <1>3

LEMMA PlaceTyped ==
  ASSUME NEW s \in Squares
  PROVE  Row(s) \in 0 .. 7 /\ Column(s) \in 0 .. 7 /\ Mirrored(s) \in Squares
BY DEF Row, Column, Squares, Mirrored

\* What a pawn counts, on ranks w and k.
LEMMA PawnTyped ==
  ASSUME NEW e, Weighing(e), NEW w, NEW k, NEW s \in Squares
  PROVE  WhitePawn(e, w, k, s) \in Int /\ BlackPawn(e, w, k, s) \in Int
<1>1. PICK r : r = Row(s)
  OBVIOUS
<1>2. r \in Int /\ Mirrored(s) \in Squares
  BY <1>1, PlaceTyped
<1>3. PICK p \in Int, d \in Int, i \in Int, a \in Int :
        /\ p = e.weights.passed /\ d = e.weights.doubled /\ i = e.weights.isolated
        /\ a = e.weights.backwards
  BY DEF Weighing
<1>4. p * r \in Int /\ p * (7 - r) \in Int
  BY <1>2
<1>5. PICK v \in Int, x \in Int :
        /\ v = Percent(e.weights.pawnSquares, pawnSquareValue[s])
        /\ x = Percent(e.weights.pawnSquares, pawnSquareValue[Mirrored(s)])
  <2>1. PICK n \in Int : n = e.weights.pawnSquares
    BY DEF Weighing
  <2>2. PICK y \in Int, z \in Int : y = pawnSquareValue[s] /\ z = pawnSquareValue[Mirrored(s)]
    BY <1>2, TablesTyped
  <2>3. Percent(n, y) \in Int /\ Percent(n, z) \in Int
    BY PercentTyped
  <2> QED
    BY <2>1, <2>2, <2>3
<1>6. WhitePawn(e, w, k, s) \in Int
  BY <1>1, <1>3, <1>4, <1>5 DEF WhitePawn
<1>7. BlackPawn(e, w, k, s) \in Int
  BY <1>1, <1>3, <1>4, <1>5 DEF BlackPawn
<1> QED
  BY <1>6, <1>7

LEMMA WingTyped ==
  ASSUME NEW f \in [0 .. 7 -> Int], NEW file
  PROVE  Wing(f, file) \in Int
<1>1. PICK a \in Int, b \in Int, c \in Int, d \in Int, x \in Int, y \in Int :
        f[0] = a /\ f[1] = b /\ f[2] = c /\ f[5] = d /\ f[6] = x /\ f[7] = y
  <2>1. f[0] \in Int /\ f[1] \in Int /\ f[2] \in Int /\ f[5] \in Int /\ f[6] \in Int /\ f[7] \in Int
    OBVIOUS
  <2> QED
    BY <2>1, Zenon
<1>2. Quotient(c, 2) \in Int /\ Quotient(d, 2) \in Int
  <2>1. PICK n \in Nat \ {0} : n = 2
    OBVIOUS
  <2> QED
    BY <2>1, QuotientTyped
<1> QED
  BY <1>1, <1>2 DEF Wing

LEMMA KingPawnTyped ==
  ASSUME NEW w, NEW k, NEW f
  PROVE  WhiteKingPawn(w, k, f) \in Int /\ BlackKingPawn(w, k, f) \in Int
BY DEF WhiteKingPawn, BlackKingPawn

\* The kings' share of evaluatePawnsAndKings.
WhiteKing(e, b) ==
  IF Endgame(e, b, white) THEN endgameKingSquareValue[KingSquare(b, white)]
  ELSE whiteKingSquareValue[KingSquare(b, white)]
         + Wing([f \in 0 .. 7 |-> WhiteKingPawn(WhiteRank(b), BlackRank(b), f)],
                Column(KingSquare(b, white)))

BlackKing(e, b) ==
  IF Endgame(e, b, black) THEN endgameKingSquareValue[KingSquare(b, black)]
  ELSE blackKingSquareValue[KingSquare(b, black)]
         + Wing([f \in 0 .. 7 |-> BlackKingPawn(WhiteRank(b), BlackRank(b), f)],
                Column(KingSquare(b, black)))

\* and what the pawns of a colour add up to.
WhitePawns(e, b) ==
  Ext!SumFunction([s \in b.boards[white][pawn] |-> WhitePawn(e, WhiteRank(b), BlackRank(b), s)])
BlackPawns(e, b) ==
  Ext!SumFunction([s \in b.boards[black][pawn] |-> BlackPawn(e, WhiteRank(b), BlackRank(b), s)])

LEMMA PawnsAndKingsParts ==
  ASSUME NEW e, NEW b
  PROVE  evaluatePawnsAndKings(e, b)
           = WhitePawns(e, b) - BlackPawns(e, b)
               + Percent(e.weights.kingSquares, WhiteKing(e, b) - BlackKing(e, b))
BY Zenon DEF evaluatePawnsAndKings, WhitePawns, BlackPawns, WhiteKing, BlackKing

LEMMA KingsTyped ==
  ASSUME NEW e, NEW b, Settled(b)
  PROVE  WhiteKing(e, b) \in Int /\ BlackKing(e, b) \in Int
<1>1. white \in Colors /\ black \in Colors
  BY DEF Colors, white, black
<1>2. PICK s \in Squares, t \in Squares : s = KingSquare(b, white) /\ t = KingSquare(b, black)
  BY <1>1, KingStands
<1>3. PICK f, g : /\ f = [n \in 0 .. 7 |-> WhiteKingPawn(WhiteRank(b), BlackRank(b), n)]
                  /\ g = [n \in 0 .. 7 |-> BlackKingPawn(WhiteRank(b), BlackRank(b), n)]
  OBVIOUS
<1>4. f \in [0 .. 7 -> Int] /\ g \in [0 .. 7 -> Int]
  BY <1>3, KingPawnTyped
<1>5. \A file : Wing(f, file) \in Int /\ Wing(g, file) \in Int
  BY <1>4, WingTyped
<1>6. WhiteKing(e, b) = IF Endgame(e, b, white) THEN endgameKingSquareValue[s]
                        ELSE whiteKingSquareValue[s] + Wing(f, Column(s))
  BY <1>2, <1>3, Zenon DEF WhiteKing
<1>7. BlackKing(e, b) = IF Endgame(e, b, black) THEN endgameKingSquareValue[t]
                        ELSE blackKingSquareValue[t] + Wing(g, Column(t))
  BY <1>2, <1>3, Zenon DEF BlackKing
<1> QED
  BY <1>5, <1>6, <1>7, TablesTyped

LEMMA PieceSquares ==
  ASSUME NEW b, Settled(b), NEW c \in Colors, NEW p \in 0 .. king
  PROVE  b.boards[c][p] \in SUBSET Squares /\ IsFiniteSet(b.boards[c][p])
<1>1. PICK S : S = b.boards[c][p]
  OBVIOUS
<1>2. S \in SUBSET Squares
  BY <1>1 DEF Settled
<1>3. IsFiniteSet(S)
  BY <1>2, FiniteSquares, FS_Subset
<1> QED
  BY <1>1, <1>2, <1>3

LEMMA PawnSumsTyped ==
  ASSUME NEW e, Weighing(e), NEW b, Settled(b)
  PROVE  WhitePawns(e, b) \in Int /\ BlackPawns(e, b) \in Int
<1>1. PICK S, T : S = b.boards[white][pawn] /\ T = b.boards[black][pawn]
  OBVIOUS
<1>2. S \in SUBSET Squares /\ IsFiniteSet(S) /\ T \in SUBSET Squares /\ IsFiniteSet(T)
  <2>1. white \in Colors /\ black \in Colors /\ pawn \in 0 .. king
    BY DEF Colors, white, black, pawn, king
  <2> QED
    BY <1>1, <2>1, PieceSquares
<1>3. PICK w, k : w = WhiteRank(b) /\ k = BlackRank(b)
  OBVIOUS
<1>4. PICK f, g : f = [s \in S |-> WhitePawn(e, w, k, s)] /\ g = [s \in T |-> BlackPawn(e, w, k, s)]
  OBVIOUS
<1>5. f \in [S -> Int] /\ g \in [T -> Int]
  BY <1>2, <1>4, PawnTyped
<1>6. Ext!SumFunction(f) \in Int /\ Ext!SumFunction(g) \in Int
  BY <1>2, <1>5, SumTyped
<1>7. WhitePawns(e, b) = Ext!SumFunction(f) /\ BlackPawns(e, b) = Ext!SumFunction(g)
  BY <1>1, <1>3, <1>4, Zenon DEF WhitePawns, BlackPawns
<1> QED
  BY <1>6, <1>7

\* The sums of Pieces.
Knights(e, b, c, seen) ==
  Ext!SumFunction([s \in b.boards[c][knight] |->
                     Percent(e.weights.knightSquares, knightSquareValue[seen[s]])])
Bishops(e, b, c, seen) ==
  Ext!SumFunction([s \in b.boards[c][bishop] |->
                     Percent(e.weights.bishopSquares, bishopSquareValue[seen[s]])])
RookTerm(e, b, c, seen, s) ==
  RookFile(e, b, c, s) + IF Row(seen[s]) = 6 THEN e.weights.rank7 ELSE 0
Rooks(e, b, c, seen) ==
  Ext!SumFunction([s \in b.boards[c][rook] |-> RookTerm(e, b, c, seen, s)])

LEMMA PiecesParts ==
  ASSUME NEW e, NEW b, NEW c, NEW seen
  PROVE  Pieces(e, b, c, seen)
           = Knights(e, b, c, seen) + Bishops(e, b, c, seen) + Rooks(e, b, c, seen)
BY Zenon DEF Pieces, Knights, Bishops, Rooks, RookTerm

LEMMA PiecesTyped ==
  ASSUME NEW e, Weighing(e), NEW b, Settled(b), NEW c \in Colors,
         NEW seen \in [Squares -> Squares]
  PROVE  Pieces(e, b, c, seen) \in Int
<1>1. PICK N, B, R : /\ N = b.boards[c][knight] /\ B = b.boards[c][bishop]
                     /\ R = b.boards[c][rook]
  OBVIOUS
<1>2. /\ N \in SUBSET Squares /\ IsFiniteSet(N) /\ B \in SUBSET Squares /\ IsFiniteSet(B)
      /\ R \in SUBSET Squares /\ IsFiniteSet(R)
  <2>1. knight \in 0 .. king /\ bishop \in 0 .. king /\ rook \in 0 .. king
    BY DEF knight, bishop, rook, king
  <2> QED
    BY <1>1, <2>1, PieceSquares
<1>3. PICK n \in Int, m \in Int : n = e.weights.knightSquares /\ m = e.weights.bishopSquares
  BY DEF Weighing
<1>4. ASSUME NEW s \in Squares
      PROVE  Percent(n, knightSquareValue[seen[s]]) \in Int /\ Percent(m, bishopSquareValue[seen[s]]) \in Int
  <2>1. PICK y \in Int, z \in Int :
          y = knightSquareValue[seen[s]] /\ z = bishopSquareValue[seen[s]]
    <3>1. PICK t \in Squares : t = seen[s]
      OBVIOUS
    <3> QED
      BY <3>1, TablesTyped
  <2>2. Percent(n, y) \in Int /\ Percent(m, z) \in Int
    BY PercentTyped
  <2> QED
    BY <2>1, <2>2
<1>5. ASSUME NEW s \in Squares
      PROVE  RookTerm(e, b, c, seen, s) \in Int
  <2>1. RookFile(e, b, c, s) \in Int
    BY DEF RookFile, Weighing
  <2> QED
    BY <2>1 DEF RookTerm, Weighing
<1>6. PICK f, g, h : /\ f = [s \in N |-> Percent(n, knightSquareValue[seen[s]])]
                     /\ g = [s \in B |-> Percent(m, bishopSquareValue[seen[s]])]
                     /\ h = [s \in R |-> RookTerm(e, b, c, seen, s)]
  OBVIOUS
<1>7. f \in [N -> Int] /\ g \in [B -> Int] /\ h \in [R -> Int]
  BY <1>2, <1>4, <1>5, <1>6
<1>8. Ext!SumFunction(f) \in Int /\ Ext!SumFunction(g) \in Int /\ Ext!SumFunction(h) \in Int
  BY <1>2, <1>7, SumTyped
<1>9. /\ Knights(e, b, c, seen) = Ext!SumFunction(f) /\ Bishops(e, b, c, seen) = Ext!SumFunction(g)
      /\ Rooks(e, b, c, seen) = Ext!SumFunction(h)
  BY <1>1, <1>3, <1>6, Zenon DEF Knights, Bishops, Rooks
<1> QED
  BY <1>8, <1>9, PiecesParts

LEMMA TermSumTyped ==
  ASSUME NEW e, Weighing(e), NEW b, Settled(b)
  PROVE  TermSum(e, b) \in Int
<1>1. PICK same, over : /\ same = [s \in Squares |-> s]
                        /\ over = [s \in Squares |-> Mirrored(s)]
  OBVIOUS
<1>2. same \in [Squares -> Squares] /\ over \in [Squares -> Squares]
  BY <1>1, PlaceTyped
<1>3. white \in Colors /\ black \in Colors
  BY DEF Colors, white, black
<1>4. Pieces(e, b, white, same) \in Int /\ Pieces(e, b, black, over) \in Int
  BY <1>2, <1>3, PiecesTyped
<1>5. evaluatePawnsAndKings(e, b) \in Int
  <2>1. PICK n \in Int, x \in Int :
          n = e.weights.kingSquares /\ x = WhiteKing(e, b) - BlackKing(e, b)
    BY KingsTyped DEF Weighing
  <2>2. Percent(n, x) \in Int
    BY PercentTyped
  <2> QED
    BY <2>1, <2>2, PawnSumsTyped, PawnsAndKingsParts
<1>6. TermSum(e, b)
        = evaluatePawnsAndKings(e, b) + Pieces(e, b, white, same) - Pieces(e, b, black, over)
  BY <1>1, Zenon DEF TermSum
<1> QED
  BY <1>4, <1>5, <1>6

\* The trade of material, a number of White's point of view.
Pawns(b, lead) == b.counts[IF lead > 0 THEN white ELSE black][pawn]
Trade(e, b, lead, total) ==
  Quotient(lead * (e.start - total) * Pawns(b, lead), (e.start - 1600) * (Pawns(b, lead) + 1))

LEMMA ProductTyped ==
  ASSUME NEW x \in Int, NEW y \in Int
  PROVE  x * y \in Int
OBVIOUS

LEMMA PositiveProduct ==
  ASSUME NEW x \in Nat \ {0}, NEW y \in Nat \ {0}
  PROVE  x * y \in Nat \ {0}
OBVIOUS

LEMMA CountsTyped ==
  ASSUME NEW b, Settled(b), NEW c \in Colors
  PROVE  /\ b.counts[c][pawn] \in Nat /\ b.counts[c][knight] \in Nat
         /\ b.counts[c][bishop] \in Nat /\ b.counts[c][rook] \in Nat
         /\ b.counts[c][queen] \in Nat
BY DEF Settled, pawn, knight, bishop, rook, queen, king

LEMMA TradeTyped ==
  ASSUME NEW e, Counting(e), NEW b, Settled(b), NEW lead \in Int, NEW total \in Int
  PROVE  Trade(e, b, lead, total) \in Int
<1>1. PICK pawns \in Nat : pawns = Pawns(b, lead)
  BY CountsTyped DEF Pawns, Colors, white, black
<1>2. PICK rest \in Int, scale \in Nat \ {0} : rest = e.start - total /\ scale = e.start - 1600
  <2>1. e.start \in Int /\ e.start > 1600
    BY DEF Counting
  <2>2. PICK x \in Int : x = e.start
    BY <2>1
  <2>3. x - total \in Int /\ x - 1600 \in Nat \ {0}
    BY <2>1, <2>2
  <2> QED
    BY <2>2, <2>3
<1>3. pawns + 1 \in Nat \ {0}
  OBVIOUS
<1>4. (lead * rest) * pawns \in Int /\ scale * (pawns + 1) \in Nat \ {0}
  BY <1>3, ProductTyped, PositiveProduct
<1>5. /\ lead * (e.start - total) * Pawns(b, lead) \in Int
      /\ (e.start - 1600) * (Pawns(b, lead) + 1) \in Nat \ {0}
  BY <1>1, <1>2, <1>4
<1> QED
  BY <1>5, QuotientTyped DEF Trade

LEMMA BonusTyped ==
  ASSUME NEW b, Settled(b), NEW c \in Colors
  PROVE  PieceBonus(b, c) \in Int
<1>1. white \in Colors /\ black \in Colors
  BY DEF Colors, white, black
<1>2. PICK n \in Nat, m \in Nat, r \in Nat, q \in Nat :
        /\ n = b.counts[c][knight] /\ m = b.counts[c][bishop]
        /\ r = b.counts[c][rook] /\ q = b.counts[c][queen]
  BY CountsTyped
<1>3. PICK pawns \in Nat : pawns = b.counts[white][pawn] + b.counts[black][pawn]
  BY <1>1, CountsTyped
<1>4. PICK minors \in Nat, others \in Nat : minors = Minors(b, white) /\ others = Minors(b, black)
  BY <1>1, CountsTyped DEF Minors
<1>5. r * (32 - 2 * pawns) \in Int
  BY ProductTyped
<1> QED
  BY <1>2, <1>3, <1>4, <1>5 DEF PieceBonus

LEMMA WithinTyped ==
  ASSUME NEW x \in Int, NEW limit \in Int
  PROVE  Within(x, limit) \in Int
BY DEF Within

\* MaterialScore, by its parts.
LEMMA MaterialScoreParts ==
  ASSUME NEW e, NEW b
  PROVE  MaterialScore(e, b)
           = ForMover(b, Within(Within(MaterialOf(e, b, white) - MaterialOf(e, b, black), e.mostPlain)
               + (Trade(e, b, MaterialOf(e, b, white) - MaterialOf(e, b, black),
                        MaterialOf(e, b, white) + MaterialOf(e, b, black))
                    + PieceBonus(b, white) - PieceBonus(b, black)), e.most))
BY Zenon DEF MaterialScore, Trade, Pawns

LEMMA MaterialScoreTyped ==
  ASSUME NEW e, Counting(e), NEW b, Settled(b)
  PROVE  MaterialScore(e, b) \in Int
<1>1. white \in Colors /\ black \in Colors
  BY DEF Colors, white, black
<1>2. PICK mine \in Int, theirs \in Int :
        mine = MaterialOf(e, b, white) /\ theirs = MaterialOf(e, b, black)
  BY <1>1, MaterialTyped
<1>3. PICK lead \in Int, total \in Int : lead = mine - theirs /\ total = mine + theirs
  OBVIOUS
<1>4. PICK trade \in Int, x \in Int, y \in Int :
        /\ trade = Trade(e, b, lead, total)
        /\ x = PieceBonus(b, white) /\ y = PieceBonus(b, black)
  BY <1>1, TradeTyped, BonusTyped
<1>5. PICK plain \in Int, most \in Int : plain = e.mostPlain /\ most = e.most
  BY DEF Counting
<1>6. MaterialScore(e, b) = ForMover(b, Within(Within(lead, plain) + (trade + x - y), most))
  BY <1>2, <1>3, <1>4, <1>5, MaterialScoreParts, Zenon
<1>7. Within(lead, plain) + (trade + x - y) \in Int
  BY WithinTyped
<1>8. Within(Within(lead, plain) + (trade + x - y), most) \in Int
  BY <1>7, WithinTyped
<1> QED
  BY <1>6, <1>8 DEF ForMover

\* What ShortcutExact says of one evaluation, grain and clock, and of one setting.
AnswersAs(e, material, sum, grain, clock) ==
  LET terms == ForMover(board, Damped(Within(sum, e.bound), clock))
      score == OnLattice(material + terms, grain)
      rounded == OnLattice(material, grain)
      near == {score} \union {OnLattice(rounded + d, grain) : d \in {-e.bound, e.bound}}
  IN \A n \in near : \A testValue \in {n - grain \div 2, n + grain \div 2} :
       Above(material, terms, e.bound, grain, testValue) <=> score > testValue

ExactWith(p) ==
  \E e \in {Configured(p)} :
    \E material \in {MaterialScore(e, board)}, sum \in {TermSum(e, board)} :
      \A grain \in Grains, clock \in {board.fifty, 3, 99} : AnswersAs(e, material, sum, grain, clock)

LEMMA AnswersExactly ==
  ASSUME NEW material \in Int, NEW sum \in Int, NEW grain \in Grains, NEW clock \in Nat,
         NEW value \in Int, NEW e, e.bound = maximumNonMaterialScore(value)
  PROVE  AnswersAs(e, material, sum, grain, clock)
<1> DEFINE bound == e.bound
           terms == ForMover(board, Damped(Within(sum, bound), clock))
           score == OnLattice(material + terms, grain)
           rounded == OnLattice(material, grain)
           near == {score} \union {OnLattice(rounded + d, grain) : d \in {-bound, bound}}
<1>1. SUFFICES ASSUME NEW n \in near, NEW testValue \in {n - grain \div 2, n + grain \div 2}
               PROVE  Above(material, terms, bound, grain, testValue) <=> score > testValue
  BY Zenon DEF AnswersAs
<1>2. grain \in {8, 2}
  BY DEF Grains, kDefaultGrainSize
<1>3. PICK k \in Nat : kDefaultGrainSize = k * grain
  <2>1. kDefaultGrainSize = 1 * 8 /\ kDefaultGrainSize = 4 * 2
    BY DEF kDefaultGrainSize
  <2> QED
    BY <1>2, <2>1
<1>4. grain \in Nat \ {0} /\ grain \div 2 \in Int
  BY <1>2
<1>5. bound \in Nat
  <2>1. PICK m \in Nat : maximumNonMaterialScore(value) = m * grain
    BY <1>3, <1>4, BoundOnLattice
  <2> QED
    BY <1>4, <2>1
<1>6. bound = maximumNonMaterialScore(value)
  OBVIOUS
<1> HIDE DEF bound
<1>7. terms \in Int
  BY <1>5, TermsBounded
<1>8. \A x \in Int : OnLattice(x, grain) \in Int
  BY <1>4, Rounding
<1>9. n \in Int
  <2>1. score \in Int /\ rounded \in Int
    BY <1>7, <1>8
  <2> HIDE DEF score, rounded
  <2> QED
    BY <1>5, <1>8, <2>1
<1>10. testValue \in Int
  BY <1>4, <1>9
<1>11. Above(material, terms, bound, grain, testValue)
         <=> OnLattice(material + terms, grain) > testValue
  <2>1. LET most == maximumNonMaterialScore(value)
            sums == ForMover(board, Damped(Within(sum, most), clock))
        IN Above(material, sums, most, grain, testValue)
             <=> OnLattice(material + sums, grain) > testValue
    BY <1>3, <1>4, <1>10, TestMeansScore
  <2> QED
    BY <1>6, <2>1, Zenon
<1> QED
  BY <1>11

LEMMA SettledShortcut ==
  ASSUME NEW p \in Parameters, Settled(board)
  PROVE  ExactWith(p)
<1>1. PICK e : e = Configured(p)
  OBVIOUS
<1>2. PICK value \in Int : value = p.bound
  BY ParametersTyped
<1>3. /\ Counting(e) /\ Weighing(e) /\ e.bound = maximumNonMaterialScore(value)
  BY <1>1, <1>2, ParametersTyped
<1>4. PICK material \in Int, sum \in Int : material = MaterialScore(e, board) /\ sum = TermSum(e, board)
  BY <1>3, MaterialScoreTyped, TermSumTyped
<1>5. board.fifty \in Nat /\ 3 \in Nat /\ 99 \in Nat
  BY DEF Settled
<1>6. \A grain \in Grains, clock \in {board.fifty, 3, 99} : AnswersAs(e, material, sum, grain, clock)
  BY <1>3, <1>5, AnswersExactly
<1> QED
  BY <1>1, <1>4, <1>6, Zenon DEF ExactWith

\* The shortcut of StaticEvaluator::test is exact in every line of play.
THEOREM ShortcutAlwaysExact == Spec => []ShortcutExact
<1>1. BackedInv => ShortcutExact
  <2>1. (\A p \in Settings : ExactWith(p)) => ShortcutExact
    BY Zenon DEF ExactWith, AnswersAs, ShortcutExact
  <2> QED
    BY <2>1, WholeSettled, SettledShortcut, SettingsAssumption DEF BackedInv, Backed
<1>2. BackedInv /\ [Next]_vars => BackedInv'
  BY BackedNext
<1> QED
  BY <1>1, <1>2, BackedInit, PTL DEF Spec
-----------------------------------------------------------------------------
(***************************************************************************)
(* The evaluator with the colours exchanged.                               *)
(***************************************************************************)
\* Board m is board b with the colours exchanged.
Reflects(m, b) ==
  /\ \A c \in Colors, p \in 0 .. king :
       /\ m.counts[c][p] = b.counts[Flip(c)][p]
       /\ m.boards[c][p] = {Mirrored(s) : s \in b.boards[Flip(c)][p]}
  /\ m.flags.side = Flip(b.flags.side) /\ m.fifty = b.fifty

LEMMA MirrorPlace ==
  ASSUME NEW s \in Squares
  PROVE  /\ Mirrored(s) \in Squares /\ Row(Mirrored(s)) = 7 - Row(s)
         /\ Column(Mirrored(s)) = Column(s) /\ Mirrored(Mirrored(s)) = s
<1>1. PICK r \in 0 .. 7, f \in 0 .. 7 : s = 8 * r + f
  <2>1. s = 8 * Row(s) + Column(s) /\ Row(s) \in 0 .. 7 /\ Column(s) \in 0 .. 7
    BY DEF Row, Column, Squares
  <2> QED
    BY <2>1
<1>2. \A q \in 0 .. 7 : (8 * q + f) \div 8 = q /\ (8 * q + f) % 8 = f
  OBVIOUS
<1>3. Row(s) = r /\ Column(s) = f
  BY <1>1, <1>2 DEF Row, Column
<1>4. PICK t : t = 8 * (7 - r) + f
  OBVIOUS
<1>5. 7 - r \in 0 .. 7 /\ 7 - (7 - r) = r
  OBVIOUS
<1>6. Row(t) = 7 - r /\ Column(t) = f
  BY <1>2, <1>4, <1>5 DEF Row, Column
<1>7. Mirrored(s) = t
  BY <1>3, <1>4 DEF Mirrored
<1>8. Mirrored(t) = 8 * r + f
  BY <1>5, <1>6 DEF Mirrored
<1>9. t \in Squares
  BY <1>4 DEF Squares
<1> QED
  BY <1>1, <1>3, <1>6, <1>7, <1>8, <1>9

LEMMA FlipTwice ==
  /\ white \in Colors /\ black \in Colors /\ Flip(white) = black /\ Flip(black) = white
  /\ \A c \in Colors : Flip(c) \in Colors /\ Flip(Flip(c)) = c /\ (c = white \/ c = black)
  /\ white # black
BY DEF Flip, Colors, white, black

LEMMA WholeReflected ==
  ASSUME NEW b, Whole(b)
  PROVE  Settled(b) /\ Settled(Mirror(b)) /\ Reflects(Mirror(b), b)
<1>1. PICK v, fl, ff, cs, u : b = State(v, fl, ff, cs, u) /\ Wholly(v, fl, ff, cs, u)
  BY DEF Whole
<1>2. PICK n, k, pk : b = Standing(v, n, k, pk, fl, ff, cs, u)
  BY <1>1 DEF State
<1>3. PICK bs, o : b = Fields(v, bs, n, o, k, pk, fl, ff, cs, u)
  BY <1>2, StandingIsFields
<1>4. PICK x, y : /\ x = [c \in Colors |-> [piece \in 0 .. king |->
                            {Mirrored(s) : s \in b.boards[Flip(c)][piece]}]]
                  /\ y = [c \in Colors |-> b.counts[Flip(c)]]
  OBVIOUS
<1>5. PICK m, z : /\ z = Flip(b.flags.side)
                  /\ m = [b EXCEPT !.boards = x, !.counts = y, !.flags.side = z]
  OBVIOUS
<1>6. Mirror(b) = m
  BY <1>4, <1>5, Zenon DEF Mirror
<1>7. /\ b.flags = fl /\ b.fifty = ff /\ AreFlags(fl)
  BY <1>1, <1>3 DEF Fields, Wholly
<1>8. m.boards = x /\ m.counts = y /\ m.flags.side = z /\ m.fifty = b.fifty
  <2>1. "side" \in DOMAIN fl
    BY <1>7 DEF AreFlags, FlagsOf
  <2>2. PICK gl : gl = [fl EXCEPT !.side = z]
    OBVIOUS
  <2>3. gl.side = z
    BY <2>1, <2>2
  <2>4. m = [b EXCEPT !.boards = x, !.counts = y, !.flags = gl]
    BY <1>5, <1>7, <2>2
  <2>5. m.boards = x /\ m.counts = y /\ m.flags = gl /\ m.fifty = ff
    BY <1>3, <2>4 DEF Fields
  <2> QED
    BY <1>7, <2>3, <2>5
<1>9. Settled(b)
  BY WholeSettled
<1>10. ASSUME NEW c \in Colors, NEW p \in 0 .. king
       PROVE  /\ m.counts[c][p] = b.counts[Flip(c)][p]
              /\ m.boards[c][p] = {Mirrored(s) : s \in b.boards[Flip(c)][p]}
  <2>1. x[c] = [piece \in 0 .. king |-> {Mirrored(s) : s \in b.boards[Flip(c)][piece]}]
    BY <1>4
  <2>2. x[c][p] = {Mirrored(s) : s \in b.boards[Flip(c)][p]}
    BY <2>1
  <2>3. y[c] = b.counts[Flip(c)]
    BY <1>4
  <2> QED
    BY <1>8, <2>2, <2>3
<1>11. Reflects(m, b)
  BY <1>5, <1>8, <1>10 DEF Reflects
<1>12. ASSUME NEW c \in Colors, NEW p \in 0 .. king
       PROVE  m.counts[c][p] \in Nat /\ m.boards[c][p] \in SUBSET Squares
  <2>1. PICK d \in Colors : d = Flip(c)
    BY FlipTwice
  <2>2. b.counts[d][p] \in Nat /\ b.boards[d][p] \in SUBSET Squares
    BY <1>9 DEF Settled
  <2>3. PICK S, T : /\ S = b.boards[d][p] /\ T = m.boards[c][p]
                    /\ T = {Mirrored(s) : s \in S}
    BY <1>10, <2>1
  <2>4. T \subseteq Squares
    BY <2>2, <2>3, MirrorPlace
  <2> QED
    BY <1>10, <2>1, <2>2, <2>3, <2>4
<1>13. ASSUME NEW c \in Colors
       PROVE  \E q \in Squares : m.boards[c][king] = {q}
  <2>1. PICK d \in Colors : d = Flip(c)
    BY FlipTwice
  <2>2. PICK q \in Squares : b.boards[d][king] = {q}
    BY <1>9 DEF Settled
  <2>3. king \in 0 .. king
    BY DEF king
  <2>4. m.boards[c][king] = {Mirrored(s) : s \in {q}}
    BY <1>10, <2>1, <2>2, <2>3
  <2> QED
    BY <2>4, MirrorPlace
<1>14. m.flags.side \in Colors /\ m.fifty \in Nat
  BY <1>5, <1>8, <1>9, FlipTwice DEF Settled
<1>15. Settled(m)
  BY <1>12, <1>13, <1>14 DEF Settled
<1> QED
  BY <1>6, <1>9, <1>11, <1>15

\* Exchanging the colours twice is nothing.
LEMMA ReflectsBack ==
  ASSUME NEW m, NEW b, Settled(b), Settled(m), Reflects(m, b)
  PROVE  Reflects(b, m)
<1>1. ASSUME NEW c \in Colors, NEW p \in 0 .. king
      PROVE  /\ b.counts[c][p] = m.counts[Flip(c)][p]
             /\ b.boards[c][p] = {Mirrored(s) : s \in m.boards[Flip(c)][p]}
  <2>1. PICK d \in Colors : d = Flip(c) /\ Flip(d) = c
    BY FlipTwice
  <2>2. PICK S, T : S = b.boards[c][p] /\ T = m.boards[d][p]
    OBVIOUS
  <2>3. T = {Mirrored(s) : s \in S} /\ S \in SUBSET Squares
    BY <2>1, <2>2 DEF Reflects, Settled
  <2>4. S = {Mirrored(t) : t \in T}
    BY <2>3, MirrorPlace
  <2> QED
    BY <2>1, <2>2, <2>4 DEF Reflects
<1>2. b.flags.side = Flip(m.flags.side) /\ b.fifty = m.fifty
  BY FlipTwice DEF Reflects, Settled
<1> QED
  BY <1>1, <1>2 DEF Reflects

\* Sums over squares and over their mirror images.
MirrorsValues(f, g, S) == \A s \in S : g[Mirrored(s)] = f[s]
Opposite(S) == {Mirrored(s) : s \in S}

LEMMA MirrorSums ==
  ASSUME NEW S \in SUBSET Squares, NEW T, T = Opposite(S),
         NEW f \in [S -> Int], NEW g \in [T -> Int], MirrorsValues(f, g, S)
  PROVE  Ext!SumFunction(f) = Ext!SumFunction(g)
<1>1. PICK m : m = [s \in Squares |-> Mirrored(s)]
  OBVIOUS
<1>2. IsFiniteSet(S)
  BY FiniteSquares, FS_Subset
<1>3. \A s \in S : f[s] \in Int /\ g[m[s]] = f[s]
  BY <1>1 DEF MirrorsValues
<1>4. \A s, t \in S : m[s] = m[t] => s = t
  BY <1>1, MirrorPlace
<1>5. T = Image(m, S)
  BY <1>1 DEF Image, Opposite
<1>6. Total(f, S) = Total(g, Image(m, S))
  BY <1>2, <1>3, <1>4, TotalMoved
<1>7. DOMAIN f = S /\ DOMAIN g = T
  OBVIOUS
<1> QED
  BY <1>5, <1>6, <1>7, SumIsTotal, Zenon

\* The odd functions among the conversions.
LEMMA QuotientOdd ==
  ASSUME NEW a \in Int, NEW n \in Nat \ {0}
  PROVE  Quotient(-a, n) = -Quotient(a, n) /\ Quotient(a, n) \in Int
<1>1. a \div n \in Int /\ (-a) \div n \in Int
  OBVIOUS
<1>2. CASE a > 0
  BY <1>1, <1>2 DEF Quotient
<1>3. CASE a < 0
  BY <1>1, <1>3 DEF Quotient
<1>4. CASE a = 0
  <2>1. 0 \div n = 0
    OBVIOUS
  <2> QED
    BY <1>4, <2>1 DEF Quotient
<1> QED
  BY <1>2, <1>3, <1>4

LEMMA NegatedProduct ==
  ASSUME NEW x \in Int, NEW y \in Int
  PROVE  (-x) * y = -(x * y) /\ x * (-y) = -(x * y) /\ x * y \in Int
OBVIOUS

LEMMA PercentOdd ==
  ASSUME NEW weight \in Int, NEW x \in Int
  PROVE  Percent(weight, -x) = -Percent(weight, x) /\ Percent(weight, x) \in Int
<1>1. PICK n \in Nat \ {0} : n = 100
  OBVIOUS
<1>2. PICK a \in Int : a = weight * x /\ weight * (-x) = -a
  BY NegatedProduct
<1>3. Percent(weight, x) = Quotient(a, n) /\ Percent(weight, -x) = Quotient(-a, n)
  BY <1>1, <1>2 DEF Percent
<1> QED
  BY <1>3, QuotientOdd

LEMMA WithinOdd ==
  ASSUME NEW x \in Int, NEW limit \in Nat
  PROVE  Within(-x, limit) = -Within(x, limit) /\ Within(x, limit) \in Int
BY DEF Within

LEMMA DampedOdd ==
  ASSUME NEW x \in Int, NEW clock \in Nat
  PROVE  Damped(-x, clock) = -Damped(x, clock) /\ Damped(x, clock) \in Int
<1>1. PICK n \in Nat \ {0} : n = 2
  OBVIOUS
<1>2. PICK h \in Int, l \in Int : h = Quotient(x, 2) /\ l = Quotient(-x, 2) /\ l = -h
  BY <1>1, QuotientOdd
<1> QED
  BY <1>2 DEF Damped

LEMMA ForMoverTurned ==
  ASSUME NEW m, NEW b, m.flags.side = Flip(b.flags.side), b.flags.side \in Colors, NEW x \in Int
  PROVE  ForMover(m, -x) = ForMover(b, x)
BY FlipTwice DEF ForMover

LEMMA ReflectedMaterial ==
  ASSUME NEW e, NEW m, NEW b, Reflects(m, b), NEW c \in Colors
  PROVE  MaterialOf(e, m, c) = MaterialOf(e, b, Flip(c))
<1>1. PICK f, g : /\ f = [piece \in pawn .. queen |-> m.counts[c][piece] * e.values[piece]]
                  /\ g = [piece \in pawn .. queen |-> b.counts[Flip(c)][piece] * e.values[piece]]
  OBVIOUS
<1>2. \A piece \in pawn .. queen : m.counts[c][piece] = b.counts[Flip(c)][piece]
  <2>1. \A piece \in pawn .. queen : piece \in 0 .. king
    BY DEF pawn, queen, king
  <2> QED
    BY <2>1 DEF Reflects
<1>3. f = g
  BY <1>1, <1>2
<1> QED
  BY <1>1, <1>3, Zenon DEF MaterialOf

LEMMA ReflectedCounts ==
  ASSUME NEW m, NEW b, Reflects(m, b), NEW c \in Colors
  PROVE  /\ m.counts[c][pawn] = b.counts[Flip(c)][pawn]
         /\ m.counts[c][knight] = b.counts[Flip(c)][knight]
         /\ m.counts[c][bishop] = b.counts[Flip(c)][bishop]
         /\ m.counts[c][rook] = b.counts[Flip(c)][rook]
         /\ m.counts[c][queen] = b.counts[Flip(c)][queen]
BY DEF Reflects, pawn, knight, bishop, rook, queen, king

LEMMA ReflectedBonus ==
  ASSUME NEW m, NEW b, Reflects(m, b), Settled(b), Settled(m), NEW c \in Colors
  PROVE  PieceBonus(m, c) = PieceBonus(b, Flip(c))
<1>1. PICK d \in Colors : d = Flip(c)
  BY FlipTwice
<1>2. PICK n \in Nat, l \in Nat, r \in Nat, q \in Nat :
        /\ n = b.counts[d][knight] /\ l = b.counts[d][bishop]
        /\ r = b.counts[d][rook] /\ q = b.counts[d][queen]
  BY CountsTyped
<1>3. /\ n = m.counts[c][knight] /\ l = m.counts[c][bishop]
      /\ r = m.counts[c][rook] /\ q = m.counts[c][queen]
  BY <1>1, <1>2, ReflectedCounts
<1>4. PICK pawns \in Nat : /\ pawns = b.counts[white][pawn] + b.counts[black][pawn]
                           /\ pawns = m.counts[white][pawn] + m.counts[black][pawn]
  BY FlipTwice, CountsTyped, ReflectedCounts
<1>5. PICK minors \in Nat, others \in Nat :
        /\ minors = Minors(b, white) /\ others = Minors(b, black)
        /\ minors = Minors(m, black) /\ others = Minors(m, white)
  BY FlipTwice, CountsTyped, ReflectedCounts DEF Minors
<1>6. PICK x \in Int : x = r * (32 - 2 * pawns)
  BY ProductTyped
<1> QED
  BY <1>1, <1>2, <1>3, <1>4, <1>5, <1>6 DEF PieceBonus

LEMMA ReflectedTrade ==
  ASSUME NEW e, Counting(e), NEW m, NEW b, Reflects(m, b), Settled(b), Settled(m),
         NEW lead \in Int, NEW total \in Int
  PROVE  Trade(e, m, -lead, total) = -Trade(e, b, lead, total)
<1>1. PICK rest \in Int, scale \in Nat \ {0} : rest = e.start - total /\ scale = e.start - 1600
  <2>1. e.start \in Int /\ e.start > 1600
    BY DEF Counting
  <2>2. PICK x \in Int : x = e.start
    BY <2>1
  <2>3. x - total \in Int /\ x - 1600 \in Nat \ {0}
    BY <2>1, <2>2
  <2> QED
    BY <2>2, <2>3
<1>2. PICK p \in Nat, q \in Nat : p = Pawns(b, lead) /\ q = Pawns(m, -lead)
  BY CountsTyped, FlipTwice DEF Pawns
<1>3. lead # 0 => p = q
  <2>1. PICK w \in Nat, k \in Nat : w = b.counts[white][pawn] /\ k = b.counts[black][pawn]
    BY CountsTyped, FlipTwice
  <2>2. w = m.counts[black][pawn] /\ k = m.counts[white][pawn]
    BY <2>1, ReflectedCounts, FlipTwice
  <2>3. CASE lead > 0
    <3>1. (IF lead > 0 THEN white ELSE black) = white /\ (IF -lead > 0 THEN white ELSE black) = black
      BY <2>3
    <3> QED
      BY <1>2, <2>1, <2>2, <3>1 DEF Pawns
  <2>4. CASE lead < 0
    <3>1. (IF lead > 0 THEN white ELSE black) = black /\ (IF -lead > 0 THEN white ELSE black) = white
      BY <2>4
    <3> QED
      BY <1>2, <2>1, <2>2, <3>1 DEF Pawns
  <2> QED
    BY <2>3, <2>4
<1>4. PICK x \in Int : x = lead * rest /\ (-lead) * rest = -x
  BY NegatedProduct
<1>5. PICK y \in Int, z \in Int : y = x * p /\ z = (-x) * q
  BY ProductTyped
<1>6. z = -y
  <2>1. CASE lead = 0
    BY <1>4, <1>5, <2>1
  <2>2. CASE lead # 0
    BY <1>3, <1>5, <2>2, NegatedProduct
  <2> QED
    BY <2>1, <2>2
<1>7. PICK n \in Nat \ {0}, l \in Nat \ {0} : n = scale * (p + 1) /\ l = scale * (q + 1)
  <2>1. p + 1 \in Nat \ {0} /\ q + 1 \in Nat \ {0}
    OBVIOUS
  <2> QED
    BY <2>1, PositiveProduct
<1>8. Quotient(z, l) = -Quotient(y, n)
  <2>1. CASE lead = 0
    <3>1. y = 0 /\ z = 0
      BY <1>4, <1>5, <2>1
    <3>2. 0 \div n = 0 /\ 0 \div l = 0
      OBVIOUS
    <3> QED
      BY <3>1, <3>2 DEF Quotient
  <2>2. CASE lead # 0
    BY <1>3, <1>6, <1>7, <2>2, QuotientOdd
  <2> QED
    BY <2>1, <2>2
<1>9. lead * (e.start - total) * Pawns(b, lead) = y /\ (-lead) * (e.start - total) * Pawns(m, -lead) = z
  BY <1>1, <1>2, <1>4, <1>5
<1>10. /\ (e.start - 1600) * (Pawns(b, lead) + 1) = n
       /\ (e.start - 1600) * (Pawns(m, -lead) + 1) = l
  BY <1>1, <1>2, <1>7
<1> QED
  BY <1>8, <1>9, <1>10 DEF Trade

LEMMA ReflectedMaterialScore ==
  ASSUME NEW e, Counting(e), e.most \in Nat, e.mostPlain \in Nat,
         NEW m, NEW b, Reflects(m, b), Settled(b), Settled(m)
  PROVE  MaterialScore(e, m) = MaterialScore(e, b)
<1>1. PICK mine \in Int, theirs \in Int :
        /\ mine = MaterialOf(e, b, white) /\ theirs = MaterialOf(e, b, black)
        /\ theirs = MaterialOf(e, m, white) /\ mine = MaterialOf(e, m, black)
  BY FlipTwice, MaterialTyped, ReflectedMaterial
<1>2. PICK lead \in Int, total \in Int :
        /\ lead = mine - theirs /\ total = mine + theirs
        /\ -lead = theirs - mine /\ total = theirs + mine
  OBVIOUS
<1>3. PICK trade \in Int : trade = Trade(e, b, lead, total) /\ -trade = Trade(e, m, -lead, total)
  BY TradeTyped, ReflectedTrade
<1>4. PICK x \in Int, y \in Int :
        /\ x = PieceBonus(b, white) /\ y = PieceBonus(b, black)
        /\ y = PieceBonus(m, white) /\ x = PieceBonus(m, black)
  BY FlipTwice, BonusTyped, ReflectedBonus
<1>5. PICK plain \in Nat, most \in Nat : plain = e.mostPlain /\ most = e.most
  OBVIOUS
<1>6. PICK inner \in Int : inner = Within(lead, plain) /\ -inner = Within(-lead, plain)
  BY WithinOdd
<1>7. PICK n \in Int, l \in Int :
        n = inner + (trade + x - y) /\ l = (-inner) + ((-trade) + y - x) /\ l = -n
  OBVIOUS
<1>8. PICK z \in Int : z = Within(n, most) /\ -z = Within(l, most)
  <2>1. Within(-n, most) = -Within(n, most) /\ Within(n, most) \in Int
    BY WithinOdd
  <2>2. Within(l, most) = Within(-n, most)
    BY <1>7, Zenon
  <2> QED
    BY <2>1, <2>2
<1>9. MaterialScore(e, b) = ForMover(b, z)
  BY <1>1, <1>2, <1>3, <1>4, <1>5, <1>6, <1>7, <1>8, MaterialScoreParts, Zenon
<1>10. MaterialScore(e, m) = ForMover(m, -z)
  BY <1>1, <1>2, <1>3, <1>4, <1>5, <1>6, <1>7, <1>8, MaterialScoreParts, Zenon
<1>11. ForMover(m, -z) = ForMover(b, z)
  BY ForMoverTurned DEF Reflects, Settled
<1> QED
  BY <1>9, <1>10, <1>11

\* The factors of the trade come in another order in Board::evaluateMaterial.
Bargain(b, lead, total) ==
  Quotient(lead * Pawns(b, lead) * (Fixed.start - total), (Fixed.start - 1600) * (Pawns(b, lead) + 1))

LEMMA BargainIsTrade ==
  ASSUME NEW b, Settled(b), NEW lead \in Int, NEW total \in Int
  PROVE  Bargain(b, lead, total) = Trade(Fixed, b, lead, total)
<1>1. PICK p \in Nat, n \in Nat : p = Pawns(b, lead) /\ n = Pawns(b, lead) + 1
  BY CountsTyped, FlipTwice DEF Pawns
<1>2. PICK rest \in Int : rest = Fixed.start - total
  BY FixedCounts DEF Counting
<1>3. PICK x \in Int : x = lead * p * rest /\ x = lead * rest * p
  BY ProductTyped
<1>5. /\ lead * Pawns(b, lead) * (Fixed.start - total) = x
      /\ lead * (Fixed.start - total) * Pawns(b, lead) = x
  BY <1>1, <1>2, <1>3, Zenon
<1> QED
  BY <1>5 DEF Bargain, Trade

LEMMA EvaluateMaterialParts ==
  ASSUME NEW b
  PROVE  EvaluateMaterial(b)
           = Within(Within(MaterialOf(Fixed, b, white) - MaterialOf(Fixed, b, black), maxMaterialWoBonus)
                      + Bargain(b, MaterialOf(Fixed, b, white) - MaterialOf(Fixed, b, black),
                                MaterialOf(Fixed, b, white) + MaterialOf(Fixed, b, black)), maxMaterial)
BY Zenon DEF EvaluateMaterial, Bargain, Pawns

LEMMA ReflectedEvaluateMaterial ==
  ASSUME NEW m, NEW b, Reflects(m, b), Settled(b), Settled(m)
  PROVE  EvaluateMaterial(m) = -EvaluateMaterial(b)
<1>1. PICK mine \in Int, theirs \in Int :
        /\ mine = MaterialOf(Fixed, b, white) /\ theirs = MaterialOf(Fixed, b, black)
        /\ theirs = MaterialOf(Fixed, m, white) /\ mine = MaterialOf(Fixed, m, black)
  BY FlipTwice, MaterialTyped, ReflectedMaterial, FixedCounts
<1>2. PICK lead \in Int, back \in Int, total \in Int :
        /\ lead = mine - theirs /\ total = mine + theirs
        /\ back = theirs - mine /\ total = theirs + mine /\ back = -lead
  OBVIOUS
<1>3. PICK trade \in Int : trade = Trade(Fixed, b, lead, total) /\ -trade = Trade(Fixed, m, back, total)
  BY <1>2, TradeTyped, ReflectedTrade, FixedCounts
<1>4. PICK plain \in Nat, most \in Nat : plain = maxMaterialWoBonus /\ most = maxMaterial
  BY DEF maxMaterialWoBonus, maxMaterial
<1>5. PICK inner \in Int : inner = Within(lead, plain) /\ -inner = Within(back, plain)
  BY <1>2, WithinOdd
<1>6. PICK n \in Int, l \in Int : n = inner + trade /\ l = (-inner) + (-trade) /\ l = -n
  OBVIOUS
<1>7. PICK z \in Int : z = Within(n, most) /\ -z = Within(l, most)
  <2>1. Within(-n, most) = -Within(n, most) /\ Within(n, most) \in Int
    BY WithinOdd
  <2>2. Within(l, most) = Within(-n, most)
    BY <1>6, Zenon
  <2> QED
    BY <2>1, <2>2
<1>8. Bargain(b, lead, total) = trade /\ Bargain(m, back, total) = -trade
  BY <1>3, BargainIsTrade
<1>9. EvaluateMaterial(b) = z
  <2>1. EvaluateMaterial(b) = Within(Within(lead, maxMaterialWoBonus) + Bargain(b, lead, total), maxMaterial)
    BY <1>1, <1>2, EvaluateMaterialParts, Zenon
  <2> QED
    BY <2>1, <1>4, <1>5, <1>6, <1>7, <1>8, Zenon
<1>10. EvaluateMaterial(m) = -z
  <2>1. EvaluateMaterial(m) = Within(Within(back, maxMaterialWoBonus) + Bargain(m, back, total), maxMaterial)
    BY <1>1, <1>2, EvaluateMaterialParts, Zenon
  <2> QED
    BY <2>1, <1>4, <1>5, <1>6, <1>7, <1>8, Zenon
<1> QED
  BY <1>9, <1>10

\* Ranks, seen from the other side.
LEMMA ReflectedFile ==
  ASSUME NEW m, NEW b, Reflects(m, b), Settled(b), NEW c \in Colors, NEW file
  PROVE  /\ OnFile(m, c, file) = {7 - r : r \in OnFile(b, Flip(c), file)}
         /\ OnFile(m, c, file) \subseteq 0 .. 7 /\ OnFile(b, c, file) \subseteq 0 .. 7
<1>1. PICK S, T : S = b.boards[Flip(c)][pawn] /\ T = m.boards[c][pawn]
  OBVIOUS
<1>2. pawn \in 0 .. king
  BY DEF pawn, king
<1>3. T = {Mirrored(s) : s \in S} /\ S \in SUBSET Squares
  BY <1>1, <1>2, FlipTwice DEF Reflects, Settled
<1>4. OnFile(b, c, file) \subseteq 0 .. 7
  <2>1. b.boards[c][pawn] \in SUBSET Squares
    BY <1>2 DEF Settled
  <2> QED
    BY <2>1, PlaceTyped DEF OnFile
<1>5. OnFile(b, Flip(c), file) = {Row(s) : s \in {s \in S : Column(s) = file}}
  BY <1>1 DEF OnFile
<1>6. OnFile(m, c, file) = {Row(s) : s \in {s \in T : Column(s) = file}}
  BY <1>1 DEF OnFile
<1>7. {Row(s) : s \in {s \in T : Column(s) = file}}
        = {7 - r : r \in {Row(s) : s \in {s \in S : Column(s) = file}}}
  BY <1>3, MirrorPlace
<1>8. OnFile(m, c, file) \subseteq 0 .. 7
  BY <1>3, <1>6, MirrorPlace, PlaceTyped
<1> QED
  BY <1>4, <1>5, <1>6, <1>7, <1>8

LEMMA LeastOfTurned ==
  ASSUME NEW S, S \subseteq 0 .. 7, S # {}, NEW T, T = {7 - r : r \in S}
  PROVE  Ext!Min(T) = 7 - Ext!Max(S) /\ Ext!Max(T) = 7 - Ext!Min(S)
<1>1. T \subseteq 0 .. 7 /\ T # {}
  <2>1. \A r \in S : r \in 0 .. 7 /\ 7 - r \in 0 .. 7 /\ 7 - r \in T
    OBVIOUS
  <2> QED
    BY <2>1
<1>2. PICK a, b, c, d : a = Ext!Min(S) /\ b = Ext!Max(S) /\ c = Ext!Min(T) /\ d = Ext!Max(T)
  OBVIOUS
<1>3. /\ a \in S /\ \A r \in S : a <= r
      /\ b \in S /\ \A r \in S : r <= b
  BY <1>2, LeastRank
<1>4. /\ c \in T /\ \A r \in T : c <= r
      /\ d \in T /\ \A r \in T : r <= d
  BY <1>1, <1>2, LeastRank
<1>5. 7 - a \in T /\ 7 - b \in T /\ 7 - c \in S /\ 7 - d \in S
  BY <1>3, <1>4
<1>6. c <= 7 - b /\ 7 - c <= b /\ 7 - a <= d /\ a <= 7 - d
  BY <1>3, <1>4, <1>5
<1>7. a \in Int /\ b \in Int /\ c \in Int /\ d \in Int
  BY <1>1, <1>3, <1>4
<1>8. c = 7 - b /\ d = 7 - a
  BY <1>6, <1>7
<1> QED
  BY <1>2, <1>8

LEMMA ReflectedRanks ==
  ASSUME NEW m, NEW b, Reflects(m, b), Settled(b), Settled(m), NEW f \in -1 .. 8
  PROVE  WhiteRank(m)[f] = 7 - BlackRank(b)[f] /\ BlackRank(m)[f] = 7 - WhiteRank(b)[f]
<1>1. PICK W, K : W = OnFile(b, white, f) /\ K = OnFile(b, black, f)
  OBVIOUS
<1>2. PICK X, Y : X = OnFile(m, white, f) /\ Y = OnFile(m, black, f)
  OBVIOUS
<1>3. /\ X = {7 - r : r \in K} /\ Y = {7 - r : r \in W}
      /\ K \subseteq 0 .. 7 /\ W \subseteq 0 .. 7
  BY <1>1, <1>2, ReflectedFile, FlipTwice
<1>4. PICK A, B, C, D : /\ A = W \union {7} /\ B = K \union {0}
                        /\ C = X \union {7} /\ D = Y \union {0}
  OBVIOUS
<1>5. C = {7 - r : r \in B} /\ D = {7 - r : r \in A}
  BY <1>3, <1>4
<1>6. Ext!Min(C) = 7 - Ext!Max(B) /\ Ext!Max(D) = 7 - Ext!Min(A)
  <2>1. A \subseteq 0 .. 7 /\ A # {} /\ B \subseteq 0 .. 7 /\ B # {}
    BY <1>3, <1>4
  <2> QED
    BY <1>5, <2>1, LeastOfTurned
<1>7. WhiteRank(m)[f] = Ext!Min(C) /\ BlackRank(m)[f] = Ext!Max(D)
  BY <1>2, <1>4 DEF WhiteRank, BlackRank
<1>8. WhiteRank(b)[f] = Ext!Min(A) /\ BlackRank(b)[f] = Ext!Max(B)
  BY <1>1, <1>4 DEF WhiteRank, BlackRank
<1> QED
  BY <1>6, <1>7, <1>8

\* Two tables of ranks that are turned round.
TurnedRound(w, k, x, y) ==
  /\ w \in [-1 .. 8 -> 0 .. 7] /\ k \in [-1 .. 8 -> 0 .. 7]
  /\ x \in [-1 .. 8 -> 0 .. 7] /\ y \in [-1 .. 8 -> 0 .. 7]
  /\ \A f \in -1 .. 8 : x[f] = 7 - k[f] /\ y[f] = 7 - w[f]

LEMMA ReflectedTurned ==
  ASSUME NEW m, NEW b, Reflects(m, b), Settled(b), Settled(m)
  PROVE  TurnedRound(WhiteRank(b), BlackRank(b), WhiteRank(m), BlackRank(m))
BY RanksTyped, ReflectedRanks DEF TurnedRound

\* A pawn of White counts as one of Black does on the square opposite.
LEMMA TurnedPawn ==
  ASSUME NEW e, Weighing(e), NEW w, NEW k, NEW x, NEW y, TurnedRound(w, k, x, y), NEW s \in Squares
  PROVE  WhitePawn(e, x, y, Mirrored(s)) = BlackPawn(e, w, k, s)
<1>1. PICK r \in 0 .. 7, f \in 0 .. 7 : r = Row(s) /\ f = Column(s)
  BY PlaceTyped
<1>2. PICK t \in Squares : t = Mirrored(s) /\ Row(t) = 7 - r /\ Column(t) = f
  BY <1>1, MirrorPlace
<1>3. f - 1 \in -1 .. 8 /\ f + 1 \in -1 .. 8 /\ f \in -1 .. 8 /\ f - 1 .. f + 1 \subseteq -1 .. 8
  OBVIOUS
<1>4. PICK p \in Int, d \in Int, i \in Int, a \in Int :
        /\ p = e.weights.passed /\ d = e.weights.doubled /\ i = e.weights.isolated
        /\ a = e.weights.backwards
  BY DEF Weighing
<1>5. PICK v : v = Percent(e.weights.pawnSquares, pawnSquareValue[t])
  OBVIOUS
<1>6. /\ x[f] = 7 - k[f] /\ x[f - 1] = 7 - k[f - 1] /\ x[f + 1] = 7 - k[f + 1]
      /\ k[f] \in 0 .. 7 /\ k[f - 1] \in 0 .. 7 /\ k[f + 1] \in 0 .. 7
  BY <1>3 DEF TurnedRound
<1>7. (\A g \in f - 1 .. f + 1 : y[g] <= 7 - r) <=> (\A g \in f - 1 .. f + 1 : w[g] >= r)
  <2>1. \A g \in f - 1 .. f + 1 : y[g] = 7 - w[g] /\ w[g] \in 0 .. 7
    BY <1>3 DEF TurnedRound
  <2>2. \A g \in f - 1 .. f + 1 : y[g] <= 7 - r <=> w[g] >= r
    BY <2>1
  <2> QED
    BY <2>2
<1>8. /\ x[f] < 7 - r <=> k[f] > r
      /\ x[f - 1] = 7 /\ x[f + 1] = 7 <=> k[f - 1] = 0 /\ k[f + 1] = 0
      /\ x[f - 1] < 7 - r /\ x[f + 1] < 7 - r <=> k[f - 1] > r /\ k[f + 1] > r
  BY <1>6
<1> DEFINE n == IF \A g \in f - 1 .. f + 1 : y[g] <= 7 - r THEN p * (7 - r) ELSE 0
           l == IF x[f] < 7 - r THEN d ELSE 0
           z == IF x[f - 1] = 7 /\ x[f + 1] = 7 THEN i
                ELSE IF x[f - 1] < 7 - r /\ x[f + 1] < 7 - r THEN a ELSE 0
           nn == IF \A g \in f - 1 .. f + 1 : w[g] >= r THEN p * (7 - r) ELSE 0
           ll == IF k[f] > r THEN d ELSE 0
           zz == IF k[f - 1] = 0 /\ k[f + 1] = 0 THEN i
                 ELSE IF k[f - 1] > r /\ k[f + 1] > r THEN a ELSE 0
<1>9. WhitePawn(e, x, y, t) = v + n - l - z
  BY <1>2, <1>4, <1>5, Zenon DEF WhitePawn
<1>10. BlackPawn(e, w, k, s) = v + nn - ll - zz
  BY <1>1, <1>2, <1>4, <1>5, Zenon DEF BlackPawn, Alone
<1>11. n = nn
  BY <1>7, Zenon
<1>12. l = ll
  BY <1>8, Zenon
<1>13. z = zz
  BY <1>8, Zenon
<1> HIDE DEF n, l, z, nn, ll, zz
<1> QED
  BY <1>2, <1>9, <1>10, <1>11, <1>12, <1>13

LEMMA ReflectedPawns ==
  ASSUME NEW e, Weighing(e), NEW m, NEW b, Reflects(m, b), Settled(b), Settled(m)
  PROVE  WhitePawns(e, m) = BlackPawns(e, b)
<1>1. PICK S, T : S = b.boards[black][pawn] /\ T = m.boards[white][pawn]
  OBVIOUS
<1>2. S \in SUBSET Squares /\ T \in SUBSET Squares /\ T = {Mirrored(s) : s \in S}
  <2>1. pawn \in 0 .. king
    BY DEF pawn, king
  <2> QED
    BY <1>1, <2>1, FlipTwice DEF Reflects, Settled
<1>3. PICK w, k, x, y : /\ w = WhiteRank(b) /\ k = BlackRank(b)
                        /\ x = WhiteRank(m) /\ y = BlackRank(m)
  OBVIOUS
<1>4. TurnedRound(w, k, x, y)
  BY <1>3, ReflectedTurned
<1>5. PICK f, g : f = [s \in S |-> BlackPawn(e, w, k, s)] /\ g = [s \in T |-> WhitePawn(e, x, y, s)]
  OBVIOUS
<1>6. f \in [S -> Int] /\ g \in [T -> Int]
  BY <1>2, <1>5, PawnTyped
<1>7. \A s \in S : g[Mirrored(s)] = f[s]
  <2>1. \A s \in S : Mirrored(s) \in T /\ s \in Squares
    BY <1>2
  <2>2. \A s \in S : WhitePawn(e, x, y, Mirrored(s)) = BlackPawn(e, w, k, s)
    BY <1>4, <2>1, TurnedPawn
  <2> QED
    BY <1>5, <2>1, <2>2
<1>8. Ext!SumFunction(f) = Ext!SumFunction(g)
  <2>1. MirrorsValues(f, g, S) /\ T = Opposite(S)
    BY <1>2, <1>7 DEF MirrorsValues, Opposite
  <2> QED
    BY <1>2, <1>6, <2>1, MirrorSums
<1>9. BlackPawns(e, b) = Ext!SumFunction(f)
  BY <1>1, <1>3, <1>5, Zenon DEF BlackPawns
<1>10. WhitePawns(e, m) = Ext!SumFunction(g)
  BY <1>1, <1>3, <1>5, Zenon DEF WhitePawns
<1> QED
  BY <1>8, <1>9, <1>10

\* Kings.
LEMMA ReflectedKing ==
  ASSUME NEW m, NEW b, Reflects(m, b), Settled(b), Settled(m), NEW c \in Colors
  PROVE  KingSquare(m, c) = Mirrored(KingSquare(b, Flip(c)))
<1>1. PICK k \in Squares : k = KingSquare(b, Flip(c)) /\ b.boards[Flip(c)][king] = {k}
  BY FlipTwice, KingStands
<1>2. PICK q : q = KingSquare(m, c) /\ m.boards[c][king] = {q}
  BY KingStands
<1>3. king \in 0 .. king
  BY DEF king
<1>4. m.boards[c][king] = {Mirrored(s) : s \in {k}}
  BY <1>1, <1>3 DEF Reflects
<1>5. q = Mirrored(k)
  BY <1>2, <1>4
<1> QED
  BY <1>1, <1>2, <1>5

LEMMA ReflectedEndgame ==
  ASSUME NEW e, NEW m, NEW b, Reflects(m, b), NEW c \in Colors
  PROVE  Endgame(e, m, c) <=> Endgame(e, b, Flip(c))
<1>1. PICK d \in Colors : d = Flip(c)
  BY FlipTwice
<1>2. MaterialOf(e, m, d) = MaterialOf(e, b, Flip(d))
  BY ReflectedMaterial
<1> QED
  BY <1>1, <1>2, Zenon DEF Endgame

LEMMA TurnedKingPawn ==
  ASSUME NEW w, NEW k, NEW x, NEW y, TurnedRound(w, k, x, y), NEW f \in 0 .. 7
  PROVE  /\ WhiteKingPawn(x, y, f) = BlackKingPawn(w, k, f)
         /\ BlackKingPawn(x, y, f) = WhiteKingPawn(w, k, f)
<1>1. f \in -1 .. 8
  OBVIOUS
<1>2. PICK a \in 0 .. 7, c \in 0 .. 7 : w[f] = a /\ k[f] = c /\ x[f] = 7 - c /\ y[f] = 7 - a
  BY <1>1 DEF TurnedRound
<1>3. WhiteKingPawn(x, y, f) = BlackKingPawn(w, k, f)
  BY <1>2 DEF WhiteKingPawn, BlackKingPawn
<1>4. BlackKingPawn(x, y, f) = WhiteKingPawn(w, k, f)
  BY <1>2 DEF WhiteKingPawn, BlackKingPawn
<1> QED
  BY <1>3, <1>4

LEMMA TurnedKingSquare ==
  ASSUME NEW s \in Squares
  PROVE  /\ endgameKingSquareValue[Mirrored(s)] = endgameKingSquareValue[s]
         /\ Row(s) \notin {6, 0} => whiteKingSquareValue[Mirrored(s)] = blackKingSquareValue[s]
         /\ Row(s) \notin {1, 7} => blackKingSquareValue[Mirrored(s)] = whiteKingSquareValue[s]
<1>1. PICK r \in 0 .. 7, f \in 0 .. 7 : r = Row(s) /\ f = Column(s)
  BY PlaceTyped
<1>2. PICK t \in Squares : t = Mirrored(s) /\ Row(t) = 7 - r /\ Column(t) = f
  BY <1>1, MirrorPlace
<1>3. Shelter(t) = Shelter(s)
  BY <1>1, <1>2 DEF Shelter
<1>4. endgameKingSquareValue[t] = endgameKingSquareValue[s]
  BY <1>1, <1>2 DEF endgameKingSquareValue, Inward
<1>5. r \notin {6, 0} => whiteKingSquareValue[t] = blackKingSquareValue[s]
  BY <1>1, <1>2, <1>3 DEF whiteKingSquareValue, blackKingSquareValue
<1>6. r \notin {1, 7} => blackKingSquareValue[t] = whiteKingSquareValue[s]
  BY <1>1, <1>2, <1>3 DEF whiteKingSquareValue, blackKingSquareValue
<1> QED
  BY <1>1, <1>2, <1>4, <1>5, <1>6

LEMMA ReflectedKings ==
  ASSUME NEW e, NEW m, NEW b, Reflects(m, b), Settled(b), Settled(m), KingsAlike(e, b)
  PROVE  WhiteKing(e, m) = BlackKing(e, b) /\ BlackKing(e, m) = WhiteKing(e, b)
<1>1. PICK s \in Squares, t \in Squares : s = KingSquare(b, white) /\ t = KingSquare(b, black)
  BY FlipTwice, KingStands
<1>2. KingSquare(m, white) = Mirrored(t) /\ KingSquare(m, black) = Mirrored(s)
  BY <1>1, FlipTwice, ReflectedKing
<1>3. PICK w, k, x, y : /\ w = WhiteRank(b) /\ k = BlackRank(b)
                        /\ x = WhiteRank(m) /\ y = BlackRank(m)
  OBVIOUS
<1>4. TurnedRound(w, k, x, y)
  BY <1>3, ReflectedTurned
<1>5. PICK f, g : /\ f = [n \in 0 .. 7 |-> WhiteKingPawn(w, k, n)]
                  /\ g = [n \in 0 .. 7 |-> BlackKingPawn(w, k, n)]
  OBVIOUS
<1>6. /\ g = [n \in 0 .. 7 |-> WhiteKingPawn(x, y, n)]
      /\ f = [n \in 0 .. 7 |-> BlackKingPawn(x, y, n)]
  BY <1>4, <1>5, TurnedKingPawn
<1>7. Column(Mirrored(s)) = Column(s) /\ Column(Mirrored(t)) = Column(t)
  BY MirrorPlace
<1>8. /\ WhiteKing(e, b) = IF Endgame(e, b, white) THEN endgameKingSquareValue[s]
                           ELSE whiteKingSquareValue[s] + Wing(f, Column(s))
      /\ BlackKing(e, b) = IF Endgame(e, b, black) THEN endgameKingSquareValue[t]
                           ELSE blackKingSquareValue[t] + Wing(g, Column(t))
  BY <1>1, <1>3, <1>5, Zenon DEF WhiteKing, BlackKing
<1>9. /\ WhiteKing(e, m) = IF Endgame(e, m, white) THEN endgameKingSquareValue[Mirrored(t)]
                           ELSE whiteKingSquareValue[Mirrored(t)] + Wing(g, Column(Mirrored(t)))
      /\ BlackKing(e, m) = IF Endgame(e, m, black) THEN endgameKingSquareValue[Mirrored(s)]
                           ELSE blackKingSquareValue[Mirrored(s)] + Wing(f, Column(Mirrored(s)))
  BY <1>2, <1>3, <1>6, Zenon DEF WhiteKing, BlackKing
<1>10. /\ Endgame(e, m, white) <=> Endgame(e, b, black)
       /\ Endgame(e, m, black) <=> Endgame(e, b, white)
  BY FlipTwice, ReflectedEndgame
<1>11. /\ Endgame(e, b, white) \/ Row(s) \notin {1, 7}
       /\ Endgame(e, b, black) \/ Row(t) \notin {6, 0}
  BY <1>1 DEF KingsAlike
<1>12. PICK v, z : v = Wing(f, Column(s)) /\ z = Wing(g, Column(t))
  OBVIOUS
<1>13. v = Wing(f, Column(Mirrored(s))) /\ z = Wing(g, Column(Mirrored(t)))
  BY <1>7, <1>12
<1>14. WhiteKing(e, m) = BlackKing(e, b)
  BY <1>8, <1>9, <1>10, <1>11, <1>12, <1>13, TurnedKingSquare
<1>15. BlackKing(e, m) = WhiteKing(e, b)
  BY <1>8, <1>9, <1>10, <1>11, <1>12, <1>13, TurnedKingSquare
<1> QED
  BY <1>14, <1>15

\* The sum over one kind of piece.
LEMMA ReflectedSum ==
  ASSUME NEW m, NEW b, Reflects(m, b), Settled(b), NEW c \in Colors, NEW p \in 0 .. king,
         NEW f \in [b.boards[Flip(c)][p] -> Int], NEW g \in [m.boards[c][p] -> Int],
         MirrorsValues(f, g, b.boards[Flip(c)][p])
  PROVE  Ext!SumFunction(f) = Ext!SumFunction(g)
<1>1. PICK S, T : S = b.boards[Flip(c)][p] /\ T = m.boards[c][p]
  OBVIOUS
<1>2. S \in SUBSET Squares /\ T = Opposite(S)
  BY <1>1, FlipTwice DEF Reflects, Settled, Opposite
<1>3. f \in [S -> Int] /\ g \in [T -> Int] /\ MirrorsValues(f, g, S)
  BY <1>1
<1> QED
  BY <1>2, <1>3, MirrorSums

LEMMA ReflectedRookFile ==
  ASSUME NEW e, NEW m, NEW b, Reflects(m, b), Settled(b), Settled(m), NEW c \in Colors, NEW s \in Squares
  PROVE  RookFile(e, m, c, Mirrored(s)) = RookFile(e, b, Flip(c), s)
<1>0. PICK file : file = Column(s)
  OBVIOUS
<1>1. PICK d \in Colors : d = Flip(c) /\ Flip(d) = c /\ file = Column(s)
  BY <1>0, FlipTwice
<1>2. Column(Mirrored(s)) = file
  BY <1>1, MirrorPlace
<1>3. OnFile(m, c, file) = {7 - r : r \in OnFile(b, d, file)}
  BY <1>1, ReflectedFile
<1>4. OnFile(m, d, file) = {7 - r : r \in OnFile(b, c, file)}
  BY <1>1, ReflectedFile
<1>5. /\ OnFile(m, c, file) = {} <=> OnFile(b, d, file) = {}
      /\ OnFile(m, d, file) = {} <=> OnFile(b, c, file) = {}
  BY <1>3, <1>4
<1> QED
  BY <1>1, <1>2, <1>5 DEF RookFile

LEMMA ReflectedPieces ==
  ASSUME NEW e, Weighing(e), NEW m, NEW b, Reflects(m, b), Settled(b), Settled(m),
         NEW c \in Colors, NEW d \in Colors, d = Flip(c),
         NEW seen \in [Squares -> Squares], NEW told \in [Squares -> Squares],
         \A s \in Squares : told[Mirrored(s)] = seen[s]
  PROVE  Pieces(e, m, c, told) = Pieces(e, b, d, seen)
<1>1. PICK n \in Int, l \in Int : n = e.weights.knightSquares /\ l = e.weights.bishopSquares
  BY DEF Weighing
<1>2. knight \in 0 .. king /\ bishop \in 0 .. king /\ rook \in 0 .. king
  BY DEF knight, bishop, rook, king
<1>3. ASSUME NEW p \in 0 .. king
      PROVE  /\ b.boards[d][p] \in SUBSET Squares /\ m.boards[c][p] \in SUBSET Squares
             /\ m.boards[c][p] = Opposite(b.boards[d][p])
  BY DEF Reflects, Settled, Opposite
<1>4. ASSUME NEW s \in Squares, NEW see \in [Squares -> Squares]
      PROVE  /\ Percent(n, knightSquareValue[see[s]]) \in Int
             /\ Percent(l, bishopSquareValue[see[s]]) \in Int
  <2>1. PICK y \in Int, z \in Int : y = knightSquareValue[see[s]] /\ z = bishopSquareValue[see[s]]
    <3>1. PICK t \in Squares : t = see[s]
      OBVIOUS
    <3> QED
      BY <3>1, TablesTyped
  <2>2. Percent(n, y) \in Int /\ Percent(l, z) \in Int
    BY PercentTyped
  <2> QED
    BY <2>1, <2>2
<1>5. Knights(e, m, c, told) = Knights(e, b, d, seen)
  <2>1. PICK S, T : S = b.boards[d][knight] /\ T = m.boards[c][knight]
    OBVIOUS
  <2>2. S \in SUBSET Squares /\ T \in SUBSET Squares /\ T = Opposite(S)
    BY <1>2, <1>3, <2>1
  <2>3. PICK f, g : /\ f = [s \in S |-> Percent(n, knightSquareValue[seen[s]])]
                    /\ g = [s \in T |-> Percent(n, knightSquareValue[told[s]])]
    OBVIOUS
  <2>4. f \in [S -> Int] /\ g \in [T -> Int]
    BY <1>4, <2>2, <2>3
  <2>5. MirrorsValues(f, g, S)
    BY <2>2, <2>3 DEF MirrorsValues, Opposite
  <2>6. Ext!SumFunction(f) = Ext!SumFunction(g)
    BY <2>2, <2>4, <2>5, MirrorSums
  <2>7. Knights(e, m, c, told) = Ext!SumFunction(g) /\ Knights(e, b, d, seen) = Ext!SumFunction(f)
    BY <1>1, <2>1, <2>3, Zenon DEF Knights
  <2> QED
    BY <2>6, <2>7
<1>6. Bishops(e, m, c, told) = Bishops(e, b, d, seen)
  <2>1. PICK S, T : S = b.boards[d][bishop] /\ T = m.boards[c][bishop]
    OBVIOUS
  <2>2. S \in SUBSET Squares /\ T \in SUBSET Squares /\ T = Opposite(S)
    BY <1>2, <1>3, <2>1
  <2>3. PICK f, g : /\ f = [s \in S |-> Percent(l, bishopSquareValue[seen[s]])]
                    /\ g = [s \in T |-> Percent(l, bishopSquareValue[told[s]])]
    OBVIOUS
  <2>4. f \in [S -> Int] /\ g \in [T -> Int]
    BY <1>4, <2>2, <2>3
  <2>5. MirrorsValues(f, g, S)
    BY <2>2, <2>3 DEF MirrorsValues, Opposite
  <2>6. Ext!SumFunction(f) = Ext!SumFunction(g)
    BY <2>2, <2>4, <2>5, MirrorSums
  <2>7. Bishops(e, m, c, told) = Ext!SumFunction(g) /\ Bishops(e, b, d, seen) = Ext!SumFunction(f)
    BY <1>1, <2>1, <2>3, Zenon DEF Bishops
  <2> QED
    BY <2>6, <2>7
<1>7. Rooks(e, m, c, told) = Rooks(e, b, d, seen)
  <2>1. PICK S, T : S = b.boards[d][rook] /\ T = m.boards[c][rook]
    OBVIOUS
  <2>2. S \in SUBSET Squares /\ T \in SUBSET Squares /\ T = Opposite(S)
    BY <1>2, <1>3, <2>1
  <2>3. PICK f, g : /\ f = [s \in S |-> RookTerm(e, b, d, seen, s)]
                    /\ g = [s \in T |-> RookTerm(e, m, c, told, s)]
    OBVIOUS
  <2>4. f \in [S -> Int] /\ g \in [T -> Int]
    <3>1. ASSUME NEW a, NEW x, NEW see, NEW s
          PROVE  RookTerm(e, a, x, see, s) \in Int
      <4>1. RookFile(e, a, x, s) \in Int
        BY DEF RookFile, Weighing
      <4> QED
        BY <4>1 DEF RookTerm, Weighing
    <3> QED
      BY <2>3, <3>1
  <2>5. ASSUME NEW s \in Squares
        PROVE  RookTerm(e, m, c, told, Mirrored(s)) = RookTerm(e, b, d, seen, s)
    <3>1. RookFile(e, m, c, Mirrored(s)) = RookFile(e, b, d, s)
      BY ReflectedRookFile
    <3>2. told[Mirrored(s)] = seen[s]
      OBVIOUS
    <3> QED
      BY <3>1, <3>2, Zenon DEF RookTerm
  <2>6. MirrorsValues(f, g, S)
    BY <2>2, <2>3, <2>5 DEF MirrorsValues, Opposite
  <2>7. Ext!SumFunction(f) = Ext!SumFunction(g)
    BY <2>2, <2>4, <2>6, MirrorSums
  <2>8. Rooks(e, m, c, told) = Ext!SumFunction(g) /\ Rooks(e, b, d, seen) = Ext!SumFunction(f)
    BY <2>1, <2>3, Zenon DEF Rooks
  <2> QED
    BY <2>7, <2>8
<1> QED
  BY <1>5, <1>6, <1>7, PiecesParts

LEMMA ReflectedTermSum ==
  ASSUME NEW e, Weighing(e), NEW m, NEW b, Reflects(m, b), Settled(b), Settled(m), KingsAlike(e, b)
  PROVE  TermSum(e, m) = -TermSum(e, b)
<1>1. PICK same, over : /\ same = [s \in Squares |-> s]
                        /\ over = [s \in Squares |-> Mirrored(s)]
  OBVIOUS
<1>2. /\ same \in [Squares -> Squares] /\ over \in [Squares -> Squares]
      /\ \A s \in Squares : same[Mirrored(s)] = over[s] /\ over[Mirrored(s)] = same[s]
  BY <1>1, MirrorPlace
<1>3. PICK x \in Int, y \in Int :
        /\ x = Pieces(e, b, white, same) /\ y = Pieces(e, b, black, over)
  BY <1>2, FlipTwice, PiecesTyped
<1>4. Pieces(e, m, white, same) = y
  BY <1>2, <1>3, FlipTwice, ReflectedPieces
<1>5. Pieces(e, m, black, over) = x
  BY <1>2, <1>3, FlipTwice, ReflectedPieces
<1>6. PICK n \in Int, v \in Int, z \in Int :
        n = e.weights.kingSquares /\ v = WhiteKing(e, b) /\ z = BlackKing(e, b)
  BY KingsTyped DEF Weighing
<1>7. WhiteKing(e, m) = z /\ BlackKing(e, m) = v
  BY <1>6, ReflectedKings
<1>8. PICK p \in Int : p = Percent(n, v - z) /\ -p = Percent(n, z - v)
  <2>1. PICK a \in Int, c \in Int : a = v - z /\ c = z - v /\ c = -a
    OBVIOUS
  <2>2. Percent(n, -a) = -Percent(n, a) /\ Percent(n, a) \in Int
    BY PercentOdd
  <2>3. Percent(n, c) = Percent(n, -a)
    BY <2>1, Zenon
  <2>4. Percent(n, v - z) = Percent(n, a) /\ Percent(n, z - v) = Percent(n, c)
    BY <2>1, Zenon
  <2> QED
    BY <2>2, <2>3, <2>4
<1>9. PICK f \in Int, g \in Int : f = WhitePawns(e, b) /\ g = BlackPawns(e, b)
  BY PawnSumsTyped
<1>10. WhitePawns(e, m) = g /\ BlackPawns(e, m) = f
  BY <1>9, ReflectedPawns, ReflectsBack
<1>11. evaluatePawnsAndKings(e, b) = f - g + p
  BY <1>6, <1>8, <1>9, PawnsAndKingsParts, Zenon
<1>12. evaluatePawnsAndKings(e, m) = g - f + (-p)
  BY <1>6, <1>7, <1>8, <1>10, PawnsAndKingsParts, Zenon
<1>13. TermSum(e, b) = evaluatePawnsAndKings(e, b) + x - y
  BY <1>1, <1>3, Zenon DEF TermSum
<1>14. TermSum(e, m) = evaluatePawnsAndKings(e, m) + y - x
  BY <1>1, <1>4, <1>5, Zenon DEF TermSum
<1> QED
  BY <1>11, <1>12, <1>13, <1>14

LEMMA ReflectedNonMaterialScore ==
  ASSUME NEW e, Weighing(e), e.bound \in Nat, NEW m, NEW b, Reflects(m, b), Settled(b), Settled(m),
         KingsAlike(e, b)
  PROVE  NonMaterialScore(e, m) = NonMaterialScore(e, b)
<1>1. PICK sum \in Int : sum = TermSum(e, b) /\ -sum = TermSum(e, m)
  BY TermSumTyped, ReflectedTermSum
<1>2. PICK bound \in Nat, clock \in Nat : bound = e.bound /\ clock = b.fifty /\ clock = m.fifty
  BY DEF Settled, Reflects
<1>3. PICK x \in Int : x = Within(sum, bound) /\ -x = Within(-sum, bound)
  BY WithinOdd
<1>4. PICK y \in Int : y = Damped(x, clock) /\ -y = Damped(-x, clock)
  BY DampedOdd
<1>5. ForMover(m, -y) = ForMover(b, y)
  BY ForMoverTurned DEF Reflects, Settled
<1>6. NonMaterialScore(e, b) = ForMover(b, y)
  BY <1>1, <1>2, <1>3, <1>4, Zenon DEF NonMaterialScore
<1>7. NonMaterialScore(e, m) = ForMover(m, -y)
  BY <1>1, <1>2, <1>3, <1>4, Zenon DEF NonMaterialScore
<1> QED
  BY <1>5, <1>6, <1>7

LEMMA LimitsTyped ==
  ASSUME NEW p \in Parameters, NEW e, e = Configured(p)
  PROVE  Counting(e) /\ Weighing(e) /\ e.most \in Nat /\ e.bound \in Nat /\ e.mostPlain \in Int
<1>1. Counting(e) /\ Weighing(e) /\ e.bound = maximumNonMaterialScore(p.bound) /\ p.bound \in Int
  BY ParametersTyped
<1>2. PICK value \in Int, grain \in Nat \ {0}, n \in Nat :
        value = p.bound /\ grain = 8 /\ n = 1 /\ kDefaultGrainSize = n * grain
  BY <1>1 DEF kDefaultGrainSize
<1>3. PICK k \in Nat : maximumNonMaterialScore(value) = k * grain
  BY <1>2, BoundOnLattice
<1>4. e.bound \in Nat
  BY <1>1, <1>2, <1>3
<1>5. e.most \in Nat
  <2>1. /\ p.knight \in PieceValues /\ p.bishop \in PieceValues /\ p.rook \in PieceValues
        /\ p.queen \in PieceValues
    BY DEF Parameters
  <2>2. PieceValues \subseteq Nat \ {0}
    BY DEF PieceValues
  <2>3. PICK a \in Nat, b \in Nat, r \in Nat, q \in Nat :
          a = p.knight /\ b = p.bishop /\ r = p.rook /\ q = p.queen
    BY <2>1, <2>2
  <2>4. e.most = (1600 + 4 * (a + b + r) + 2 * q) \div 2 - q
    BY <2>3 DEF Configured
  <2> QED
    BY <2>4
<1> QED
  BY <1>1, <1>4, <1>5 DEF Counting

\* What ColoursAlike says of one setting.
AlikeWith(p) ==
  \E e \in {Configured(p)} :
    /\ e.mostPlain >= 0 => MaterialScore(e, Mirror(board)) = MaterialScore(e, board)
    /\ KingsAlike(e, board) => NonMaterialScore(e, Mirror(board)) = NonMaterialScore(e, board)
    /\ EvaluateMaterial(Mirror(board)) = -EvaluateMaterial(board)

LEMMA WholeAlike ==
  ASSUME NEW p \in Parameters, Whole(board)
  PROVE  AlikeWith(p)
<1>1. PICK m : m = Mirror(board)
  OBVIOUS
<1>2. Settled(board) /\ Settled(m) /\ Reflects(m, board)
  BY <1>1, WholeReflected
<1>3. PICK e : e = Configured(p)
  OBVIOUS
<1>4. Counting(e) /\ Weighing(e) /\ e.most \in Nat /\ e.bound \in Nat /\ e.mostPlain \in Int
  BY <1>3, LimitsTyped
<1>5. e.mostPlain >= 0 => MaterialScore(e, m) = MaterialScore(e, board)
  <2>1. e.mostPlain >= 0 => e.mostPlain \in Nat
    BY <1>4
  <2> QED
    BY <1>2, <1>4, <2>1, ReflectedMaterialScore
<1>6. KingsAlike(e, board) => NonMaterialScore(e, m) = NonMaterialScore(e, board)
  BY <1>2, <1>4, ReflectedNonMaterialScore
<1>7. EvaluateMaterial(m) = -EvaluateMaterial(board)
  BY <1>2, ReflectedEvaluateMaterial
<1> QED
  BY <1>1, <1>3, <1>5, <1>6, <1>7, Zenon DEF AlikeWith

\* The two colours are evaluated alike in every line of play.
THEOREM ColoursAlwaysAlike == Spec => []ColoursAlike
<1>1. BackedInv => ColoursAlike
  <2>1. (\A p \in Settings : AlikeWith(p)) => ColoursAlike
    BY Zenon DEF AlikeWith, ColoursAlike
  <2> QED
    BY <2>1, WholeAlike, SettingsAssumption DEF BackedInv, Backed
<1>2. BackedInv /\ [Next]_vars => BackedInv'
  BY BackedNext
<1> QED
  BY <1>1, <1>2, BackedInit, PTL DEF Spec

\* No line of play, through whatever captures, promotions and castlings, takes a
\* king or makes a second one: what Board::inCheck and the evaluator look up as
\* the square of the king is always one square.
THEOREM KingsAlwaysStand ==
  Spec => [](\A c \in Colors : \E k \in Squares : board.boards[c][king] = {k})
<1>1. BackedInv => \A c \in Colors : \E k \in Squares : board.boards[c][king] = {k}
  BY WholeSettled DEF BackedInv, Backed, Settled
<1>2. BackedInv /\ [Next]_vars => BackedInv'
  BY BackedNext
<1> QED
  BY <1>1, <1>2, BackedInit, PTL DEF Spec
-----------------------------------------------------------------------------
(***************************************************************************)
(* Who is attacked attacks back: what a man of a square sees from there    *)
(* are the squares from which such a man sees it.                          *)
(***************************************************************************)
LEMMA StepBack ==
  ASSUME NEW s \in Squares, NEW t \in Squares, NEW d \in Int, NEW e \in Int, t \in Step(s, d, e)
  PROVE  s \in Step(t, -d, -e)
<1>1. Row(t) = Row(s) + d /\ Column(t) = Column(s) + e
  BY DEF Step
<1>2. Row(s) \in Int /\ Column(s) \in Int
  BY PlaceTyped
<1>3. Row(s) = Row(t) + (-d) /\ Column(s) = Column(t) + (-e)
  BY <1>1, <1>2
<1> QED
  BY <1>3 DEF Step

LEMMA LeapsAre ==
  ASSUME NEW D, NEW s \in Squares, NEW t
  PROVE  t \in Leaps(D)[s] <=> \E d \in D : t \in Step(s, d[1], d[2])
BY DEF Leaps

LEMMA LeapsBack ==
  ASSUME NEW D, NEW E, \A d \in D : d[1] \in Int /\ d[2] \in Int /\ <<-d[1], -d[2]>> \in E,
         NEW s \in Squares, NEW t \in Squares, t \in Leaps(D)[s]
  PROVE  s \in Leaps(E)[t]
<1>1. PICK d \in D : t \in Step(s, d[1], d[2])
  BY LeapsAre
<1>2. PICK x \in Int, y \in Int : x = d[1] /\ y = d[2] /\ <<-x, -y>> \in E
  OBVIOUS
<1>3. PICK o \in E : o = <<-x, -y>>
  BY <1>2
<1>4. o[1] = -x /\ o[2] = -y
  BY <1>3
<1>5. s \in Step(t, -x, -y)
  BY <1>1, <1>2, StepBack
<1> QED
  BY <1>4, <1>5, LeapsAre

LEMMA PawnsAttackBack ==
  ASSUME NEW c \in Colors, NEW s \in Squares, NEW t \in Squares
  PROVE  t \in PawnAttacks[c][s] <=> s \in PawnAttacks[Flip(c)][t]
<1> DEFINE To(f) == {<<f, -1>>, <<f, 1>>}
<1>1. \A d \in Colors : PawnAttacks[d] = Leaps(To(Forward(d)))
  BY DEF PawnAttacks
<1>2. Flip(c) \in Colors /\ Forward(Flip(c)) = -Forward(c) /\ Forward(c) \in {-1, 1}
  BY DEF Flip, Forward, Colors, white, black
<1>3. ASSUME NEW f \in {-1, 1}
      PROVE  \A d \in To(f) : d[1] \in Int /\ d[2] \in Int /\ <<-d[1], -d[2]>> \in To(-f)
  <2> SUFFICES ASSUME NEW d \in To(f)
               PROVE  d[1] \in Int /\ d[2] \in Int /\ <<-d[1], -d[2]>> \in To(-f)
    OBVIOUS
  <2>1. CASE d = <<f, -1>>
    <3>1. PICK one \in Int : one = -1 /\ -one = 1
      OBVIOUS
    <3>2. d = <<f, one>>
      BY <2>1, <3>1
    <3>3. d[1] = f /\ d[2] = one
      BY <3>2
    <3> QED
      BY <3>1, <3>3
  <2>2. CASE d = <<f, 1>>
    <3>1. d[1] = f /\ d[2] = 1 /\ -d[2] = -1
      BY <2>2
    <3> QED
      BY <3>1
  <2> QED
    BY <2>1, <2>2
<1>4. PICK f, g : f = Forward(c) /\ g = -f /\ f \in {-1, 1} /\ g \in {-1, 1} /\ f = -g
  BY <1>2
<1> HIDE DEF To
<1>5. t \in Leaps(To(f))[s] => s \in Leaps(To(g))[t]
  BY <1>3, <1>4, LeapsBack
<1>6. s \in Leaps(To(g))[t] => t \in Leaps(To(f))[s]
  BY <1>3, <1>4, LeapsBack
<1> QED
  BY <1>1, <1>2, <1>4, <1>5, <1>6

LEMMA JumpsBack ==
  /\ \A d \in Jumps : d[1] \in Int /\ d[2] \in Int /\ <<-d[1], -d[2]>> \in Jumps
  /\ \A D \in {Straight, Diagonal, Directions} :
       \A d \in D : d[1] \in Int /\ d[2] \in Int /\ <<-d[1], -d[2]>> \in D
<1>1. ASSUME NEW d \in Jumps
      PROVE  d[1] \in Int /\ d[2] \in Int /\ <<-d[1], -d[2]>> \in Jumps
  <2>1. PICK x \in {-2, -1, 1, 2}, y \in {-2, -1, 1, 2} : d = <<x, y>> /\ x * x # y * y
    BY DEF Jumps
  <2>2. d[1] = x /\ d[2] = y /\ -x \in {-2, -1, 1, 2} /\ -y \in {-2, -1, 1, 2}
    BY <2>1
  <2>3. (-x) * (-x) = x * x /\ (-y) * (-y) = y * y
    OBVIOUS
  <2>4. PICK o : o = <<-x, -y>>
    OBVIOUS
  <2>5. o \in {-2, -1, 1, 2} \X {-2, -1, 1, 2} /\ o[1] = -x /\ o[2] = -y
    BY <2>2, <2>4
  <2>6. o \in Jumps
    BY <2>1, <2>3, <2>5 DEF Jumps
  <2> QED
    BY <2>2, <2>4, <2>6
<1>2. ASSUME NEW d \in Straight
      PROVE  d[1] \in Int /\ d[2] \in Int /\ <<-d[1], -d[2]>> \in Straight
  BY DEF Straight
<1>3. ASSUME NEW d \in Diagonal
      PROVE  d[1] \in Int /\ d[2] \in Int /\ <<-d[1], -d[2]>> \in Diagonal
  BY DEF Diagonal
<1> QED
  BY <1>1, <1>2, <1>3 DEF Directions

\* A square k steps away, with nothing between.
Reached(occupied, s, dr, dc, k, t) ==
  /\ t \in Step(s, k * dr, k * dc)
  /\ \A j \in 1 .. k - 1 : Step(s, j * dr, j * dc) \cap occupied = {}

LEMMA Multiples ==
  ASSUME NEW k \in Int, NEW j \in Int, NEW x \in -1 .. 1
  PROVE  /\ (k - j) * x = k * x - j * x /\ j * (-x) = -(j * x)
         /\ k * x \in Int /\ j * x \in Int /\ -x \in -1 .. 1
<1>1. x = -1 \/ x = 0 \/ x = 1
  OBVIOUS
<1> QED
  BY <1>1

LEMMA ReachedBack ==
  ASSUME NEW occupied, NEW s \in Squares, NEW t \in Squares,
         NEW dr \in -1 .. 1, NEW dc \in -1 .. 1, NEW k \in 1 .. 7,
         Reached(occupied, s, dr, dc, k, t)
  PROVE  Reached(occupied, t, -dr, -dc, k, s)
<1>1. t \in Step(s, k * dr, k * dc)
  BY DEF Reached
<1>2. k * dr \in Int /\ k * dc \in Int /\ k * (-dr) = -(k * dr) /\ k * (-dc) = -(k * dc)
  BY Multiples
<1>3. s \in Step(t, k * (-dr), k * (-dc))
  BY <1>1, <1>2, StepBack
<1>4. ASSUME NEW j \in 1 .. k - 1, NEW x \in Step(t, j * (-dr), j * (-dc))
      PROVE  x \notin occupied
  <2>1. j \in Int /\ k - j \in 1 .. k - 1 /\ x \in Squares
    BY DEF Step
  <2>2. /\ (k - j) * dr = k * dr - j * dr /\ (k - j) * dc = k * dc - j * dc
        /\ j * (-dr) = -(j * dr) /\ j * (-dc) = -(j * dc)
        /\ j * dr \in Int /\ j * dc \in Int
    BY <2>1, Multiples
  <2>3. /\ Row(t) = Row(s) + k * dr /\ Column(t) = Column(s) + k * dc
        /\ Row(x) = Row(t) + j * (-dr) /\ Column(x) = Column(t) + j * (-dc)
    BY <1>1, <1>4 DEF Step
  <2>4. Row(s) \in Int /\ Column(s) \in Int
    BY PlaceTyped
  <2>5. Row(x) = Row(s) + (k - j) * dr /\ Column(x) = Column(s) + (k - j) * dc
    BY <1>2, <2>2, <2>3, <2>4
  <2>6. x \in Step(s, (k - j) * dr, (k - j) * dc)
    BY <2>1, <2>5 DEF Step
  <2>7. PICK i \in 1 .. k - 1 : i = k - j
    BY <2>1
  <2> QED
    BY <2>6, <2>7 DEF Reached
<1> QED
  BY <1>3, <1>4 DEF Reached

LEMMA StepOne ==
  ASSUME NEW s \in Squares, NEW d, NEW e, NEW t \in Step(s, d, e), NEW r \in Step(s, d, e)
  PROVE  t = r /\ t \in Squares
<1>1. t \in Squares /\ r \in Squares /\ Row(t) = Row(r) /\ Column(t) = Column(r)
  BY DEF Step
<1>2. t = 8 * Row(t) + Column(t) /\ r = 8 * Row(r) + Column(r)
  BY <1>1 DEF Row, Column, Squares
<1> QED
  BY <1>1, <1>2

LEMMA SlidesAre ==
  ASSUME NEW occupied, NEW s \in Squares, NEW D, D \subseteq Directions, NEW t
  PROVE  t \in Slides(occupied, s, D) <=>
           \E d \in D, k \in 1 .. 7 : Reached(occupied, s, d[1], d[2], k, t)
<1> DEFINE SeenOn(ray) ==
      {ray[k] : k \in {k \in DOMAIN ray : \A j \in 1 .. k - 1 : ray[j] \notin occupied}}
<1>1. t \in Slides(occupied, s, D) <=> \E d \in D : t \in SeenOn(Rays[s][d])
  BY DEF Slides
<1>2. ASSUME NEW d \in D
      PROVE  t \in SeenOn(Rays[s][d]) <=> \E k \in 1 .. 7 : Reached(occupied, s, d[1], d[2], k, t)
  <2>1. PICK ray, x, y : ray = Rays[s][d] /\ x = d[1] /\ y = d[2]
    OBVIOUS
  <2>2. /\ DOMAIN ray = {k \in 1 .. 7 : Step(s, k * x, k * y) # {}}
        /\ \A k \in DOMAIN ray : ray[k] \in Step(s, k * x, k * y)
    BY <2>1, RaysAre
  <2>3. x \in -1 .. 1 /\ y \in -1 .. 1
    BY <2>1, DirectionsAre
  <2>4. ASSUME NEW k \in DOMAIN ray
        PROVE  (\A j \in 1 .. k - 1 : ray[j] \notin occupied) <=>
                 \A j \in 1 .. k - 1 : Step(s, j * x, j * y) \cap occupied = {}
    <3>1. ASSUME NEW j \in 1 .. k - 1
          PROVE  Step(s, j * x, j * y) = {ray[j]}
      <4>1. k \in 1 .. 7 /\ Step(s, k * x, k * y) # {} /\ j \in 1 .. 7 /\ j \in 1 .. k
        BY <2>2, <2>4
      <4>2. Step(s, j * x, j * y) # {}
        BY <2>3, <4>1, RaysHaveNoGaps
      <4>3. ray[j] \in Step(s, j * x, j * y)
        BY <2>2, <4>1, <4>2
      <4>4. PICK a, b : a = j * x /\ b = j * y
        OBVIOUS
      <4>5. \A r \in Step(s, a, b) : r = ray[j]
        BY <4>3, <4>4, StepOne
      <4> QED
        BY <4>3, <4>4, <4>5
    <3> QED
      BY <3>1
  <2>5. t \in SeenOn(ray) <=>
          \E k \in DOMAIN ray : t = ray[k] /\ \A j \in 1 .. k - 1 : ray[j] \notin occupied
    OBVIOUS
  <2>6. ASSUME NEW k \in DOMAIN ray
        PROVE  t = ray[k] <=> t \in Step(s, k * x, k * y)
    <3>1. PICK a, b : a = k * x /\ b = k * y
      OBVIOUS
    <3>2. ray[k] \in Step(s, a, b)
      BY <2>2, <2>6, <3>1
    <3> QED
      BY <3>1, <3>2, StepOne
  <2>7. ASSUME NEW k \in 1 .. 7, t \in Step(s, k * x, k * y)
        PROVE  k \in DOMAIN ray
    BY <2>2, <2>7
  <2> HIDE DEF SeenOn
  <2>8. t \in SeenOn(ray) <=> \E k \in DOMAIN ray : Reached(occupied, s, x, y, k, t)
    BY <2>4, <2>5, <2>6 DEF Reached
  <2>9. DOMAIN ray \subseteq 1 .. 7
    BY <2>2
  <2>10. \A k \in 1 .. 7 : Reached(occupied, s, x, y, k, t) => k \in DOMAIN ray
    BY <2>7 DEF Reached
  <2> QED
    BY <2>1, <2>8, <2>9, <2>10
<1> HIDE DEF SeenOn
<1> QED
  BY <1>1, <1>2

LEMMA SlidesBack ==
  ASSUME NEW occupied, NEW s \in Squares, NEW t \in Squares,
         NEW D \in {Straight, Diagonal, Directions}, t \in Slides(occupied, s, D)
  PROVE  s \in Slides(occupied, t, D)
<1>1. D \subseteq Directions
  BY DEF Directions
<1>2. PICK d \in D, k \in 1 .. 7 : Reached(occupied, s, d[1], d[2], k, t)
  BY <1>1, SlidesAre
<1>3. PICK x, y : x = d[1] /\ y = d[2]
  OBVIOUS
<1>4. x \in -1 .. 1 /\ y \in -1 .. 1 /\ x \in Int /\ y \in Int
  BY <1>1, <1>3, DirectionsAre
<1>5. PICK o \in D : o = <<-x, -y>>
  BY <1>3, JumpsBack
<1>6. o[1] = -x /\ o[2] = -y
  BY <1>5
<1>7. Reached(occupied, t, -x, -y, k, s)
  BY <1>2, <1>3, <1>4, ReachedBack
<1> QED
  BY <1>1, <1>6, <1>7, SlidesAre

LEMMA AttacksAre ==
  ASSUME NEW b, NEW s
  PROVE  /\ Attacks(b, knight, s) = KnightAttacks[s] /\ Attacks(b, king, s) = KingAttacks[s]
         /\ Attacks(b, bishop, s) = Slides(b.occupied, s, Diagonal)
         /\ Attacks(b, rook, s) = Slides(b.occupied, s, Straight)
         /\ Attacks(b, queen, s) = Slides(b.occupied, s, Directions)
<1>1. /\ knight # king /\ bishop # king /\ rook # king /\ queen # king
      /\ knight # bishop /\ knight # rook /\ knight # queen /\ bishop # rook
      /\ bishop # queen /\ rook # queen
  BY DEF knight, bishop, rook, queen, king
<1>2. Attacks(b, knight, s) = KnightAttacks[s]
  BY <1>1 DEF Attacks
<1>3. Attacks(b, king, s) = KingAttacks[s]
  BY <1>1 DEF Attacks
<1>4. Attacks(b, bishop, s) = Slides(b.occupied, s, Diagonal)
  BY <1>1 DEF Attacks
<1>5. Attacks(b, rook, s) = Slides(b.occupied, s, Straight)
  BY <1>1 DEF Attacks
<1>6. Attacks(b, queen, s) = Slides(b.occupied, s, Directions)
  BY <1>1 DEF Attacks, Directions
<1> QED
  BY <1>2, <1>3, <1>4, <1>5, <1>6

LEMMA AttackedBack ==
  ASSUME NEW b, NEW p \in {knight, bishop, rook, queen, king},
         NEW s \in Squares, NEW t \in Squares, t \in Attacks(b, p, s)
  PROVE  s \in Attacks(b, p, t)
<1>1. PICK occupied : occupied = b.occupied
  OBVIOUS
<1>2. CASE p = knight
  <2>1. t \in Leaps(Jumps)[s]
    BY <1>2, AttacksAre DEF KnightAttacks
  <2>2. s \in Leaps(Jumps)[t]
    BY <2>1, JumpsBack, LeapsBack
  <2> QED
    BY <1>2, <2>2, AttacksAre DEF KnightAttacks
<1>3. CASE p = king
  <2>1. t \in Leaps(Directions)[s]
    BY <1>3, AttacksAre DEF KingAttacks, Directions
  <2>2. s \in Leaps(Directions)[t]
    BY <2>1, JumpsBack, LeapsBack
  <2> QED
    BY <1>3, <2>2, AttacksAre DEF KingAttacks, Directions
<1>4. CASE p \in {bishop, rook, queen}
  <2>1. PICK D \in {Straight, Diagonal, Directions} :
          \A x : Attacks(b, p, x) = Slides(occupied, x, D)
    BY <1>1, <1>4, AttacksAre
  <2> QED
    BY <2>1, SlidesBack
<1> QED
  BY <1>2, <1>3, <1>4

LEMMA AttacksBack ==
  ASSUME NEW b, NEW p \in {knight, bishop, rook, queen, king},
         NEW s \in Squares, NEW t \in Squares
  PROVE  t \in Attacks(b, p, s) <=> s \in Attacks(b, p, t)
BY AttackedBack

-----------------------------------------------------------------------------
(***************************************************************************)
(* The recaptures on a square: what see() selects is the legal move of     *)
(* least rank in the list.                                                 *)
(***************************************************************************)
\* What a man sees on an enemy's square.
Bears(b, us, p, from, square) ==
  IF p = pawn THEN square \in PawnAttacks[us][from] ELSE square \in Attacks(b, p, from)

\* The captures on an enemy's square that see() considers are those of the list.
LEMMA AttackersAre ==
  ASSUME NEW b, NEW v \in Contents, NEW fl, NEW us, Reads(b, v, fl), us = fl.side, us \in Colors,
         NEW square \in Squares, NEW p \in Kinds, NEW from
  PROVE  from \in Attackers(b, p, square) <=>
           from \in Squares /\ v[from] = Value(us, p) /\ Bears(b, us, p, from, square)
<1>1. b.boards = BoardsOf(v) /\ b.flags = fl
  BY DEF Reads
<1>2. from \in BoardsOf(v)[us][p] <=> from \in Squares /\ v[from] = Value(us, p)
  BY BoardsAt, PiecesRead
<1>3. Flip(us) \in Colors /\ Flip(Flip(us)) = us
  BY FlipTwice
<1>4. CASE p = pawn
  <2>1. from \in Attackers(b, p, square) <=>
          from \in BoardsOf(v)[us][p] /\ from \in PawnAttacks[Flip(us)][square]
    BY <1>1, <1>4 DEF Attackers
  <2>2. from \in Squares =>
          (square \in PawnAttacks[us][from] <=> from \in PawnAttacks[Flip(us)][square])
    BY PawnsAttackBack
  <2> QED
    BY <1>2, <1>4, <2>1, <2>2 DEF Bears
<1>5. CASE p # pawn
  <2>1. p \in {knight, bishop, rook, queen, king}
    BY <1>5 DEF Kinds, pawn, knight, bishop, rook, queen, king
  <2>2. from \in Attackers(b, p, square) <=>
          from \in BoardsOf(v)[us][p] /\ from \in Attacks(b, p, square)
    BY <1>1, <1>5 DEF Attackers
  <2>3. from \in Squares => (square \in Attacks(b, p, from) <=> from \in Attacks(b, p, square))
    BY <2>1, AttacksBack
  <2> QED
    BY <1>2, <1>5, <2>2, <2>3 DEF Bears
<1> QED
  BY <1>4, <1>5

PromotesTo(p, square) == IF p = pawn /\ Row(square) \in {0, 7} THEN queen ELSE 0

LEMMA RecapturesAre ==
  ASSUME NEW b, NEW p, NEW square, NEW m
  PROVE  m \in Recaptures(b, p, square) <=>
           /\ IsMove(m) /\ m.from \in Attackers(b, p, square)
           /\ m.to = square /\ m.promo = PromotesTo(p, square)
<1>1. PICK attackers : attackers = Attackers(b, p, square)
  OBVIOUS
<1>2. m \in Recaptures(b, p, square) <=> \E f \in attackers : m = Recapture(p, f, square)
  BY <1>1 DEF Recaptures
<1>3. \A f : LET r == Recapture(p, f, square)
             IN r.from = f /\ r.to = square /\ r.promo = PromotesTo(p, square) /\ IsMove(r)
  BY DEF Recapture, PromotesTo, IsMove
<1>4. IsMove(m) /\ m.to = square /\ m.promo = PromotesTo(p, square)
        => m = Recapture(p, m.from, square)
  BY DEF IsMove, Recapture, PromotesTo
<1> QED
  BY <1>1, <1>2, <1>3, <1>4

LEMMA EnemyStands ==
  ASSUME NEW v \in Contents, NEW c \in Colors, NEW s \in BoardsOf(v)[c][0]
  PROVE  s \in Squares /\ s \in Filled(v) /\ v[s] # empty
<1>1. s \in Squares
  BY BoardsTyped
<1>2. v[s] * Forward(c) > 0
  BY <1>1, BoardsAt
<1>3. v[s] # empty
  BY <1>2 DEF empty, Forward, Colors
<1> QED
  BY <1>1, <1>3 DEF Filled

\* A generated move there.
ArrivesBy(b, square, m) == m \in PseudolegalMoves(b) /\ m.to = square /\ m.promo \in {0, queen}

LEMMA ListedRecapture ==
  ASSUME NEW b, NEW v \in Contents, NEW fl, NEW us, Reads(b, v, fl), AreFlags(fl),
         Homed(v, fl), EpReady(v, fl), us = fl.side,
         NEW square \in BoardsOf(v)[Flip(us)][0], NEW m, ArrivesBy(b, square, m)
  PROVE  \E p \in Kinds : m \in Recaptures(b, p, square)
<1>1. /\ us \in Colors /\ pawn \in Kinds /\ Flip(us) \in Colors /\ b.flags = fl
      /\ b.boards = BoardsOf(v)
  BY KindsApart, FlipTwice DEF AreFlags, Reads
<1>2. square \in Squares /\ square \in Filled(v) /\ v[square] # empty
  BY <1>1, EnemyStands
<1>3. m \in PawnMoves(b, us) \union PieceMoves(b, us) \union CastleMoves(b, us)
      /\ m.to = square /\ m.promo \in {0, queen}
  BY <1>1 DEF PseudolegalMoves, ArrivesBy
<1>4. IsMove(m)
  BY <1>1, ListedAre DEF ArrivesBy
<1>5. CASE m \in PawnMoves(b, us)
  <2>1. PICK f \in b.boards[us][pawn] : \E t \in PawnTargets(b, us, f) :
          m \in Moves(f, {t}, IF Row(t) \in {0, 7} THEN {queen, rook, bishop, knight} ELSE {0})
    BY <1>5, PawnMovesAre
  <2>2. PICK t \in PawnTargets(b, us, f) :
          m \in Moves(f, {t}, IF Row(t) \in {0, 7} THEN {queen, rook, bishop, knight} ELSE {0})
    BY <2>1
  <2>3. f = m.from /\ t = square
        /\ m.promo \in IF Row(square) \in {0, 7} THEN {queen, rook, bishop, knight} ELSE {0}
    BY <1>3, <2>2, MovesAre
  <2>4. square \in PawnAttacks[us][f]
    <3>1. \/ square \notin Filled(v)
          \/ fl.ep # 0 /\ square = fl.ep + 8 * Forward(us)
          \/ square \in PawnAttacks[us][f]
      BY <1>1, <2>2, <2>3, PawnTargetsAre
    <3>2. ~(fl.ep # 0 /\ square = fl.ep + 8 * Forward(us))
      BY <1>2 DEF EpReady
    <3> QED
      BY <1>2, <3>1, <3>2
  <2>5. f \in Squares /\ v[f] = Value(us, pawn)
    BY <1>1, <2>1, PiecesRead
  <2>6. f \in Attackers(b, pawn, square)
    BY <1>1, <1>2, <2>4, <2>5, AttackersAre DEF Bears
  <2>7. m.promo = PromotesTo(pawn, square)
    BY <1>3, <2>3 DEF PromotesTo, queen, rook, bishop, knight
  <2> QED
    BY <1>1, <1>3, <1>4, <2>3, <2>6, <2>7, RecapturesAre
<1>6. CASE m \in PieceMoves(b, us)
  <2>0. PICK p \in {knight, bishop, rook, queen, king} : \E from \in b.boards[us][p] :
          m \in Moves(from, Attacks(b, p, from) \ (b.occupied \ b.boards[Flip(us)][0]), {0})
    BY <1>6, PieceMovesAre
  <2>1. PICK from \in b.boards[us][p] :
          m \in Moves(from, Attacks(b, p, from) \ (b.occupied \ b.boards[Flip(us)][0]), {0})
    BY <2>0
  <2>2. p \in Kinds /\ p # pawn
    BY DEF Kinds, knight, bishop, rook, queen, king, pawn
  <2>3. m.from = from /\ square \in Attacks(b, p, from) /\ m.promo = 0
    BY <1>3, <2>1, MovesAre
  <2>4. from \in Squares /\ v[from] = Value(us, p)
    BY <1>1, <2>1, <2>2, PiecesRead
  <2>5. from \in Attackers(b, p, square)
    BY <1>1, <1>2, <2>2, <2>3, <2>4, AttackersAre DEF Bears
  <2>6. m.promo = PromotesTo(p, square)
    BY <2>2, <2>3 DEF PromotesTo
  <2> QED
    BY <1>3, <1>4, <2>2, <2>3, <2>5, <2>6, RecapturesAre
<1>7. CASE m \in CastleMoves(b, us)
  <2>1. v[m.to] = empty
    BY <1>7, CastleMovesQuiet
  <2> QED
    BY <1>2, <1>3, <2>1
<1> QED
  BY <1>3, <1>5, <1>6, <1>7

LEMMA MovesWith ==
  ASSUME NEW m, NEW targets, NEW promos, IsMove(m), m.to \in targets, m.promo \in promos
  PROVE  m \in Moves(m.from, targets, promos)
<1>1. PICK f, t, q : /\ f = m.from /\ t = m.to /\ q = m.promo
                     /\ m = [from |-> f, to |-> t, promo |-> q]
  BY DEF IsMove
<1>2. t \in targets /\ q \in promos
  BY <1>1
<1>3. m \in [from : {f}, to : targets, promo : promos]
  BY <1>1, <1>2
<1> QED
  BY <1>1, <1>3 DEF Moves

LEMMA RecaptureListed ==
  ASSUME NEW b, NEW v \in Contents, NEW fl, NEW us, Reads(b, v, fl), AreFlags(fl), us = fl.side,
         NEW square \in BoardsOf(v)[Flip(us)][0], NEW p \in Kinds,
         NEW m \in Recaptures(b, p, square)
  PROVE  ArrivesBy(b, square, m)
<1>1. /\ us \in Colors /\ pawn \in Kinds /\ Flip(us) \in Colors /\ b.flags = fl
      /\ b.boards = BoardsOf(v)
  BY KindsApart, FlipTwice DEF AreFlags, Reads
<1>2. square \in Squares /\ square \in Filled(v) /\ v[square] # empty
  BY <1>1, EnemyStands
<1>3. PICK from : from = m.from /\ IsMove(m) /\ from \in Attackers(b, p, square)
                  /\ m.to = square /\ m.promo = PromotesTo(p, square)
  BY RecapturesAre
<1>4. from \in Squares /\ v[from] = Value(us, p) /\ Bears(b, us, p, from, square)
  BY <1>1, <1>2, <1>3, AttackersAre
<1>5. m.promo \in {0, queen}
  BY <1>3 DEF PromotesTo
<1>6. from \in b.boards[us][p]
  BY <1>1, <1>4, BoardsAt
<1>7. CASE p = pawn
  <2>1. square \in PawnTargets(b, us, from)
    BY <1>1, <1>4, <1>7 DEF PawnTargets, Bears
  <2>2. m.promo \in IF Row(square) \in {0, 7} THEN {queen, rook, bishop, knight} ELSE {0}
    BY <1>3, <1>7 DEF PromotesTo
  <2>3. m \in Moves(from, {square},
                    IF Row(square) \in {0, 7} THEN {queen, rook, bishop, knight} ELSE {0})
    BY <1>3, <2>2, MovesWith
  <2>4. m \in PawnMoves(b, us)
    BY <1>6, <1>7, <2>1, <2>3, PawnMovesAre
  <2> QED
    BY <1>1, <1>3, <1>5, <2>4 DEF ArrivesBy, PseudolegalMoves
<1>8. CASE p # pawn
  <2>1. p \in {knight, bishop, rook, queen, king}
    BY <1>8 DEF Kinds, pawn, knight, bishop, rook, queen, king
  <2>2. square \in Attacks(b, p, from) \ (b.occupied \ b.boards[Flip(us)][0])
    BY <1>1, <1>4, <1>8 DEF Bears
  <2>3. m.promo \in {0}
    BY <1>3, <1>8 DEF PromotesTo
  <2>4. m \in Moves(from, Attacks(b, p, from) \ (b.occupied \ b.boards[Flip(us)][0]), {0})
    BY <1>3, <2>2, <2>3, MovesWith
  <2>5. m \in PieceMoves(b, us)
    BY <1>6, <2>1, <2>4, PieceMovesAre
  <2> QED
    BY <1>1, <1>3, <1>5, <2>5 DEF ArrivesBy, PseudolegalMoves
<1> QED
  BY <1>7, <1>8

\* Those of a kind on the lowest place.
FirstOf(L, kind, place, p) ==
  {m \in L : kind[m] = p /\ \A o \in L : kind[o] = p => place[m] <= place[o]}

\* The first of the least kind are those of the least rank.
LEMMA RankedByKind ==
  ASSUME NEW L, NEW kind \in [L -> Kinds], NEW place \in [L -> Squares], NEW m
  PROVE  (m \in L /\ \A o \in L : 64 * kind[m] + place[m] <= 64 * kind[o] + place[o])
           <=> \E p \in Kinds : /\ m \in FirstOf(L, kind, place, p)
                                /\ \A q \in Kinds : FirstOf(L, kind, place, q) # {} => p <= q
<1>1. ASSUME NEW p \in Kinds, m \in FirstOf(L, kind, place, p),
             \A q \in Kinds : FirstOf(L, kind, place, q) # {} => p <= q,
             NEW o \in L
      PROVE  64 * kind[m] + place[m] <= 64 * kind[o] + place[o]
  <2>1. m \in L /\ kind[m] = p /\ (kind[o] = p => place[m] <= place[o])
    BY <1>1 DEF FirstOf
  <2>2. PICK q \in Kinds : q = kind[o]
    OBVIOUS
  <2>3. PICK S : S = {place[n] : n \in {n \in L : kind[n] = q}}
    OBVIOUS
  <2>4. S \subseteq Squares /\ S # {}
    BY <2>2, <2>3
  <2>5. PICK x \in S : \A y \in S : x <= y
    <3>1. S \subseteq Nat
      BY <2>4 DEF Squares
    <3> QED
      BY <2>4, <3>1, LowestExists
  <2>6. PICK n \in L : kind[n] = q /\ place[n] = x
    BY <2>3, <2>5
  <2>7. n \in FirstOf(L, kind, place, q)
    BY <2>3, <2>5, <2>6 DEF FirstOf
  <2>8. p <= q
    BY <1>1, <2>7
  <2>9. PICK x1 \in Squares, y1 \in Squares : x1 = place[m] /\ y1 = place[o]
    BY <2>1
  <2>10. p \in Int /\ q \in Int /\ x1 \in 0 .. 63 /\ y1 \in 0 .. 63
    BY DEF Kinds, Squares
  <2>11. 64 * p + x1 <= 64 * q + y1
    BY <2>1, <2>2, <2>8, <2>9, <2>10
  <2> QED
    BY <2>1, <2>2, <2>9, <2>11
<1>2. ASSUME m \in L, \A o \in L : 64 * kind[m] + place[m] <= 64 * kind[o] + place[o]
      PROVE  \E p \in Kinds : /\ m \in FirstOf(L, kind, place, p)
                              /\ \A q \in Kinds : FirstOf(L, kind, place, q) # {} => p <= q
  <2>1. PICK p \in Kinds, x \in Squares : p = kind[m] /\ x = place[m]
    BY <1>2
  <2>2. p \in Int /\ x \in 0 .. 63
    BY DEF Kinds, Squares
  <2>3. ASSUME NEW o \in L
        PROVE  p <= kind[o] /\ (kind[o] = p => x <= place[o])
    <3>1. PICK q \in Kinds, y \in Squares : q = kind[o] /\ y = place[o]
      OBVIOUS
    <3>2. q \in Int /\ y \in 0 .. 63
      BY DEF Kinds, Squares
    <3>3. 64 * p + x <= 64 * q + y
      BY <1>2, <2>1, <3>1
    <3>4. p <= q /\ (q = p => x <= y)
      BY <2>2, <3>2, <3>3
    <3> QED
      BY <3>1, <3>4
  <2>4. m \in FirstOf(L, kind, place, p)
    BY <1>2, <2>1, <2>3 DEF FirstOf
  <2>5. ASSUME NEW q \in Kinds, FirstOf(L, kind, place, q) # {}
        PROVE  p <= q
    <3>1. PICK o : o \in FirstOf(L, kind, place, q)
      BY <2>5
    <3>2. o \in L /\ kind[o] = q
      BY <3>1 DEF FirstOf
    <3> QED
      BY <2>3, <3>2
  <2> QED
    BY <2>4, <2>5
<1>3. \A p \in Kinds : m \in FirstOf(L, kind, place, p) => m \in L
  BY DEF FirstOf
<1> QED
  BY <1>1, <1>2, <1>3

\* The legal recaptures of a kind.
Lawful(b, p, square) == {m \in Recaptures(b, p, square) : Makes(b, m)}

LEMMA LawfulAre ==
  ASSUME NEW b, NEW v \in Contents, NEW fl, NEW us, Reads(b, v, fl), AreFlags(fl),
         Homed(v, fl), EpReady(v, fl), us = fl.side,
         NEW square \in BoardsOf(v)[Flip(us)][0], NEW p \in Kinds, NEW m
  PROVE  m \in Lawful(b, p, square) <=> m \in Legal(b, square) /\ Magnitude(v[m.from]) = p
<1>1. /\ us \in Colors /\ Flip(us) \in Colors
  BY FlipTwice DEF AreFlags
<1>2. square \in Squares
  BY <1>1, EnemyStands
<1>3. ASSUME NEW q \in Kinds, m \in Recaptures(b, q, square)
      PROVE  Magnitude(v[m.from]) = q
  <2>1. PICK from : from = m.from /\ from \in Attackers(b, q, square)
    BY <1>3, RecapturesAre
  <2>2. v[from] = Value(us, q)
    BY <1>1, <1>2, <2>1, AttackersAre
  <2> QED
    BY <1>1, <2>1, <2>2, Codings
<1>4. m \in Legal(b, square) <=> ArrivesBy(b, square, m) /\ Makes(b, m)
  BY DEF Legal, ArrivesBy
<1>5. m \in Lawful(b, p, square) <=> m \in Recaptures(b, p, square) /\ Makes(b, m)
  BY DEF Lawful
<1>6. m \in Recaptures(b, p, square) => ArrivesBy(b, square, m)
  BY RecaptureListed
<1>7. ArrivesBy(b, square, m) => \E q \in Kinds : m \in Recaptures(b, q, square)
  BY ListedRecapture
<1> QED
  BY <1>3, <1>4, <1>5, <1>6, <1>7

RecapturesOn(v, square, m) ==
  IsMove(m) /\ m.to = square /\ m.promo = PromotesTo(Magnitude(v[m.from]), square)

LEMMA LegalAre ==
  ASSUME NEW b, NEW v \in Contents, NEW fl, NEW us, Reads(b, v, fl), AreFlags(fl),
         Homed(v, fl), EpReady(v, fl), us = fl.side,
         NEW square \in BoardsOf(v)[Flip(us)][0], NEW m \in Legal(b, square)
  PROVE  /\ RecapturesOn(v, square, m)
         /\ m.from \in Squares /\ Magnitude(v[m.from]) \in Kinds
         /\ m \in PseudolegalMoves(b) /\ Makes(b, m)
<1>1. /\ us \in Colors /\ Flip(us) \in Colors
  BY FlipTwice DEF AreFlags
<1>2. square \in Squares
  BY <1>1, EnemyStands
<1>3. ArrivesBy(b, square, m) /\ m \in PseudolegalMoves(b) /\ Makes(b, m)
  BY DEF Legal, ArrivesBy
<1>4. PICK p \in Kinds : m \in Recaptures(b, p, square)
  BY <1>3, ListedRecapture
<1>5. PICK from : /\ from = m.from /\ from \in Attackers(b, p, square)
                  /\ IsMove(m) /\ m.to = square /\ m.promo = PromotesTo(p, square)
  BY <1>4, RecapturesAre
<1>6. from \in Squares /\ v[from] = Value(us, p)
  BY <1>1, <1>2, <1>5, AttackersAre
<1>7. Magnitude(v[from]) = p
  BY <1>1, <1>6, Codings
<1> QED
  BY <1>3, <1>5, <1>6, <1>7 DEF RecapturesOn

\* The move see() follows the exchange with is the reference's.
LEMMA SameRecapture ==
  ASSUME NEW b, NEW v \in Contents, NEW fl, NEW us, Reads(b, v, fl), AreFlags(fl),
         Homed(v, fl), EpReady(v, fl), us = fl.side,
         NEW square \in BoardsOf(v)[Flip(us)][0]
  PROVE  /\ GenLvaAttackToSquare(b, square) = LeastValued(b, Legal(b, square))
         /\ LeastValued(b, Legal(b, square)) \subseteq Legal(b, square)
         /\ \A m, n \in LeastValued(b, Legal(b, square)) : m = n
<1>1. PICK L : L = Legal(b, square)
  OBVIOUS
<1>2. \A m \in L : m.from \in Squares /\ Magnitude(v[m.from]) \in Kinds
  BY <1>1, LegalAre
<1>3. PICK kind, place : /\ kind = [m \in L |-> Magnitude(v[m.from])]
                         /\ place = [m \in L |-> m.from]
  OBVIOUS
<1>4. kind \in [L -> Kinds] /\ place \in [L -> Squares]
  BY <1>2, <1>3
<1>5. \A m \in L : kind[m] = Magnitude(v[m.from]) /\ place[m] = m.from
  BY <1>3
<1>6. ASSUME NEW p \in Kinds
      PROVE  SelectLegalAttacker(b, p, square) = FirstOf(L, kind, place, p)
  <2>1. \A m : m \in Lawful(b, p, square) <=> m \in L /\ Magnitude(v[m.from]) = p
    BY <1>1, LawfulAre
  <2>2. \A m : m \in Lawful(b, p, square) <=> m \in L /\ kind[m] = p
    BY <1>5, <2>1
  <2>3. SelectLegalAttacker(b, p, square) = FromLowest(Lawful(b, p, square))
    BY DEF SelectLegalAttacker, Lawful
  <2>4. PICK S : S = Lawful(b, p, square)
    OBVIOUS
  <2>5. S \subseteq L /\ \A m \in L : m \in S <=> kind[m] = p
    BY <2>2, <2>4
  <2>6. \A m : m \in FromLowest(S) <=> m \in S /\ \A o \in S : place[m] <= place[o]
    <3>1. \A m : m \in FromLowest(S) <=> m \in S /\ \A o \in S : m.from <= o.from
      BY DEF FromLowest
    <3> QED
      BY <1>5, <2>5, <3>1
  <2> QED
    BY <2>3, <2>4, <2>5, <2>6 DEF FirstOf
<1>7. \A m : m \in GenLvaAttackToSquare(b, square) <=>
               \E p \in Kinds : /\ m \in FirstOf(L, kind, place, p)
                                /\ \A q \in Kinds : FirstOf(L, kind, place, q) # {} => p <= q
  <2>1. PICK selected : selected = [p \in pawn .. king |-> SelectLegalAttacker(b, p, square)]
    OBVIOUS
  <2>2. pawn .. king = Kinds
    BY DEF Kinds, pawn, king
  <2>3. DOMAIN selected = Kinds /\ \A p \in Kinds : selected[p] = FirstOf(L, kind, place, p)
    BY <1>6, <2>1, <2>2
  <2>4. GenLvaAttackToSquare(b, square) = OfLeastPiece(selected)
    BY <2>1 DEF GenLvaAttackToSquare
  <2> QED
    BY <2>3, <2>4 DEF OfLeastPiece
<1>8. \A m : m \in LeastValued(b, L) <=>
               m \in L /\ \A o \in L : 64 * kind[m] + place[m] <= 64 * kind[o] + place[o]
  <2> DEFINE Rank(m) == 64 * Magnitude(b.values[m.from]) + m.from
  <2>1. LeastValued(b, L) = {m \in L : \A o \in L : Rank(m) <= Rank(o)}
    BY DEF LeastValued
  <2>2. ASSUME NEW m \in L
        PROVE  Rank(m) = 64 * kind[m] + place[m]
    BY <1>5 DEF Reads
  <2> HIDE DEF Rank
  <2> QED
    BY <2>1, <2>2
<1>9. GenLvaAttackToSquare(b, square) = LeastValued(b, L)
  <2>1. \A m : (m \in L /\ \A o \in L : 64 * kind[m] + place[m] <= 64 * kind[o] + place[o])
           <=> \E p \in Kinds : /\ m \in FirstOf(L, kind, place, p)
                                /\ \A q \in Kinds : FirstOf(L, kind, place, q) # {} => p <= q
    BY <1>4, RankedByKind
  <2>2. \A m : m \in LeastValued(b, L) <=> m \in GenLvaAttackToSquare(b, square)
    BY <1>7, <1>8, <2>1
  <2> QED
    BY <2>2 DEF GenLvaAttackToSquare, OfLeastPiece, LeastValued
<1>10. LeastValued(b, L) \subseteq L
  BY <1>8
<1>11. ASSUME NEW m \in LeastValued(b, L), NEW n \in LeastValued(b, L)
       PROVE  m = n
  <2>1. m \in L /\ n \in L
    BY <1>10
  <2>2. PICK p \in Kinds, q \in Kinds, x \in Squares, y \in Squares :
          p = kind[m] /\ q = kind[n] /\ x = place[m] /\ y = place[n]
    BY <1>4, <2>1
  <2>3. 64 * p + x <= 64 * q + y /\ 64 * q + y <= 64 * p + x
    BY <1>8, <2>1, <2>2
  <2>4. p \in Int /\ q \in Int /\ x \in 0 .. 63 /\ y \in 0 .. 63
    BY DEF Kinds, Squares
  <2>5. p = q /\ x = y
    BY <2>3, <2>4
  <2>6. RecapturesOn(v, square, m) /\ RecapturesOn(v, square, n)
    BY <1>1, <2>1, LegalAre
  <2>7. m.promo = n.promo /\ m.from = n.from
    BY <1>5, <2>1, <2>2, <2>5, <2>6 DEF RecapturesOn
  <2> QED
    BY <2>6, <2>7 DEF RecapturesOn, IsMove
<1> QED
  BY <1>1, <1>9, <1>10, <1>11

-----------------------------------------------------------------------------
(***************************************************************************)
(* What a half move gains is what it changes on the board.                 *)
(***************************************************************************)
\* What the squares are worth to White.
Worths(v) == [s \in Squares |-> Worth(v[s])]
Scale(v) == Total(Worths(v), Squares)

LEMMA WorthsAre ==
  /\ \A x \in Codes : Worth(x) \in Int
  /\ Worth(empty) = 0
  /\ \A p \in Kinds : materialScore[p] \in Nat
  /\ materialScore[empty] = 0
  /\ \A p \in Kinds : Worth(Value(white, p)) = materialScore[p]
                      /\ Worth(Value(black, p)) = -materialScore[p]
<1>1. /\ materialScore[0] = 0 /\ materialScore[1] = 100 /\ materialScore[2] = 300
      /\ materialScore[3] = 300 /\ materialScore[4] = 500 /\ materialScore[5] = 900
      /\ materialScore[6] = 1000
  BY DEF materialScore, king
<1>2. \A p \in Kinds : materialScore[p] \in Nat
  BY <1>1 DEF Kinds
<1>3. materialScore[empty] = 0 /\ Worth(empty) = 0
  BY <1>1 DEF Worth, empty
<1>4. ASSUME NEW x \in Codes
      PROVE  Worth(x) \in Int
  <2>1. x = 0 \/ x \in Kinds \/ -x \in Kinds
    BY DEF Codes, Kinds
  <2>2. CASE x = 0
    BY <1>3, <2>2 DEF empty
  <2>3. CASE x \in Kinds
    <3>1. ~(x < 0)
      BY <2>3 DEF Kinds
    <3> QED
      BY <1>2, <2>3, <3>1 DEF Worth
  <2>4. CASE -x \in Kinds
    <3>1. PICK y \in Kinds : y = -x
      BY <2>4
    <3>2. x < 0
      BY <3>1 DEF Kinds, Codes
    <3>3. Worth(x) = -materialScore[y]
      BY <3>1, <3>2 DEF Worth
    <3> QED
      BY <1>2, <3>3
  <2> QED
    BY <2>1, <2>2, <2>3, <2>4
<1>5. ASSUME NEW p \in Kinds
      PROVE  Worth(Value(white, p)) = materialScore[p] /\ Worth(Value(black, p)) = -materialScore[p]
  <2>1. Value(white, p) = p /\ Value(black, p) = -p
    BY DEF Value, white, black
  <2>2. ~(p < 0) /\ -p < 0 /\ -(-p) = p
    BY DEF Kinds
  <2> QED
    BY <2>1, <2>2 DEF Worth
<1> QED
  BY <1>2, <1>3, <1>4, <1>5

LEMMA WorthsTyped ==
  ASSUME NEW v \in Contents, NEW S \in SUBSET Squares
  PROVE  IsFiniteSet(S) /\ (\A s \in S : Worths(v)[s] \in Int) /\ Total(Worths(v), S) \in Int
<1>1. IsFiniteSet(S)
  BY FiniteSquares
<1>2. \A s \in S : Worths(v)[s] \in Int
  BY WorthsAre DEF Worths, Contents
<1> QED
  BY <1>1, <1>2, TotalTyped

LEMMA ScalePut ==
  ASSUME NEW v \in Contents, NEW s \in Squares, NEW x \in Codes, NEW w, w = Put(v, s, x)
  PROVE  /\ Scale(v) \in Int /\ w \in Contents
         /\ Scale(w) = Scale(v) - Worth(v[s]) + Worth(x)
<1>1. w \in Contents /\ w[s] = x /\ \A t \in Squares \ {s} : w[t] = v[t]
  BY PutAt
<1>2. PICK f, g : f = Worths(v) /\ g = Worths(w)
  OBVIOUS
<1>3. /\ f[s] = Worth(v[s]) /\ g[s] = Worth(x)
      /\ \A t \in Squares \ {s} : f[t] = g[t]
  BY <1>1, <1>2 DEF Worths
<1>4. PICK rest : rest = Squares \ {s}
  OBVIOUS
<1>5. PICK same : same = [t \in rest |-> t]
  OBVIOUS
<1>6. Total(f, rest) = Total(g, rest)
  <2>1. Image(same, rest) = rest
    BY <1>5 DEF Image
  <2>2. IsFiniteSet(rest) /\ \A t \in rest : f[t] \in Int
    BY <1>2, <1>4, WorthsTyped
  <2>3. \A t \in rest : g[same[t]] = f[t]
    BY <1>3, <1>4, <1>5
  <2>4. \A t, y \in rest : same[t] = same[y] => t = y
    BY <1>5
  <2>5. Total(f, rest) = Total(g, Image(same, rest))
    BY <2>2, <2>3, <2>4, TotalMoved
  <2> QED
    BY <2>1, <2>5
<1>7. IsFiniteSet(Squares) /\ (\A t \in Squares : f[t] \in Int) /\ \A t \in Squares : g[t] \in Int
  BY <1>1, <1>2, WorthsTyped
<1>8. Total(f, Squares) = f[s] + Total(f, rest)
  BY <1>4, <1>7, TotalTakesOut
<1>9. Total(g, Squares) = g[s] + Total(g, rest)
  BY <1>4, <1>7, TotalTakesOut
<1>10. Total(f, rest) \in Int /\ Total(f, Squares) \in Int
  BY <1>2, <1>4, WorthsTyped
<1>11. Worth(v[s]) \in Int /\ Worth(x) \in Int
  BY WorthsAre DEF Contents
<1> QED
  BY <1>1, <1>2, <1>3, <1>6, <1>8, <1>9, <1>10, <1>11 DEF Scale

LEMMA BalanceIs ==
  ASSUME NEW b, NEW c
  PROVE  Balance(b, c) = Forward(c) * Scale(b.values)
<1>1. DOMAIN Worths(b.values) = Squares
  BY DEF Worths
<1>2. PICK f : f = Worths(b.values)
  OBVIOUS
<1>3. Fun!SumFunction(f) = Total(f, Squares)
  BY <1>1, <1>2, Zenon DEF Fun!SumFunction, Fun!SumFunctionOnSet, Fun!FoldFunctionOnSet,
     Fun!MapThenFoldSet, Total, Ext!SumFunctionOnSet, Ext!FoldFunctionOnSet, Ext!MapThenFoldSet
<1> QED
  BY <1>2, <1>3, Zenon DEF Balance, Worths, Scale

LEMMA ScaleArrived ==
  ASSUME NEW v \in Contents, NEW us \in Colors, NEW p \in Kinds, NEW m, Goes(v, us, p, m)
  PROVE  /\ Arrived(v, m) \in Contents /\ Scale(v) \in Int
         /\ Scale(Arrived(v, m)) = Scale(v) - Worth(v[m.to])
<1>1. PICK from, to, x, w, z, r :
        /\ from = m.from /\ to = m.to /\ x = Value(us, p) /\ w = Put(v, to, empty)
        /\ z = Put(w, from, empty) /\ r = Put(z, to, x)
  OBVIOUS
<1>2. from \in Squares /\ to \in Squares /\ from # to /\ v[from] = x /\ x \in Codes
      /\ empty \in Codes
  BY <1>1, AtIsWord, Codings DEF Goes
<1>3. Arrived(v, m) = r
  BY <1>1, <1>2 DEF Arrived
<1>4. /\ w \in Contents /\ w[from] = x /\ w[to] = empty /\ Scale(v) \in Int
      /\ Scale(w) = Scale(v) - Worth(v[to]) + Worth(empty)
  BY <1>1, <1>2, ScalePut, PutAt
<1>5. /\ z \in Contents /\ z[to] = empty
      /\ Scale(z) = Scale(w) - Worth(x) + Worth(empty)
  <2>1. z[to] = empty
    BY <1>1, <1>2, <1>4, PutAt
  <2> QED
    BY <1>1, <1>2, <1>4, <2>1, ScalePut
<1>6. /\ r \in Contents
      /\ Scale(r) = Scale(z) - Worth(empty) + Worth(x)
  BY <1>1, <1>2, <1>5, ScalePut
<1>7. Worth(v[to]) \in Int /\ Worth(x) \in Int /\ Worth(empty) = 0
  BY <1>2, WorthsAre DEF Contents
<1> QED
  BY <1>1, <1>3, <1>4, <1>5, <1>6, <1>7

\* What a move takes, and what a pawn becomes by it.
Swing(v, us, p, m) ==
  IF m.promo = 0 /\ TakesInPassing(v, us, p, m) THEN materialScore[pawn]
  ELSE materialScore[Magnitude(v[m.to])]
         + IF m.promo = 0 THEN 0 ELSE materialScore[m.promo] - materialScore[pawn]

LEMMA WorthOfColour ==
  ASSUME NEW c \in Colors, NEW p \in Kinds
  PROVE  /\ Worth(Value(c, p)) = Forward(c) * materialScore[p]
         /\ Worth(Value(Flip(c), p)) = -(Forward(c) * materialScore[p])
         /\ materialScore[p] \in Nat /\ Worth(Value(c, p)) \in Int
<1>1. materialScore[p] \in Nat /\ Worth(Value(white, p)) = materialScore[p]
      /\ Worth(Value(black, p)) = -materialScore[p]
  BY WorthsAre
<1>2. PICK x \in Nat : x = materialScore[p]
  BY <1>1
<1>3. CASE c = white
  <2>1. Forward(c) = 1 /\ Flip(c) = black
    BY <1>3 DEF Forward, Flip, white, black
  <2>2. Forward(c) * x = x
    BY <2>1
  <2> QED
    BY <1>1, <1>2, <1>3, <2>1, <2>2
<1>4. CASE c = black
  <2>1. Forward(c) = -1 /\ Flip(c) = white
    BY <1>4 DEF Forward, Flip, white, black
  <2>2. Forward(c) * x = -x
    BY <2>1
  <2> QED
    BY <1>1, <1>2, <1>4, <2>1, <2>2
<1> QED
  BY <1>3, <1>4 DEF Colors

LEMMA TakenWorth ==
  ASSUME NEW v \in Contents, NEW us \in Colors, NEW p \in Kinds, NEW m, Goes(v, us, p, m)
  PROVE  /\ Worth(v[m.to]) = -(Forward(us) * materialScore[Magnitude(v[m.to])])
         /\ materialScore[Magnitude(v[m.to])] \in Nat
<1>1. Flip(us) \in Colors
  BY FlipTwice
<1>2. CASE v[m.to] = empty
  <2>1. Magnitude(empty) = empty
    BY DEF Magnitude, empty
  <2>2. Forward(us) * 0 = 0
    BY DEF Forward, Colors
  <2> QED
    BY <1>2, <2>1, <2>2, WorthsAre
<1>3. CASE \E q \in Kinds : q # king /\ v[m.to] = Value(Flip(us), q)
  <2>1. PICK q \in Kinds : v[m.to] = Value(Flip(us), q)
    BY <1>3
  <2>2. Magnitude(v[m.to]) = q
    BY <1>1, <2>1, Codings
  <2> QED
    BY <2>1, <2>2, WorthOfColour
<1> QED
  BY <1>2, <1>3 DEF Goes

LEMMA ScaleAfter ==
  ASSUME NEW v \in Contents, NEW fl, NEW us, NEW p, NEW m, NEW w,
         AreFlags(fl), us = fl.side, Fits(v, fl, p, m), w = After(v, us, p, m)
  PROVE  /\ Scale(v) \in Int /\ Swing(v, us, p, m) \in Int
         /\ Scale(w) = Scale(v) + Forward(us) * Swing(v, us, p, m)
<1>1. PICK from, to, x, r, a, taken :
        /\ from = m.from /\ to = m.to /\ x = Value(us, p) /\ r = Arrived(v, m)
        /\ a = Worth(v[m.to]) /\ taken = materialScore[Magnitude(v[m.to])]
  OBVIOUS
<1>2. /\ us \in Colors /\ p \in Kinds /\ Goes(v, us, p, m) /\ from \in Squares
      /\ to \in Squares /\ from # to /\ v[from] = x /\ Flip(us) \in Colors
  BY <1>1 DEF Fits, AreFlags, Goes, Flip, Colors, white, black
<1>3. r \in Contents /\ Scale(v) \in Int /\ Scale(r) = Scale(v) - a
  BY <1>1, <1>2, ScaleArrived
<1>4. r[to] = x /\ r[from] = empty /\ \A s \in Squares \ {from, to} : r[s] = v[s]
  <2>1. PICK y : y = Put(v, m.to, empty)
    OBVIOUS
  <2> QED
    BY <1>1, <1>2, <2>1, ArrivedAt
<1>5. PICK f : f = Forward(us) /\ (f = 1 \/ f = -1)
  BY <1>2 DEF Forward, Colors
<1>6. a = -(f * taken) /\ taken \in Nat /\ a \in Int
  <2>1. a = -(f * taken) /\ taken \in Nat
    BY <1>1, <1>2, <1>5, TakenWorth
  <2> QED
    BY <1>5, <2>1
<1>7. empty \in Codes /\ x \in Codes /\ Worth(empty) = 0
  BY <1>1, <1>2, AtIsWord, Codings, WorthsAre
<1>8. ASSUME NEW s, s = Swing(v, us, p, m), s \in Int, Scale(w) = Scale(v) + f * s
      PROVE  /\ Scale(v) \in Int /\ Swing(v, us, p, m) \in Int
             /\ Scale(w) = Scale(v) + Forward(us) * Swing(v, us, p, m)
  BY <1>3, <1>5, <1>8
<1>20. PICK base : base = Scale(v)
  OBVIOUS
<1>9. CASE Castles(p, m)
  <2>1. PICK here, there, y, mine :
          /\ here = RookFrom(us, m) /\ there = RookTo(us, m) /\ y = Put(r, here, empty)
          /\ mine = Value(us, rook) /\ w = Put(y, there, mine)
    BY <1>1, <1>9 DEF After
  <2>2. /\ here \in Squares \ {from, to} /\ there \in Squares \ {from, to, here}
        /\ v[here] = mine /\ v[there] = empty /\ v[to] = empty
    BY <1>1, <1>9, <2>1 DEF Fits
  <2>3. mine \in Codes /\ rook \in Kinds /\ Worth(mine) \in Int
    BY <1>2, <2>1, AtIsWord, Codings, KindsApart, WorthsAre
  <2>4. y \in Contents /\ y[there] = empty /\ Scale(y) = Scale(r) - Worth(mine) + Worth(empty)
    <3>1. /\ here \in Squares /\ there \in Squares /\ there # here
          /\ r[here] = mine /\ r[there] = empty
      BY <1>4, <2>2
    <3>2. y \in Contents /\ Scale(y) = Scale(r) - Worth(r[here]) + Worth(empty)
      BY <1>3, <1>7, <2>1, <3>1, ScalePut
    <3>3. y[there] = empty
      BY <1>3, <1>7, <2>1, <3>1, PutAt
    <3> QED
      BY <3>1, <3>2, <3>3
  <2>5. Scale(w) = Scale(y) - Worth(empty) + Worth(mine)
    BY <2>1, <2>2, <2>3, <2>4, ScalePut
  <2>6. taken = 0 /\ a = 0
    BY <1>1, <2>2, WorthsAre DEF Magnitude, empty
  <2>7. p # pawn /\ m.promo = 0
    BY <1>9, KindsApart DEF Castles, Fits
  <2>8. Swing(v, us, p, m) = 0
    BY <1>1, <2>6, <2>7 DEF Swing, TakesInPassing
  <2>9. Scale(w) = Scale(v) + f * 0
    BY <1>3, <1>5, <1>7, <2>3, <2>4, <2>5, <2>6
  <2> QED
    BY <1>8, <2>8, <2>9
<1>10. CASE ~Castles(p, m) /\ m.promo # 0
  <2>1. PICK q, y : q = m.promo /\ y = Value(us, q) /\ w = Put(r, to, y)
    BY <1>1, <1>10 DEF After
  <2>2. p = pawn /\ q \in Kinds /\ pawn \in Kinds
    BY <1>10, <2>1, KindsApart DEF Fits
  <2>3. /\ y \in Codes /\ Worth(y) = f * materialScore[q] /\ materialScore[q] \in Nat
        /\ Worth(x) = f * materialScore[pawn] /\ materialScore[pawn] \in Nat
    BY <1>1, <1>2, <1>5, <2>1, <2>2, Codings, WorthOfColour
  <2>4. PICK i \in Nat, j \in Nat : i = materialScore[q] /\ j = materialScore[pawn]
    BY <2>3
  <2>5. Scale(w) = Scale(r) - Worth(x) + Worth(y)
    BY <1>2, <1>3, <1>4, <2>1, <2>3, ScalePut
  <2>6. Swing(v, us, p, m) = taken + (i - j)
    BY <1>1, <1>10, <2>1, <2>4 DEF Swing
  <2>7. Worth(y) = f * i /\ Worth(x) = f * j
    BY <2>3, <2>4
  <2>8. Scale(w) = Scale(v) + f * (taken + (i - j))
    BY <1>3, <1>5, <1>6, <2>4, <2>5, <2>7
  <2> QED
    BY <1>6, <1>8, <2>4, <2>6, <2>8
<1>11. CASE ~Castles(p, m) /\ m.promo = 0 /\ TakesInPassing(v, us, p, m)
  <2>1. PICK s, y : s = Behind(us, m) /\ y = Value(Flip(us), pawn) /\ w = Put(r, s, empty)
    BY <1>1, <1>11 DEF After
  <2>2. s \in Squares /\ v[s] = y /\ v[to] = empty /\ y # empty /\ pawn \in Kinds
    BY <1>1, <1>2, <1>11, <2>1, KindsApart, Codings DEF Fits, TakesInPassing
  <2>3. s # from /\ s # to /\ r[s] = y
    <3>1. s # to
      BY <2>2
    <3>2. s # from
      BY <1>1, <1>2, <1>11, <2>1, <2>2, Codings, FlipTwice DEF TakesInPassing
    <3> QED
      BY <1>4, <2>2, <3>1, <3>2
  <2>4. PICK j \in Nat : j = materialScore[pawn] /\ Worth(y) = -(f * j)
    BY <1>2, <1>5, <2>1, <2>2, WorthOfColour
  <2>5. Scale(w) = Scale(r) - Worth(y) + Worth(empty)
    BY <1>3, <1>7, <2>1, <2>2, <2>3, ScalePut
  <2>6. Swing(v, us, p, m) = j
    BY <1>11, <2>4 DEF Swing
  <2>7. a = 0
    BY <1>1, <2>2, WorthsAre
  <2>8. Scale(w) = Scale(v) + f * j
    BY <1>3, <1>5, <1>7, <2>4, <2>5, <2>7
  <2> QED
    BY <1>8, <2>6, <2>8
<1>12. CASE ~Castles(p, m) /\ m.promo = 0 /\ ~TakesInPassing(v, us, p, m)
  <2>1. w = r
    BY <1>1, <1>12 DEF After
  <2>2. Swing(v, us, p, m) = taken
    BY <1>1, <1>6, <1>12 DEF Swing
  <2>3. Scale(w) = Scale(v) + f * taken
    BY <1>3, <1>5, <1>6, <2>1
  <2> QED
    BY <1>6, <1>8, <2>2, <2>3
<1> QED
  BY <1>9, <1>10, <1>11, <1>12

LEMMA MenDiffer ==
  ASSUME NEW c \in Colors, NEW p \in Kinds, NEW q \in Kinds, Value(c, p) = Value(c, q)
  PROVE  p = q
BY Codings

\* A move of a pawn is one of its list.
LEMMA PawnsListed ==
  ASSUME NEW b, NEW v \in Contents, NEW fl, NEW us, Reads(b, v, fl), AreFlags(fl),
         Homed(v, fl), us = fl.side, NEW m \in PseudolegalMoves(b), v[m.from] = Value(us, pawn)
  PROVE  m \in PawnMoves(b, us)
<1>1. us \in Colors /\ pawn \in Kinds /\ king \in Kinds /\ pawn # king
  BY KindsApart DEF AreFlags
<1>2. m \in PawnMoves(b, us) \union PieceMoves(b, us) \union CastleMoves(b, us)
  BY DEF PseudolegalMoves, Reads
<1>3. CASE m \in PieceMoves(b, us)
  <2>0. PICK p \in {knight, bishop, rook, queen, king} : \E from \in b.boards[us][p] :
          m \in Moves(from, Attacks(b, p, from) \ (b.occupied \ b.boards[Flip(us)][0]), {0})
    BY <1>3, PieceMovesAre
  <2>1. PICK from \in b.boards[us][p] :
          m \in Moves(from, Attacks(b, p, from) \ (b.occupied \ b.boards[Flip(us)][0]), {0})
    BY <2>0
  <2>2. p \in Kinds /\ p # pawn
    BY DEF Kinds, knight, bishop, rook, queen, king, pawn
  <2>3. m.from = from
    BY <2>1, MovesAre
  <2>4. v[from] = Value(us, p)
    <3>1. b.boards[us][p] = BoardsOf(v)[us][p]
      BY DEF Reads
    <3> QED
      BY <1>1, <2>1, <2>2, <3>1, PiecesRead
  <2> QED
    BY <1>1, <2>2, <2>3, <2>4, MenDiffer
<1>4. CASE m \in CastleMoves(b, us)
  <2>1. v[m.from] = Value(us, king)
    BY <1>4, CastleMovesQuiet
  <2> QED
    BY <1>1, <2>1, MenDiffer
<1> QED
  BY <1>2, <1>3, <1>4

\* Only who takes in passing lands beside its column on an empty square.
LEMMA PassingIsCapture ==
  ASSUME NEW b, NEW v \in Contents, NEW fl, NEW us, Reads(b, v, fl), AreFlags(fl),
         Homed(v, fl), EpReady(v, fl), us = fl.side, NEW m \in PseudolegalMoves(b),
         NEW p, Fits(v, fl, p, m), v[m.to] = empty
  PROVE  MoveIsCapture(b, m) <=> (m.promo = 0 /\ TakesInPassing(v, us, p, m))
<1>1. PICK from, to : from = m.from /\ to = m.to
  OBVIOUS
<1>2. /\ us \in Colors /\ p \in Kinds /\ from \in Squares /\ to \in Squares
      /\ v[from] = Value(us, p) /\ Magnitude(v[from]) = p /\ m # Empty
      /\ b.values = v /\ b.flags = fl /\ pawn \in Kinds
  BY <1>1, ListedAre, Codings, KindsApart DEF Fits, Goes, AreFlags, Reads
<1>3. IsEnPassantMove(b, m) <=> TakesInPassing(v, us, p, m)
  BY <1>1, <1>2 DEF IsEnPassantMove, TakesInPassing
<1>4. MoveIsCapture(b, m) <=>
        fl.ep # 0 /\ to = fl.ep + 8 * Forward(us) /\ TakesInPassing(v, us, p, m)
  BY <1>1, <1>2, <1>3 DEF MoveIsCapture, EnPassantTarget
<1>5. ASSUME TakesInPassing(v, us, p, m)
      PROVE  (fl.ep # 0 /\ to = fl.ep + 8 * Forward(us)) <=> m.promo = 0
  <2>1. p = pawn /\ (to - from) * Forward(us) \in {7, 9}
    BY <1>1, <1>5 DEF TakesInPassing
  <2>2. m \in PawnMoves(b, us)
    BY <1>1, <1>2, <2>1, PawnsListed
  <2>30. PICK f \in b.boards[us][pawn] : \E t \in PawnTargets(b, us, f) :
          m \in Moves(f, {t}, IF Row(t) \in {0, 7} THEN {queen, rook, bishop, knight} ELSE {0})
    BY <2>2, PawnMovesAre
  <2>3. PICK t \in PawnTargets(b, us, f) :
          m \in Moves(f, {t}, IF Row(t) \in {0, 7} THEN {queen, rook, bishop, knight} ELSE {0})
    BY <2>30
  <2>4. f = from /\ t = to
        /\ m.promo \in IF Row(to) \in {0, 7} THEN {queen, rook, bishop, knight} ELSE {0}
    BY <1>1, <2>3, MovesAre
  <2>5. \/ to \in Step(from, Forward(us), 0) /\ to \notin Filled(v)
        \/ /\ to \notin Filled(v) /\ Row(to) = IF us = white THEN 3 ELSE 4
           /\ \E s \in Step(from, Forward(us), 0) :
                s \notin Filled(v) /\ to \in Step(s, Forward(us), 0)
        \/ /\ to \in PawnAttacks[us][from] /\ fl.ep # 0
           /\ to = fl.ep + 8 * Forward(us)
        \/ to \in PawnAttacks[us][from] /\ to \in BoardsOf(v)[Flip(us)][0]
    BY <1>2, <2>3, <2>4, PawnTargetsAre
  <2>6. Forward(us) = 1 \/ Forward(us) = -1
    BY <1>2 DEF Forward, Colors
  <2>7. to \notin Step(from, Forward(us), 0)
    BY <1>2, <2>1, <2>6, StepAhead
  <2>8. ~\E s \in Step(from, Forward(us), 0) : to \in Step(s, Forward(us), 0)
    <3>1. ASSUME NEW s \in Step(from, Forward(us), 0), to \in Step(s, Forward(us), 0)
          PROVE  FALSE
      <4>1. s \in Squares /\ s - from = 8 * Forward(us)
        BY <1>2, <2>6, <3>1, StepAhead
      <4>2. to - s = 8 * Forward(us)
        BY <1>2, <2>6, <3>1, <4>1, StepAhead
      <4> QED
        BY <1>2, <2>1, <2>6, <4>1, <4>2 DEF Squares
    <3> QED
      BY <3>1
  <2>9. to \notin BoardsOf(v)[Flip(us)][0]
    <3>1. Flip(us) \in Colors /\ empty = 0
      BY <1>2, FlipTwice DEF empty
    <3>2. ~(empty * Forward(Flip(us)) > 0)
      BY <3>1 DEF Forward, Colors
    <3> QED
      BY <1>1, <1>2, <3>1, <3>2, BoardsAt
  <2>10. fl.ep # 0 /\ to = fl.ep + 8 * Forward(us)
    BY <2>5, <2>7, <2>8, <2>9
  <2>11. Row(to) \notin {0, 7}
    <3>1. Row(fl.ep) = IF us = white THEN 4 ELSE 3
      BY <2>10 DEF EpReady
    <3>2. PICK e : e = fl.ep /\ e = to - 8 * Forward(us) /\ e \in Int
      BY <1>2, <2>6, <2>10 DEF AreFlags, Squares
    <3> QED
      BY <1>2, <2>6, <3>1, <3>2 DEF Row, Squares, Forward, Colors, white, black
  <2> QED
    BY <2>4, <2>10, <2>11
<1> QED
  BY <1>4, <1>5

\* What see() adds for a half move is what it changes on the board.
LEMMA GainIsChange ==
  ASSUME NEW b, Whole(b), NEW m \in PseudolegalMoves(b), ~Refused(b, m),
         NEW after, after = Applied(b, m), NEW us, us = b.flags.side
  PROVE  /\ Balance(after, us) - Balance(b, us) = Gain(b, m)
         /\ Gain(b, m) \in Int /\ Balance(b, us) \in Int
<1>1. PICK v, fl, ff, cs, u : b = State(v, fl, ff, cs, u) /\ Wholly(v, fl, ff, cs, u)
  BY DEF Whole
<1>2. Reads(b, v, fl) /\ b.values = v /\ b.flags = fl
  BY <1>1 DEF Reads, State, Standing
<1>3. /\ v \in Contents /\ AreFlags(fl) /\ Homed(v, fl) /\ EpReady(v, fl)
      /\ us = fl.side /\ us \in Colors
  BY <1>1, <1>2 DEF Wholly, AreFlags
<1>4. m # Empty
  BY <1>2, <1>3, ListedAre
<1>5. PICK p : Fits(v, fl, p, m)
  BY <1>2, <1>4, GeneratedSuits DEF Suits
<1>6. PICK w : w = After(v, us, p, m)
  OBVIOUS
<1>7. after.values = w
  <2>1. MakesOf(v, fl, ff, cs, u, us, p, m, after)
    BY <1>1, <1>3, <1>4, <1>5, AppliedMove
  <2>2. PICK gl, gf, ds, more : after = State(w, gl, gf, ds, more)
    BY <1>6, <2>1 DEF MakesOf
  <2> QED
    BY <2>2, StateFields
<1>8. /\ Scale(v) \in Int /\ Swing(v, us, p, m) \in Int
      /\ Scale(w) = Scale(v) + Forward(us) * Swing(v, us, p, m)
  BY <1>3, <1>5, <1>6, ScaleAfter
<1>9. Gain(b, m) = Swing(v, us, p, m)
  <2>1. CASE v[m.to] = empty
    <3>1. MoveIsCapture(b, m) <=> m.promo = 0 /\ TakesInPassing(v, us, p, m)
      BY <1>2, <1>3, <1>5, <2>1, PassingIsCapture
    <3>2. Magnitude(v[m.to]) = empty
      BY <2>1 DEF Magnitude, empty
    <3>3. CASE MoveIsCapture(b, m)
      <4>1. Gain(b, m) = materialScore[pawn] + 0
        BY <1>2, <2>1, <3>1, <3>3 DEF Gain
      <4>2. materialScore[pawn] \in Nat
        BY KindsApart, WorthsAre
      <4> QED
        BY <3>1, <3>3, <4>1, <4>2 DEF Swing
    <3>4. CASE ~MoveIsCapture(b, m)
      BY <1>2, <3>1, <3>4 DEF Gain, Swing
    <3> QED
      BY <3>3, <3>4
  <2>2. CASE v[m.to] # empty
    <3>1. ~TakesInPassing(v, us, p, m)
      BY <2>2 DEF TakesInPassing
    <3> QED
      BY <1>2, <2>2, <3>1 DEF Gain, Swing
  <2> QED
    BY <2>1, <2>2
<1>10. Balance(after, us) = Forward(us) * Scale(w) /\ Balance(b, us) = Forward(us) * Scale(v)
  BY <1>2, <1>7, BalanceIs
<1>11. PICK i \in Int, j \in Int : i = Scale(v) /\ j = Swing(v, us, p, m)
  BY <1>8
<1>12. PICK f : f = Forward(us) /\ (f = 1 \/ f = -1)
  BY <1>3 DEF Forward, Colors
<1>13. f * (i + f * j) - f * i = j /\ f * i \in Int
  BY <1>11, <1>12
<1> QED
  BY <1>8, <1>9, <1>10, <1>11, <1>12, <1>13

-----------------------------------------------------------------------------
(***************************************************************************)
(* The exchange, move by move. The calls of see() and the moves of the     *)
(* reference are two sequences side by side; what is returned and what is  *)
(* won are read off from their end. That there are such functions, and     *)
(* what holds of every level, is shown for the smallest or the largest     *)
(* level it would not hold of.                                             *)
(***************************************************************************)
\* After a move the man that made it stands where it went, for the enemy to take.
OnLine(b, square) == Whole(b) /\ square \in BoardsOf(b.values)[Flip(b.flags.side)][0]

LEMMA TakerStands ==
  ASSUME NEW b, Whole(b), NEW m \in PseudolegalMoves(b), ~Refused(b, m),
         NEW after, after = Applied(b, m)
  PROVE  OnLine(after, m.to)
<1>1. PICK v, fl, ff, cs, u : b = State(v, fl, ff, cs, u) /\ Wholly(v, fl, ff, cs, u)
  BY DEF Whole
<1>2. Reads(b, v, fl) /\ b.values = v /\ b.flags = fl
  BY <1>1 DEF Reads, State, Standing
<1>3. PICK us : us = fl.side /\ us \in Colors /\ v \in Contents /\ AreFlags(fl)
  BY <1>1 DEF Wholly, AreFlags
<1>4. m # Empty
  BY <1>2, <1>3, ListedAre
<1>5. Suits(v, fl, m)
  BY <1>2, GeneratedSuits
<1>6. Whole(after)
  BY <1>2, <1>5, WholeApplied
<1>7. PICK p : Fits(v, fl, p, m)
  BY <1>4, <1>5 DEF Suits
<1>8. PICK w : w = After(v, us, p, m)
  OBVIOUS
<1>9. after.values = w /\ after.flags.side = Flip(us)
  <2>1. MakesOf(v, fl, ff, cs, u, us, p, m, after)
    BY <1>1, <1>3, <1>4, <1>7, AppliedMove
  <2>2. PICK gl, gf, ds, more : after = State(w, gl, gf, ds, more) /\ gl.side = Flip(us)
    BY <1>8, <2>1 DEF MakesOf
  <2> QED
    BY <2>2, StateFields
<1>10. PICK to, q : to = m.to /\ to \in Squares /\ q \in Kinds /\ w[to] = Value(us, q)
                    /\ w \in Contents
  <2>1. p \in Kinds /\ m.to \in Squares /\ king \in Kinds
    BY <1>7, KindsApart DEF Fits, Goes
  <2>2. CASE Castles(p, m)
    <3>1. HasCastled(v, fl, us, p, m, w)
      BY <1>3, <1>7, <1>8, <2>2, AfterCastle
    <3> QED
      BY <2>1, <3>1 DEF HasCastled
  <2>3. CASE ~Castles(p, m)
    <3>1. PICK q : q = IF m.promo # 0 THEN m.promo ELSE p
      OBVIOUS
    <3>2. w \in Contents /\ w[m.to] = Value(us, q)
          /\ (m.promo # 0 => p = pawn /\ m.promo \in Kinds \ {pawn, king})
      BY <1>3, <1>7, <1>8, <2>3, <3>1, AfterOther
    <3> QED
      BY <2>1, <3>1, <3>2
  <2> QED
    BY <2>2, <2>3
<1>11. Value(us, q) * Forward(us) > 0
  BY <1>3, <1>10, Codings
<1>12. to \in BoardsOf(w)[us][0]
  BY <1>3, <1>10, <1>11, BoardsAt
<1>13. Flip(Flip(us)) = us
  BY <1>3, FlipTwice
<1> QED
  BY <1>6, <1>9, <1>10, <1>12, <1>13 DEF OnLine

LEMMA FollowsUp ==
  ASSUME NEW b, NEW square, OnLine(b, square)
  PROVE  /\ GenLvaAttackToSquare(b, square) = LeastValued(b, Legal(b, square))
         /\ \A m, n \in GenLvaAttackToSquare(b, square) : m = n
         /\ \A m \in GenLvaAttackToSquare(b, square) :
              /\ m \in PseudolegalMoves(b) /\ ~Refused(b, m)
              /\ OnLine(Applied(b, m), square)
<1>1. PICK v, fl, ff, cs, u : b = State(v, fl, ff, cs, u) /\ Wholly(v, fl, ff, cs, u)
  BY DEF OnLine, Whole
<1>2. Reads(b, v, fl) /\ b.values = v /\ b.flags = fl
  BY <1>1 DEF Reads, State, Standing
<1>3. PICK us : /\ us = fl.side /\ v \in Contents /\ AreFlags(fl) /\ Homed(v, fl)
                /\ EpReady(v, fl)
  BY <1>1 DEF Wholly
<1>4. square \in BoardsOf(v)[Flip(us)][0]
  BY <1>2, <1>3 DEF OnLine
<1>5. /\ GenLvaAttackToSquare(b, square) = LeastValued(b, Legal(b, square))
      /\ LeastValued(b, Legal(b, square)) \subseteq Legal(b, square)
      /\ \A m, n \in LeastValued(b, Legal(b, square)) : m = n
  BY <1>2, <1>3, <1>4, SameRecapture
<1>6. ASSUME NEW m \in Legal(b, square)
      PROVE  m \in PseudolegalMoves(b) /\ ~Refused(b, m) /\ OnLine(Applied(b, m), square)
  <2>1. m \in PseudolegalMoves(b) /\ ~Refused(b, m) /\ m.to = square
    BY DEF Legal, Makes
  <2>2. Whole(b)
    BY DEF OnLine
  <2> QED
    BY <2>1, <2>2, TakerStands
<1> QED
  BY <1>5, <1>6

NextCalls(calls, square) ==
  UNION {{Forced(call.after, reply, -call.score) :
            reply \in GenLvaAttackToSquare(call.after, square)} : call \in calls}
NextTurns(turns, square) ==
  UNION {{[before |-> turn.after, after |-> Applied(turn.after, m)] :
            m \in LeastValued(turn.after, Legal(turn.after, square))} : turn \in turns}

\* The calls of see() and the moves of the reference belong together: one of
\* each, for the same board after it, or none.
Linked(calls, turns, square, score, gain) ==
  \E before, after :
    /\ calls = {[after |-> after, score |-> score]}
    /\ turns = {[before |-> before, after |-> after]}
    /\ OnLine(after, square) /\ score \in Int /\ gain \in Int
    /\ gain = Balance(after, before.flags.side) - Balance(before, before.flags.side)

LEMMA FirstLinked ==
  ASSUME NEW b, Whole(b), NEW m \in PseudolegalMoves(b), ~Refused(b, m), NEW score \in Int
  PROVE  \E gain \in Int :
           Linked({Forced(b, m, score)}, {[before |-> b, after |-> Applied(b, m)]}, m.to,
                  score + gain, gain)
<1>1. PICK after, us, square : after = Applied(b, m) /\ us = b.flags.side /\ square = m.to
  OBVIOUS
<1>2. PICK gain \in Int : gain = Gain(b, m) /\ Balance(after, us) - Balance(b, us) = gain
  BY <1>1, GainIsChange
<1>3. OnLine(after, square)
  BY <1>1, TakerStands
<1>4. Forced(b, m, score) = [after |-> after, score |-> score + gain]
  BY <1>1, <1>2 DEF Forced
<1>5. Linked({[after |-> after, score |-> score + gain]}, {[before |-> b, after |-> after]},
             square, score + gain, gain)
  <2>1. score + gain \in Int
    BY <1>2
  <2> QED
    BY <1>1, <1>2, <1>3, <2>1 DEF Linked
<1> QED
  BY <1>1, <1>2, <1>4, <1>5

LEMMA NextLinked ==
  ASSUME NEW calls, NEW turns, NEW square, NEW score, NEW gain,
         Linked(calls, turns, square, score, gain)
  PROVE  \/ NextCalls(calls, square) = {} /\ NextTurns(turns, square) = {}
         \/ \E next \in Int : Linked(NextCalls(calls, square), NextTurns(turns, square), square,
                                    next - score, next)
<1>1. PICK before, after :
        /\ calls = {[after |-> after, score |-> score]}
        /\ turns = {[before |-> before, after |-> after]}
        /\ OnLine(after, square) /\ score \in Int
  BY DEF Linked
<1>2. PICK replies : replies = GenLvaAttackToSquare(after, square)
  OBVIOUS
<1>3. /\ replies = LeastValued(after, Legal(after, square))
      /\ \A m, n \in replies : m = n
      /\ \A m \in replies : m \in PseudolegalMoves(after) /\ ~Refused(after, m)
  BY <1>1, <1>2, FollowsUp
<1>4. NextCalls(calls, square) = {Forced(after, reply, -score) : reply \in replies}
  BY <1>1, <1>2 DEF NextCalls
<1>5. NextTurns(turns, square) = {[before |-> after, after |-> Applied(after, m)] : m \in replies}
  BY <1>1, <1>3 DEF NextTurns
<1>6. CASE replies = {}
  BY <1>4, <1>5, <1>6
<1>7. CASE replies # {}
  <2>1. PICK m : m \in replies
    BY <1>7
  <2>2. replies = {m}
    BY <1>3, <2>1
  <2>3. NextCalls(calls, square) = {Forced(after, m, -score)}
    BY <1>4, <2>2
  <2>4. NextTurns(turns, square) = {[before |-> after, after |-> Applied(after, m)]}
    BY <1>5, <2>2
  <2>5. m.to = square
    BY <1>3, <2>1, <1>2 DEF LeastValued, Legal
  <2>6. PICK s \in Int : s = -score
    BY <1>1
  <2>7. PICK next \in Int :
          Linked({Forced(after, m, s)}, {[before |-> after, after |-> Applied(after, m)]},
                 m.to, s + next, next)
    <3>1. Whole(after) /\ m \in PseudolegalMoves(after) /\ ~Refused(after, m)
      BY <1>1, <1>3, <2>1 DEF OnLine
    <3> QED
      BY <3>1, FirstLinked
  <2>8. s + next = next - score
    BY <1>1, <2>6
  <2> QED
    BY <2>3, <2>4, <2>5, <2>6, <2>7, <2>8
<1> QED
  BY <1>6, <1>7

LEMMA LinkedAre ==
  ASSUME NEW calls, NEW turns, NEW square, NEW score, NEW gain,
         Linked(calls, turns, square, score, gain)
  PROVE  /\ calls # {} /\ turns # {} /\ score \in Int /\ gain \in Int
         /\ (CHOOSE call \in calls : TRUE).score = score
         /\ \A turn : turn = (CHOOSE x \in turns : TRUE) =>
              Balance(turn.after, turn.before.flags.side)
                - Balance(turn.before, turn.before.flags.side) = gain
<1>1. PICK before, after :
        /\ calls = {[after |-> after, score |-> score]}
        /\ turns = {[before |-> before, after |-> after]}
        /\ score \in Int /\ gain \in Int
        /\ gain = Balance(after, before.flags.side) - Balance(before, before.flags.side)
  BY DEF Linked
<1>2. PICK c, t : c = [after |-> after, score |-> score] /\ t = [before |-> before, after |-> after]
  OBVIOUS
<1>3. \A x : (CHOOSE y \in {x} : TRUE) = x
  OBVIOUS
<1>4. (CHOOSE call \in calls : TRUE) = c /\ (CHOOSE x \in turns : TRUE) = t
  BY <1>1, <1>2, <1>3
<1>5. c.score = score /\ t.before = before /\ t.after = after
  BY <1>2
<1> QED
  BY <1>1, <1>4, <1>5

\* The four functions of the exchange, by what they are chosen for.
CallsTo(first, square, N, f) ==
  f = [n \in 0 .. N |-> IF n = 0 THEN first ELSE NextCalls(f[n - 1], square)]
CallsUp(b, m, score, f) == CallsTo({Forced(b, m, score)}, m.to, Longest, f)

TurnsTo(first, square, N, f) ==
  f = [n \in 0 .. N |-> IF n = 0 THEN first ELSE NextTurns(f[n - 1], square)]
TurnsUp(b, m, f) ==
  TurnsTo({[before |-> b, after |-> Applied(b, m)]}, m.to, Longest, f)

OwnScore(calls) == (CHOOSE call \in calls : TRUE).score
ReturnsTo(calls, N, f) ==
  f = [n \in 0 .. N |->
         IF n = N \/ calls[n + 1] = {} THEN OwnScore(calls[n])
         ELSE BetterReply(OwnScore(calls[n]), -f[n + 1])]

ChangeOf(turn) ==
  Balance(turn.after, turn.before.flags.side) - Balance(turn.before, turn.before.flags.side)
Wins(change, reply) == IF reply > 0 THEN change - reply ELSE change
WinsTo(turns, N, f) ==
  f = [n \in 0 .. N |->
         Wins(ChangeOf(CHOOSE turn \in turns[n] : TRUE),
              IF n = N \/ turns[n + 1] = {} THEN 0 ELSE f[n + 1])]

LEMMA CallsAre ==
  ASSUME NEW b, NEW m, NEW score
  PROVE  Calls(b, m, score) = CHOOSE f : CallsUp(b, m, score, f)
BY Zenon DEF Calls, CallsUp, CallsTo, NextCalls

LEMMA TurnsAre ==
  ASSUME NEW b, NEW m
  PROVE  Recapturings(b, m) = CHOOSE f : TurnsUp(b, m, f)
BY Zenon DEF Recapturings, TurnsUp, TurnsTo, NextTurns

LEMMA SeeIs ==
  ASSUME NEW b, NEW m, NEW score, Makes(b, m)
  PROVE  See(b, m, score) = (CHOOSE f : ReturnsTo(Calls(b, m, score), Longest, f))[0]
BY Zenon DEF See, Answers, ReturnsTo, OwnScore

LEMMA SwapOffIs ==
  ASSUME NEW b, NEW m
  PROVE  SwapOff(b, m) = (CHOOSE f : WinsTo(Recapturings(b, m), Longest, f))[0]
BY Zenon DEF SwapOff, Won, WinsTo, Wins, ChangeOf

LEMMA CallsExist ==
  ASSUME NEW first, NEW square, NEW N \in Nat
  PROVE  \E f : CallsTo(first, square, N, f)
<1> DEFINE To(k, f) ==
      f = [n \in 0 .. k |-> IF n = 0 THEN first ELSE NextCalls(f[n - 1], square)]
<1>1. \E f : To(0, f)
  <2>1. PICK f : f = [n \in 0 .. 0 |-> first]
    OBVIOUS
  <2>2. To(0, f)
    BY <2>1
  <2> QED
    BY <2>2
<1>2. ASSUME NEW k \in Nat, NEW f, To(k, f)
      PROVE  \E g : To(k + 1, g)
  <2>1. PICK g : g = [n \in 0 .. k + 1 |->
                        IF n = 0 THEN first ELSE NextCalls(f[n - 1], square)]
    OBVIOUS
  <2>2. ASSUME NEW n \in 0 .. k
        PROVE  g[n] = f[n]
    <3>1. n \in 0 .. k + 1
      OBVIOUS
    <3> QED
      BY <1>2, <2>1, <3>1
  <2>3. ASSUME NEW n \in 0 .. k + 1, n # 0
        PROVE  g[n - 1] = f[n - 1]
    <3>1. n - 1 \in 0 .. k
      BY <2>3
    <3> QED
      BY <2>2, <3>1
  <2>4. g = [n \in 0 .. k + 1 |-> IF n = 0 THEN first ELSE NextCalls(g[n - 1], square)]
    BY <2>1, <2>3
  <2> QED
    BY <2>4
<1> HIDE DEF To
<1>3. PICK bad : bad = {k \in Nat : ~\E f : To(k, f)}
  OBVIOUS
<1>4. CASE bad # {}
  <2>1. bad \subseteq Nat
    BY <1>3
  <2>2. PICK k \in bad : \A j \in bad : k <= j
    BY <1>4, <2>1, LowestExists
  <2>3. k \in Nat /\ k # 0 /\ ~\E f : To(k, f)
    BY <1>1, <1>3
  <2>4. PICK j \in Nat : j = k - 1 /\ k = j + 1
    BY <2>3
  <2>5. j \notin bad
    BY <2>2, <2>3, <2>4
  <2>6. PICK f : To(j, f)
    BY <1>3, <2>5
  <2>7. \E g : To(j + 1, g)
    BY <1>2, <2>6
  <2> QED
    BY <2>3, <2>4, <2>7
<1>5. CASE bad = {}
  <2>1. PICK f : To(N, f)
    BY <1>3, <1>5
  <2> QED
    BY <2>1 DEF To, CallsTo
<1> QED
  BY <1>4, <1>5

LEMMA TurnsExist ==
  ASSUME NEW first, NEW square, NEW N \in Nat
  PROVE  \E f : TurnsTo(first, square, N, f)
<1> DEFINE To(k, f) ==
      f = [n \in 0 .. k |-> IF n = 0 THEN first ELSE NextTurns(f[n - 1], square)]
<1>1. \E f : To(0, f)
  <2>1. PICK f : f = [n \in 0 .. 0 |-> first]
    OBVIOUS
  <2>2. To(0, f)
    BY <2>1
  <2> QED
    BY <2>2
<1>2. ASSUME NEW k \in Nat, NEW f, To(k, f)
      PROVE  \E g : To(k + 1, g)
  <2>1. PICK g : g = [n \in 0 .. k + 1 |->
                        IF n = 0 THEN first ELSE NextTurns(f[n - 1], square)]
    OBVIOUS
  <2>2. ASSUME NEW n \in 0 .. k
        PROVE  g[n] = f[n]
    <3>1. n \in 0 .. k + 1
      OBVIOUS
    <3> QED
      BY <1>2, <2>1, <3>1
  <2>3. ASSUME NEW n \in 0 .. k + 1, n # 0
        PROVE  g[n - 1] = f[n - 1]
    <3>1. n - 1 \in 0 .. k
      BY <2>3
    <3> QED
      BY <2>2, <3>1
  <2>4. g = [n \in 0 .. k + 1 |-> IF n = 0 THEN first ELSE NextTurns(g[n - 1], square)]
    BY <2>1, <2>3
  <2> QED
    BY <2>4
<1> HIDE DEF To
<1>3. PICK bad : bad = {k \in Nat : ~\E f : To(k, f)}
  OBVIOUS
<1>4. CASE bad # {}
  <2>1. bad \subseteq Nat
    BY <1>3
  <2>2. PICK k \in bad : \A j \in bad : k <= j
    BY <1>4, <2>1, LowestExists
  <2>3. k \in Nat /\ k # 0 /\ ~\E f : To(k, f)
    BY <1>1, <1>3
  <2>4. PICK j \in Nat : j = k - 1 /\ k = j + 1
    BY <2>3
  <2>5. j \notin bad
    BY <2>2, <2>3, <2>4
  <2>6. PICK f : To(j, f)
    BY <1>3, <2>5
  <2>7. \E g : To(j + 1, g)
    BY <1>2, <2>6
  <2> QED
    BY <2>3, <2>4, <2>7
<1>5. CASE bad = {}
  <2>1. PICK f : To(N, f)
    BY <1>3, <1>5
  <2> QED
    BY <2>1 DEF To, TurnsTo
<1> QED
  BY <1>4, <1>5

LEMMA ReturnsExist ==
  ASSUME NEW calls, NEW N \in Nat
  PROVE  \E f : ReturnsTo(calls, N, f)
<1> DEFINE From(k, f) == f = [n \in k .. N |-> IF n = N \/ calls[n + 1] = {} THEN OwnScore(calls[n])
           ELSE BetterReply(OwnScore(calls[n]), -f[n + 1])]
<1>1. \E f : From(N, f)
  <2>1. PICK f : f = [n \in N .. N |-> OwnScore(calls[n])]
    OBVIOUS
  <2>2. From(N, f)
    BY <2>1
  <2> QED
    BY <2>2
<1>2. ASSUME NEW k \in 0 .. N, k # N, NEW f, From(k + 1, f)
      PROVE  \E g : From(k, g)
  <2>1. PICK g : g = [n \in k .. N |-> IF n = N \/ calls[n + 1] = {} THEN OwnScore(calls[n])
           ELSE BetterReply(OwnScore(calls[n]), -f[n + 1])]
    OBVIOUS
  <2>2. ASSUME NEW n \in k + 1 .. N
        PROVE  g[n] = f[n]
    <3>1. n \in k .. N
      OBVIOUS
    <3> QED
      BY <1>2, <2>1, <3>1
  <2>3. ASSUME NEW n \in k .. N, n # N
        PROVE  g[n + 1] = f[n + 1]
    <3>1. n + 1 \in k + 1 .. N
      BY <2>3
    <3> QED
      BY <2>2, <3>1
  <2>4. g = [n \in k .. N |-> IF n = N \/ calls[n + 1] = {} THEN OwnScore(calls[n])
           ELSE BetterReply(OwnScore(calls[n]), -g[n + 1])]
    BY <2>1, <2>3
  <2> QED
    BY <2>4
<1> HIDE DEF From
<1>3. PICK bad : bad = {k \in 0 .. N : ~\E f : From(k, f)}
  OBVIOUS
<1>4. CASE bad # {}
  <2>1. bad \subseteq 0 .. N
    BY <1>3
  <2>2. PICK k \in bad : \A j \in bad : j <= k
    BY <1>4, <2>1, HighestExists
  <2>3. k \in 0 .. N /\ k # N /\ ~\E f : From(k, f)
    BY <1>1, <1>3
  <2>4. k + 1 \in 0 .. N /\ k + 1 \notin bad
    BY <2>2, <2>3
  <2>5. PICK f : From(k + 1, f)
    BY <1>3, <2>4
  <2> QED
    BY <1>2, <2>3, <2>5
<1>5. CASE bad = {}
  <2>1. 0 \in 0 .. N
    OBVIOUS
  <2>2. PICK f : From(0, f)
    BY <1>3, <1>5, <2>1
  <2> QED
    BY <2>2 DEF From, ReturnsTo
<1> QED
  BY <1>4, <1>5

LEMMA WinsExist ==
  ASSUME NEW turns, NEW N \in Nat
  PROVE  \E f : WinsTo(turns, N, f)
<1> DEFINE Reply(n, f) == IF n = N \/ turns[n + 1] = {} THEN 0 ELSE f[n + 1]
<1> DEFINE From(k, f) == f = [n \in k .. N |-> Wins(ChangeOf(CHOOSE turn \in turns[n] : TRUE),
           IF n = N \/ turns[n + 1] = {} THEN 0 ELSE f[n + 1])]
<1>1. \E f : From(N, f)
  <2>1. PICK f : f = [n \in N .. N |-> Wins(ChangeOf(CHOOSE turn \in turns[n] : TRUE), 0)]
    OBVIOUS
  <2>2. From(N, f)
    BY <2>1
  <2> QED
    BY <2>2
<1>2. ASSUME NEW k \in 0 .. N, k # N, NEW f, From(k + 1, f)
      PROVE  \E g : From(k, g)
  <2>1. PICK g : g = [n \in k .. N |-> Wins(ChangeOf(CHOOSE turn \in turns[n] : TRUE),
           IF n = N \/ turns[n + 1] = {} THEN 0 ELSE f[n + 1])]
    OBVIOUS
  <2>2. ASSUME NEW n \in k + 1 .. N
        PROVE  g[n] = f[n]
    <3>1. n \in k .. N
      OBVIOUS
    <3> QED
      BY <1>2, <2>1, <3>1
  <2>3. ASSUME NEW n \in k .. N, n # N
        PROVE  g[n + 1] = f[n + 1]
    <3>1. n + 1 \in k + 1 .. N
      BY <2>3
    <3> QED
      BY <2>2, <3>1
  <2>4. ASSUME NEW n \in k .. N
        PROVE  g[n] = Wins(ChangeOf(CHOOSE turn \in turns[n] : TRUE), Reply(n, g))
    <3>1. Reply(n, f) = Reply(n, g)
      <4>1. CASE n = N
        BY <4>1
      <4>2. CASE n # N
        BY <2>3, <4>2
      <4> QED
        BY <4>1, <4>2
    <3>2. g[n] = Wins(ChangeOf(CHOOSE turn \in turns[n] : TRUE), Reply(n, f))
      BY <2>1
    <3> QED
      BY <3>1, <3>2
  <2>5. g = [n \in k .. N |-> Wins(ChangeOf(CHOOSE turn \in turns[n] : TRUE), Reply(n, g))]
    <3>1. g = [n \in k .. N |-> g[n]]
      BY <2>1
    <3> HIDE DEF Reply
    <3> QED
      BY <2>4, <3>1, Zenon
  <2>6. From(k, g)
    BY <2>5
  <2> QED
    BY <2>6
<1> HIDE DEF From
<1>3. PICK bad : bad = {k \in 0 .. N : ~\E f : From(k, f)}
  OBVIOUS
<1>4. CASE bad # {}
  <2>1. bad \subseteq 0 .. N
    BY <1>3
  <2>2. PICK k \in bad : \A j \in bad : j <= k
    BY <1>4, <2>1, HighestExists
  <2>3. k \in 0 .. N /\ k # N /\ ~\E f : From(k, f)
    BY <1>1, <1>3
  <2>4. k + 1 \in 0 .. N /\ k + 1 \notin bad
    BY <2>2, <2>3
  <2>5. PICK f : From(k + 1, f)
    BY <1>3, <2>4
  <2> QED
    BY <1>2, <2>3, <2>5
<1>5. CASE bad = {}
  <2>1. 0 \in 0 .. N
    OBVIOUS
  <2>2. PICK f : From(0, f)
    BY <1>3, <1>5, <2>1
  <2> QED
    BY <2>2 DEF From, WinsTo
<1> QED
  BY <1>4, <1>5

Together(calls, turns, square) ==
  \/ calls = {} /\ turns = {}
  \/ \E score, gain : Linked(calls, turns, square, score, gain)

LEMMA TogetherNext ==
  ASSUME NEW calls, NEW turns, NEW square, Together(calls, turns, square)
  PROVE  Together(NextCalls(calls, square), NextTurns(turns, square), square)
<1>1. CASE calls = {} /\ turns = {}
  <2>1. NextCalls(calls, square) = {} /\ NextTurns(turns, square) = {}
    BY <1>1 DEF NextCalls, NextTurns
  <2> QED
    BY <2>1 DEF Together
<1>2. CASE \E score, gain : Linked(calls, turns, square, score, gain)
  <2>1. PICK score, gain : Linked(calls, turns, square, score, gain)
    BY <1>2
  <2> QED
    BY <2>1, NextLinked DEF Together
<1> QED
  BY <1>1, <1>2 DEF Together

\* What a call returns: the score it was given, and what its mover wins.
LEMMA SeeExact ==
  ASSUME NEW b, Whole(b), NEW m \in PseudolegalMoves(b), Makes(b, m), NEW score \in Int
  PROVE  See(b, m, score) = score + SwapOff(b, m)
<1>0. Longest = 64 /\ Longest \in Nat
  BY DEF Longest
<1>1. PICK square : square = m.to
  OBVIOUS
<1>2. PICK calls : calls = Calls(b, m, score) /\ CallsUp(b, m, score, calls)
  <2>1. PICK first, to : first = {Forced(b, m, score)} /\ to = m.to
    OBVIOUS
  <2>2. PICK f : CallsTo(first, to, Longest, f)
    BY <1>0, CallsExist
  <2>3. CallsUp(b, m, score, f)
    BY <2>1, <2>2 DEF CallsUp
  <2> QED
    BY <2>3, CallsAre
<1>3. PICK turns : turns = Recapturings(b, m) /\ TurnsUp(b, m, turns)
  <2>1. PICK first, to : first = {[before |-> b, after |-> Applied(b, m)]} /\ to = m.to
    OBVIOUS
  <2>2. PICK f : TurnsTo(first, to, Longest, f)
    BY <1>0, TurnsExist
  <2>3. TurnsUp(b, m, f)
    BY <2>1, <2>2 DEF TurnsUp
  <2> QED
    BY <2>3, TurnsAre
<1>4. PICK returned : returned[0] = See(b, m, score) /\ ReturnsTo(calls, Longest, returned)
  <2>1. PICK f : ReturnsTo(calls, Longest, f)
    BY <1>0, ReturnsExist
  <2> QED
    BY <1>2, <2>1, SeeIs
<1>5. PICK won : won[0] = SwapOff(b, m) /\ WinsTo(turns, Longest, won)
  <2>1. PICK f : WinsTo(turns, Longest, f)
    BY <1>0, WinsExist
  <2> QED
    BY <1>3, <2>1, SwapOffIs
<1>6. PICK gain \in Int : Linked(calls[0], turns[0], square, score + gain, gain)
  <2>1. calls[0] = {Forced(b, m, score)}
    BY <1>0, <1>2 DEF CallsUp, CallsTo
  <2>2. turns[0] = {[before |-> b, after |-> Applied(b, m)]}
    BY <1>0, <1>3 DEF TurnsUp, TurnsTo
  <2>3. ~Refused(b, m)
    BY DEF Makes
  <2> QED
    BY <1>1, <2>1, <2>2, <2>3, FirstLinked
<1>7. ASSUME NEW n \in 0 .. Longest, n # Longest
      PROVE  /\ n + 1 \in 0 .. Longest /\ calls[n + 1] = NextCalls(calls[n], square)
             /\ turns[n + 1] = NextTurns(turns[n], square)
  <2>1. n + 1 \in 0 .. Longest /\ n + 1 # 0 /\ (n + 1) - 1 = n
    BY <1>0, <1>7
  <2>2. calls[n + 1] = NextCalls(calls[(n + 1) - 1], square)
    BY <1>1, <1>2, <2>1 DEF CallsUp, CallsTo
  <2>3. turns[n + 1] = NextTurns(turns[(n + 1) - 1], square)
    BY <1>1, <1>3, <2>1 DEF TurnsUp, TurnsTo
  <2> QED
    BY <2>1, <2>2, <2>3
<1>8. ASSUME NEW n \in 0 .. Longest
      PROVE  Together(calls[n], turns[n], square)
  <2>1. PICK bad : bad = {k \in 0 .. Longest : ~Together(calls[k], turns[k], square)}
    OBVIOUS
  <2>2. CASE bad # {}
    <3>1. bad \subseteq Nat
      BY <1>0, <2>1
    <3>2. PICK k \in bad : \A j \in bad : k <= j
      BY <2>2, <3>1, LowestExists
    <3>3. k \in 0 .. Longest /\ ~Together(calls[k], turns[k], square)
      BY <2>1
    <3>4. k # 0
      BY <1>6, <3>3 DEF Together
    <3>5. PICK j \in 0 .. Longest : k = j + 1 /\ j # Longest
      <4>1. k - 1 \in 0 .. Longest /\ k = (k - 1) + 1 /\ k - 1 # Longest
        BY <1>0, <3>3, <3>4
      <4> QED
        BY <4>1
    <3>6. Together(calls[j], turns[j], square)
      BY <1>0, <2>1, <3>2, <3>5
    <3>7. Together(NextCalls(calls[j], square), NextTurns(turns[j], square), square)
      BY <3>6, TogetherNext
    <3> QED
      BY <1>7, <3>3, <3>5, <3>7
  <2>3. CASE bad = {}
    BY <2>1, <2>3
  <2> QED
    BY <2>2, <2>3
<1> DEFINE Exact(n) ==
      \A s, g : Linked(calls[n], turns[n], square, s, g) =>
        returned[n] \in Int /\ won[n] \in Int /\ returned[n] = s - g + won[n]
<1>9. ASSUME NEW n \in 0 .. Longest, n # Longest => Exact(n + 1)
      PROVE  Exact(n)
  <2> SUFFICES ASSUME NEW s, NEW g, Linked(calls[n], turns[n], square, s, g)
               PROVE  returned[n] \in Int /\ won[n] \in Int /\ returned[n] = s - g + won[n]
    OBVIOUS
  <2>1. s \in Int /\ g \in Int /\ OwnScore(calls[n]) = s
        /\ ChangeOf(CHOOSE turn \in turns[n] : TRUE) = g
    BY LinkedAre DEF OwnScore, ChangeOf
  <2>2. CASE n = Longest
    <3>1. returned[n] = s
      BY <1>4, <2>1, <2>2 DEF ReturnsTo
    <3>2. won[n] = Wins(g, 0)
      BY <1>5, <2>1, <2>2 DEF WinsTo
    <3>3. Wins(g, 0) = g
      BY DEF Wins
    <3> QED
      BY <2>1, <3>1, <3>2, <3>3
  <2>3. CASE n # Longest /\ calls[n + 1] = {}
    <3>1. n + 1 \in 0 .. Longest
      BY <1>7, <2>3
    <3>2. turns[n + 1] = {}
      <4>1. Together(calls[n + 1], turns[n + 1], square)
        BY <1>8, <3>1
      <4> QED
        BY <2>3, <4>1, LinkedAre DEF Together
    <3>3. returned[n] = s
      BY <1>4, <2>1, <2>3 DEF ReturnsTo
    <3>4. won[n] = Wins(g, 0)
      BY <1>5, <2>1, <3>2 DEF WinsTo
    <3>5. Wins(g, 0) = g
      BY DEF Wins
    <3> QED
      BY <2>1, <3>3, <3>4, <3>5
  <2>4. CASE n # Longest /\ calls[n + 1] # {}
    <3>1. /\ n + 1 \in 0 .. Longest /\ calls[n + 1] = NextCalls(calls[n], square)
          /\ turns[n + 1] = NextTurns(turns[n], square)
      BY <1>7, <2>4
    <3>2. PICK h \in Int : Linked(calls[n + 1], turns[n + 1], square, h - s, h)
      BY <2>4, <3>1, NextLinked
    <3>3. turns[n + 1] # {}
      BY <3>2, LinkedAre
    <3>4. PICK r \in Int, w \in Int : r = returned[n + 1] /\ w = won[n + 1] /\ r = (h - s) - h + w
      BY <1>9, <2>4, <3>2
    <3>5. r = w - s
      BY <2>1, <3>4
    <3>6. returned[n] = BetterReply(s, -r)
      BY <1>4, <2>1, <2>4, <3>4 DEF ReturnsTo
    <3>7. won[n] = Wins(g, w)
      BY <1>5, <2>1, <2>4, <3>3, <3>4 DEF WinsTo
    <3>8. /\ BetterReply(s, -r) = s - g + Wins(g, w)
          /\ BetterReply(s, -r) \in Int /\ Wins(g, w) \in Int
      <4>1. -r = s - w
        BY <2>1, <3>4, <3>5
      <4> QED
        BY <2>1, <3>4, <4>1 DEF BetterReply, Wins
    <3> QED
      BY <3>6, <3>7, <3>8
  <2> QED
    BY <2>2, <2>3, <2>4
<1> HIDE DEF Exact
<1>10. Exact(0)
  <2>1. PICK bad : bad = {k \in 0 .. Longest : ~Exact(k)}
    OBVIOUS
  <2>2. CASE bad # {}
    <3>1. PICK k \in bad : \A j \in bad : j <= k
      BY <1>0, <2>1, <2>2, HighestExists
    <3>2. k \in 0 .. Longest /\ ~Exact(k)
      BY <2>1
    <3>3. k # Longest => Exact(k + 1)
      BY <1>0, <2>1, <3>1, <3>2
    <3> QED
      BY <1>9, <3>2, <3>3
  <2>3. CASE bad = {}
    BY <1>0, <2>1, <2>3
  <2> QED
    BY <2>2, <2>3
<1>11. returned[0] \in Int /\ won[0] \in Int /\ returned[0] = (score + gain) - gain + won[0]
  BY <1>6, <1>10 DEF Exact
<1>12. PICK r \in Int, w \in Int : r = returned[0] /\ w = won[0]
  BY <1>11
<1>13. r = (score + gain) - gain + w
  BY <1>11, <1>12
<1>14. r = score + w
  BY <1>13
<1> QED
  BY <1>4, <1>5, <1>12, <1>14

LEMMA SwapOffsExact ==
  ASSUME Whole(board)
  PROVE  SwapOffExact
<1> SUFFICES ASSUME NEW move \in Captures(board) \union Promotions(board), Makes(board, move),
                    NEW score \in {0, 150}
             PROVE  See(board, move, score) = score + SwapOff(board, move)
  BY DEF SwapOffExact
<1>1. move \in PseudolegalMoves(board)
  BY DEF Captures, Promotions, PseudolegalMoves
<1>2. score \in Int
  OBVIOUS
<1> QED
  BY <1>1, <1>2, SeeExact

\* What see() says of a capture or a promotion is what the exchange it follows is
\* worth on the board, in every line of play: every attacker that may move joins
\* in, least valued first, none that is pinned does, and each side stops when the
\* next capture would lose material.
THEOREM SwapOffAlwaysExact == Spec => []SwapOffExact
<1>1. BackedInv => SwapOffExact
  BY SwapOffsExact DEF BackedInv, Backed
<1>2. BackedInv /\ [Next]_vars => BackedInv'
  BY BackedNext
<1> QED
  BY <1>1, <1>2, BackedInit, PTL DEF Spec

\* A recapture leaves one man less on the board.
LEMMA ManGone ==
  ASSUME NEW b, Whole(b), NEW m \in PseudolegalMoves(b), ~Refused(b, m),
         b.values[m.to] # empty, NEW after, after = Applied(b, m)
  PROVE  \E from \in Filled(b.values) : Filled(after.values) = Filled(b.values) \ {from}
<1>1. PICK v, fl, ff, cs, u : b = State(v, fl, ff, cs, u) /\ Wholly(v, fl, ff, cs, u)
  BY DEF Whole
<1>2. Reads(b, v, fl) /\ b.values = v /\ b.flags = fl
  BY <1>1 DEF Reads, State, Standing
<1>3. PICK us : us = fl.side /\ us \in Colors /\ v \in Contents /\ AreFlags(fl)
  BY <1>1 DEF Wholly, AreFlags
<1>4. m # Empty
  BY <1>2, <1>3, ListedAre
<1>5. PICK p : Fits(v, fl, p, m)
  BY <1>2, <1>4, GeneratedSuits DEF Suits
<1>6. PICK w : w = After(v, us, p, m)
  OBVIOUS
<1>7. after.values = w
  <2>1. MakesOf(v, fl, ff, cs, u, us, p, m, after)
    BY <1>1, <1>3, <1>4, <1>5, AppliedMove
  <2>2. PICK gl, gf, ds, more : after = State(w, gl, gf, ds, more)
    BY <1>6, <2>1 DEF MakesOf
  <2> QED
    BY <2>2, StateFields
<1>8. ~Castles(p, m) /\ ~TakesInPassing(v, us, p, m)
  BY <1>2, <1>3, <1>5 DEF Fits, TakesInPassing
<1>9. PICK from, to : from = m.from /\ to = m.to /\ from \in Squares /\ to \in Squares /\ from # to
                      /\ v[from] = Value(us, p) /\ v[to] # empty /\ p \in Kinds
  BY <1>2, <1>3, <1>5 DEF Fits, Goes
<1>10. PICK q : q = IF m.promo # 0 THEN m.promo ELSE p
  OBVIOUS
<1>11. /\ w[from] = empty /\ w[to] = Value(us, q) /\ q \in Kinds
       /\ \A s \in Squares \ {from, to} : w[s] = v[s]
  BY <1>3, <1>5, <1>6, <1>8, <1>9, <1>10, AfterOther
<1>12. Value(us, q) # empty /\ Value(us, p) # empty
  BY <1>3, <1>9, <1>11, Codings
<1>13. from \in Filled(v) /\ Filled(w) = Filled(v) \ {from}
  BY <1>9, <1>11, <1>12 DEF Filled
<1> QED
  BY <1>2, <1>7, <1>13

\* The men that are left when the n-th call has moved.
Thinned(calls, square, n) ==
  \A call \in calls :
    OnLine(call.after, square) /\ Cardinality(Filled(call.after.values)) <= 64 - n

LEMMA ThinnedNext ==
  ASSUME NEW calls, NEW square, NEW n \in Nat, Thinned(calls, square, n)
  PROVE  Thinned(NextCalls(calls, square), square, n + 1)
<1> SUFFICES ASSUME NEW next \in NextCalls(calls, square)
             PROVE  /\ OnLine(next.after, square)
                    /\ Cardinality(Filled(next.after.values)) <= 64 - (n + 1)
  BY DEF Thinned
<1>1. PICK call \in calls : \E reply \in GenLvaAttackToSquare(call.after, square) :
        next = Forced(call.after, reply, -call.score)
  BY DEF NextCalls
<1>2. PICK b, reply, after : /\ b = call.after /\ after = Applied(b, reply)
                             /\ reply \in GenLvaAttackToSquare(b, square)
                             /\ next.after = after
  BY <1>1 DEF Forced
<1>3. OnLine(b, square) /\ Cardinality(Filled(b.values)) <= 64 - n
  BY <1>2 DEF Thinned
<1>4. /\ reply \in PseudolegalMoves(b) /\ ~Refused(b, reply) /\ OnLine(after, square)
      /\ GenLvaAttackToSquare(b, square) = LeastValued(b, Legal(b, square))
  BY <1>2, <1>3, FollowsUp
<1>5. reply.to = square
  BY <1>2, <1>4 DEF LeastValued, Legal
<1>6. Whole(b) /\ b.values[square] # empty /\ Filled(b.values) \in SUBSET Squares
  <2>1. Whole(b)
    BY <1>3 DEF OnLine
  <2>2. PICK v, fl, ff, cs, u : b = State(v, fl, ff, cs, u) /\ Wholly(v, fl, ff, cs, u)
    BY <2>1 DEF Whole
  <2>3. b.values = v /\ b.flags = fl /\ v \in Contents /\ fl.side \in Colors
    BY <2>2, StateFields DEF Wholly, AreFlags
  <2>4. PICK c \in Colors : c = Flip(fl.side)
    BY <2>3, FlipTwice
  <2>5. square \in BoardsOf(v)[c][0]
    BY <1>3, <2>3, <2>4 DEF OnLine
  <2>6. v[square] # empty
    BY <2>3, <2>5, EnemyStands
  <2> QED
    BY <2>1, <2>3, <2>6 DEF Filled
<1>7. PICK from \in Filled(b.values) : Filled(after.values) = Filled(b.values) \ {from}
  BY <1>2, <1>4, <1>5, <1>6, ManGone
<1>8. PICK S, T : S = Filled(b.values) /\ T = Filled(after.values)
  OBVIOUS
<1>9. IsFiniteSet(S) /\ Cardinality(S) \in Nat
  BY <1>6, <1>8, FiniteSquares
<1>10. Cardinality(T) = Cardinality(S) - 1
  BY <1>7, <1>8, <1>9, FS_RemoveElement
<1>11. PICK k \in Nat : k = Cardinality(S) /\ k <= 64 - n
  BY <1>3, <1>8, <1>9
<1>12. k - 1 <= 64 - (n + 1)
  BY <1>11
<1> QED
  BY <1>2, <1>4, <1>8, <1>10, <1>11, <1>12

LEMMA CallsEnd ==
  ASSUME NEW b, Whole(b), NEW m \in PseudolegalMoves(b), Makes(b, m), NEW score
  PROVE  Calls(b, m, score)[Longest] = {}
<1>1. Longest = 64 /\ Longest \in Nat
  BY DEF Longest
<1>2. PICK square : square = m.to
  OBVIOUS
<1>3. PICK calls : calls = Calls(b, m, score) /\ CallsUp(b, m, score, calls)
  <2>1. PICK first, to : first = {Forced(b, m, score)} /\ to = m.to
    OBVIOUS
  <2>2. PICK f : CallsTo(first, to, Longest, f)
    BY <1>1, CallsExist
  <2>3. CallsUp(b, m, score, f)
    BY <2>1, <2>2 DEF CallsUp
  <2> QED
    BY <2>3, CallsAre
<1>4. Thinned(calls[0], square, 0)
  <2>1. calls[0] = {Forced(b, m, score)}
    BY <1>1, <1>3 DEF CallsUp, CallsTo
  <2>2. PICK after : after = Applied(b, m) /\ OnLine(after, square)
    BY <1>2, TakerStands DEF Makes
  <2>3. \A call \in calls[0] : call.after = after
    BY <2>1, <2>2 DEF Forced
  <2>4. Cardinality(Filled(after.values)) <= 64
    <3>1. Filled(after.values) \in SUBSET Squares
      BY DEF Filled
    <3>2. Cardinality(Squares) = 64
      <4>1. 0 \in Int /\ 63 \in Int
        OBVIOUS
      <4>2. Cardinality(0 .. 63) = IF 0 > 63 THEN 0 ELSE 63 - 0 + 1
        BY <4>1, FS_Interval
      <4> QED
        BY <4>2 DEF Squares
    <3>3. IsFiniteSet(Squares)
      BY FiniteSquares
    <3> QED
      BY <3>1, <3>2, <3>3, FS_Subset
  <2>5. 64 - 0 = 64
    OBVIOUS
  <2> QED
    BY <2>2, <2>3, <2>4, <2>5 DEF Thinned
<1>5. ASSUME NEW n \in 0 .. Longest, n # Longest
      PROVE  n + 1 \in 0 .. Longest /\ calls[n + 1] = NextCalls(calls[n], square)
  <2>1. n + 1 \in 0 .. Longest /\ n + 1 # 0 /\ (n + 1) - 1 = n
    BY <1>1, <1>5
  <2>2. calls[n + 1] = NextCalls(calls[(n + 1) - 1], square)
    BY <1>2, <1>3, <2>1 DEF CallsUp, CallsTo
  <2> QED
    BY <2>1, <2>2
<1>6. Thinned(calls[Longest], square, 64)
  <2>1. PICK bad : bad = {k \in 0 .. Longest : ~Thinned(calls[k], square, k)}
    OBVIOUS
  <2>2. CASE bad # {}
    <3>1. bad \subseteq Nat
      BY <1>1, <2>1
    <3>2. PICK k \in bad : \A j \in bad : k <= j
      BY <2>2, <3>1, LowestExists
    <3>3. k \in 0 .. Longest /\ ~Thinned(calls[k], square, k)
      BY <2>1
    <3>4. k # 0
      BY <1>4, <3>3
    <3>5. PICK j \in 0 .. Longest : k = j + 1 /\ j # Longest
      <4>1. k - 1 \in 0 .. Longest /\ k = (k - 1) + 1 /\ k - 1 # Longest
        BY <1>1, <3>3, <3>4
      <4> QED
        BY <4>1
    <3>6. Thinned(calls[j], square, j) /\ j \in Nat
      BY <1>1, <2>1, <3>2, <3>5
    <3>7. Thinned(NextCalls(calls[j], square), square, j + 1)
      BY <3>6, ThinnedNext
    <3> QED
      BY <1>5, <3>3, <3>5, <3>7
  <2>3. CASE bad = {}
    BY <1>1, <2>1, <2>3
  <2> QED
    BY <2>2, <2>3
<1>7. ASSUME NEW call \in calls[Longest]
      PROVE  FALSE
  <2>1. PICK a : a = call.after /\ OnLine(a, square) /\ Cardinality(Filled(a.values)) <= 64 - 64
    BY <1>6 DEF Thinned
  <2>2. PICK v, fl, ff, cs, u : a = State(v, fl, ff, cs, u) /\ Wholly(v, fl, ff, cs, u)
    BY <2>1 DEF OnLine, Whole
  <2>3. a.values = v /\ a.flags = fl /\ v \in Contents /\ fl.side \in Colors
    BY <2>2, StateFields DEF Wholly, AreFlags
  <2>4. PICK c \in Colors : c = Flip(fl.side)
    BY <2>3, FlipTwice
  <2>5. square \in BoardsOf(v)[c][0]
    BY <2>1, <2>3, <2>4 DEF OnLine
  <2>6. PICK S \in SUBSET Squares : S = Filled(v) /\ square \in S
    BY <2>3, <2>5, EnemyStands DEF Filled
  <2>7. IsFiniteSet(S) /\ Cardinality(S) \in Nat
    BY <2>6, FiniteSquares
  <2>8. Cardinality(S) # 0
    BY <2>6, <2>7, FS_EmptySet
  <2> QED
    BY <2>1, <2>3, <2>6, <2>7, <2>8
<1> QED
  BY <1>3, <1>7

\* see() comes back from every capture and promotion, in every line of play: each
\* call inside it takes a man off the board, and before the squares run out there
\* is no call left.  The length the model gives the exchange cuts none short.
THEOREM ExchangesEnd ==
  Spec => [](\A move \in {m \in Captures(board) \union Promotions(board) : Makes(board, m)} :
               \A score \in Int : Calls(board, move, score)[Longest] = {})
<1>1. BackedInv => \A move \in {m \in Captures(board) \union Promotions(board) : Makes(board, m)} :
                     \A score \in Int : Calls(board, move, score)[Longest] = {}
  <2> SUFFICES ASSUME BackedInv, NEW move \in Captures(board) \union Promotions(board),
                      Makes(board, move), NEW score \in Int
               PROVE  Calls(board, move, score)[Longest] = {}
    OBVIOUS
  <2>1. move \in PseudolegalMoves(board)
    BY DEF Captures, Promotions, PseudolegalMoves
  <2>2. Whole(board)
    BY DEF BackedInv, Backed
  <2> QED
    BY <2>1, <2>2, CallsEnd
<1>2. BackedInv /\ [Next]_vars => BackedInv'
  BY BackedNext
<1> QED
  BY <1>1, <1>2, BackedInit, PTL DEF Spec
-----------------------------------------------------------------------------
\* The digits of an index.
Rests == 0 .. 62
Ordinals == 0 .. 61

\* The free squares before a square, and the square that has so many.
Ordinal(s, strong, weak) == s - Before(strong, s) - Before(weak, s)

LEMMA OrdinalFits ==
  ASSUME NEW strong \in Places, NEW weak \in Places \ {strong},
         NEW s \in Places \ {strong, weak}
  PROVE  Ordinal(s, strong, weak) \in Ordinals
BY DEF Ordinal, Ordinals, Before, Places

LEMMA OrdinalTells ==
  ASSUME NEW strong \in Places, NEW weak \in Places \ {strong},
         NEW s \in Places \ {strong, weak}, NEW t \in Places \ {strong, weak},
         Ordinal(s, strong, weak) = Ordinal(t, strong, weak)
  PROVE  s = t
BY DEF Ordinal, Ordinals, Before, Places

LEMMA OrdinalMet ==
  ASSUME NEW strong \in Places, NEW weak \in Places \ {strong}, NEW n \in Ordinals
  PROVE  \E s \in Places \ {strong, weak} : Ordinal(s, strong, weak) = n
<1> DEFINE low == IF strong < weak THEN strong ELSE weak
           high == IF strong < weak THEN weak ELSE strong
           FitsAt(s) == s \in Places \ {strong, weak} /\ Ordinal(s, strong, weak) = n
<1>1. CASE n < low
  <2>1. FitsAt(n)
    BY <1>1 DEF Ordinal, Ordinals, Before, Places
  <2> QED
    BY <2>1
<1>2. CASE n >= low /\ n + 1 < high
  <2>1. FitsAt(n + 1)
    BY <1>2 DEF Ordinal, Ordinals, Before, Places
  <2> QED
    BY <2>1
<1>3. CASE n >= low /\ n + 1 >= high
  <2>1. FitsAt(n + 2)
    BY <1>3 DEF Ordinal, Ordinals, Before, Places
  <2> QED
    BY <2>1
<1> QED
  BY <1>1, <1>2, <1>3 DEF Places, Ordinals

\* NthFree is the inverse of Ordinal.
LEMMA NthFreeIsInverse ==
  ASSUME NEW strong \in Places, NEW weak \in Places \ {strong}
  PROVE  /\ \A n \in Ordinals :
              /\ NthFree(strong, weak, n) \in Places \ {strong, weak}
              /\ Ordinal(NthFree(strong, weak, n), strong, weak) = n
         /\ \A s \in Places \ {strong, weak} :
              NthFree(strong, weak, Ordinal(s, strong, weak)) = s
<1>1. ASSUME NEW n \in Ordinals
      PROVE  /\ NthFree(strong, weak, n) \in Places \ {strong, weak}
             /\ Ordinal(NthFree(strong, weak, n), strong, weak) = n
  <2>1. \E s \in Places \ {strong, weak} : Ordinal(s, strong, weak) = n
    BY OrdinalMet
  <2> QED
    BY <2>1 DEF NthFree, Ordinal
<1>2. ASSUME NEW s \in Places \ {strong, weak}
      PROVE  NthFree(strong, weak, Ordinal(s, strong, weak)) = s
  <2> DEFINE n == Ordinal(s, strong, weak)
             t == NthFree(strong, weak, n)
  <2>1. n \in Ordinals
    BY OrdinalFits
  <2>2. t \in Places \ {strong, weak} /\ Ordinal(t, strong, weak) = n
    BY <1>1, <2>1, Zenon
  <2> HIDE DEF t, n
  <2>3. t = s
    BY <2>2, OrdinalTells DEF n
  <2> QED
    BY <2>3 DEF t, n
<1> QED
  BY <1>1, <1>2, Zenon

\* The digits of an index, and the index of three digits.
LEMMA Digits ==
  ASSUME NEW i \in Indices
  PROVE  /\ KingDigit(i) \in Places
         /\ OtherDigit(i) \in Rests
         /\ ThirdDigit(i) \in Ordinals
         /\ IndexOf(KingDigit(i), OtherDigit(i), ThirdDigit(i)) = i
<1> DEFINE q == i \div 62
<1>1. i \in Nat /\ i < 64 * 63 * 62
  BY DEF Indices, threeManPositionCount
<1>2. q \in Nat /\ i % 62 \in Ordinals /\ i = q * 62 + (i % 62)
  BY <1>1 DEF Ordinals
<1>3. q < 64 * 63
  BY <1>1, <1>2 DEF Ordinals
<1> HIDE DEF q
<1>4. q \div 63 \in Nat /\ q % 63 \in Rests /\ q = (q \div 63) * 63 + (q % 63)
  BY <1>2 DEF Rests
<1>5. q \div 63 \in Places
  BY <1>3, <1>4 DEF Places, Rests
<1>6. KingDigit(i) = q \div 63 /\ OtherDigit(i) = q % 63 /\ ThirdDigit(i) = i % 62
  BY DEF KingDigit, OtherDigit, ThirdDigit, q
<1> QED
  BY <1>2, <1>4, <1>5, <1>6 DEF IndexOf

LEMMA DigitsTell ==
  ASSUME NEW k \in Places, NEW r \in Rests, NEW n \in Ordinals
  PROVE  /\ IndexOf(k, r, n) \in Indices
         /\ KingDigit(IndexOf(k, r, n)) = k
         /\ OtherDigit(IndexOf(k, r, n)) = r
         /\ ThirdDigit(IndexOf(k, r, n)) = n
<1> DEFINE q == k * 63 + r
<1>1. q \in Nat /\ q < 64 * 63 /\ q \div 63 = k /\ q % 63 = r
  BY DEF Places, Rests
<1>2. IndexOf(k, r, n) = q * 62 + n
  BY DEF IndexOf
<1> HIDE DEF q
<1>3. q * 62 + n \in Nat /\ (q * 62 + n) \div 62 = q /\ (q * 62 + n) % 62 = n
  BY <1>1 DEF Ordinals
<1>4. q * 62 + n < 64 * 63 * 62
  BY <1>1 DEF Ordinals
<1> QED
  BY <1>1, <1>2, <1>3, <1>4
     DEF Indices, threeManPositionCount, KingDigit, OtherDigit, ThirdDigit

LEMMA ReflectedTwice ==
  ASSUME NEW s \in Places
  PROVE  /\ Reflected(s) \in Places
         /\ Reflected(Reflected(s)) = s
BY DEF Reflected, Places

LEMMA SeenIsPlacement ==
  ASSUME NEW p \in Placements, NEW colour \in Colours
  PROVE  Seen(p, colour) \in Placements
BY ReflectedTwice DEF Seen, Placements, Colours

LEMMA SeenTwice ==
  ASSUME NEW p \in Placements
  PROVE  Seen(Seen(p, 0), 0) = p
BY ReflectedTwice DEF Seen, Placements

LEMMA PlacementOfIndex ==
  ASSUME NEW p \in Placements
  PROVE  /\ IndexAsWhite(p) \in Indices
         /\ Placement(IndexAsWhite(p)) = p
<1> DEFINE r == p.other - Before(p.king, p.other)
           n == Ordinal(p.third, p.king, p.other)
           i == IndexOf(p.king, r, n)
<1>1. /\ p.king \in Places /\ p.other \in Places \ {p.king}
      /\ p.third \in Places \ {p.king, p.other}
      /\ p = [king |-> p.king, other |-> p.other, third |-> p.third]
  BY DEF Placements
<1>2. r \in Rests /\ r + (IF r >= p.king THEN 1 ELSE 0) = p.other
  BY <1>1 DEF Before, Places, Rests
<1>3. n \in Ordinals
  BY <1>1, OrdinalFits
<1>4. IndexAsWhite(p) = i
  BY DEF IndexAsWhite, Ordinal
<1>5. NthFree(p.king, p.other, n) = p.third
  BY <1>1, NthFreeIsInverse
<1> HIDE DEF r, n
<1>6. /\ i \in Indices
      /\ KingDigit(i) = p.king /\ OtherDigit(i) = r /\ ThirdDigit(i) = n
  BY <1>1, <1>2, <1>3, DigitsTell
<1> HIDE DEF i
<1>7. Placement(i) = [king |-> p.king, other |-> p.other, third |-> p.third]
  BY <1>2, <1>5, <1>6 DEF Placement
<1> QED
  BY <1>1, <1>4, <1>6, <1>7

LEMMA IndexOfPlacement ==
  ASSUME NEW i \in Indices
  PROVE  /\ Placement(i) \in Placements
         /\ IndexAsWhite(Placement(i)) = i
<1> DEFINE k == KingDigit(i)
           r == OtherDigit(i)
           n == ThirdDigit(i)
           o == r + IF r >= k THEN 1 ELSE 0
           t == NthFree(k, o, n)
<1>1. k \in Places /\ r \in Rests /\ n \in Ordinals /\ IndexOf(k, r, n) = i
  BY Digits
<1>2. Placement(i) = [king |-> k, other |-> o, third |-> t]
  BY DEF Placement
<1> HIDE DEF k, r, n
<1>3. o \in Places \ {k} /\ o - Before(k, o) = r
  BY <1>1 DEF Before, Places, Rests
<1> HIDE DEF o
<1>4. t \in Places \ {k, o} /\ t - Before(k, t) - Before(o, t) = n
  BY <1>1, <1>3, NthFreeIsInverse DEF Ordinal
<1> HIDE DEF t
<1>5. Placement(i) \in Placements
  BY <1>1, <1>2, <1>3, <1>4 DEF Placements
<1>6. IndexAsWhite(Placement(i)) = IndexOf(k, r, n)
  BY <1>2, <1>3, <1>4 DEF IndexAsWhite
<1> QED
  BY <1>1, <1>5, <1>6
-----------------------------------------------------------------------------
\* What loadEgtbIndex loads has the index it was loaded from, also when the
\* colours are exchanged.
THEOREM LoadedIndexReadsBack == IndexReadsBack
<1> SUFFICES ASSUME NEW i \in Indices
             PROVE  /\ Placement(i) \in Placements
                    /\ Index(Placement(i), 1) = i
                    /\ Index(Seen(Placement(i), 0), 0) = i
  BY DEF IndexReadsBack
<1>1. Placement(i) \in Placements /\ IndexAsWhite(Placement(i)) = i
  BY IndexOfPlacement
<1>2. Seen(Seen(Placement(i), 0), 0) = Placement(i)
  BY <1>1, SeenTwice
<1>3. Seen(Placement(i), 1) = Placement(i)
  BY DEF Seen
<1> QED
  BY <1>1, <1>2, <1>3 DEF Index

\* Every placement has an index in range, and no two seen alike share one.
THEOREM IndexIsOneToOne == PlacementReadsBack
BY SeenIsPlacement, PlacementOfIndex DEF PlacementReadsBack, Index
=============================================================================
