-------------------------- MODULE PositionProofs --------------------------
(***************************************************************************)
(* Theorems about the board.                                               *)
(*                                                                         *)
(* Everything that makeMove and undoMove keep incrementally is what the    *)
(* squares and the flags say, a move taken back leaves no trace, and the   *)
(* count of repetitions misses none; killers and texts mean the moves the  *)
(* generators list.                                                        *)
(***************************************************************************)
EXTENDS MoveTexts, StaticEvaluator, FiniteSetTheorems, SequenceTheorems, TLAPS

\* Sets that are matched one to one are equally large.
LEMMA SameNumber ==
  ASSUME NEW S, NEW T, NEW f \in [S -> T], IsFiniteSet(S),
         \A x, y \in S : f[x] = f[y] => x = y, \A t \in T : \E x \in S : f[x] = t
  PROVE  IsFiniteSet(T) /\ Cardinality(T) = Cardinality(S)
<1>1. f \in Surjection(S, T) /\ f \in Injection(S, T)
  BY DEF Surjection, Injection, IsInjective
<1> QED
  BY <1>1, FS_Surjection

-----------------------------------------------------------------------------
(***************************************************************************)
(* Sums over finite sets.  A sum is a recursive function on the subsets of *)
(* the set; what holds of all sums is shown for a smallest set of which it *)
(* would not hold.                                                         *)
(***************************************************************************)
Total(f, S) == Ext!SumFunctionOnSet(f, S)

Chosen(S) == CHOOSE x \in S : TRUE

\* g sums the values of f over every subset of S.
SumsUp(f, S, g) ==
  g = [s \in SUBSET S |-> IF s = {} THEN 0 ELSE f[Chosen(s)] + g[s \ {Chosen(s)}]]

Sums(f, S) == CHOOSE g : SumsUp(f, S, g)

LEMMA TotalIs ==
  ASSUME NEW f, NEW S
  PROVE  Total(f, S) = Sums(f, S)[S]
BY Zenon DEF Total, Ext!SumFunctionOnSet, Ext!FoldFunctionOnSet, Ext!MapThenFoldSet,
             Sums, SumsUp, Chosen

LEMMA ChosenIn ==
  ASSUME NEW S, S # {}
  PROVE  Chosen(S) \in S
BY DEF Chosen

\* A set of subsets of a finite set has one that contains no other of them.
LEMMA SmallestSubset ==
  ASSUME NEW S, IsFiniteSet(S), NEW bad, bad \subseteq SUBSET S, bad # {}
  PROVE  \E T \in bad : \A U \in bad : U \subseteq T => U = T
<1>1. PICK less : less = StrictSubsetOrdering(S)
  OBVIOUS
<1>2. IsWellFoundedOn(less, SUBSET S)
  BY <1>1, FS_StrictSubsetOrderingWellFounded, FS_FiniteSubsetsOfFinite
<1>3. PICK T \in bad : \A U \in bad : <<U, T>> \notin less
  BY <1>2, WFMin
<1>4. ASSUME NEW U \in bad, U \subseteq T
      PROVE  U = T
  <2>1. <<U, T>> \notin less
    BY <1>3
  <2> QED
    BY <1>1, <1>4, <2>1 DEF StrictSubsetOrdering
<1> QED
  BY <1>4

\* A set of numbers has a lowest one and, under a limit, a highest.
LEMMA LowestExists ==
  ASSUME NEW S, S \subseteq Nat, S # {}
  PROVE  \E x \in S : \A y \in S : x <= y
<1>1. PICK z \in Nat : z \in S
  OBVIOUS
<1>2. PICK A, Z, bad : A = 0 .. z /\ Z = S \cap A /\ bad = {0 .. y : y \in Z}
  OBVIOUS
<1>3. bad \subseteq SUBSET A
  <2>1. ASSUME NEW y \in Z
        PROVE  0 .. y \subseteq A
    BY <1>2
  <2> QED
    BY <1>2, <2>1
<1>4. z \in Z /\ bad # {}
  BY <1>1, <1>2
<1>5. IsFiniteSet(A)
  <2>1. 0 \in Int /\ z \in Int
    OBVIOUS
  <2> QED
    BY <1>2, <2>1, FS_Interval
<1>6. PICK T \in bad : \A U \in bad : U \subseteq T => U = T
  BY <1>3, <1>4, <1>5, SmallestSubset
<1>7. PICK x \in Z : T = 0 .. x
  BY <1>2, <1>6
<1>8. ASSUME NEW y \in S
      PROVE  x <= y
  <2>1. x \in Nat /\ y \in Nat /\ z \in Nat /\ x <= z /\ x \in S
    BY <1>2, <1>7
  <2>2. CASE y < x
    <3>1. y \in Z
      BY <1>2, <2>1, <2>2
    <3>2. PICK U \in bad : U = 0 .. y
      BY <1>2, <3>1
    <3>3. U \subseteq T
      BY <1>7, <2>1, <2>2, <3>2
    <3>4. U = T
      BY <1>6, <3>3
    <3>5. x \in T
      BY <1>7, <2>1
    <3> QED
      BY <2>1, <2>2, <3>2, <3>4, <3>5
  <2> QED
    BY <2>1, <2>2
<1>9. x \in S
  BY <1>2
<1> QED
  BY <1>8, <1>9

LEMMA HighestExists ==
  ASSUME NEW n \in Nat, NEW S, S \subseteq 0 .. n, S # {}
  PROVE  \E x \in S : \A y \in S : y <= x
<1>1. PICK T : T = {n - y : y \in S}
  OBVIOUS
<1>2. T \subseteq Nat /\ T # {}
  <2>1. ASSUME NEW y \in S
        PROVE  n - y \in Nat
    <3>1. y \in 0 .. n
      OBVIOUS
    <3> QED
      BY <3>1
  <2> QED
    BY <1>1, <2>1
<1>3. PICK z \in T : \A u \in T : z <= u
  BY <1>2, LowestExists
<1>4. PICK x \in S : z = n - x
  BY <1>1
<1>5. \A y \in S : n - y \in T /\ y \in Nat
  BY <1>1
<1> QED
  BY <1>3, <1>4, <1>5

LEMMA SummedUp ==
  ASSUME NEW f, NEW A, NEW g, SumsUp(f, A, g), NEW s, s \subseteq A
  PROVE  g[s] = IF s = {} THEN 0 ELSE f[Chosen(s)] + g[s \ {Chosen(s)}]
<1>1. s \in SUBSET A
  OBVIOUS
<1>2. PICK body : body = [t \in SUBSET A |-> IF t = {} THEN 0
                                              ELSE f[Chosen(t)] + g[t \ {Chosen(t)}]]
  OBVIOUS
<1>3. g = body
  BY <1>2, Zenon DEF SumsUp
<1>4. body[s] = IF s = {} THEN 0 ELSE f[Chosen(s)] + g[s \ {Chosen(s)}]
  BY <1>1, <1>2
<1> QED
  BY <1>3, <1>4

\* Two functions that sum up over the subsets of two sets agree on what both have.
LEMMA SumsUpAlike ==
  ASSUME NEW f, NEW A, NEW g, SumsUp(f, A, g),
         NEW B, NEW h, SumsUp(f, B, h),
         NEW s, IsFiniteSet(s), s \subseteq A, s \subseteq B
  PROVE  g[s] = h[s]
<1>1. PICK bad : bad = {t \in SUBSET s : g[t] # h[t]}
  OBVIOUS
<1>2. CASE bad = {}
  BY <1>1, <1>2
<1>3. CASE bad # {}
  <2>0. bad \subseteq SUBSET s
    BY <1>1
  <2>1. PICK t \in bad : \A u \in bad : u \subseteq t => u = t
    BY <1>3, <2>0, SmallestSubset
  <2>2. t \subseteq A /\ t \subseteq B /\ t \subseteq s
    BY <1>1
  <2>3. t # {}
    BY <1>1, <2>2, SummedUp
  <2>4. PICK x, r : x = Chosen(t) /\ r = t \ {x}
    OBVIOUS
  <2>5. r \subseteq t /\ r # t
    BY <2>3, <2>4, ChosenIn
  <2>6. g[r] = h[r]
    BY <1>1, <2>1, <2>2, <2>5
  <2>7. g[t] = f[x] + g[r]
    BY <2>2, <2>3, <2>4, SummedUp
  <2>8. h[t] = f[x] + h[r]
    BY <2>2, <2>3, <2>4, SummedUp
  <2> QED
    BY <1>1, <2>6, <2>7, <2>8
<1> QED
  BY <1>2, <1>3

\* The function that a sum chooses exists.
LEMMA SumsExist ==
  ASSUME NEW f, NEW S, IsFiniteSet(S)
  PROVE  SumsUp(f, S, Sums(f, S))
<1>1. PICK bad : bad = {T \in SUBSET S : ~SumsUp(f, T, Sums(f, T))}
  OBVIOUS
<1>2. CASE bad = {}
  BY <1>1, <1>2
<1>3. CASE bad # {}
  <2>0. bad \subseteq SUBSET S
    BY <1>1
  <2>1. PICK T \in bad : \A U \in bad : U \subseteq T => U = T
    BY <1>3, <2>0, SmallestSubset
  <2>2. \A U : U \subseteq T /\ U # T => SumsUp(f, U, Sums(f, U)) /\ IsFiniteSet(U)
    BY <1>1, <2>1, FS_Subset
  <2>3. PICK rest : rest = [s \in SUBSET T |-> Total(f, s \ {Chosen(s)})]
    OBVIOUS
  <2>4. PICK g : g = [s \in SUBSET T |-> IF s = {} THEN 0 ELSE f[Chosen(s)] + rest[s]]
    OBVIOUS
  <2>5. ASSUME NEW r, r \subseteq T, r # T
        PROVE  g[r] = Total(f, r)
    <3>1. SumsUp(f, r, Sums(f, r)) /\ Total(f, r) = Sums(f, r)[r] /\ IsFiniteSet(r)
      BY <2>2, <2>5, TotalIs
    <3>2. PICK h : h = Sums(f, r)
      OBVIOUS
    <3>3. h[r] = IF r = {} THEN 0 ELSE f[Chosen(r)] + h[r \ {Chosen(r)}]
      BY <3>1, <3>2, SummedUp
    <3>4. CASE r = {}
      BY <2>4, <3>1, <3>2, <3>3, <3>4
    <3>5. CASE r # {}
      <4>1. PICK q : q = r \ {Chosen(r)}
        OBVIOUS
      <4>2. q \subseteq r /\ q # T
        BY <2>5, <3>5, <4>1, ChosenIn
      <4>3. SumsUp(f, q, Sums(f, q)) /\ IsFiniteSet(q) /\ Total(f, q) = Sums(f, q)[q]
        BY <2>2, <2>5, <4>2, TotalIs
      <4>4. PICK k : k = Sums(f, q)
        OBVIOUS
      <4>5. h[q] = k[q]
        BY <3>1, <3>2, <4>2, <4>3, <4>4, SumsUpAlike
      <4>6. rest[r] = Total(f, q)
        BY <2>3, <2>5, <4>1
      <4>7. g[r] = f[Chosen(r)] + rest[r]
        BY <2>4, <2>5, <3>5
      <4> QED
        BY <3>1, <3>2, <3>3, <3>5, <4>1, <4>3, <4>4, <4>5, <4>6, <4>7
    <3> QED
      BY <3>4, <3>5
  <2>6. ASSUME NEW s \in SUBSET T, s # {}
        PROVE  rest[s] = g[s \ {Chosen(s)}]
    <3>1. PICK r : r = s \ {Chosen(s)}
      OBVIOUS
    <3>2. r \subseteq T /\ r # T
      BY <2>6, <3>1, ChosenIn
    <3>3. g[r] = Total(f, r)
      BY <2>5, <3>2
    <3>4. rest[s] = Total(f, r)
      BY <2>3, <2>6, <3>1
    <3> QED
      BY <3>1, <3>3, <3>4
  <2>7. PICK other : other = [s \in SUBSET T |-> IF s = {} THEN 0
                                                 ELSE f[Chosen(s)] + g[s \ {Chosen(s)}]]
    OBVIOUS
  <2>8. \A s \in SUBSET T : g[s] = other[s]
    BY <2>4, <2>6, <2>7
  <2>9. g = other
    BY <2>4, <2>7, <2>8
  <2>10. SumsUp(f, T, g)
    BY <2>7, <2>9, Zenon DEF SumsUp
  <2>11. SumsUp(f, T, Sums(f, T))
    BY <2>10, Zenon DEF Sums
  <2> QED
    BY <1>1, <2>11
<1> QED
  BY <1>2, <1>3

\* A sum takes one element, and sums the others.
LEMMA TotalUnfolds ==
  ASSUME NEW f, NEW S, IsFiniteSet(S)
  PROVE  Total(f, S) = IF S = {} THEN 0 ELSE f[Chosen(S)] + Total(f, S \ {Chosen(S)})
<1>1. PICK h : h = Sums(f, S)
  OBVIOUS
<1>2. SumsUp(f, S, h) /\ Total(f, S) = h[S]
  BY <1>1, SumsExist, TotalIs
<1>3. PICK r : r = S \ {Chosen(S)}
  OBVIOUS
<1>4. IsFiniteSet(r) /\ r \subseteq S
  BY <1>3, FS_Subset
<1>5. PICK k : k = Sums(f, r)
  OBVIOUS
<1>6. SumsUp(f, r, k) /\ Total(f, r) = k[r]
  BY <1>4, <1>5, SumsExist, TotalIs
<1>7. h[r] = k[r]
  BY <1>2, <1>4, <1>6, SumsUpAlike
<1>8. h[S] = IF S = {} THEN 0 ELSE f[Chosen(S)] + h[r]
  BY <1>2, <1>3, SummedUp
<1> QED
  BY <1>2, <1>3, <1>6, <1>7, <1>8

\* A sum of integers is one.
LEMMA TotalTyped ==
  ASSUME NEW f, NEW S, IsFiniteSet(S), \A x \in S : f[x] \in Int
  PROVE  Total(f, S) \in Int
<1>1. PICK bad : bad = {T \in SUBSET S : Total(f, T) \notin Int}
  OBVIOUS
<1>2. CASE bad = {}
  BY <1>1, <1>2
<1>3. CASE bad # {}
  <2>0. bad \subseteq SUBSET S
    BY <1>1
  <2>1. PICK T \in bad : \A U \in bad : U \subseteq T => U = T
    BY <1>3, <2>0, SmallestSubset
  <2>2. IsFiniteSet(T) /\ T \subseteq S
    BY <1>1, FS_Subset
  <2>9. Total(f, T) \notin Int
    BY <1>1
  <2>3. T # {}
    <3>1. ASSUME T = {}
          PROVE  Total(f, T) = 0
      BY <2>2, <3>1, TotalUnfolds
    <3> QED
      BY <2>9, <3>1
  <2>4. PICK x, r : x = Chosen(T) /\ r = T \ {x}
    OBVIOUS
  <2>5. x \in T /\ r \subseteq T /\ r # T
    BY <2>3, <2>4, ChosenIn
  <2>6. Total(f, r) \in Int
    BY <1>1, <2>1, <2>2, <2>5
  <2>7. Total(f, T) = f[x] + Total(f, r)
    BY <2>2, <2>3, <2>4, TotalUnfolds
  <2>8. f[x] \in Int
    BY <2>2, <2>5
  <2> QED
    BY <2>6, <2>7, <2>8, <2>9
<1> QED
  BY <1>2, <1>3

\* It may take any element.
LEMMA TotalTakesOut ==
  ASSUME NEW f, NEW S, IsFiniteSet(S), \A x \in S : f[x] \in Int, NEW y \in S
  PROVE  Total(f, S) = f[y] + Total(f, S \ {y})
<1>1. PICK bad : bad = {T \in SUBSET S : \E z \in T : Total(f, T) # f[z] + Total(f, T \ {z})}
  OBVIOUS
<1>2. CASE bad = {}
  BY <1>1, <1>2
<1>3. CASE bad # {}
  <2>12. bad \subseteq SUBSET S
    BY <1>1
  <2>1. PICK T \in bad : \A U \in bad : U \subseteq T => U = T
    BY <1>3, <2>12, SmallestSubset
  <2>13. ASSUME NEW U, U \subseteq T, U # T, NEW w \in U
         PROVE  Total(f, U) = f[w] + Total(f, U \ {w})
    <3>1. U \notin bad /\ U \in SUBSET S
      BY <2>1, <2>12, <2>13
    <3> QED
      BY <1>1, <3>1
  <2>2. IsFiniteSet(T) /\ T \subseteq S
    BY <1>1, FS_Subset
  <2>3. PICK z \in T : Total(f, T) # f[z] + Total(f, T \ {z})
    BY <1>1
  <2>4. PICK x, r, q, u : x = Chosen(T) /\ r = T \ {x} /\ q = T \ {z} /\ u = r \ {z}
    OBVIOUS
  <2>5. x \in T /\ r \subseteq T /\ r # T /\ q \subseteq T /\ q # T
    BY <2>3, <2>4, ChosenIn
  <2>6. Total(f, T) = f[x] + Total(f, r)
    BY <2>2, <2>3, <2>4, TotalUnfolds
  <2>7. x # z
    BY <2>3, <2>4, <2>6
  <2>8. z \in r /\ x \in q /\ u = q \ {x}
    BY <2>3, <2>4, <2>5, <2>7
  <2>9. Total(f, r) = f[z] + Total(f, u)
    BY <2>4, <2>5, <2>8, <2>13
  <2>10. Total(f, q) = f[x] + Total(f, u)
    BY <2>5, <2>8, <2>13
  <2>11. f[x] \in Int /\ f[z] \in Int /\ Total(f, u) \in Int
    <3>1. IsFiniteSet(u) /\ \A w \in u : f[w] \in Int
      BY <2>2, <2>4, <2>5, FS_Subset
    <3> QED
      BY <2>2, <2>3, <2>5, <3>1, TotalTyped
  <2> QED
    BY <2>3, <2>4, <2>6, <2>9, <2>10, <2>11
<1> QED
  BY <1>2, <1>3

Image(m, S) == {m[x] : x \in S}

\* A sum depends on nothing but the values and how often they come.
LEMMA TotalMoved ==
  ASSUME NEW f, NEW S, IsFiniteSet(S), NEW g, NEW m,
         \A x \in S : f[x] \in Int /\ g[m[x]] = f[x],
         \A x, y \in S : m[x] = m[y] => x = y
  PROVE  Total(f, S) = Total(g, Image(m, S))
<1>1. PICK bad : bad = {T \in SUBSET S : Total(f, T) # Total(g, Image(m, T))}
  OBVIOUS
<1>2. CASE bad = {}
  BY <1>1, <1>2
<1>3. CASE bad # {}
  <2>0. bad \subseteq SUBSET S
    BY <1>1
  <2>1. PICK T \in bad : \A U \in bad : U \subseteq T => U = T
    BY <1>3, <2>0, SmallestSubset
  <2>2. IsFiniteSet(T) /\ T \subseteq S
    BY <1>1, FS_Subset
  <2>3. PICK there : there = Image(m, T)
    OBVIOUS
  <2>4. IsFiniteSet(there)
    <3>1. PICK k : k = [x \in T |-> m[x]]
      OBVIOUS
    <3>2. k \in [T -> there]
      BY <2>3, <3>1 DEF Image
    <3>3. /\ \A x, y \in T : k[x] = k[y] => x = y
          /\ \A z \in there : \E x \in T : k[x] = z
      BY <2>2, <2>3, <3>1 DEF Image
    <3> QED
      BY <2>2, <3>2, <3>3, SameNumber
  <2>5. Total(f, T) # Total(g, there)
    BY <1>1, <2>3
  <2>6. T # {}
    <3>1. ASSUME T = {}
          PROVE  there = {}
      BY <2>3, <3>1 DEF Image
    <3> QED
      BY <2>2, <2>4, <2>5, <3>1, TotalUnfolds
  <2>7. PICK x, r, y : x = Chosen(T) /\ r = T \ {x} /\ y = m[x]
    OBVIOUS
  <2>8. x \in T /\ r \subseteq T /\ r # T
    BY <2>6, <2>7, ChosenIn
  <2>9. y \in there /\ Image(m, r) = there \ {y}
    BY <2>2, <2>3, <2>7, <2>8 DEF Image
  <2>10. Total(f, r) = Total(g, there \ {y})
    BY <1>1, <2>1, <2>2, <2>8, <2>9
  <2>11. Total(f, T) = f[x] + Total(f, r)
    BY <2>2, <2>6, <2>7, TotalUnfolds
  <2>12. \A z \in there : g[z] \in Int
    BY <2>2, <2>3 DEF Image
  <2>13. Total(g, there) = g[y] + Total(g, there \ {y})
    BY <2>4, <2>9, <2>12, TotalTakesOut
  <2>14. g[y] = f[x]
    BY <2>2, <2>7, <2>8
  <2> QED
    BY <2>5, <2>10, <2>11, <2>13, <2>14
<1> QED
  BY <1>2, <1>3
-----------------------------------------------------------------------------
LOCAL INSTANCE FiniteSetsExt

-----------------------------------------------------------------------------
(***************************************************************************)
(* The sets of squares that stand beside the squares.                      *)
(***************************************************************************)
Codes == -6 .. 6
Contents == [Squares -> Codes]
Kinds == 1 .. 6

Filled(v) == {s \in Squares : v[s] # empty}

\* A function with another value in one place.
Put(f, x, y) == [f EXCEPT ![x] = y]

\* A board whose sets of squares are those of the squares v.
Standing(v, n, k, pk, fl, ff, cs, u) ==
  [values |-> v, boards |-> BoardsOf(v), counts |-> n, occupied |-> Filled(v),
   key |-> k, pawnKey |-> pk, flags |-> fl, fifty |-> ff, castled |-> cs, undoInfo |-> u]

LEMMA Codings ==
  ASSUME NEW c \in Colors, NEW p \in Kinds
  PROVE  /\ Value(c, p) \in Codes /\ Value(c, p) # empty
         /\ Magnitude(Value(c, p)) = p
         /\ Value(c, p) * Forward(c) > 0 /\ ~(Value(c, p) * Forward(Flip(c)) > 0)
         /\ ~(empty * Forward(c) > 0)
         /\ \A d \in Colors, q \in Kinds : Value(d, q) = Value(c, p) => d = c /\ q = p
BY DEF Colors, Kinds, Codes, Value, Magnitude, Forward, Flip, black, white, empty

LEMMA PutAt ==
  ASSUME NEW v \in Contents, NEW s \in Squares, NEW x \in Codes
  PROVE  /\ Put(v, s, x) \in Contents /\ Put(v, s, x)[s] = x
         /\ \A t \in Squares \ {s} : Put(v, s, x)[t] = v[t]
BY DEF Put, Contents

LEMMA PutsCompose ==
  ASSUME NEW v \in Contents, NEW s \in Squares, NEW x \in Codes, NEW t \in Squares,
         NEW y \in Codes
  PROVE  /\ Put(Put(v, s, x), s, y) = Put(v, s, y)
         /\ s # t => Put(Put(v, s, x), t, y) = Put(Put(v, t, y), s, x)
         /\ Put(v, s, v[s]) = v
BY DEF Put, Contents

LEMMA OccupiedIsFilled ==
  ASSUME NEW v \in Contents
  PROVE  BoardsOf(v)[white][0] \union BoardsOf(v)[black][0] = Filled(v)
<1>1. BoardsOf(v)[white][0] = {s \in Squares : v[s] > 0}
  BY DEF BoardsOf, Colors, white, black, king, Forward, Contents, Codes
<1>2. BoardsOf(v)[black][0] = {s \in Squares : v[s] < 0}
  BY DEF BoardsOf, Colors, white, black, king, Forward, Contents, Codes
<1> QED
  BY <1>1, <1>2 DEF Filled, Contents, Codes, empty

LEMMA BoardsAt ==
  ASSUME NEW v \in Contents, NEW c \in Colors
  PROVE  /\ \A s \in Squares : s \in BoardsOf(v)[c][0] <=> v[s] * Forward(c) > 0
         /\ \A p \in Kinds, s \in Squares : s \in BoardsOf(v)[c][p] <=> v[s] = Value(c, p)
BY DEF BoardsOf, SquaresOf, king, Kinds

LEMMA BoardsTyped ==
  ASSUME NEW v \in Contents
  PROVE  /\ BoardsOf(v) = [d \in Colors |-> BoardsOf(v)[d]]
         /\ BoardsOf(v) \in [Colors -> [0 .. 6 -> SUBSET Squares]]
BY DEF BoardsOf, SquaresOf, king, Kinds

\* Two rows of sets are equal when they agree on every square.
LEMMA RowsEqual ==
  ASSUME NEW f \in [0 .. 6 -> SUBSET Squares], NEW g \in [0 .. 6 -> SUBSET Squares],
         \A p \in 0 .. 6, s \in Squares : s \in f[p] <=> s \in g[p]
  PROVE  f = g
<1>1. \A p \in 0 .. 6 : f[p] = g[p]
  OBVIOUS
<1> QED
  BY <1>1

\* One square changes from one content to another.
LEMMA BoardsChanged ==
  ASSUME NEW v \in Contents, NEW w \in Contents, NEW s \in Squares,
         \A t \in Squares \ {s} : w[t] = v[t],
         NEW c \in Colors, w[s] * Forward(Flip(c)) > 0 <=> v[s] * Forward(Flip(c)) > 0,
         \A p \in Kinds : w[s] = Value(Flip(c), p) <=> v[s] = Value(Flip(c), p),
         NEW row \in [0 .. 6 -> SUBSET Squares],
         \A p \in 0 .. 6, t \in Squares \ {s} : t \in row[p] <=> t \in BoardsOf(v)[c][p],
         s \in row[0] <=> w[s] * Forward(c) > 0,
         \A p \in Kinds : s \in row[p] <=> w[s] = Value(c, p)
  PROVE  BoardsOf(w) = Put(BoardsOf(v), c, row)
<1>1. Flip(c) \in Colors /\ Flip(c) # c /\ Colors = {c, Flip(c)}
  BY DEF Flip, Colors, white, black
<1>2. BoardsOf(w)[c] = row
  <2>1. \A p \in 0 .. 6, t \in Squares : t \in BoardsOf(w)[c][p] <=> t \in row[p]
    <3> SUFFICES ASSUME NEW p \in 0 .. 6, NEW t \in Squares
                 PROVE  t \in BoardsOf(w)[c][p] <=> t \in row[p]
      OBVIOUS
    <3>1. CASE p = 0
      BY <3>1, BoardsAt
    <3>2. CASE p \in Kinds
      BY <3>2, BoardsAt
    <3> QED
      BY <3>1, <3>2 DEF Kinds
  <2> QED
    BY <2>1, RowsEqual, BoardsTyped
<1>3. BoardsOf(w)[Flip(c)] = BoardsOf(v)[Flip(c)]
  <2>1. \A p \in 0 .. 6, t \in Squares :
          t \in BoardsOf(w)[Flip(c)][p] <=> t \in BoardsOf(v)[Flip(c)][p]
    <3> SUFFICES ASSUME NEW p \in 0 .. 6, NEW t \in Squares
                 PROVE  t \in BoardsOf(w)[Flip(c)][p] <=> t \in BoardsOf(v)[Flip(c)][p]
      OBVIOUS
    <3>1. CASE p = 0
      BY <3>1, <1>1, BoardsAt
    <3>2. CASE p \in Kinds
      BY <3>2, <1>1, BoardsAt
    <3> QED
      BY <3>1, <3>2 DEF Kinds
  <2> QED
    BY <2>1, <1>1, RowsEqual, BoardsTyped
<1>4. \A d \in Colors : BoardsOf(w)[d] = IF d = c THEN row ELSE BoardsOf(v)[d]
  BY <1>1, <1>2, <1>3
<1>5. /\ BoardsOf(w) = [d \in Colors |-> BoardsOf(w)[d]]
      /\ BoardsOf(v) = [d \in Colors |-> BoardsOf(v)[d]]
  BY BoardsTyped
<1>6. BoardsOf(w) = [BoardsOf(v) EXCEPT ![c] = row]
  BY <1>4, <1>5
<1> QED
  BY <1>6 DEF Put

LEMMA StandingFields ==
  ASSUME NEW v, NEW n, NEW k, NEW pk, NEW fl, NEW ff, NEW cs, NEW u
  PROVE  LET b == Standing(v, n, k, pk, fl, ff, cs, u)
         IN /\ b.values = v /\ b.boards = BoardsOf(v) /\ b.counts = n
            /\ b.occupied = Filled(v) /\ b.key = k /\ b.pawnKey = pk /\ b.flags = fl
            /\ b.fifty = ff /\ b.castled = cs /\ b.undoInfo = u
BY DEF Standing

Fields(v, bs, n, o, k, pk, fl, ff, cs, u) ==
  [values |-> v, boards |-> bs, counts |-> n, occupied |-> o,
   key |-> k, pawnKey |-> pk, flags |-> fl, fifty |-> ff, castled |-> cs, undoInfo |-> u]

LEMMA StandingIsFields ==
  ASSUME NEW v, NEW n, NEW k, NEW pk, NEW fl, NEW ff, NEW cs, NEW u
  PROVE  Standing(v, n, k, pk, fl, ff, cs, u)
           = Fields(v, BoardsOf(v), n, Filled(v), k, pk, fl, ff, cs, u)
BY DEF Standing, Fields

Sets == [0 .. 6 -> SUBSET Squares]

LEMMA RowWithout ==
  ASSUME NEW row \in Sets, NEW p \in Kinds, NEW s \in Squares
  PROVE  /\ Without(row, p, s) \in Sets
         /\ \A q \in 0 .. 6, t \in Squares :
              t \in Without(row, p, s)[q] <=> t \in row[q] /\ ~(t = s /\ q \in {0, p})
<1>1. 0 \in 0 .. 6 /\ p \in 0 .. 6
  BY DEF Kinds
<1> QED
  BY <1>1 DEF Without, Sets

LEMMA RowWith ==
  ASSUME NEW row \in Sets, NEW p \in Kinds, NEW s \in Squares
  PROVE  /\ With(row, p, s) \in Sets
         /\ \A q \in 0 .. 6, t \in Squares :
              t \in With(row, p, s)[q] <=> t \in row[q] \/ (t = s /\ q \in {0, p})
<1>1. 0 \in 0 .. 6 /\ p \in 0 .. 6
  BY DEF Kinds
<1> QED
  BY <1>1 DEF With, Sets

\* The fields that a piece's arrival or departure touches, one after the other.
Touched(b, c, row, o, s, x) ==
  [b EXCEPT !.boards[c] = row, !.occupied = o, !.values[s] = x]

LEMMA TouchedFields ==
  ASSUME NEW v, NEW n, NEW k, NEW pk, NEW fl, NEW ff, NEW cs, NEW u,
         NEW c, NEW s, NEW x, NEW row, NEW o
  PROVE  Touched(Standing(v, n, k, pk, fl, ff, cs, u), c, row, o, s, x)
           = Fields(Put(v, s, x), Put(BoardsOf(v), c, row), n, o,
                    k, pk, fl, ff, cs, u)
<1> DEFINE b0 == Standing(v, n, k, pk, fl, ff, cs, u)
           bs == Put(BoardsOf(v), c, row)
           b1 == Fields(v, bs, n, Filled(v), k, pk, fl, ff, cs, u)
           b2 == Fields(v, bs, n, o, k, pk, fl, ff, cs, u)
<1>1. [b0 EXCEPT !.boards[c] = row] = b1
  BY DEF Fields, Standing, Put
<1>2. [b1 EXCEPT !.occupied = o] = b2
  BY DEF Fields
<1>3. [b2 EXCEPT !.values[s] = x]
        = Fields(Put(v, s, x), bs, n, o, k, pk, fl, ff, cs, u)
  BY DEF Fields, Put
<1> HIDE DEF b0, b1, b2, bs
<1>4. Touched(b0, c, row, o, s, x)
        = [[[b0 EXCEPT !.boards[c] = row] EXCEPT !.occupied = o] EXCEPT !.values[s] = x]
  BY DEF Touched
<1> QED
  BY <1>1, <1>2, <1>3, <1>4 DEF bs, b0

\* What one square's change does to the sets.
LEMMA BoardsLifted ==
  ASSUME NEW v \in Contents, NEW c \in Colors, NEW p \in Kinds, NEW s \in Squares,
         v[s] = Value(c, p), NEW w, w = Put(v, s, empty)
  PROVE  /\ w \in Contents /\ w[s] = empty
         /\ \A t \in Squares \ {s} : w[t] = v[t]
         /\ BoardsOf(w) = Put(BoardsOf(v), c, Without(BoardsOf(v)[c], p, s))
         /\ Filled(w) = Filled(v) \ {s}
         /\ s \in BoardsOf(v)[c][0] /\ s \in BoardsOf(v)[c][p]
<1> DEFINE row == Without(BoardsOf(v)[c], p, s)
<1>1. w \in Contents /\ w[s] = empty /\ \A t \in Squares \ {s} : w[t] = v[t]
  <2>1. empty \in Codes
    BY DEF Codes, empty
  <2> QED
    BY <2>1, PutAt
<1>2. BoardsOf(v)[c] \in Sets
  BY BoardsTyped DEF Sets
<1>3. /\ row \in Sets
      /\ \A q \in 0 .. 6, t \in Squares :
           t \in row[q] <=> t \in BoardsOf(v)[c][q] /\ ~(t = s /\ q \in {0, p})
  BY <1>2, RowWithout
<1>4. Flip(c) \in Colors /\ Flip(c) # c
  BY DEF Flip, Colors, white, black
<1>5. /\ ~(v[s] * Forward(Flip(c)) > 0) /\ ~(empty * Forward(Flip(c)) > 0)
      /\ ~(empty * Forward(c) > 0)
  BY <1>4, Codings
<1>6. /\ \A q \in Kinds : v[s] # Value(Flip(c), q) /\ empty # Value(Flip(c), q)
      /\ \A q \in Kinds : empty # Value(c, q)
      /\ \A q \in Kinds : v[s] = Value(c, q) => q = p
  BY <1>4, Codings
<1>7. \A q \in 0 .. 6, t \in Squares \ {s} : t \in row[q] <=> t \in BoardsOf(v)[c][q]
  BY <1>3
<1>8. s \notin row[0] /\ \A q \in Kinds : s \notin row[q]
  <2>1. \A q \in Kinds : q # p => s \notin BoardsOf(v)[c][q]
    BY <1>6, BoardsAt
  <2> QED
    BY <1>3, <2>1 DEF Kinds
<1>9. s \in BoardsOf(v)[c][0] /\ s \in BoardsOf(v)[c][p]
  BY BoardsAt, Codings
<1>10. Filled(w) = Filled(v) \ {s}
  BY <1>1 DEF Filled
<1> HIDE DEF row
<1>11. BoardsOf(w) = Put(BoardsOf(v), c, row)
  BY <1>1, <1>3, <1>5, <1>6, <1>7, <1>8, BoardsChanged DEF Sets
<1> QED
  BY <1>1, <1>9, <1>10, <1>11 DEF row

LEMMA BoardsPlaced ==
  ASSUME NEW v \in Contents, NEW c \in Colors, NEW p \in Kinds, NEW s \in Squares,
         v[s] = empty, NEW w, w = Put(v, s, Value(c, p))
  PROVE  /\ w \in Contents /\ w[s] = Value(c, p)
         /\ \A t \in Squares \ {s} : w[t] = v[t]
         /\ BoardsOf(w) = Put(BoardsOf(v), c, With(BoardsOf(v)[c], p, s))
         /\ Filled(w) = Filled(v) \union {s}
         /\ s \notin BoardsOf(v)[c][0] /\ s \notin BoardsOf(v)[c][p]
<1> DEFINE row == With(BoardsOf(v)[c], p, s)
<1>1. w \in Contents /\ w[s] = Value(c, p) /\ \A t \in Squares \ {s} : w[t] = v[t]
  BY Codings, PutAt
<1>2. BoardsOf(v)[c] \in Sets
  BY BoardsTyped DEF Sets
<1>3. /\ row \in Sets
      /\ \A q \in 0 .. 6, t \in Squares :
           t \in row[q] <=> t \in BoardsOf(v)[c][q] \/ (t = s /\ q \in {0, p})
  BY <1>2, RowWith
<1>4. Flip(c) \in Colors /\ Flip(c) # c
  BY DEF Flip, Colors, white, black
<1>5. /\ ~(w[s] * Forward(Flip(c)) > 0) /\ ~(empty * Forward(Flip(c)) > 0)
      /\ w[s] * Forward(c) > 0 /\ ~(empty * Forward(c) > 0)
  BY <1>1, <1>4, Codings
<1>6. /\ \A q \in Kinds : w[s] # Value(Flip(c), q) /\ empty # Value(Flip(c), q)
      /\ \A q \in Kinds : empty # Value(c, q)
      /\ \A q \in Kinds : w[s] = Value(c, q) <=> q = p
  BY <1>1, <1>4, Codings
<1>7. \A q \in 0 .. 6, t \in Squares \ {s} : t \in row[q] <=> t \in BoardsOf(v)[c][q]
  BY <1>3
<1>8. \A q \in Kinds \union {0} : s \notin BoardsOf(v)[c][q]
  BY <1>5, <1>6, BoardsAt
<1>9. s \in row[0] /\ \A q \in Kinds : s \in row[q] <=> w[s] = Value(c, q)
  <2>1. \A q \in Kinds : q \in 0 .. 6 /\ q # 0
    BY DEF Kinds
  <2> QED
    BY <1>3, <1>6, <1>8, <2>1
<1>10. Filled(w) = Filled(v) \union {s}
  BY <1>1, Codings DEF Filled
<1> HIDE DEF row
<1>11. BoardsOf(w) = Put(BoardsOf(v), c, row)
  BY <1>1, <1>3, <1>5, <1>6, <1>7, <1>9, BoardsChanged DEF Sets
<1> QED
  BY <1>1, <1>8, <1>10, <1>11 DEF row

LEMMA LiftedStands ==
  ASSUME NEW v \in Contents, NEW n, NEW k, NEW pk, NEW fl, NEW ff, NEW cs, NEW u,
         NEW c \in Colors, NEW p \in Kinds, NEW s \in Squares, v[s] = Value(c, p),
         NEW w, w = Put(v, s, empty)
  PROVE  Lifted(Standing(v, n, k, pk, fl, ff, cs, u), c, p, s)
           = Standing(w, n, k, pk, fl, ff, cs, u)
<1> DEFINE b == Standing(v, n, k, pk, fl, ff, cs, u)
           row == Without(BoardsOf(v)[c], p, s)
<1>1. BoardsOf(w) = Put(BoardsOf(v), c, row) /\ Filled(w) = Filled(v) \ {s}
  BY BoardsLifted
<1>2. Lifted(b, c, p, s) = Touched(b, c, row, Filled(v) \ {s}, s, empty)
  <2>1. b.boards[c] = BoardsOf(v)[c] /\ b.occupied = Filled(v)
    BY DEF Standing
  <2> HIDE DEF b
  <2> QED
    BY <2>1 DEF Lifted, Touched
<1>3. Touched(b, c, row, Filled(v) \ {s}, s, empty)
        = Fields(Put(v, s, empty), Put(BoardsOf(v), c, row), n,
                 Filled(v) \ {s}, k, pk, fl, ff, cs, u)
  BY TouchedFields
<1> HIDE DEF row
<1> QED
  BY <1>1, <1>2, <1>3, StandingIsFields

LEMMA PlacedStands ==
  ASSUME NEW v \in Contents, NEW n, NEW k, NEW pk, NEW fl, NEW ff, NEW cs, NEW u,
         NEW c \in Colors, NEW p \in Kinds, NEW s \in Squares, v[s] = empty,
         NEW w, w = Put(v, s, Value(c, p))
  PROVE  Placed(Standing(v, n, k, pk, fl, ff, cs, u), c, p, s)
           = Standing(w, n, k, pk, fl, ff, cs, u)
<1> DEFINE b == Standing(v, n, k, pk, fl, ff, cs, u)
           row == With(BoardsOf(v)[c], p, s)
<1>1. BoardsOf(w) = Put(BoardsOf(v), c, row) /\ Filled(w) = Filled(v) \union {s}
  BY BoardsPlaced
<1>2. Placed(b, c, p, s) = Touched(b, c, row, Filled(v) \union {s}, s, Value(c, p))
  <2>1. b.boards[c] = BoardsOf(v)[c] /\ b.occupied = Filled(v)
    BY DEF Standing
  <2> HIDE DEF b
  <2> QED
    BY <2>1 DEF Placed, Touched
<1>3. Touched(b, c, row, Filled(v) \union {s}, s, Value(c, p))
        = Fields(Put(v, s, Value(c, p)), Put(BoardsOf(v), c, row), n,
                 Filled(v) \union {s}, k, pk, fl, ff, cs, u)
  BY TouchedFields
<1> HIDE DEF row
<1> QED
  BY <1>1, <1>2, <1>3, StandingIsFields
-----------------------------------------------------------------------------
(***************************************************************************)
(* The counts beside the squares.                                          *)
(***************************************************************************)
Counts == [0 .. 6 -> Int]

Census(v) == CountsOf(BoardsOf(v))

LEMMA FiniteSquares ==
  ASSUME NEW S \in SUBSET Squares
  PROVE  IsFiniteSet(S) /\ Cardinality(S) \in Nat
<1>1. IsFiniteSet(Squares)
  <2>1. 0 \in Int /\ 63 \in Int
    OBVIOUS
  <2> QED
    BY <2>1, FS_Interval, Zenon DEF Squares
<1> QED
  BY <1>1, FS_Subset, FS_CardinalityType

LEMMA CensusAt ==
  ASSUME NEW v \in Contents
  PROVE  /\ \A d \in Colors, q \in 0 .. 6 : Census(v)[d][q] = Cardinality(BoardsOf(v)[d][q])
         /\ Census(v) \in [Colors -> [0 .. 6 -> Nat]]
<1>1. \A d \in Colors, q \in 0 .. 6 : Census(v)[d][q] = Cardinality(BoardsOf(v)[d][q])
  BY DEF Census, CountsOf, king
<1>2. \A d \in Colors, q \in 0 .. 6 : Cardinality(BoardsOf(v)[d][q]) \in Nat
  <2>1. \A d \in Colors, q \in 0 .. 6 : BoardsOf(v)[d][q] \in SUBSET Squares
    BY BoardsTyped
  <2> QED
    BY <2>1, FiniteSquares
<1> QED
  BY <1>1, <1>2 DEF Census, CountsOf, king

\* Rows of counts are equal when they agree on every kind.
LEMMA CountsEqual ==
  ASSUME NEW f \in Counts, NEW g \in Counts, \A q \in 0 .. 6 : f[q] = g[q]
  PROVE  f = g
BY DEF Counts

\* A change of one colour's row.
LEMMA CensusChanged ==
  ASSUME NEW v \in Contents, NEW w \in Contents, NEW c \in Colors, NEW row \in Sets,
         BoardsOf(w) = Put(BoardsOf(v), c, row),
         NEW counts \in Counts, \A q \in 0 .. 6 : counts[q] = Cardinality(row[q])
  PROVE  Census(w) = Put(Census(v), c, counts)
<1>1. \A d \in Colors : BoardsOf(w)[d] = IF d = c THEN row ELSE BoardsOf(v)[d]
  BY BoardsTyped DEF Put
<1>2. \A d \in Colors : Census(w)[d] = IF d = c THEN counts ELSE Census(v)[d]
  <2> SUFFICES ASSUME NEW d \in Colors
               PROVE  Census(w)[d] = IF d = c THEN counts ELSE Census(v)[d]
    OBVIOUS
  <2>1. \A q \in 0 .. 6 :
          Census(w)[d][q] = (IF d = c THEN counts ELSE Census(v)[d])[q]
    BY <1>1, CensusAt
  <2>2. Census(w)[d] \in Counts /\ Census(v)[d] \in Counts
    BY CensusAt DEF Counts
  <2> QED
    BY <2>1, <2>2, CountsEqual
<1>3. \A x : x \in Contents => Census(x) = [d \in Colors |-> Census(x)[d]]
  BY DEF Census, CountsOf
<1>4. Census(w) = [Census(v) EXCEPT ![c] = counts]
  BY <1>2, <1>3
<1> QED
  BY <1>4 DEF Put

LEMMA RowOfCounts ==
  ASSUME NEW row \in Counts, NEW p \in Kinds, NEW i \in Int
  PROVE  /\ More(row, p, i) \in Counts
         /\ \A q \in 0 .. 6 :
              More(row, p, i)[q] = IF q \in {0, p} THEN row[q] + i ELSE row[q]
<1>1. 0 \in 0 .. 6 /\ p \in 0 .. 6 /\ p # 0
  BY DEF Kinds
<1> QED
  BY <1>1 DEF More, Counts

LEMMA CensusMore ==
  ASSUME NEW v \in Contents, NEW w \in Contents, NEW c \in Colors, NEW row \in Sets,
         BoardsOf(w) = Put(BoardsOf(v), c, row), NEW p \in Kinds, NEW i \in Int,
         \A q \in 0 .. 6 :
           Cardinality(row[q]) = IF q \in {0, p} THEN Cardinality(BoardsOf(v)[c][q]) + i
                                 ELSE Cardinality(BoardsOf(v)[c][q])
  PROVE  Census(w) = Put(Census(v), c, More(Census(v)[c], p, i))
<1> DEFINE counts == More(Census(v)[c], p, i)
<1>1. Census(v)[c] \in Counts
  BY CensusAt DEF Counts
<1>2. counts \in Counts /\ \A q \in 0 .. 6 : counts[q] = Cardinality(row[q])
  <2>1. \A q \in 0 .. 6 : Census(v)[c][q] = Cardinality(BoardsOf(v)[c][q])
    BY CensusAt
  <2>2. /\ counts \in Counts
        /\ \A q \in 0 .. 6 :
             counts[q] = IF q \in {0, p} THEN Census(v)[c][q] + i ELSE Census(v)[c][q]
    <3>1. PICK m \in Counts : m = Census(v)[c]
      BY <1>1
    <3>2. /\ More(m, p, i) \in Counts
          /\ \A q \in 0 .. 6 : More(m, p, i)[q] = IF q \in {0, p} THEN m[q] + i ELSE m[q]
      BY RowOfCounts
    <3> QED
      BY <3>1, <3>2
  <2> HIDE DEF counts
  <2> QED
    BY <2>1, <2>2
<1> HIDE DEF counts
<1>3. Census(w) = Put(Census(v), c, counts)
  BY <1>2, CensusChanged
<1> QED
  BY <1>3 DEF counts

LEMMA CensusLifted ==
  ASSUME NEW v \in Contents, NEW c \in Colors, NEW p \in Kinds, NEW s \in Squares,
         v[s] = Value(c, p), NEW w, w = Put(v, s, empty)
  PROVE  Census(w) = Put(Census(v), c, More(Census(v)[c], p, -1))
<1> DEFINE row == Without(BoardsOf(v)[c], p, s)
<1>1. /\ w \in Contents /\ BoardsOf(w) = Put(BoardsOf(v), c, row)
      /\ s \in BoardsOf(v)[c][0] /\ s \in BoardsOf(v)[c][p]
  BY BoardsLifted
<1>2. BoardsOf(v)[c] \in Sets
  BY BoardsTyped DEF Sets
<1>3. row \in Sets
  BY <1>2, RowWithout
<1>4. ASSUME NEW q \in 0 .. 6
      PROVE  Cardinality(row[q]) = IF q \in {0, p} THEN Cardinality(BoardsOf(v)[c][q]) + (-1)
                                   ELSE Cardinality(BoardsOf(v)[c][q])
  <2> DEFINE S == BoardsOf(v)[c][q]
  <2>1. S \in SUBSET Squares /\ row[q] \in SUBSET Squares
    BY <1>2, <1>3 DEF Sets
  <2>2. CASE q \in {0, p}
    <3>1. s \in S
      BY <1>1, <2>2
    <3>2. row[q] = S \ {s}
      BY <1>2, <2>1, <2>2, RowWithout
    <3> HIDE DEF S
    <3>3. Cardinality(S \ {s}) = Cardinality(S) - 1 /\ Cardinality(S) \in Nat
      BY <2>1, <3>1, FiniteSquares, FS_RemoveElement
    <3> QED
      BY <2>2, <3>2, <3>3 DEF S
  <2>3. CASE q \notin {0, p}
    <3>1. \A t \in Squares : t \in row[q] <=> t \in S
      BY <1>2, <2>3, RowWithout
    <3>2. row[q] = S
      BY <2>1, <3>1
    <3> QED
      BY <2>3, <3>2
  <2> QED
    BY <2>2, <2>3
<1> HIDE DEF row
<1>5. -1 \in Int
  OBVIOUS
<1> QED
  BY <1>1, <1>3, <1>4, <1>5, CensusMore

LEMMA CensusPlaced ==
  ASSUME NEW v \in Contents, NEW c \in Colors, NEW p \in Kinds, NEW s \in Squares,
         v[s] = empty, NEW w, w = Put(v, s, Value(c, p))
  PROVE  Census(w) = Put(Census(v), c, More(Census(v)[c], p, 1))
<1> DEFINE row == With(BoardsOf(v)[c], p, s)
<1>1. /\ w \in Contents /\ BoardsOf(w) = Put(BoardsOf(v), c, row)
      /\ s \notin BoardsOf(v)[c][0] /\ s \notin BoardsOf(v)[c][p]
  BY BoardsPlaced
<1>2. BoardsOf(v)[c] \in Sets
  BY BoardsTyped DEF Sets
<1>3. row \in Sets
  BY <1>2, RowWith
<1>4. ASSUME NEW q \in 0 .. 6
      PROVE  Cardinality(row[q]) = IF q \in {0, p} THEN Cardinality(BoardsOf(v)[c][q]) + 1
                                   ELSE Cardinality(BoardsOf(v)[c][q])
  <2> DEFINE S == BoardsOf(v)[c][q]
  <2>1. S \in SUBSET Squares /\ row[q] \in SUBSET Squares
    BY <1>2, <1>3 DEF Sets
  <2>2. CASE q \in {0, p}
    <3>1. s \notin S
      BY <1>1, <2>2
    <3>2. row[q] = S \union {s}
      BY <1>2, <2>1, <2>2, RowWith
    <3> HIDE DEF S
    <3>3. Cardinality(S \union {s}) = Cardinality(S) + 1 /\ Cardinality(S) \in Nat
      BY <2>1, <3>1, FiniteSquares, FS_AddElement
    <3> QED
      BY <2>2, <3>2, <3>3 DEF S
  <2>3. CASE q \notin {0, p}
    <3>1. \A t \in Squares : t \in row[q] <=> t \in S
      BY <1>2, <2>3, RowWith
    <3>2. row[q] = S
      BY <2>1, <3>1
    <3> QED
      BY <2>3, <3>2
  <2> QED
    BY <2>2, <2>3
<1> HIDE DEF row
<1> QED
  BY <1>1, <1>3, <1>4, CensusMore
\* A piece that becomes another.
Recast(b, c, row, counts, s, x) ==
  [b EXCEPT !.boards[c] = row, !.counts[c] = counts, !.values[s] = x]

LEMMA RowRenamed ==
  ASSUME NEW row \in Sets, NEW old \in Kinds, NEW new \in Kinds, old # new,
         NEW s \in Squares
  PROVE  /\ Renamed(row, old, new, s) \in Sets
         /\ \A q \in 0 .. 6, t \in Squares :
              t \in Renamed(row, old, new, s)[q] <=>
                \/ t \in row[q] /\ ~(t = s /\ q = old)
                \/ t = s /\ q = new
<1>1. old \in 0 .. 6 /\ new \in 0 .. 6
  BY DEF Kinds
<1> QED
  BY <1>1 DEF Renamed, Sets

LEMMA RowRecounted ==
  ASSUME NEW row \in Counts, NEW old \in Kinds, NEW new \in Kinds, old # new
  PROVE  /\ Recounted(row, old, new) \in Counts
         /\ \A q \in 0 .. 6 :
              Recounted(row, old, new)[q] =
                IF q = old THEN row[q] - 1 ELSE IF q = new THEN row[q] + 1 ELSE row[q]
<1>1. old \in 0 .. 6 /\ new \in 0 .. 6
  BY DEF Kinds
<1> QED
  BY <1>1 DEF Recounted, Counts

LEMMA BoardsExchanged ==
  ASSUME NEW v \in Contents, NEW c \in Colors, NEW old \in Kinds, NEW new \in Kinds,
         old # new, NEW s \in Squares, v[s] = Value(c, old),
         NEW w, w = Put(v, s, Value(c, new))
  PROVE  /\ w \in Contents /\ w[s] = Value(c, new)
         /\ \A t \in Squares \ {s} : w[t] = v[t]
         /\ BoardsOf(w) = Put(BoardsOf(v), c, Renamed(BoardsOf(v)[c], old, new, s))
         /\ Filled(w) = Filled(v)
         /\ Census(w) = Put(Census(v), c, Recounted(Census(v)[c], old, new))
<1> DEFINE row == Renamed(BoardsOf(v)[c], old, new, s)
           counts == Recounted(Census(v)[c], old, new)
<1>1. w \in Contents /\ w[s] = Value(c, new) /\ \A t \in Squares \ {s} : w[t] = v[t]
  BY Codings, PutAt
<1>2. BoardsOf(v)[c] \in Sets
  BY BoardsTyped DEF Sets
<1>3. /\ row \in Sets
      /\ \A q \in 0 .. 6, t \in Squares :
           t \in row[q] <=>
             \/ t \in BoardsOf(v)[c][q] /\ ~(t = s /\ q = old)
             \/ t = s /\ q = new
  BY <1>2, RowRenamed
<1>4. Flip(c) \in Colors /\ Flip(c) # c
  BY DEF Flip, Colors, white, black
<1>5. /\ ~(v[s] * Forward(Flip(c)) > 0) /\ ~(w[s] * Forward(Flip(c)) > 0)
      /\ v[s] * Forward(c) > 0 /\ w[s] * Forward(c) > 0
  BY <1>1, <1>4, Codings
<1>6. /\ \A q \in Kinds : v[s] # Value(Flip(c), q) /\ w[s] # Value(Flip(c), q)
      /\ \A q \in Kinds : v[s] = Value(c, q) <=> q = old
      /\ \A q \in Kinds : w[s] = Value(c, q) <=> q = new
  <2>1. \A p \in Kinds : \A q \in Kinds :
          Value(c, p) # Value(Flip(c), q) /\ (Value(c, p) = Value(c, q) <=> q = p)
    BY <1>4, Codings
  <2> QED
    BY <1>1, <2>1
<1>7. \A q \in 0 .. 6, t \in Squares \ {s} : t \in row[q] <=> t \in BoardsOf(v)[c][q]
  BY <1>3
<1>8. /\ s \in BoardsOf(v)[c][0]
      /\ \A q \in Kinds : s \in BoardsOf(v)[c][q] <=> q = old
  BY <1>5, <1>6, BoardsAt
<1>9. s \in row[0] /\ \A q \in Kinds : s \in row[q] <=> w[s] = Value(c, q)
  <2>1. \A q \in Kinds : q \in 0 .. 6 /\ q # 0
    BY DEF Kinds
  <2> QED
    BY <1>3, <1>6, <1>8, <2>1
<1>10. Filled(w) = Filled(v)
  BY <1>1, Codings DEF Filled
<1>11. BoardsOf(w) = Put(BoardsOf(v), c, row)
  <2> HIDE DEF row
  <2> QED
    BY <1>1, <1>3, <1>5, <1>6, <1>7, <1>9, BoardsChanged DEF Sets
<1>12. counts \in Counts /\ \A q \in 0 .. 6 : counts[q] =
         IF q = old THEN Census(v)[c][q] - 1
         ELSE IF q = new THEN Census(v)[c][q] + 1 ELSE Census(v)[c][q]
  <2>1. PICK m \in Counts : m = Census(v)[c]
    BY CensusAt DEF Counts
  <2>2. /\ Recounted(m, old, new) \in Counts
        /\ \A q \in 0 .. 6 : Recounted(m, old, new)[q] =
             IF q = old THEN m[q] - 1 ELSE IF q = new THEN m[q] + 1 ELSE m[q]
    BY RowRecounted
  <2> QED
    BY <2>1, <2>2
<1>13. ASSUME NEW q \in 0 .. 6
       PROVE  counts[q] = Cardinality(row[q])
  <2> DEFINE S == BoardsOf(v)[c][q]
  <2>1. S \in SUBSET Squares /\ row[q] \in SUBSET Squares /\ Census(v)[c][q] = Cardinality(S)
    BY <1>2, <1>3, CensusAt DEF Sets
  <2>2. q = 0 \/ q \in Kinds
    BY DEF Kinds
  <2>3. CASE q = old
    <3>1. row[q] = S \ {s} /\ s \in S
      BY <1>3, <1>8, <2>1, <2>3
    <3> HIDE DEF S
    <3>2. Cardinality(S \ {s}) = Cardinality(S) - 1
      BY <2>1, <3>1, FiniteSquares, FS_RemoveElement
    <3> QED
      BY <1>12, <2>1, <2>3, <3>1, <3>2
  <2>4. CASE q = new
    <3>1. row[q] = S \union {s} /\ s \notin S
      BY <1>3, <1>8, <2>1, <2>4
    <3> HIDE DEF S
    <3>2. Cardinality(S \union {s}) = Cardinality(S) + 1
      BY <2>1, <3>1, FiniteSquares, FS_AddElement
    <3> QED
      BY <1>12, <2>1, <2>4, <3>1, <3>2
  <2>5. CASE q \notin {old, new}
    <3>1. \A t \in Squares : t \in row[q] <=> t \in S
      BY <1>3, <2>5
    <3>2. row[q] = S
      BY <2>1, <3>1
    <3> QED
      BY <1>12, <2>1, <2>5, <3>2
  <2> QED
    BY <2>3, <2>4, <2>5
<1> HIDE DEF row, counts
<1>14. Census(w) = Put(Census(v), c, counts)
  BY <1>1, <1>3, <1>11, <1>12, <1>13, CensusChanged
<1> QED
  BY <1>1, <1>10, <1>11, <1>14 DEF row, counts
LEMMA RecastFields ==
  ASSUME NEW v, NEW n, NEW k, NEW pk, NEW fl, NEW ff, NEW cs, NEW u,
         NEW c, NEW s, NEW x, NEW row, NEW counts
  PROVE  Recast(Standing(v, n, k, pk, fl, ff, cs, u), c, row, counts, s, x)
           = Fields(Put(v, s, x), Put(BoardsOf(v), c, row), Put(n, c, counts), Filled(v),
                    k, pk, fl, ff, cs, u)
<1> DEFINE b0 == Standing(v, n, k, pk, fl, ff, cs, u)
           bs == Put(BoardsOf(v), c, row)
           m == Put(n, c, counts)
           b1 == Fields(v, bs, n, Filled(v), k, pk, fl, ff, cs, u)
           b2 == Fields(v, bs, m, Filled(v), k, pk, fl, ff, cs, u)
<1>1. [b0 EXCEPT !.boards[c] = row] = b1
  BY DEF Fields, Standing, Put
<1>2. [b1 EXCEPT !.counts[c] = counts] = b2
  BY DEF Fields, Put
<1>3. [b2 EXCEPT !.values[s] = x]
        = Fields(Put(v, s, x), bs, m, Filled(v), k, pk, fl, ff, cs, u)
  BY DEF Fields, Put
<1> HIDE DEF b0, b1, b2, bs, m
<1>4. Recast(b0, c, row, counts, s, x)
        = [[[b0 EXCEPT !.boards[c] = row] EXCEPT !.counts[c] = counts] EXCEPT !.values[s] = x]
  BY DEF Recast
<1> QED
  BY <1>1, <1>2, <1>3, <1>4 DEF bs, b0, m

LEMMA ExchangedStands ==
  ASSUME NEW v \in Contents, NEW k, NEW pk, NEW fl, NEW ff, NEW cs, NEW u,
         NEW c \in Colors, NEW old \in Kinds, NEW new \in Kinds, old # new,
         NEW s \in Squares, v[s] = Value(c, old), NEW w, w = Put(v, s, Value(c, new))
  PROVE  Exchanged(Standing(v, Census(v), k, pk, fl, ff, cs, u), c, old, new, s)
           = Standing(w, Census(w), k, pk, fl, ff, cs, u)
<1> DEFINE b == Standing(v, Census(v), k, pk, fl, ff, cs, u)
           row == Renamed(BoardsOf(v)[c], old, new, s)
           counts == Recounted(Census(v)[c], old, new)
<1>1. /\ BoardsOf(w) = Put(BoardsOf(v), c, row) /\ Filled(w) = Filled(v)
      /\ Census(w) = Put(Census(v), c, counts)
  BY BoardsExchanged
<1>2. Exchanged(b, c, old, new, s) = Recast(b, c, row, counts, s, Value(c, new))
  <2>1. b.boards[c] = BoardsOf(v)[c] /\ b.counts[c] = Census(v)[c]
    BY DEF Standing
  <2> HIDE DEF b
  <2> QED
    BY <2>1 DEF Exchanged, Recast
<1>3. Recast(b, c, row, counts, s, Value(c, new))
        = Fields(Put(v, s, Value(c, new)), Put(BoardsOf(v), c, row),
                 Put(Census(v), c, counts), Filled(v), k, pk, fl, ff, cs, u)
  BY RecastFields
<1> HIDE DEF row, counts
<1> QED
  BY <1>1, <1>2, <1>3, StandingIsFields

LEMMA CountedStands ==
  ASSUME NEW v, NEW n, NEW k, NEW pk, NEW fl, NEW ff, NEW cs, NEW u,
         NEW c, NEW p, NEW i
  PROVE  Counted(Standing(v, n, k, pk, fl, ff, cs, u), c, p, i)
           = Standing(v, Put(n, c, More(n[c], p, i)), k, pk, fl, ff, cs, u)
BY DEF Counted, Standing, Put

LEMMA ToggledStands ==
  ASSUME NEW v, NEW n, NEW k, NEW pk, NEW fl, NEW ff, NEW cs, NEW u, NEW f
  PROVE  /\ Toggled(Standing(v, n, k, pk, fl, ff, cs, u), f)
              = Standing(v, n, SymDiff(k, f), pk, fl, ff, cs, u)
         /\ PawnToggled(Standing(v, n, k, pk, fl, ff, cs, u), f)
              = Standing(v, n, k, SymDiff(pk, f), fl, ff, cs, u)
<1>1. Toggled(Standing(v, n, k, pk, fl, ff, cs, u), f)
        = Standing(v, n, SymDiff(k, f), pk, fl, ff, cs, u)
  BY DEF Toggled, Standing
<1>2. PawnToggled(Standing(v, n, k, pk, fl, ff, cs, u), f)
        = Standing(v, n, k, SymDiff(pk, f), fl, ff, cs, u)
  BY DEF PawnToggled, Standing
<1> QED
  BY <1>1, <1>2
-----------------------------------------------------------------------------
(***************************************************************************)
(* The keys beside the squares.                                            *)
(***************************************************************************)
Word(x, s) == <<"piece", x, s>>
Words(v, K) == {Word(v[s], s) : s \in {t \in Squares : v[t] \in K}}
WordIf(K, x, s) == IF x \in K THEN {Word(x, s)} ELSE {}
AnyMan == Codes \ {empty}
PawnsAndKings == {-6, -1, 1, 6}
\* What else is in a key.
Others(rights, ep) == {Absent(r) : r \in Rights \ rights} \union EnPassant(ep)

LEMMA KeysAreWords ==
  ASSUME NEW v \in Contents, NEW fl
  PROVE  /\ ComputedKey(v, fl) = Words(v, AnyMan) \union Others(fl.rights, fl.ep)
         /\ ComputedPawnKey(v, fl) = Words(v, PawnsAndKings) \union EnPassant(fl.ep)
<1>1. {s \in Squares : v[s] # empty} = {t \in Squares : v[t] \in AnyMan}
  BY DEF AnyMan, Contents
<1>2. {s \in Squares : Magnitude(v[s]) \in {pawn, king}} = {t \in Squares : v[t] \in PawnsAndKings}
  BY DEF PawnsAndKings, Contents, Codes, Magnitude, pawn, king
<1> QED
  BY <1>1, <1>2 DEF ComputedKey, ComputedPawnKey, Words, Word, Others

LEMMA OthersAreNoWords ==
  ASSUME NEW rights, NEW ep, NEW x, NEW s
  PROVE  Word(x, s) \notin Others(rights, ep) /\ Word(x, s) \notin EnPassant(ep)
<1>1. Word(x, s) \notin EnPassant(ep)
  BY DEF Word, EnPassant
<1>2. ASSUME NEW r \in Rights
      PROVE  Word(x, s) # Absent(r)
  <2>1. r[2] \in {"king", "queen"}
    BY DEF Rights, Sides
  <2> QED
    BY <2>1 DEF Word, Absent
<1> QED
  BY <1>1, <1>2 DEF Others

LEMMA WordsEqual ==
  ASSUME NEW x, NEW y, NEW s, NEW t
  PROVE  Word(x, s) = Word(y, t) <=> x = y /\ s = t
BY DEF Word

LEMMA WordsPut ==
  ASSUME NEW v \in Contents, NEW s \in Squares, NEW x \in Codes, NEW K
  PROVE  /\ Words(Put(v, s, x), K) = (Words(v, K) \ {Word(v[s], s)}) \union WordIf(K, x, s)
         /\ \A y : Word(y, s) \in Words(v, K) <=> y = v[s] /\ y \in K
<1> DEFINE w == Put(v, s, x)
<1>1. w \in Contents /\ w[s] = x /\ \A t \in Squares \ {s} : w[t] = v[t]
  BY PutAt
<1> HIDE DEF w
<1>2. \A z : z \in Words(w, K) <=> \E t \in Squares : w[t] \in K /\ z = Word(w[t], t)
  BY DEF Words
<1>3. \A z : z \in Words(v, K) <=> \E t \in Squares : v[t] \in K /\ z = Word(v[t], t)
  BY DEF Words
<1>4. \A y : Word(y, s) \in Words(v, K) <=> y = v[s] /\ y \in K
  BY <1>3, WordsEqual
<1>5. ASSUME NEW z
      PROVE  z \in Words(w, K)
               <=> z \in (Words(v, K) \ {Word(v[s], s)}) \union WordIf(K, x, s)
  <2>1. CASE \E y : z = Word(y, s)
    <3>1. PICK y : z = Word(y, s)
      BY <2>1
    <3>2. z \in Words(w, K) <=> y = x /\ y \in K
      BY <1>1, <1>2, <3>1, WordsEqual
    <3>3. z \in WordIf(K, x, s) <=> y = x /\ y \in K
      BY <3>1, WordsEqual DEF WordIf
    <3> QED
      BY <1>4, <3>1, <3>2, <3>3
  <2>2. CASE ~\E y : z = Word(y, s)
    <3>1. z \notin WordIf(K, x, s) /\ z # Word(v[s], s)
      BY <2>2 DEF WordIf
    <3>2. z \in Words(w, K) <=> z \in Words(v, K)
      BY <1>1, <1>2, <1>3, <2>2
    <3> QED
      BY <3>1, <3>2
  <2> QED
    BY <2>1, <2>2
<1> QED
  BY <1>4, <1>5 DEF w

\* A toggle of one word takes it out of a key or puts it there.
LEMMA WordsTaken ==
  ASSUME NEW v \in Contents, NEW s \in Squares, NEW K, empty \notin K, v[s] \in K, NEW Z,
         Word(v[s], s) \notin Z
  PROVE  SymDiff(Words(v, K) \union Z, {Word(v[s], s)}) = Words(Put(v, s, empty), K) \union Z
<1>1. empty \in Codes
  BY DEF empty, Codes
<1>2. Words(Put(v, s, empty), K) = Words(v, K) \ {Word(v[s], s)} /\ Word(v[s], s) \in Words(v, K)
  BY <1>1, WordsPut DEF WordIf
<1> QED
  BY <1>2 DEF SymDiff

LEMMA WordsAdded ==
  ASSUME NEW v \in Contents, NEW s \in Squares, NEW K, empty \notin K, v[s] = empty,
         NEW x \in Codes, x \in K, NEW Z, Word(x, s) \notin Z
  PROVE  SymDiff(Words(v, K) \union Z, {Word(x, s)}) = Words(Put(v, s, x), K) \union Z
<1>1. Words(Put(v, s, x), K) = Words(v, K) \union {Word(x, s)} /\ Word(x, s) \notin Words(v, K)
  <2>1. Word(v[s], s) \notin Words(v, K)
    BY WordsPut
  <2> QED
    BY <2>1, WordsPut DEF WordIf
<1> QED
  BY <1>1 DEF SymDiff

LEMMA WordsUntouched ==
  ASSUME NEW v \in Contents, NEW s \in Squares, NEW K, v[s] \notin K,
         NEW x \in Codes, x \notin K
  PROVE  Words(Put(v, s, x), K) = Words(v, K)
<1>1. Word(v[s], s) \notin Words(v, K) /\ WordIf(K, x, s) = {}
  BY WordsPut DEF WordIf
<1>2. Words(v, K) \ {Word(v[s], s)} = Words(v, K)
  BY <1>1
<1>3. Words(Put(v, s, x), K) = (Words(v, K) \ {Word(v[s], s)}) \union WordIf(K, x, s)
  BY WordsPut
<1> QED
  BY <1>1, <1>2, <1>3

\* Two toggles are one of both words, when they differ.
LEMMA ToggledTwice ==
  ASSUME NEW k, NEW x, NEW y, x # y
  PROVE  SymDiff(SymDiff(k, {x}), {y}) = SymDiff(k, {x, y})
BY DEF SymDiff
Key(v, rights, ep) == Words(v, AnyMan) \union Others(rights, ep)
PawnKey(v, ep) == Words(v, PawnsAndKings) \union EnPassant(ep)

LEMMA AtIsWord ==
  ASSUME NEW c \in Colors, NEW p \in Kinds, NEW s
  PROVE  /\ At(c, p, s) = Word(Value(c, p), s)
         /\ Value(c, p) \in Codes /\ Value(c, p) \in AnyMan /\ empty \notin AnyMan
         /\ empty \notin PawnsAndKings /\ empty \in Codes
         /\ (Value(c, p) \in PawnsAndKings <=> p \in {pawn, king})
<1>1. At(c, p, s) = Word(Value(c, p), s)
  BY DEF At, Word
<1>2. p \in 1 .. 6 /\ (c = 0 \/ c = 1)
  BY DEF Kinds, Colors, white, black
<1>3. Value(c, p) = IF c = 1 THEN p ELSE -p
  BY DEF Value, white
<1>4. Value(c, p) \in -6 .. 6 /\ Value(c, p) # 0
  BY <1>2, <1>3
<1>5. Value(c, p) \in {-6, -1, 1, 6} <=> p \in {1, 6}
  BY <1>2, <1>3
<1> QED
  BY <1>1, <1>4, <1>5 DEF AnyMan, PawnsAndKings, Codes, empty, pawn, king

LEMMA KeyTaken ==
  ASSUME NEW v \in Contents, NEW c \in Colors, NEW p \in Kinds, NEW s \in Squares,
         v[s] = Value(c, p), NEW rights, NEW ep
  PROVE  /\ SymDiff(Key(v, rights, ep), {At(c, p, s)}) = Key(Put(v, s, empty), rights, ep)
         /\ SymDiff(PawnKey(v, ep), IF p \in {pawn, king} THEN {At(c, p, s)} ELSE {})
              = PawnKey(Put(v, s, empty), ep)
<1>0. /\ At(c, p, s) = Word(v[s], s) /\ v[s] \in AnyMan
      /\ empty \notin AnyMan /\ empty \notin PawnsAndKings /\ empty \in Codes
      /\ (v[s] \in PawnsAndKings <=> p \in {pawn, king})
      /\ Word(v[s], s) \notin Others(rights, ep) /\ Word(v[s], s) \notin EnPassant(ep)
  BY AtIsWord, OthersAreNoWords
<1>1. SymDiff(Key(v, rights, ep), {At(c, p, s)}) = Key(Put(v, s, empty), rights, ep)
  BY <1>0, WordsTaken DEF Key
<1>2. CASE p \in {pawn, king}
  <2>1. SymDiff(PawnKey(v, ep), {At(c, p, s)}) = PawnKey(Put(v, s, empty), ep)
    <3>1. v[s] \in PawnsAndKings /\ Word(v[s], s) \notin EnPassant(ep)
      BY <1>0, <1>2
    <3>2. SymDiff(Words(v, PawnsAndKings) \union EnPassant(ep), {Word(v[s], s)})
            = Words(Put(v, s, empty), PawnsAndKings) \union EnPassant(ep)
      BY <1>0, <3>1, WordsTaken
    <3> QED
      BY <1>0, <3>2 DEF PawnKey
  <2> QED
    BY <1>1, <1>2, <2>1
<1>3. CASE p \notin {pawn, king}
  <2>1. PawnKey(Put(v, s, empty), ep) = PawnKey(v, ep)
    BY <1>0, <1>3, WordsUntouched DEF PawnKey
  <2>2. SymDiff(PawnKey(v, ep), {}) = PawnKey(v, ep)
    BY DEF SymDiff
  <2> QED
    BY <1>1, <1>3, <2>1, <2>2
<1> QED
  BY <1>2, <1>3

LEMMA KeyAdded ==
  ASSUME NEW v \in Contents, NEW c \in Colors, NEW p \in Kinds, NEW s \in Squares,
         v[s] = empty, NEW x, x = Value(c, p), NEW rights, NEW ep
  PROVE  /\ SymDiff(Key(v, rights, ep), {At(c, p, s)}) = Key(Put(v, s, x), rights, ep)
         /\ SymDiff(PawnKey(v, ep), IF p \in {pawn, king} THEN {At(c, p, s)} ELSE {})
              = PawnKey(Put(v, s, x), ep)
<1>0. /\ At(c, p, s) = Word(x, s) /\ x \in AnyMan /\ x \in Codes
      /\ empty \notin AnyMan /\ empty \notin PawnsAndKings
      /\ (x \in PawnsAndKings <=> p \in {pawn, king})
      /\ Word(x, s) \notin Others(rights, ep) /\ Word(x, s) \notin EnPassant(ep)
  BY AtIsWord, OthersAreNoWords
<1>1. SymDiff(Key(v, rights, ep), {At(c, p, s)}) = Key(Put(v, s, x), rights, ep)
  BY <1>0, WordsAdded DEF Key
<1>2. CASE p \in {pawn, king}
  <2>1. SymDiff(PawnKey(v, ep), {At(c, p, s)}) = PawnKey(Put(v, s, x), ep)
    <3>1. /\ x \in PawnsAndKings /\ Word(x, s) \notin EnPassant(ep)
          /\ x \in Codes /\ empty \notin PawnsAndKings
      BY <1>0, <1>2
    <3>2. SymDiff(Words(v, PawnsAndKings) \union EnPassant(ep), {Word(x, s)})
            = Words(Put(v, s, x), PawnsAndKings) \union EnPassant(ep)
      BY <3>1, WordsAdded
    <3> QED
      BY <1>0, <3>2 DEF PawnKey
  <2> QED
    BY <1>1, <1>2, <2>1
<1>3. CASE p \notin {pawn, king}
  <2>1. PawnKey(Put(v, s, x), ep) = PawnKey(v, ep)
    BY <1>0, <1>3, WordsUntouched DEF PawnKey
  <2>2. SymDiff(PawnKey(v, ep), {}) = PawnKey(v, ep)
    BY DEF SymDiff
  <2> QED
    BY <1>1, <1>3, <2>1, <2>2
<1> QED
  BY <1>2, <1>3

\* A piece goes from one square to another.
LEMMA KeyMoved ==
  ASSUME NEW v \in Contents, NEW c \in Colors, NEW p \in Kinds,
         NEW from \in Squares, NEW to \in Squares, from # to,
         v[from] = Value(c, p), v[to] = empty, NEW rights, NEW ep,
         NEW w, w = Put(Put(v, from, empty), to, Value(c, p)),
         NEW path, path = {At(c, p, from), At(c, p, to)}
  PROVE  /\ SymDiff(Key(v, rights, ep), path) = Key(w, rights, ep)
         /\ SymDiff(PawnKey(v, ep), IF p \in {pawn, king} THEN path ELSE {}) = PawnKey(w, ep)
<1> DEFINE x == Put(v, from, empty)
           a == At(c, p, from)
           z == At(c, p, to)
<1>1. x \in Contents /\ x[to] = empty
  BY AtIsWord, PutAt
<1>2. a # z
  BY AtIsWord, WordsEqual
<1>3. /\ SymDiff(Key(v, rights, ep), {a}) = Key(x, rights, ep)
      /\ SymDiff(PawnKey(v, ep), IF p \in {pawn, king} THEN {a} ELSE {}) = PawnKey(x, ep)
  BY KeyTaken
<1> HIDE DEF x, a, z
<1>4. /\ SymDiff(Key(x, rights, ep), {z}) = Key(w, rights, ep)
      /\ SymDiff(PawnKey(x, ep), IF p \in {pawn, king} THEN {z} ELSE {}) = PawnKey(w, ep)
  BY <1>1, KeyAdded DEF x, z
<1>5. path = {a, z}
  BY DEF a, z
<1>6. SymDiff(Key(v, rights, ep), path) = Key(w, rights, ep)
  <2>1. SymDiff(SymDiff(Key(v, rights, ep), {a}), {z}) = Key(w, rights, ep)
    BY <1>3, <1>4
  <2>2. \A k : SymDiff(SymDiff(k, {a}), {z}) = SymDiff(k, {a, z})
    BY <1>2 DEF SymDiff
  <2> QED
    BY <1>5, <2>1, <2>2
<1>7. CASE p \in {pawn, king}
  <2>1. SymDiff(SymDiff(PawnKey(v, ep), {a}), {z}) = PawnKey(w, ep)
    BY <1>3, <1>4, <1>7
  <2>2. SymDiff(PawnKey(v, ep), path) = PawnKey(w, ep)
    <3>1. \A k : SymDiff(SymDiff(k, {a}), {z}) = SymDiff(k, {a, z})
      BY <1>2 DEF SymDiff
    <3> QED
      BY <1>5, <2>1, <3>1
  <2> QED
    BY <1>6, <1>7, <2>2
<1>8. CASE p \notin {pawn, king}
  <2>1. \A k : SymDiff(SymDiff(k, {}), {}) = SymDiff(k, {})
    BY DEF SymDiff
  <2>2. SymDiff(PawnKey(v, ep), {}) = PawnKey(x, ep) /\ SymDiff(PawnKey(x, ep), {}) = PawnKey(w, ep)
    BY <1>3, <1>4, <1>8
  <2> QED
    BY <1>6, <1>8, <2>1, <2>2
<1> QED
  BY <1>7, <1>8

\* A piece becomes another.
LEMMA KeyRecast ==
  ASSUME NEW v \in Contents, NEW c \in Colors, NEW old \in Kinds, NEW new \in Kinds,
         old # new, NEW s \in Squares, v[s] = Value(c, old), NEW rights, NEW ep,
         NEW w, w = Put(v, s, Value(c, new))
  PROVE  /\ SymDiff(Key(v, rights, ep), {At(c, old, s), At(c, new, s)}) = Key(w, rights, ep)
         /\ old = pawn /\ new # king =>
              SymDiff(PawnKey(v, ep), {At(c, old, s)}) = PawnKey(w, ep)
<1> DEFINE x == Put(v, s, empty)
           a == At(c, old, s)
           z == At(c, new, s)
<1>1. x \in Contents /\ x[s] = empty /\ w = Put(x, s, Value(c, new))
  BY AtIsWord, PutAt, PutsCompose
<1>2. a # z
  BY AtIsWord, WordsEqual, Codings
<1>3. /\ SymDiff(Key(v, rights, ep), {a}) = Key(x, rights, ep)
      /\ SymDiff(PawnKey(v, ep), IF old \in {pawn, king} THEN {a} ELSE {}) = PawnKey(x, ep)
  BY KeyTaken
<1> HIDE DEF x, a, z
<1>4. /\ SymDiff(Key(x, rights, ep), {z}) = Key(w, rights, ep)
      /\ SymDiff(PawnKey(x, ep), IF new \in {pawn, king} THEN {z} ELSE {}) = PawnKey(w, ep)
  BY <1>1, KeyAdded DEF z
<1>5. SymDiff(Key(v, rights, ep), {a, z}) = Key(w, rights, ep)
  <2>1. SymDiff(SymDiff(Key(v, rights, ep), {a}), {z}) = Key(w, rights, ep)
    BY <1>3, <1>4
  <2>2. \A k : SymDiff(SymDiff(k, {a}), {z}) = SymDiff(k, {a, z})
    BY <1>2 DEF SymDiff
  <2> QED
    BY <2>1, <2>2
<1>6. ASSUME old = pawn, new # king
      PROVE  SymDiff(PawnKey(v, ep), {a}) = PawnKey(w, ep)
  <2>1. SymDiff(PawnKey(x, ep), {}) = PawnKey(x, ep)
    BY DEF SymDiff
  <2>2. new \notin {pawn, king} /\ old \in {pawn, king}
    BY <1>6
  <2> QED
    BY <1>3, <1>4, <2>1, <2>2
<1> QED
  BY <1>5, <1>6 DEF a, z

LEMMA KeyWithoutRights ==
  ASSUME NEW v, NEW rights \in SUBSET Rights, NEW lost \in SUBSET rights, NEW ep
  PROVE  SymDiff(Key(v, rights, ep), {Absent(r) : r \in lost}) = Key(v, rights \ lost, ep)
<1>1. \A r, q \in Rights : Absent(r) = Absent(q) => r = q
  BY DEF Rights, Absent
<1>2. ASSUME NEW r \in Rights
      PROVE  /\ Absent(r) \notin Words(v, AnyMan) /\ Absent(r) \notin EnPassant(ep)
  <2>1. r[2] \in {"king", "queen"}
    BY DEF Rights, Sides
  <2> QED
    BY <2>1 DEF Absent, Words, Word, EnPassant
<1>3. ASSUME NEW z
      PROVE  z \in SymDiff(Key(v, rights, ep), {Absent(r) : r \in lost})
               <=> z \in Key(v, rights \ lost, ep)
  <2>1. CASE \E r \in Rights : z = Absent(r)
    <3>1. PICK r \in Rights : z = Absent(r)
      BY <2>1
    <3>2. /\ z \in Key(v, rights, ep) <=> r \notin rights
          /\ z \in Key(v, rights \ lost, ep) <=> r \notin rights \ lost
          /\ z \in {Absent(q) : q \in lost} <=> r \in lost
      BY <1>1, <1>2, <3>1 DEF Key, Others
    <3> QED
      BY <3>2 DEF SymDiff
  <2>2. CASE ~\E r \in Rights : z = Absent(r)
    BY <2>2 DEF Key, Others, SymDiff
  <2> QED
    BY <2>1, <2>2
<1> QED
  BY <1>3

LEMMA KeyEnPassant ==
  ASSUME NEW v, NEW rights, NEW old, NEW new,
         NEW change, change = SymDiff(EnPassant(old), EnPassant(new))
  PROVE  /\ SymDiff(Key(v, rights, old), change) = Key(v, rights, new)
         /\ SymDiff(PawnKey(v, old), change) = PawnKey(v, new)
<1> DEFINE A == {Absent(r) : r \in Rights \ rights}
<1>1. ASSUME NEW ep, NEW z \in EnPassant(ep)
      PROVE  z \notin Words(v, AnyMan) /\ z \notin Words(v, PawnsAndKings) /\ z \notin A
  <2>1. z = <<"ep", Column(ep), 0>>
    BY <1>1 DEF EnPassant
  <2>2. \A r \in Rights : z # Absent(r)
    <3>1. \A r \in Rights : r[2] \in {"king", "queen"}
      BY DEF Rights, Sides
    <3> QED
      BY <2>1, <3>1 DEF Absent
  <2> QED
    BY <2>1, <2>2 DEF Words, Word
<1> DEFINE W == Words(v, AnyMan)
           P == Words(v, PawnsAndKings)
           E == EnPassant(old)
           F == EnPassant(new)
<1>2. /\ E \cap (W \union A) = {} /\ F \cap (W \union A) = {}
      /\ E \cap P = {} /\ F \cap P = {}
  BY <1>1
<1>3. /\ Key(v, rights, old) = W \union A \union E /\ Key(v, rights, new) = W \union A \union F
      /\ PawnKey(v, old) = P \union E /\ PawnKey(v, new) = P \union F
  BY DEF Key, PawnKey, Others
<1> HIDE DEF W, P, E, F, A
<1>4. change = SymDiff(E, F)
  BY DEF E, F
<1> QED
  BY <1>2, <1>3, <1>4 DEF SymDiff
-----------------------------------------------------------------------------
(***************************************************************************)
(* The flags, and the rest of the record.                                  *)
(***************************************************************************)
FlagsOf(h, e, t, r, k, d, side, rights) ==
  [halfMoveCount |-> h, ep |-> e, capture |-> t, repeats |-> r, check |-> k, draw |-> d,
   side |-> side, rights |-> rights]

AreFlags(fl) ==
  /\ fl = FlagsOf(fl.halfMoveCount, fl.ep, fl.capture, fl.repeats, fl.check, fl.draw,
                  fl.side, fl.rights)
  /\ fl.halfMoveCount \in Nat /\ fl.ep \in Squares /\ fl.side \in Colors
  /\ fl.rights \in SUBSET Rights

\* The flags that something outside of them depends on.
SameFlags(fl, gl) ==
  /\ gl.halfMoveCount = fl.halfMoveCount /\ gl.ep = fl.ep /\ gl.side = fl.side
  /\ gl.rights = fl.rights

LEMMA FlagsOfParts ==
  ASSUME NEW h, NEW e, NEW t, NEW r, NEW k, NEW d, NEW side, NEW rights
  PROVE  LET fl == FlagsOf(h, e, t, r, k, d, side, rights)
         IN /\ fl.halfMoveCount = h /\ fl.ep = e /\ fl.capture = t /\ fl.repeats = r
            /\ fl.check = k /\ fl.draw = d /\ fl.side = side /\ fl.rights = rights
BY DEF FlagsOf

Capturing(fl, q) == [fl EXCEPT !.capture = q]
LessRights(fl, lost) == [fl EXCEPT !.rights = @ \ lost]
Passing(fl, square) == [fl EXCEPT !.ep = square]
Turned(fl) == [fl EXCEPT !.side = Flip(@), !.halfMoveCount = @ + 1]
Judging(fl, r, k, d) == [fl EXCEPT !.repeats = r, !.check = k, !.draw = d]

LEMMA FlagsChanged ==
  ASSUME NEW fl, AreFlags(fl)
  PROVE  /\ \A x : LET gl == Capturing(fl, x)
                   IN AreFlags(gl) /\ SameFlags(fl, gl) /\ gl.capture = x
         /\ \A x \in Squares :
              LET gl == Passing(fl, x)
              IN /\ AreFlags(gl) /\ gl.capture = fl.capture /\ gl.rights = fl.rights
                 /\ gl.side = fl.side /\ gl.halfMoveCount = fl.halfMoveCount /\ gl.ep = x
         /\ \A r, k, d : LET gl == Judging(fl, r, k, d)
                         IN /\ AreFlags(gl) /\ SameFlags(fl, gl) /\ gl.capture = fl.capture
<1>1. \A x : LET gl == Capturing(fl, x)
            IN AreFlags(gl) /\ SameFlags(fl, gl) /\ gl.capture = x
  BY DEF AreFlags, SameFlags, FlagsOf, Capturing
<1>2. \A x \in Squares :
        LET gl == Passing(fl, x)
        IN /\ AreFlags(gl) /\ gl.capture = fl.capture /\ gl.rights = fl.rights
           /\ gl.side = fl.side /\ gl.halfMoveCount = fl.halfMoveCount /\ gl.ep = x
  BY DEF AreFlags, FlagsOf, Passing
<1>3. \A r, k, d : LET gl == Judging(fl, r, k, d)
                  IN /\ AreFlags(gl) /\ SameFlags(fl, gl) /\ gl.capture = fl.capture
  <2> SUFFICES ASSUME NEW r, NEW k, NEW d, NEW gl, gl = Judging(fl, r, k, d)
               PROVE  AreFlags(gl) /\ SameFlags(fl, gl) /\ gl.capture = fl.capture
    OBVIOUS
  <2>1. gl = FlagsOf(fl.halfMoveCount, fl.ep, fl.capture, r, k, d, fl.side, fl.rights)
    <3> DEFINE f0 == FlagsOf(fl.halfMoveCount, fl.ep, fl.capture, fl.repeats, fl.check,
                             fl.draw, fl.side, fl.rights)
               f1 == FlagsOf(fl.halfMoveCount, fl.ep, fl.capture, r, fl.check,
                             fl.draw, fl.side, fl.rights)
               f2 == FlagsOf(fl.halfMoveCount, fl.ep, fl.capture, r, k,
                             fl.draw, fl.side, fl.rights)
               f3 == FlagsOf(fl.halfMoveCount, fl.ep, fl.capture, r, k, d, fl.side, fl.rights)
    <3>1. [f0 EXCEPT !.repeats = r] = f1 /\ [f1 EXCEPT !.check = k] = f2
      BY DEF FlagsOf
    <3>2. [f2 EXCEPT !.draw = d] = f3
      BY DEF FlagsOf
    <3> HIDE DEF f0, f1, f2, f3
    <3>3. Judging(fl, r, k, d)
            = [[[fl EXCEPT !.repeats = r] EXCEPT !.check = k] EXCEPT !.draw = d]
      BY DEF Judging
    <3>4. fl = f0
      BY DEF AreFlags, f0
    <3> QED
      BY <3>1, <3>2, <3>3, <3>4 DEF f3
  <2> QED
    BY <2>1, FlagsOfParts DEF AreFlags, SameFlags
<1> QED
  BY <1>1, <1>2, <1>3

LEMMA FlagsTurned ==
  ASSUME NEW fl, AreFlags(fl), NEW gl, gl = Turned(fl)
  PROVE  /\ AreFlags(gl) /\ gl.side = Flip(fl.side) /\ gl.side \in Colors
         /\ gl.halfMoveCount = fl.halfMoveCount + 1 /\ gl.capture = fl.capture
         /\ gl.rights = fl.rights /\ gl.ep = fl.ep
<1>1. Flip(fl.side) \in Colors /\ fl.halfMoveCount + 1 \in Nat
  BY DEF AreFlags, Flip, Colors, white, black
<1> QED
  BY <1>1 DEF AreFlags, FlagsOf, Turned

\* Both keys, by the flags.
KeyIn(v, fl) == Key(v, fl.rights, fl.ep)
PawnKeyIn(v, fl) == PawnKey(v, fl.ep)

\* A whole board: everything is what the squares and the flags say.
State(v, fl, ff, cs, u) ==
  Standing(v, Census(v), KeyIn(v, fl), PawnKeyIn(v, fl), fl, ff, cs, u)

LEMMA ContentsEqual ==
  ASSUME NEW v \in Contents, NEW w \in Contents, \A s \in Squares : v[s] = w[s]
  PROVE  v = w
BY DEF Contents

LEMMA RightsLessened ==
  ASSUME NEW fl, NEW lost, NEW gl,
         lost \in SUBSET fl.rights, AreFlags(fl), gl = LessRights(fl, lost)
  PROVE  /\ AreFlags(gl) /\ gl.rights = fl.rights \ lost /\ gl.ep = fl.ep
         /\ gl.side = fl.side /\ gl.halfMoveCount = fl.halfMoveCount
         /\ gl.capture = fl.capture
BY DEF AreFlags, FlagsOf, LessRights

LEMMA WithoutRightsStands ==
  ASSUME NEW v, NEW n, NEW x, NEW pk, NEW fl, NEW ff, NEW cs, NEW u, NEW lost, NEW gl,
         lost \in SUBSET fl.rights, AreFlags(fl), gl = LessRights(fl, lost)
  PROVE  /\ WithoutRights(Standing(v, n, KeyIn(x, fl), pk, fl, ff, cs, u), lost)
              = Standing(v, n, KeyIn(x, gl), pk, gl, ff, cs, u)
         /\ gl.ep = fl.ep
<1> DEFINE k == KeyIn(x, fl)
           b == Standing(v, n, k, pk, fl, ff, cs, u)
           absent == {Absent(r) : r \in lost}
<1>1. gl.rights = fl.rights \ lost /\ gl.ep = fl.ep
  BY RightsLessened
<1>2. SymDiff(k, absent) = KeyIn(x, gl)
  <2>1. fl.rights \in SUBSET Rights
    BY DEF AreFlags
  <2>2. SymDiff(Key(x, fl.rights, fl.ep), absent) = Key(x, fl.rights \ lost, fl.ep)
    BY <2>1, KeyWithoutRights
  <2> QED
    BY <1>1, <2>2 DEF KeyIn
<1> HIDE DEF k, absent
<1>3. [b EXCEPT !.flags.rights = @ \ lost] = Standing(v, n, k, pk, gl, ff, cs, u)
  BY DEF Standing, LessRights
<1>4. Toggled(Standing(v, n, k, pk, gl, ff, cs, u), absent)
        = Standing(v, n, SymDiff(k, absent), pk, gl, ff, cs, u)
  BY ToggledStands
<1>5. WithoutRights(b, lost)
        = Toggled([b EXCEPT !.flags.rights = @ \ lost], absent)
  BY DEF WithoutRights, absent
<1> QED
  BY <1>1, <1>2, <1>3, <1>4, <1>5 DEF k

\* A piece that goes from one square to an empty one changes no count.
LEMMA Relocated ==
  ASSUME NEW v \in Contents, NEW c \in Colors, NEW p \in Kinds,
         NEW from \in Squares, NEW to \in Squares, from # to,
         v[from] = Value(c, p), v[to] = empty,
         NEW x, x = Put(v, from, empty), NEW w, w = Put(x, to, Value(c, p))
  PROVE  /\ x \in Contents /\ x[to] = empty /\ w \in Contents
         /\ Census(w) = Census(v)
         /\ w[to] = Value(c, p) /\ w[from] = empty
         /\ \A s \in Squares \ {from, to} : w[s] = v[s]
<1>1. x \in Contents /\ x[from] = empty /\ \A s \in Squares \ {from} : x[s] = v[s]
  BY AtIsWord, PutAt
<1>2. w \in Contents /\ w[to] = Value(c, p) /\ \A s \in Squares \ {to} : w[s] = x[s]
  BY <1>1, AtIsWord, PutAt
<1>3. /\ Census(x) = Put(Census(v), c, More(Census(v)[c], p, -1))
      /\ Census(w) = Put(Census(x), c, More(Census(x)[c], p, 1))
  BY <1>1, CensusLifted, CensusPlaced
<1>4. Census(v) \in [Colors -> Counts]
  BY CensusAt DEF Counts
<1>5. Census(x)[c] = More(Census(v)[c], p, -1)
  BY <1>3, <1>4 DEF Put
<1>6. More(More(Census(v)[c], p, -1), p, 1) = Census(v)[c]
  <2> DEFINE row == Census(v)[c]
             less == More(row, p, -1)
             same == More(less, p, 1)
  <2>1. row \in Counts
    BY <1>4
  <2> HIDE DEF row
  <2>2. /\ less \in Counts
        /\ \A q \in 0 .. 6 : less[q] = IF q \in {0, p} THEN row[q] + (-1) ELSE row[q]
    BY <2>1, RowOfCounts
  <2> HIDE DEF less
  <2>3. same \in Counts /\ \A q \in 0 .. 6 : same[q] = IF q \in {0, p} THEN less[q] + 1 ELSE less[q]
    BY <2>2, RowOfCounts
  <2> HIDE DEF same
  <2>4. \A q \in 0 .. 6 : same[q] = row[q]
    BY <2>1, <2>2, <2>3 DEF Counts
  <2>5. same = row
    BY <2>1, <2>3, <2>4, CountsEqual
  <2> QED
    BY <2>5 DEF row, less, same
<1>7. Census(w) = Put(Put(Census(v), c, More(Census(v)[c], p, -1)), c, Census(v)[c])
  BY <1>3, <1>5, <1>6
<1>8. Census(w) = Census(v)
  BY <1>4, <1>7 DEF Put
<1> QED
  BY <1>1, <1>2, <1>8

LEMMA RelocatedStands ==
  ASSUME NEW v \in Contents, NEW n, NEW k, NEW pk, NEW fl, NEW ff, NEW cs, NEW u,
         NEW c \in Colors, NEW p \in Kinds,
         NEW from \in Squares, NEW to \in Squares, from # to,
         v[from] = Value(c, p), v[to] = empty,
         NEW w, w = Put(Put(v, from, empty), to, Value(c, p))
  PROVE  Placed(Lifted(Standing(v, n, k, pk, fl, ff, cs, u), c, p, from), c, p, to)
           = Standing(w, n, k, pk, fl, ff, cs, u)
<1>1. PICK x : x = Put(v, from, empty)
  OBVIOUS
<1>2. x \in Contents /\ x[to] = empty
  BY <1>1, Relocated
<1>3. Lifted(Standing(v, n, k, pk, fl, ff, cs, u), c, p, from)
        = Standing(x, n, k, pk, fl, ff, cs, u)
  BY <1>1, LiftedStands
<1>4. Placed(Standing(x, n, k, pk, fl, ff, cs, u), c, p, to) = Standing(w, n, k, pk, fl, ff, cs, u)
  BY <1>1, <1>2, PlacedStands
<1> QED
  BY <1>3, <1>4
\* What a capture leaves in the flags.
Noted(b, q) == [b EXCEPT !.flags.capture = q, !.fifty = 0]

LEMMA NotedStands ==
  ASSUME NEW v, NEW n, NEW k, NEW pk, NEW fl, NEW ff, NEW cs, NEW u, NEW q
  PROVE  Noted(Standing(v, n, k, pk, fl, ff, cs, u), q)
           = Standing(v, n, k, pk, Capturing(fl, q), 0, cs, u)
<1> DEFINE b == Standing(v, n, k, pk, fl, ff, cs, u)
           c == Standing(v, n, k, pk, Capturing(fl, q), ff, cs, u)
<1>1. [b EXCEPT !.flags.capture = q] = c
  BY DEF Standing, Capturing
<1>2. [c EXCEPT !.fifty = 0] = Standing(v, n, k, pk, Capturing(fl, q), 0, cs, u)
  BY DEF Standing
<1>3. Noted(b, q) = [[b EXCEPT !.flags.capture = q] EXCEPT !.fifty = 0]
  <2> HIDE DEF b
  <2> QED
    BY DEF Noted
<1> HIDE DEF b, c
<1> QED
  BY <1>1, <1>2, <1>3 DEF b

\* A piece of a colour goes to another square, which is free or an enemy's.
Goes(v, us, p, m) ==
  /\ m.from \in Squares /\ m.to \in Squares /\ m.from # m.to
  /\ v[m.from] = Value(us, p)
  /\ \/ v[m.to] = empty
     \/ \E q \in Kinds : q # king /\ v[m.to] = Value(Flip(us), q)

\* A capture takes the enemy's man from everything but the mover's square.
LEMMA CapturedStands ==
  ASSUME NEW v \in Contents, NEW us \in Colors, NEW p, NEW m, Goes(v, us, p, m),
         NEW fl, AreFlags(fl), NEW ff, NEW cs, NEW u,
         NEW y, y = Put(v, m.from, empty),
         NEW w, w = Put(v, m.to, empty),
         NEW gl, gl = Capturing(fl, Magnitude(v[m.to])),
         NEW gf, gf = IF v[m.to] = empty THEN ff ELSE 0
  PROVE    Captured(Standing(y, Census(v), KeyIn(v, fl), PawnKeyIn(v, fl),
                             fl, ff, cs, u), Flip(us), m)
             = Standing(Put(w, m.from, empty), Census(w), KeyIn(w, fl),
                        PawnKeyIn(w, fl), gl, gf, cs, u)
<1> DEFINE k == KeyIn(v, fl)
           pk == PawnKeyIn(v, fl)
           b == Standing(y, Census(v), k, pk, fl, ff, cs, u)
           piece == Magnitude(v[m.to])
           z == Put(w, m.from, empty)
<1>0. PICK them, from, to : them = Flip(us) /\ from = m.from /\ to = m.to
  OBVIOUS
<1>1. /\ y \in Contents /\ y[to] = v[to] /\ w \in Contents /\ empty \in Codes
      /\ v[to] \in Codes /\ from \in Squares /\ to \in Squares /\ from # to
      /\ them \in Colors
  <2>1. empty \in Codes
    BY DEF empty, Codes
  <2>2. from \in Squares /\ to \in Squares /\ from # to
    BY <1>0 DEF Goes
  <2>3. them \in Colors
    BY <1>0 DEF Flip, Colors, white, black
  <2>4. y = Put(v, from, empty) /\ w = Put(v, to, empty)
    BY <1>0
  <2> QED
    BY <2>1, <2>2, <2>3, <2>4, PutAt DEF Contents
<1>2. b.values[m.to] = v[m.to]
  BY <1>0, <1>1 DEF Standing
<1>3. CASE v[to] = empty
  <2>1. piece = empty
    BY <1>0, <1>3 DEF Magnitude, empty
  <2>2. w = v
    BY <1>0, <1>1, <1>3, PutsCompose
  <2>3. [b EXCEPT !.flags.capture = empty]
          = Standing(y, Census(v), k, pk, Capturing(fl, empty), ff, cs, u)
    BY DEF Standing, Capturing
  <2>4. Captured(b, Flip(us), m) = [b EXCEPT !.flags.capture = empty]
    <3> HIDE DEF b
    <3> QED
      BY <1>2, <2>1 DEF Captured
  <2>5. /\ gf = ff /\ gl = Capturing(fl, empty) /\ z = y
    BY <1>0, <1>1, <1>3, <2>1, <2>2
  <2> HIDE DEF b, z
  <2>6. Captured(b, Flip(us), m)
          = Standing(z, Census(w), KeyIn(w, fl), PawnKeyIn(w, fl), gl, gf, cs, u)
    BY <2>2, <2>3, <2>4, <2>5
  <2> QED
    BY <2>6 DEF b, z
<1>4. CASE \E q \in Kinds : q # king /\ v[to] = Value(them, q)
  <2>1. PICK q \in Kinds : q # king /\ v[to] = Value(them, q)
    BY <1>4
  <2>2. piece = q /\ q # empty
    <3>1. Magnitude(Value(them, q)) = q
      BY <1>1, <2>1, Codings
    <3>2. q # empty
      BY DEF Kinds, empty
    <3> QED
      BY <1>0, <2>1, <3>1, <3>2
  <2> DEFINE taken == {At(them, q, to)}
             pawns == IF q = pawn THEN taken ELSE {}
  <2>3. z = Put(y, to, empty)
    BY <1>0, <1>1, PutsCompose
  <2>4. Lifted(b, them, q, to) = Standing(z, Census(v), k, pk, fl, ff, cs, u)
    BY <1>1, <2>1, <2>3, LiftedStands
  <2>5. Census(w) = Put(Census(v), them, More(Census(v)[them], q, -1))
    BY <1>0, <1>1, <2>1, CensusLifted
  <2>6. Counted(Standing(z, Census(v), k, pk, fl, ff, cs, u), them, q, -1)
          = Standing(z, Census(w), k, pk, fl, ff, cs, u)
    BY <2>5, CountedStands
  <2>7. /\ SymDiff(k, taken) = KeyIn(w, fl)
        /\ SymDiff(pk, pawns) = PawnKeyIn(w, fl)
    <3>1. q \in {pawn, king} <=> q = pawn
      BY <2>1
    <3> QED
      BY <1>0, <1>1, <2>1, <3>1, KeyTaken DEF KeyIn, PawnKeyIn
  <2> HIDE DEF k, pk, taken, pawns
  <2>8. Toggled(Standing(z, Census(w), k, pk, fl, ff, cs, u), taken)
          = Standing(z, Census(w), KeyIn(w, fl), pk, fl, ff, cs, u)
    BY <2>7, ToggledStands
  <2>9. PawnToggled(Standing(z, Census(w), KeyIn(w, fl), pk, fl, ff, cs, u), pawns)
          = Standing(z, Census(w), KeyIn(w, fl), PawnKeyIn(w, fl), fl, ff, cs, u)
    BY <2>7, ToggledStands
  <2> DEFINE g == Standing(z, Census(w), KeyIn(w, fl), PawnKeyIn(w, fl),
                           fl, ff, cs, u)
             result == Standing(z, Census(w), KeyIn(w, fl), PawnKeyIn(w, fl),
                                Capturing(fl, q), 0, cs, u)
  <2>10. Noted(g, q) = result
    BY NotedStands
  <2>11. Captured(b, Flip(us), m)
           = Noted(PawnToggled(Toggled(Counted(Lifted(b, them, q, to), them, q, -1), taken),
                               pawns), q)
    <3> HIDE DEF b
    <3> QED
      BY <1>0, <1>2, <2>2 DEF Captured, Noted, taken, pawns
  <2> HIDE DEF b, g, result
  <2>12. Captured(b, Flip(us), m) = Noted(g, q)
    BY <2>4, <2>6, <2>8, <2>9, <2>11 DEF b, g
  <2>13. gl = Capturing(fl, q) /\ gf = 0
    BY <1>0, <1>1, <2>1, <2>2, Codings
  <2> HIDE DEF z
  <2>14. Captured(b, Flip(us), m)
          = Standing(z, Census(w), KeyIn(w, fl), PawnKeyIn(w, fl), gl, gf, cs, u)
    BY <2>10, <2>12, <2>13 DEF result
  <2> QED
    BY <2>14 DEF b, k, pk, z
<1> QED
  BY <1>0, <1>3, <1>4 DEF Goes
\* The squares when the mover has arrived, and nothing else has happened.
Arrived(v, m) == Put(Put(Put(v, m.to, empty), m.from, empty), m.to, v[m.from])

LEMMA ArrivedAt ==
  ASSUME NEW v \in Contents, NEW us \in Colors, NEW p \in Kinds, NEW m, Goes(v, us, p, m),
         NEW w, w = Put(v, m.to, empty)
  PROVE  /\ w \in Contents /\ w[m.to] = empty /\ w[m.from] = Value(us, p)
         /\ Arrived(v, m) = Put(Put(w, m.from, empty), m.to, Value(us, p))
         /\ Arrived(v, m) \in Contents /\ Arrived(v, m)[m.to] = Value(us, p)
         /\ Arrived(v, m)[m.from] = empty
         /\ \A s \in Squares \ {m.from, m.to} : Arrived(v, m)[s] = v[s]
         /\ Census(Arrived(v, m)) = Census(w)
<1>1. /\ m.from \in Squares /\ m.to \in Squares /\ m.from # m.to
      /\ v[m.from] = Value(us, p) /\ empty \in Codes
  BY AtIsWord DEF Goes
<1>2. /\ w \in Contents /\ w[m.to] = empty /\ w[m.from] = Value(us, p)
      /\ \A s \in Squares \ {m.to} : w[s] = v[s]
  BY <1>1, PutAt
<1>3. PICK r : r = Put(Put(w, m.from, empty), m.to, Value(us, p))
  OBVIOUS
<1>4. Arrived(v, m) = r
  BY <1>1, <1>3 DEF Arrived
<1>5. /\ r \in Contents /\ Census(r) = Census(w)
      /\ r[m.to] = Value(us, p) /\ r[m.from] = empty
      /\ \A s \in Squares \ {m.from, m.to} : r[s] = w[s]
  BY <1>1, <1>2, <1>3, Relocated
<1> QED
  BY <1>2, <1>3, <1>4, <1>5

\* makeMove up to there.
Landed(b, us, p, m) ==
  LET path == {At(us, p, m.from), At(us, p, m.to)}
  IN PawnToggled(Toggled(Placed(Captured(Lifted(b, us, p, m.from), Flip(us), m), us, p, m.to),
                         path), IF p \in {pawn, king} THEN path ELSE {})

LEMMA LandedStands ==
  ASSUME NEW v \in Contents, NEW us \in Colors, NEW p \in Kinds, NEW m, Goes(v, us, p, m),
         NEW fl, AreFlags(fl), NEW ff, NEW cs, NEW u,
         NEW gl, gl = Capturing(fl, Magnitude(v[m.to])),
         NEW gf, gf = IF v[m.to] = empty THEN ff ELSE 0
  PROVE  Landed(State(v, fl, ff, cs, u), us, p, m) = State(Arrived(v, m), gl, gf, cs, u)
<1>1. PICK w, y, path, r :
        /\ w = Put(v, m.to, empty) /\ y = Put(v, m.from, empty)
        /\ path = {At(us, p, m.from), At(us, p, m.to)} /\ r = Arrived(v, m)
  OBVIOUS
<1>2. /\ m.from \in Squares /\ m.to \in Squares /\ m.from # m.to
      /\ v[m.from] = Value(us, p)
      /\ \/ v[m.to] = empty
         \/ \E q \in Kinds : q # king /\ v[m.to] = Value(Flip(us), q)
  BY DEF Goes
<1>3. AreFlags(gl) /\ SameFlags(fl, gl)
  BY FlagsChanged
<1>4. Flip(us) \in Colors
  BY DEF Flip, Colors, white, black
<1> DEFINE k == KeyIn(v, fl)
           pk == PawnKeyIn(v, fl)
           kw == KeyIn(w, fl)
           pkw == PawnKeyIn(w, fl)
           z == Put(w, m.from, empty)
           pawns == IF p \in {pawn, king} THEN path ELSE {}
<1>5. Lifted(State(v, fl, ff, cs, u), us, p, m.from)
        = Standing(y, Census(v), k, pk, fl, ff, cs, u)
  BY <1>1, <1>2, LiftedStands DEF State
<1>6. Captured(Standing(y, Census(v), k, pk, fl, ff, cs, u), Flip(us), m)
        = Standing(z, Census(w), kw, pkw, gl, gf, cs, u)
  <2>1. /\ y = Put(v, m.from, empty) /\ w = Put(v, m.to, empty)
        /\ gl = Capturing(fl, Magnitude(v[m.to]))
        /\ gf = IF v[m.to] = empty THEN ff ELSE 0
    BY <1>1
  <2>2. Captured(Standing(y, Census(v), KeyIn(v, fl), PawnKeyIn(v, fl),
                          fl, ff, cs, u), Flip(us), m)
          = Standing(Put(w, m.from, empty), Census(w), KeyIn(w, fl),
                     PawnKeyIn(w, fl), gl, gf, cs, u)
    BY <2>1, CapturedStands
  <2> QED
    BY <2>2
<1>7. /\ w \in Contents /\ w[m.to] = empty /\ w[m.from] = Value(us, p)
      /\ r = Put(z, m.to, Value(us, p)) /\ Census(r) = Census(w)
  BY <1>1, ArrivedAt
<1>8. z \in Contents /\ z[m.to] = empty
  BY <1>2, <1>7, AtIsWord, PutAt
<1> HIDE DEF z
<1>9. Placed(Standing(z, Census(w), kw, pkw, gl, gf, cs, u), us, p, m.to)
        = Standing(r, Census(w), kw, pkw, gl, gf, cs, u)
  BY <1>2, <1>7, <1>8, PlacedStands
<1>10. /\ SymDiff(kw, path) = KeyIn(r, fl)
       /\ SymDiff(pkw, pawns) = PawnKeyIn(r, fl)
  BY <1>1, <1>2, <1>7, KeyMoved DEF KeyIn, PawnKeyIn, z
<1> HIDE DEF kw, pkw, pawns, k, pk
<1>11. Toggled(Standing(r, Census(w), kw, pkw, gl, gf, cs, u), path)
         = Standing(r, Census(w), KeyIn(r, fl), pkw, gl, gf, cs, u)
  BY <1>10, ToggledStands
<1>12. PawnToggled(Standing(r, Census(w), KeyIn(r, fl), pkw, gl, gf, cs, u), pawns)
         = Standing(r, Census(w), KeyIn(r, fl), PawnKeyIn(r, fl), gl, gf, cs, u)
  BY <1>10, ToggledStands
<1>13. Landed(State(v, fl, ff, cs, u), us, p, m)
         = Standing(r, Census(r), KeyIn(r, gl), PawnKeyIn(r, gl), gl, gf, cs, u)
  <2>1. KeyIn(r, gl) = KeyIn(r, fl) /\ PawnKeyIn(r, gl) = PawnKeyIn(r, fl)
    BY <1>3 DEF SameFlags, KeyIn, PawnKeyIn
  <2>2. Landed(State(v, fl, ff, cs, u), us, p, m)
          = PawnToggled(Toggled(Placed(Captured(Lifted(State(v, fl, ff, cs, u), us, p, m.from),
                                                Flip(us), m), us, p, m.to), path), pawns)
    BY <1>1 DEF Landed, pawns
  <2> QED
    BY <1>5, <1>6, <1>7, <1>9, <1>11, <1>12, <2>1, <2>2
<1> QED
  BY <1>1, <1>13 DEF State
Castling(b, S) == [b EXCEPT !.castled = @ \union S]
Uncastling(b, S) == [b EXCEPT !.castled = @ \ S]

LEMMA CastlingStands ==
  ASSUME NEW v, NEW n, NEW k, NEW pk, NEW fl, NEW ff, NEW cs, NEW u, NEW S, NEW more,
         more = cs \union S
  PROVE  Castling(Standing(v, n, k, pk, fl, ff, cs, u), S) = Standing(v, n, k, pk, fl, ff, more, u)
BY DEF Standing, Castling

LEMMA UncastlingStands ==
  ASSUME NEW v, NEW n, NEW k, NEW pk, NEW fl, NEW ff, NEW cs, NEW u, NEW S, NEW less,
         less = cs \ S
  PROVE  Uncastling(Standing(v, n, k, pk, fl, ff, cs, u), S)
           = Standing(v, n, k, pk, fl, ff, less, u)
BY DEF Standing, Uncastling

\* A rook that castles is in neither key of the pawns.
LEMMA CastleStands ==
  ASSUME NEW v \in Contents, NEW us \in Colors, NEW here \in Squares, NEW there \in Squares,
         NEW m, NEW fl, NEW ff, NEW cs, NEW u, NEW w, NEW lost, NEW gl, NEW more,
         here = RookFrom(us, m), there = RookTo(us, m), here # there,
         v[here] = Value(us, rook), v[there] = empty, AreFlags(fl),
         w = Put(Put(v, here, empty), there, Value(us, rook)),
         lost = fl.rights \cap ({us} \X Sides), gl = LessRights(fl, lost),
         more = cs \union {<<us, CastledSide(m)>>}
  PROVE  HandleCastle(State(v, fl, ff, cs, u), us, m) = State(w, gl, ff, more, u)
<1>1. PICK path, side :
        /\ path = {At(us, rook, here), At(us, rook, there)}
        /\ side = {<<us, CastledSide(m)>>}
  OBVIOUS
<1> DEFINE k == KeyIn(v, fl)
           pk == PawnKeyIn(v, fl)
<1>2. rook \in Kinds /\ rook \notin {pawn, king}
  BY DEF rook, Kinds, pawn, king
<1>3. w \in Contents /\ Census(w) = Census(v)
  <2>1. PICK x : x = Put(v, here, empty)
    OBVIOUS
  <2> QED
    BY <1>2, <2>1, Relocated
<1>4. Placed(Lifted(State(v, fl, ff, cs, u), us, rook, here), us, rook, there)
        = Standing(w, Census(w), k, pk, fl, ff, cs, u)
  BY <1>2, <1>3, RelocatedStands DEF State
<1>5. lost \in SUBSET fl.rights
  OBVIOUS
<1>6. /\ WithoutRights(Standing(w, Census(w), k, pk, fl, ff, cs, u), lost)
           = Standing(w, Census(w), KeyIn(v, gl), pk, gl, ff, cs, u)
      /\ gl.ep = fl.ep
  BY <1>5, WithoutRightsStands
<1>7. /\ SymDiff(KeyIn(v, gl), path) = KeyIn(w, gl)
      /\ SymDiff(PawnKeyIn(v, gl), {}) = PawnKeyIn(w, gl)
  BY <1>1, <1>2, KeyMoved DEF KeyIn, PawnKeyIn
<1>8. pk = PawnKeyIn(w, gl)
  <2>1. SymDiff(PawnKeyIn(v, gl), {}) = PawnKeyIn(v, gl)
    BY DEF SymDiff
  <2>2. PawnKeyIn(v, gl) = pk
    BY <1>6 DEF PawnKeyIn
  <2> QED
    BY <1>7, <2>1, <2>2
<1> HIDE DEF k, pk
<1> DEFINE b == Standing(w, Census(w), KeyIn(w, gl), PawnKeyIn(w, gl),
                         gl, ff, cs, u)
<1>9. Toggled(Standing(w, Census(w), KeyIn(v, gl), pk, gl, ff, cs, u), path) = b
  BY <1>7, <1>8, ToggledStands
<1>10. Castling(b, side)
         = Standing(w, Census(w), KeyIn(w, gl), PawnKeyIn(w, gl), gl, ff, more, u)
  <2>1. more = cs \union side
    BY <1>1
  <2> QED
    BY <2>1, CastlingStands
<1> HIDE DEF b
<1>11. HandleCastle(State(v, fl, ff, cs, u), us, m) = Castling(b, side)
  <2>1. State(v, fl, ff, cs, u).flags.rights = fl.rights
    BY DEF State, Standing
  <2>2. HandleCastle(State(v, fl, ff, cs, u), us, m)
          = Castling(Toggled(WithoutRights(Placed(Lifted(State(v, fl, ff, cs, u), us, rook, here),
                                                  us, rook, there), lost), path), side)
    BY <1>1, <2>1 DEF HandleCastle, Castling
  <2> QED
    BY <1>4, <1>6, <1>9, <2>2
<1>12. HandleCastle(State(v, fl, ff, cs, u), us, m) = State(w, gl, ff, more, u)
  BY <1>10, <1>11 DEF State
<1> QED
  BY <1>12

LEMMA PromotionStands ==
  ASSUME NEW v \in Contents, NEW us \in Colors, NEW m, m.to \in Squares,
         m.promo \in Kinds \ {pawn, king}, v[m.to] = Value(us, pawn),
         NEW fl, AreFlags(fl), NEW ff, NEW cs, NEW u,
         NEW w, w = Put(v, m.to, Value(us, m.promo))
  PROVE  /\ HandlePromotion(State(v, fl, ff, cs, u), us, m) = State(w, fl, ff, cs, u)
         /\ w \in Contents
<1>1. PICK new, to, path :
        /\ new = m.promo /\ to = m.to /\ path = {At(us, pawn, to), At(us, new, to)}
  OBVIOUS
<1> DEFINE k == KeyIn(v, fl)
           pk == PawnKeyIn(v, fl)
<1>2. /\ new \in Kinds /\ pawn \in Kinds /\ new # pawn /\ new # king /\ to \in Squares
      /\ v[to] = Value(us, pawn) /\ w = Put(v, to, Value(us, new))
  BY <1>1 DEF pawn, Kinds
<1>3. Exchanged(State(v, fl, ff, cs, u), us, pawn, new, to)
        = Standing(w, Census(w), k, pk, fl, ff, cs, u)
  BY <1>2, ExchangedStands DEF State
<1>4. /\ SymDiff(k, path) = KeyIn(w, fl)
      /\ SymDiff(pk, {At(us, pawn, to)}) = PawnKeyIn(w, fl)
  BY <1>1, <1>2, KeyRecast DEF KeyIn, PawnKeyIn
<1>5. w \in Contents
  BY <1>2, AtIsWord, PutAt
<1> HIDE DEF k, pk
<1>6. Toggled(Standing(w, Census(w), k, pk, fl, ff, cs, u), path)
        = Standing(w, Census(w), KeyIn(w, fl), pk, fl, ff, cs, u)
  BY <1>4, ToggledStands
<1>7. PawnToggled(Standing(w, Census(w), KeyIn(w, fl), pk, fl, ff, cs, u),
                  {At(us, pawn, to)})
        = Standing(w, Census(w), KeyIn(w, fl), PawnKeyIn(w, fl), fl, ff, cs, u)
  BY <1>4, ToggledStands
<1>8. HandlePromotion(State(v, fl, ff, cs, u), us, m)
        = PawnToggled(Toggled(Exchanged(State(v, fl, ff, cs, u), us, pawn, new, to), path),
                      {At(us, pawn, to)})
  BY <1>1 DEF HandlePromotion
<1> QED
  BY <1>3, <1>5, <1>6, <1>7, <1>8 DEF State

LEMMA EnPassantStands ==
  ASSUME NEW v \in Contents, NEW us \in Colors, NEW square \in Squares, NEW m,
         square = m.to - 8 * Forward(us), v[square] = Value(Flip(us), pawn),
         NEW fl, AreFlags(fl), NEW ff, NEW cs, NEW u,
         NEW w, w = Put(v, square, empty)
  PROVE  /\ HandleEnPassant(State(v, fl, ff, cs, u), us, m) = State(w, fl, ff, cs, u)
         /\ w \in Contents
<1>1. PICK them, taken : them = Flip(us) /\ taken = {At(them, pawn, square)}
  OBVIOUS
<1> DEFINE k == KeyIn(v, fl)
           pk == PawnKeyIn(v, fl)
<1>2. /\ pawn \in Kinds /\ pawn \in {pawn, king} /\ v[square] = Value(them, pawn)
  BY <1>1 DEF pawn, Kinds
<1>3. them \in Colors
  BY <1>1 DEF Flip, Colors, white, black
<1>4. Lifted(State(v, fl, ff, cs, u), them, pawn, square)
        = Standing(w, Census(v), k, pk, fl, ff, cs, u)
  BY <1>2, <1>3, LiftedStands DEF State
<1>5. Census(w) = Put(Census(v), them, More(Census(v)[them], pawn, -1))
  BY <1>2, <1>3, CensusLifted
<1>6. Counted(Standing(w, Census(v), k, pk, fl, ff, cs, u), them, pawn, -1)
        = Standing(w, Census(w), k, pk, fl, ff, cs, u)
  BY <1>5, CountedStands
<1>7. /\ SymDiff(k, taken) = KeyIn(w, fl)
      /\ SymDiff(pk, taken) = PawnKeyIn(w, fl)
  BY <1>1, <1>2, <1>3, KeyTaken DEF KeyIn, PawnKeyIn
<1>8. w \in Contents
  BY <1>2, <1>3, AtIsWord, PutAt
<1> HIDE DEF k, pk
<1>9. Toggled(Standing(w, Census(w), k, pk, fl, ff, cs, u), taken)
        = Standing(w, Census(w), KeyIn(w, fl), pk, fl, ff, cs, u)
  BY <1>7, ToggledStands
<1>10. PawnToggled(Standing(w, Census(w), KeyIn(w, fl), pk, fl, ff, cs, u), taken)
         = Standing(w, Census(w), KeyIn(w, fl), PawnKeyIn(w, fl), fl, ff, cs, u)
  BY <1>7, ToggledStands
<1>11. HandleEnPassant(State(v, fl, ff, cs, u), us, m)
         = PawnToggled(Toggled(Counted(Lifted(State(v, fl, ff, cs, u), them, pawn, square),
                                       them, pawn, -1), taken), taken)
  BY <1>1 DEF HandleEnPassant
<1> QED
  BY <1>4, <1>6, <1>8, <1>9, <1>10, <1>11 DEF State

\* The steps around the move itself.
LEMMA StateWithoutRights ==
  ASSUME NEW v, NEW fl, NEW ff, NEW cs, NEW u, NEW lost, NEW gl,
         lost \in SUBSET fl.rights, AreFlags(fl), gl = LessRights(fl, lost)
  PROVE  /\ WithoutRights(State(v, fl, ff, cs, u), lost) = State(v, gl, ff, cs, u)
         /\ AreFlags(gl) /\ gl.rights = fl.rights \ lost /\ gl.ep = fl.ep
         /\ gl.side = fl.side /\ gl.halfMoveCount = fl.halfMoveCount
         /\ gl.capture = fl.capture
<1>1. gl.ep = fl.ep
  BY RightsLessened
<1>2. PawnKeyIn(v, gl) = PawnKeyIn(v, fl)
  BY <1>1 DEF PawnKeyIn
<1>3. WithoutRights(Standing(v, Census(v), KeyIn(v, fl), PawnKeyIn(v, fl), fl, ff, cs, u), lost)
        = Standing(v, Census(v), KeyIn(v, gl), PawnKeyIn(v, fl), gl, ff, cs, u)
  BY WithoutRightsStands
<1>4. WithoutRights(State(v, fl, ff, cs, u), lost) = State(v, gl, ff, cs, u)
  BY <1>2, <1>3 DEF State
<1> QED
  BY <1>4, RightsLessened

LEMMA PassedStands ==
  ASSUME NEW v, NEW fl, NEW ff, NEW cs, NEW u, NEW double, NEW m, NEW new,
         AreFlags(fl), new = IF double THEN m.to ELSE 0
  PROVE  EnPassantUpdated(State(v, fl, ff, cs, u), double, m)
           = State(v, Passing(fl, new), ff, cs, u)
<1>1. PICK gl, change :
        gl = Passing(fl, new) /\ change = SymDiff(EnPassant(fl.ep), EnPassant(new))
  OBVIOUS
<1> DEFINE k == KeyIn(v, fl)
           pk == PawnKeyIn(v, fl)
           b == Standing(v, Census(v), k, pk, fl, ff, cs, u)
<1>2. gl.ep = new /\ gl.rights = fl.rights
  BY <1>1 DEF AreFlags, FlagsOf, Passing
<1>3. SymDiff(k, change) = KeyIn(v, gl) /\ SymDiff(pk, change) = PawnKeyIn(v, gl)
  BY <1>1, <1>2, KeyEnPassant DEF KeyIn, PawnKeyIn
<1>4. [b EXCEPT !.flags.ep = new] = Standing(v, Census(v), k, pk, gl, ff, cs, u)
  BY <1>1 DEF Standing, Passing
<1>5. EnPassantUpdated(b, double, m)
        = PawnToggled(Toggled([b EXCEPT !.flags.ep = new], change), change)
  <2>1. b.flags.ep = fl.ep
    BY DEF Standing
  <2> HIDE DEF b
  <2> QED
    BY <1>1, <2>1 DEF EnPassantUpdated
<1> HIDE DEF b, k, pk
<1>6. Toggled(Standing(v, Census(v), k, pk, gl, ff, cs, u), change)
        = Standing(v, Census(v), KeyIn(v, gl), pk, gl, ff, cs, u)
  BY <1>3, ToggledStands
<1>7. PawnToggled(Standing(v, Census(v), KeyIn(v, gl), pk, gl, ff, cs, u), change)
        = Standing(v, Census(v), KeyIn(v, gl), PawnKeyIn(v, gl), gl, ff, cs, u)
  BY <1>3, ToggledStands
<1>8. EnPassantUpdated(b, double, m) = State(v, gl, ff, cs, u)
  BY <1>4, <1>5, <1>6, <1>7 DEF State
<1> QED
  BY <1>1, <1>8 DEF State, b, k, pk

Remembering(b, info) == [b EXCEPT !.undoInfo = Append(@, info), !.fifty = @ + 1]
Turning(b, us) == [b EXCEPT !.flags.side = Flip(us), !.flags.halfMoveCount = @ + 1]
Repeating(b, r) == [b EXCEPT !.flags.repeats = r]
Checking(b, k, d) == [b EXCEPT !.flags.check = k, !.flags.draw = d]
Reviewed(b, r, k, d) == Checking(Repeating(b, r), k, d)

LEMMA RememberedStands ==
  ASSUME NEW v, NEW n, NEW k, NEW pk, NEW fl, NEW ff, NEW cs, NEW u, NEW info
  PROVE  Remembering(Standing(v, n, k, pk, fl, ff, cs, u), info)
           = Standing(v, n, k, pk, fl, ff + 1, cs, Append(u, info))
<1> DEFINE b == Standing(v, n, k, pk, fl, ff, cs, u)
           more == Append(u, info)
           c == Standing(v, n, k, pk, fl, ff, cs, more)
<1>1. [b EXCEPT !.undoInfo = Append(@, info)] = c
  BY DEF Standing
<1> HIDE DEF more
<1>2. [c EXCEPT !.fifty = @ + 1] = Standing(v, n, k, pk, fl, ff + 1, cs, more)
  <2>1. c.fifty = ff
    BY DEF Standing
  <2>2. PICK f : f = ff + 1
    OBVIOUS
  <2>3. [c EXCEPT !.fifty = f] = Standing(v, n, k, pk, fl, f, cs, more)
    BY DEF Standing
  <2> HIDE DEF c
  <2> QED
    BY <2>1, <2>2, <2>3
<1> HIDE DEF b, c
<1>3. Remembering(b, info) = [[b EXCEPT !.undoInfo = Append(@, info)] EXCEPT !.fifty = @ + 1]
  BY DEF Remembering
<1> QED
  BY <1>1, <1>2, <1>3 DEF b, more

LEMMA TurnedStands ==
  ASSUME NEW v, NEW fl, NEW ff, NEW cs, NEW u, NEW us, AreFlags(fl), us = fl.side
  PROVE  Turning(State(v, fl, ff, cs, u), us) = State(v, Turned(fl), ff, cs, u)
<1> DEFINE k == KeyIn(v, fl)
           pk == PawnKeyIn(v, fl)
           b == Standing(v, Census(v), k, pk, fl, ff, cs, u)
           hl == [fl EXCEPT !.side = Flip(us)]
           c == Standing(v, Census(v), k, pk, hl, ff, cs, u)
<1>1. [b EXCEPT !.flags.side = Flip(us)] = c
  BY DEF Standing
<1>2. [c EXCEPT !.flags.halfMoveCount = @ + 1]
        = Standing(v, Census(v), k, pk, [hl EXCEPT !.halfMoveCount = @ + 1], ff, cs, u)
  <2> HIDE DEF hl, k, pk
  <2>1. c.flags.halfMoveCount = hl.halfMoveCount
    BY DEF Standing
  <2>2. PICK h : h = hl.halfMoveCount + 1
    OBVIOUS
  <2>3. [c EXCEPT !.flags.halfMoveCount = h]
          = Standing(v, Census(v), k, pk, [hl EXCEPT !.halfMoveCount = h], ff, cs, u)
    BY DEF Standing
  <2> HIDE DEF c
  <2> QED
    BY <2>1, <2>2, <2>3
<1>3. [hl EXCEPT !.halfMoveCount = @ + 1] = Turned(fl)
  BY DEF Turned
<1>4. k = KeyIn(v, Turned(fl)) /\ pk = PawnKeyIn(v, Turned(fl))
  BY FlagsTurned DEF KeyIn, PawnKeyIn
<1> HIDE DEF b, c, k, pk, hl
<1>5. Turning(b, us) = [[b EXCEPT !.flags.side = Flip(us)] EXCEPT !.flags.halfMoveCount = @ + 1]
  BY DEF Turning
<1>6. Turning(b, us) = Standing(v, Census(v), k, pk, Turned(fl), ff, cs, u)
  BY <1>1, <1>2, <1>3, <1>5
<1> QED
  BY <1>4, <1>6 DEF State, b, k, pk

\* How often the key k is in the window of n half moves, of which ff changed
\* nothing for good, and what adjustRepeatCount() makes of it.
Times(n, ff, k, u) ==
  Cardinality({i \in {i \in 0 .. n - 4 : i >= n - ff /\ (n - i) % 2 = 0} : u[i + 1].key = k})
UpToTwo(times) == IF times > 2 THEN 2 ELSE times
Remembers(v, fl, ff, u) ==
  fl.repeats = UpToTwo(Times(fl.halfMoveCount, ff, KeyIn(v, fl), u))

LEMMA JudgedStands ==
  ASSUME NEW v, NEW fl, NEW ff, NEW cs, NEW u, AreFlags(fl)
  PROVE  \E gl : /\ AreFlags(gl) /\ SameFlags(fl, gl) /\ gl.capture = fl.capture
                 /\ Remembers(v, gl, ff, u)
                 /\ Judged(State(v, fl, ff, cs, u)) = State(v, gl, ff, cs, u)
<1> DEFINE k == KeyIn(v, fl)
           pk == PawnKeyIn(v, fl)
           b == Standing(v, Census(v), k, pk, fl, ff, cs, u)
<1>0. PICK n, r : n = fl.halfMoveCount /\ r = UpToTwo(Times(n, ff, k, u))
  OBVIOUS
<1>1. \E x, d : Judged(b) = Reviewed(b, r, x, d)
  <2>1. /\ b.flags.halfMoveCount = n /\ b.fifty = ff /\ b.key = k /\ b.undoInfo = u
    BY <1>0 DEF Standing
  <2> HIDE DEF b, k
  <2>2. Window(b) = {i \in 0 .. n - 4 : i >= n - ff /\ (n - i) % 2 = 0}
    BY <2>1 DEF Window
  <2>3. Cardinality({i \in Window(b) : b.undoInfo[i + 1].key = b.key}) = Times(n, ff, k, u)
    BY <2>1, <2>2 DEF Times
  <2>4. RepeatAdjusted(b) = Repeating(b, r)
    BY <1>0, <2>3 DEF RepeatAdjusted, Repeating, UpToTwo
  <2>5. \E x, d : Judged(b) = Checking(RepeatAdjusted(b), x, d)
    BY Zenon DEF Judged, Checking
  <2> QED
    BY <2>4, <2>5 DEF Reviewed
<1>2. PICK x, d : Judged(b) = Reviewed(b, r, x, d)
  BY <1>1
<1>3. PICK gl : gl = Judging(fl, r, x, d)
  OBVIOUS
<1>4. AreFlags(gl) /\ SameFlags(fl, gl) /\ gl.capture = fl.capture /\ gl.repeats = r
  <2>1. gl.repeats = r
    BY <1>3 DEF AreFlags, FlagsOf, Judging
  <2> QED
    BY <1>3, <2>1, FlagsChanged
<1>5. Reviewed(b, r, x, d) = Standing(v, Census(v), k, pk, gl, ff, cs, u)
  <2> DEFINE f1 == [fl EXCEPT !.repeats = r]
             f2 == [f1 EXCEPT !.check = x]
             b1 == Standing(v, Census(v), k, pk, f1, ff, cs, u)
             b2 == Standing(v, Census(v), k, pk, f2, ff, cs, u)
  <2>1. [b EXCEPT !.flags.repeats = r] = b1
    BY DEF Standing
  <2> HIDE DEF f1
  <2>2. [b1 EXCEPT !.flags.check = x] = b2
    BY DEF Standing
  <2> HIDE DEF f2
  <2>3. [b2 EXCEPT !.flags.draw = d]
          = Standing(v, Census(v), k, pk, [f2 EXCEPT !.draw = d], ff, cs, u)
    BY DEF Standing
  <2>4. [f2 EXCEPT !.draw = d] = gl
    BY <1>3 DEF f1, f2, Judging
  <2> HIDE DEF b, b1, b2
  <2>5. Reviewed(b, r, x, d)
          = [[[b EXCEPT !.flags.repeats = r] EXCEPT !.flags.check = x] EXCEPT !.flags.draw = d]
    BY DEF Reviewed, Checking, Repeating
  <2> QED
    BY <2>1, <2>2, <2>3, <2>4, <2>5
<1>6. k = KeyIn(v, gl) /\ pk = PawnKeyIn(v, gl)
  BY <1>4 DEF SameFlags, KeyIn, PawnKeyIn
<1> HIDE DEF b, k, pk
<1>7. Judged(b) = State(v, gl, ff, cs, u)
  BY <1>2, <1>5, <1>6 DEF State
<1>8. Remembers(v, gl, ff, u)
  BY <1>0, <1>4, <1>6 DEF Remembers, SameFlags
<1> QED
  BY <1>4, <1>7, <1>8 DEF State, b, k, pk
-----------------------------------------------------------------------------
(***************************************************************************)
(* makeMove of a move that fits the board.                                 *)
(***************************************************************************)
Castles(p, m) == p = king /\ Magnitude(m.from - m.to) = 2
TakesInPassing(v, us, p, m) ==
  p = pawn /\ v[m.to] = empty /\ (m.to - m.from) * Forward(us) \in {7, 9}
Doubles(p, m) == p = pawn /\ Magnitude(m.from - m.to) = 16
\* The fifty-move clock after a move on squares v, when it counts f otherwise.
Clock(v, p, m, f) == IF p = pawn \/ v[m.to] # empty THEN 0 ELSE f
Behind(us, m) == m.to - 8 * Forward(us)

\* What holds of a move of a piece p that the generators offer on squares v.
Fits(v, fl, p, m) ==
  /\ p \in Kinds /\ Goes(v, fl.side, p, m)
  /\ p = pawn => (Row(m.to) - Row(m.from)) * Forward(fl.side) > 0
  /\ m.promo # 0 => p = pawn /\ m.promo \in Kinds \ {pawn, king}
  /\ p = pawn /\ m.promo = 0 => Row(m.to) \notin {0, 7}
  /\ Castles(p, m) =>
       /\ <<fl.side, CastledSide(m)>> \in fl.rights
       /\ v[m.to] = empty
       /\ RookFrom(fl.side, m) \in Squares \ {m.from, m.to}
       /\ RookTo(fl.side, m) \in Squares \ {m.from, m.to, RookFrom(fl.side, m)}
       /\ v[RookFrom(fl.side, m)] = Value(fl.side, rook) /\ v[RookTo(fl.side, m)] = empty
  /\ TakesInPassing(v, fl.side, p, m) =>
       Behind(fl.side, m) \in Squares /\ v[Behind(fl.side, m)] = Value(Flip(fl.side), pawn)
  /\ Doubles(p, m) =>
       /\ m.promo = 0 /\ v[m.to] = empty /\ Row(m.to) = IF fl.side = white THEN 3 ELSE 4
       /\ Behind(fl.side, m) \in Squares \ {m.from, m.to} /\ v[Behind(fl.side, m)] = empty

\* The squares after it, the rights that go and the castlings that there were.
After(v, us, p, m) ==
  IF Castles(p, m)
  THEN Put(Put(Arrived(v, m), RookFrom(us, m), empty), RookTo(us, m), Value(us, rook))
  ELSE IF m.promo # 0 THEN Put(Arrived(v, m), m.to, Value(us, m.promo))
  ELSE IF TakesInPassing(v, us, p, m) THEN Put(Arrived(v, m), Behind(us, m), empty)
  ELSE Arrived(v, m)

Lost(fl, p, m) ==
  IF Castles(p, m) THEN fl.rights \cap ({fl.side} \X Sides)
  ELSE {r \in fl.rights :
          (IF r[1] = fl.side THEN m.from ELSE m.to) \in Homes(r[1], r[2])}

CastledBy(us, p, m, cs) ==
  IF Castles(p, m) THEN cs \union {<<us, CastledSide(m)>>} ELSE cs

Restarted(b) == [b EXCEPT !.fifty = 0]

LEMMA RestartedStands ==
  ASSUME NEW v, NEW n, NEW k, NEW pk, NEW fl, NEW ff, NEW cs, NEW u
  PROVE  Restarted(Standing(v, n, k, pk, fl, ff, cs, u)) = Standing(v, n, k, pk, fl, 0, cs, u)
BY DEF Standing, Restarted

LEMMA KindsApart ==
  /\ pawn \in Kinds /\ rook \in Kinds /\ king \in Kinds
  /\ pawn # king /\ rook # king /\ rook # pawn
BY DEF pawn, rook, king, Kinds

LEMMA MovedParts ==
  ASSUME NEW b, NEW us, NEW p, NEW m, us = b.flags.side, p = Magnitude(b.values[m.from])
  PROVE  \E landed, counted, homed :
           /\ landed = Landed(b, us, p, m)
           /\ counted = IF p = pawn THEN Restarted(landed) ELSE landed
           /\ homed = IF IsCastleMove(b, m) THEN HandleCastle(counted, us, m)
                      ELSE WithoutRights(counted, LostRights(counted, m))
           /\ Moved(b, m) = IF m.promo # 0 THEN HandlePromotion(homed, us, m)
                            ELSE IF IsEnPassantMove(b, m) THEN HandleEnPassant(homed, us, m)
                            ELSE homed
<1>1. PICK landed : landed = Landed(b, us, p, m)
  OBVIOUS
<1>2. PICK counted : counted = IF p = pawn THEN Restarted(landed) ELSE landed
  OBVIOUS
<1>3. PICK homed : homed = IF IsCastleMove(b, m) THEN HandleCastle(counted, us, m)
                           ELSE WithoutRights(counted, LostRights(counted, m))
  OBVIOUS
<1>4. Moved(b, m) = IF m.promo # 0 THEN HandlePromotion(homed, us, m)
                    ELSE IF IsEnPassantMove(b, m) THEN HandleEnPassant(homed, us, m)
                    ELSE homed
  BY <1>1, <1>2, <1>3, ZenonT(40) DEF Moved, Landed, Restarted
<1> QED
  BY <1>1, <1>2, <1>3, <1>4

\* Where the move leads from the squares v and the flags fl.
MovesTo(v, fl, ff, cs, u, us, p, m, after) ==
  \E gl, gf, ds :
    /\ gf = Clock(v, p, m, ff)
    /\ AreFlags(gl) /\ gl.side = us /\ gl.halfMoveCount = fl.halfMoveCount
    /\ gl.ep = fl.ep /\ gl.capture = Magnitude(v[m.to])
    /\ gl.rights = fl.rights \ Lost(fl, p, m)
    /\ ds = CastledBy(us, p, m, cs)
    /\ After(v, us, p, m) \in Contents
    /\ after = State(After(v, us, p, m), gl, gf, ds, u)

LEMMA MovedStands ==
  ASSUME NEW v \in Contents, NEW fl, NEW ff, NEW cs, NEW u, NEW us, NEW p, NEW m,
         AreFlags(fl), us = fl.side, Fits(v, fl, p, m)
  PROVE  MovesTo(v, fl, ff, cs, u, us, p, m, Moved(State(v, fl, ff, cs, u), m))
<1> SUFFICES \E gl, gf, ds :
               /\ gf = Clock(v, p, m, ff)
               /\ AreFlags(gl) /\ gl.side = us /\ gl.halfMoveCount = fl.halfMoveCount
               /\ gl.ep = fl.ep /\ gl.capture = Magnitude(v[m.to])
               /\ gl.rights = fl.rights \ Lost(fl, p, m)
               /\ ds = CastledBy(us, p, m, cs)
               /\ After(v, us, p, m) \in Contents
               /\ Moved(State(v, fl, ff, cs, u), m) = State(After(v, us, p, m), gl, gf, ds, u)
  BY DEF MovesTo
<1> DEFINE b == State(v, fl, ff, cs, u)
<1>1. /\ p \in Kinds /\ us \in Colors /\ Goes(v, us, p, m) /\ Flip(us) \in Colors
      /\ m.from \in Squares /\ m.to \in Squares /\ m.from # m.to
      /\ v[m.from] = Value(us, p)
  BY DEF Fits, AreFlags, Goes, Flip, Colors, white, black
<1>2. b.flags = fl /\ b.values = v
  BY DEF State, Standing
<1>3. Magnitude(b.values[m.from]) = p
  BY <1>1, <1>2, Codings
<1>4. /\ IsCastleMove(b, m) <=> Castles(p, m)
      /\ IsEnPassantMove(b, m) <=> TakesInPassing(v, us, p, m)
  BY <1>2, <1>3 DEF IsCastleMove, IsEnPassantMove, Castles, TakesInPassing
<1>5. PICK r, g1, f1 :
        /\ r = Arrived(v, m) /\ g1 = Capturing(fl, Magnitude(v[m.to]))
        /\ f1 = IF v[m.to] = empty THEN ff ELSE 0
  OBVIOUS
<1>6. /\ AreFlags(g1) /\ SameFlags(fl, g1) /\ g1.capture = Magnitude(v[m.to])
  BY <1>5, FlagsChanged
<1>7. /\ r \in Contents /\ r[m.to] = Value(us, p) /\ r[m.from] = empty
      /\ \A s \in Squares \ {m.from, m.to} : r[s] = v[s]
  <2>1. PICK w : w = Put(v, m.to, empty)
    OBVIOUS
  <2> QED
    BY <1>1, <1>5, <2>1, ArrivedAt
<1>8. Landed(b, us, p, m) = State(r, g1, f1, cs, u)
  BY <1>1, <1>5, LandedStands
<1> HIDE DEF b
<1>9. PICK landed, counted, homed :
        /\ landed = Landed(b, us, p, m)
        /\ counted = IF p = pawn THEN Restarted(landed) ELSE landed
        /\ homed = IF IsCastleMove(b, m) THEN HandleCastle(counted, us, m)
                   ELSE WithoutRights(counted, LostRights(counted, m))
        /\ Moved(b, m) = IF m.promo # 0 THEN HandlePromotion(homed, us, m)
                         ELSE IF IsEnPassantMove(b, m) THEN HandleEnPassant(homed, us, m)
                         ELSE homed
  BY <1>2, <1>3, MovedParts
<1>10. PICK gf : gf = Clock(v, p, m, ff) /\ counted = State(r, g1, gf, cs, u)
  <2>1. PICK gf : gf = IF p = pawn THEN 0 ELSE f1
    OBVIOUS
  <2>2. gf = Clock(v, p, m, ff)
    BY <1>5, <2>1 DEF Clock
  <2> QED
    BY <1>8, <1>9, <2>1, <2>2, RestartedStands DEF State
<1>11. PICK lost, gl, ds :
         lost = Lost(fl, p, m) /\ gl = LessRights(g1, lost) /\ ds = CastledBy(us, p, m, cs)
  OBVIOUS
<1>12. /\ AreFlags(gl) /\ gl.rights = fl.rights \ lost /\ gl.ep = fl.ep
       /\ gl.side = us /\ gl.halfMoveCount = fl.halfMoveCount
       /\ gl.capture = Magnitude(v[m.to]) /\ lost \in SUBSET g1.rights
  <2>1. lost \in SUBSET fl.rights /\ g1.rights = fl.rights
    BY <1>6, <1>11 DEF Lost, SameFlags
  <2> QED
    BY <1>6, <1>11, <2>1, RightsLessened DEF SameFlags
<1>13. CASE Castles(p, m)
  <2>1. PICK here, there, x :
          /\ here = RookFrom(us, m) /\ there = RookTo(us, m)
          /\ x = Put(Put(r, here, empty), there, Value(us, rook))
    OBVIOUS
  <2>2. /\ here \in Squares /\ there \in Squares /\ here # there
        /\ r[here] = Value(us, rook) /\ r[there] = empty
        /\ m.promo = 0 /\ ~TakesInPassing(v, us, p, m)
    BY <1>7, <1>13, <2>1, KindsApart DEF Fits, Castles, TakesInPassing
  <2>3. lost = g1.rights \cap ({us} \X Sides) /\ ds = cs \union {<<us, CastledSide(m)>>}
    BY <1>6, <1>11, <1>13 DEF Lost, CastledBy, SameFlags
  <2>4. HandleCastle(State(r, g1, gf, cs, u), us, m) = State(x, gl, gf, ds, u)
    <3>1. /\ gl = LessRights(g1, lost) /\ AreFlags(g1) /\ us \in Colors /\ r \in Contents
      BY <1>1, <1>6, <1>7, <1>11
    <3>2. PICK side, all : side = {<<us, CastledSide(m)>>} /\ all = ({us} \X Sides)
      OBVIOUS
    <3> QED
      BY <3>1, <2>1, <2>2, <2>3, CastleStands
  <2>7. x \in Contents
    <3>1. Put(r, here, empty) \in Contents
      BY <1>7, <2>2, AtIsWord, KindsApart, PutAt, <1>1
    <3> QED
      BY <1>1, <2>1, <2>2, <3>1, AtIsWord, KindsApart, PutAt
  <2>5. After(v, us, p, m) = x
    BY <1>5, <1>13, <2>1 DEF After
  <2>6. Moved(b, m) = State(x, gl, gf, ds, u)
    BY <1>4, <1>9, <1>10, <1>13, <2>2, <2>4
  <2> QED
    BY <1>10, <1>11, <1>12, <2>5, <2>6, <2>7 DEF b
<1>14. CASE ~Castles(p, m)
  <2>1. LostRights(counted, m) = lost
    <3>1. counted.flags = g1
      BY <1>10 DEF State, Standing
    <3> QED
      BY <1>6, <1>11, <1>14, <3>1 DEF LostRights, Lost, SameFlags
  <2>2. homed = State(r, gl, gf, cs, u)
    <3>1. WithoutRights(State(r, g1, gf, cs, u), lost) = State(r, gl, gf, cs, u)
      BY <1>6, <1>11, <1>12, StateWithoutRights
    <3> QED
      BY <1>4, <1>9, <1>10, <1>14, <2>1, <3>1
  <2>3. ds = cs
    BY <1>11, <1>14 DEF CastledBy
  <2>4. \E x : /\ x = After(v, us, p, m) /\ x \in Contents
               /\ Moved(b, m) = State(x, gl, gf, cs, u)
    <3>1. CASE m.promo # 0
      <4>1. PICK x : x = Put(r, m.to, Value(us, m.promo))
        OBVIOUS
      <4>2. r[m.to] = Value(us, pawn) /\ m.promo \in Kinds \ {pawn, king}
        BY <1>7, <3>1 DEF Fits
      <4>3. HandlePromotion(State(r, gl, gf, cs, u), us, m) = State(x, gl, gf, cs, u)
            /\ x \in Contents
        BY <1>1, <1>7, <1>12, <4>1, <4>2, PromotionStands
      <4> QED
        BY <1>5, <1>9, <1>14, <2>2, <3>1, <4>1, <4>3 DEF After
    <3>2. CASE m.promo = 0 /\ TakesInPassing(v, us, p, m)
      <4>1. PICK square, x : square = m.to - 8 * Forward(us) /\ x = Put(r, square, empty)
        OBVIOUS
      <4>2. square \in Squares /\ v[square] = Value(Flip(us), pawn)
        BY <3>2, <4>1 DEF Fits, Behind
      <4>3. square # m.from /\ square # m.to
        <5>1. Value(Flip(us), pawn) # Value(us, p)
          BY <1>1, Codings, KindsApart DEF Flip, Colors, white, black
        <5>2. Value(Flip(us), pawn) # empty
          BY <1>1, Codings, KindsApart
        <5> QED
          BY <1>1, <3>2, <4>2, <5>1, <5>2 DEF TakesInPassing
      <4>4. r[square] = Value(Flip(us), pawn)
        BY <1>7, <4>2, <4>3
      <4>5. HandleEnPassant(State(r, gl, gf, cs, u), us, m) = State(x, gl, gf, cs, u)
            /\ x \in Contents
        BY <1>1, <1>7, <1>12, <4>1, <4>2, <4>4, EnPassantStands
      <4> QED
        BY <1>4, <1>5, <1>9, <1>14, <2>2, <3>2, <4>1, <4>5 DEF After, Behind
    <3>3. CASE m.promo = 0 /\ ~TakesInPassing(v, us, p, m)
      BY <1>4, <1>5, <1>7, <1>9, <1>14, <2>2, <3>3 DEF After
    <3> QED
      BY <3>1, <3>2, <3>3
  <2> QED
    BY <1>10, <1>11, <1>12, <2>3, <2>4 DEF b
<1> QED
  BY <1>13, <1>14
-----------------------------------------------------------------------------
(***************************************************************************)
(* makeMove as a whole.                                                    *)
(***************************************************************************)
Entry(v, fl, ff, m) ==
  [key |-> KeyIn(v, fl), pawnKey |-> PawnKeyIn(v, fl), flags |-> fl, fifty |-> ff,
   move |-> m]

Ready(fl, p, m) == IF Doubles(p, m) THEN m.to ELSE 0

LEMMA InfoOfState ==
  ASSUME NEW v, NEW fl, NEW ff, NEW cs, NEW u, NEW m
  PROVE  Info(State(v, fl, ff, cs, u), m) = Entry(v, fl, ff, m)
BY DEF Info, Entry, State, Standing

LEMMA AppliedParts ==
  ASSUME NEW b, NEW m
  PROVE  \E stored, moved, double, passed :
           /\ stored = Remembering(b, Info(b, m))
           /\ moved = IF m = Empty THEN stored ELSE Moved(stored, m)
           /\ double <=> /\ m # Empty /\ Magnitude(b.values[m.from]) = pawn
                         /\ Magnitude(m.from - m.to) = 16
           /\ passed = EnPassantUpdated(moved, double, m)
           /\ Applied(b, m) = Judged(Turning(passed, b.flags.side))
<1>1. PICK stored : stored = Remembering(b, Info(b, m))
  OBVIOUS
<1>2. PICK moved : moved = IF m = Empty THEN stored ELSE Moved(stored, m)
  OBVIOUS
<1>3. PICK double : double = (/\ m # Empty /\ Magnitude(b.values[m.from]) = pawn
                              /\ Magnitude(m.from - m.to) = 16)
  OBVIOUS
<1>4. PICK passed : passed = EnPassantUpdated(moved, double, m)
  OBVIOUS
<1>5. Applied(b, m) = Judged(Turning(passed, b.flags.side))
  BY <1>1, <1>2, <1>3, <1>4, Zenon DEF Applied, Remembering, Turning
<1> QED
  BY <1>1, <1>2, <1>3, <1>4, <1>5

\* From the move on: the pawn that can be taken in passing, the turn, the verdict.
LEMMA FinishedStands ==
  ASSUME NEW v, NEW fl, NEW ff, NEW cs, NEW u, NEW double, NEW m, NEW new, NEW us,
         AreFlags(fl), us = fl.side, new \in Squares, new = IF double THEN m.to ELSE 0
  PROVE  \E gl : /\ AreFlags(gl) /\ gl.side = Flip(us)
                 /\ gl.halfMoveCount = fl.halfMoveCount + 1 /\ gl.ep = new
                 /\ gl.capture = fl.capture /\ gl.rights = fl.rights
                 /\ Remembers(v, gl, ff, u)
                 /\ Judged(Turning(EnPassantUpdated(State(v, fl, ff, cs, u), double, m), us))
                      = State(v, gl, ff, cs, u)
<1>1. PICK pl : pl = Passing(fl, new)
  OBVIOUS
<1>2. EnPassantUpdated(State(v, fl, ff, cs, u), double, m) = State(v, pl, ff, cs, u)
  BY <1>1, PassedStands
<1>3. /\ AreFlags(pl) /\ pl.capture = fl.capture /\ pl.rights = fl.rights
      /\ pl.side = fl.side /\ pl.halfMoveCount = fl.halfMoveCount /\ pl.ep = new
  BY <1>1, FlagsChanged
<1>4. PICK tl : tl = Turned(pl)
  OBVIOUS
<1>5. Turning(State(v, pl, ff, cs, u), us) = State(v, tl, ff, cs, u)
  BY <1>3, <1>4, TurnedStands
<1>6. /\ AreFlags(tl) /\ tl.side = Flip(us) /\ tl.halfMoveCount = fl.halfMoveCount + 1
      /\ tl.capture = fl.capture /\ tl.rights = fl.rights /\ tl.ep = new
  BY <1>3, <1>4, FlagsTurned
<1>7. PICK gl : /\ AreFlags(gl) /\ SameFlags(tl, gl) /\ gl.capture = tl.capture
                /\ Remembers(v, gl, ff, u)
                /\ Judged(State(v, tl, ff, cs, u)) = State(v, gl, ff, cs, u)
  BY <1>6, JudgedStands
<1> QED
  BY <1>2, <1>5, <1>6, <1>7 DEF SameFlags

\* Where makeMove leads from a whole board.
MakesOf(v, fl, ff, cs, u, us, p, m, after) ==
  \E gl, gf, ds :
    /\ gf = Clock(v, p, m, ff + 1)
    /\ Remembers(After(v, us, p, m), gl, gf, Append(u, Entry(v, fl, ff, m)))
    /\ AreFlags(gl) /\ gl.side = Flip(us)
    /\ gl.halfMoveCount = fl.halfMoveCount + 1
    /\ gl.ep = Ready(fl, p, m) /\ gl.capture = Magnitude(v[m.to])
    /\ gl.rights = fl.rights \ Lost(fl, p, m)
    /\ ds = CastledBy(us, p, m, cs)
    /\ After(v, us, p, m) \in Contents
    /\ after
         = State(After(v, us, p, m), gl, gf, ds, Append(u, Entry(v, fl, ff, m)))

LEMMA AppliedMove ==
  ASSUME NEW v \in Contents, NEW fl, NEW ff, NEW cs, NEW u, NEW us, NEW p, NEW m,
         AreFlags(fl), us = fl.side, m # Empty, Fits(v, fl, p, m)
  PROVE  MakesOf(v, fl, ff, cs, u, us, p, m, Applied(State(v, fl, ff, cs, u), m))
<1> SUFFICES
  \E gl, gf, ds :
    /\ gf = Clock(v, p, m, ff + 1)
    /\ Remembers(After(v, us, p, m), gl, gf, Append(u, Entry(v, fl, ff, m)))
    /\ AreFlags(gl) /\ gl.side = Flip(us)
    /\ gl.halfMoveCount = fl.halfMoveCount + 1
    /\ gl.ep = Ready(fl, p, m) /\ gl.capture = Magnitude(v[m.to])
    /\ gl.rights = fl.rights \ Lost(fl, p, m)
    /\ ds = CastledBy(us, p, m, cs)
    /\ After(v, us, p, m) \in Contents
    /\ Applied(State(v, fl, ff, cs, u), m)
         = State(After(v, us, p, m), gl, gf, ds, Append(u, Entry(v, fl, ff, m)))
  BY DEF MakesOf
<1>1. PICK b, w, more, fg :
        /\ b = State(v, fl, ff, cs, u) /\ w = After(v, us, p, m)
        /\ more = Append(u, Entry(v, fl, ff, m)) /\ fg = ff + 1
  OBVIOUS
<1>2. PICK stored, moved, double, passed :
        /\ stored = Remembering(b, Info(b, m))
        /\ moved = IF m = Empty THEN stored ELSE Moved(stored, m)
        /\ double <=> /\ m # Empty /\ Magnitude(b.values[m.from]) = pawn
                      /\ Magnitude(m.from - m.to) = 16
        /\ passed = EnPassantUpdated(moved, double, m)
        /\ Applied(b, m) = Judged(Turning(passed, b.flags.side))
  BY AppliedParts
<1>3. b.flags = fl /\ b.values = v
  BY <1>1 DEF State, Standing
<1>4. stored = State(v, fl, fg, cs, more)
  BY <1>1, <1>2, InfoOfState, RememberedStands DEF State
<1>5. PICK gl, gf, ds :
        /\ gf = Clock(v, p, m, fg)
        /\ AreFlags(gl) /\ gl.side = us /\ gl.halfMoveCount = fl.halfMoveCount
        /\ gl.ep = fl.ep /\ gl.capture = Magnitude(v[m.to])
        /\ gl.rights = fl.rights \ Lost(fl, p, m)
        /\ ds = CastledBy(us, p, m, cs)
        /\ w \in Contents
        /\ Moved(stored, m) = State(w, gl, gf, ds, more)
  <2>1. MovesTo(v, fl, fg, cs, more, us, p, m, Moved(State(v, fl, fg, cs, more), m))
    BY MovedStands
  <2> QED
    BY <1>1, <1>4, <2>1 DEF MovesTo
<1>6. double <=> Doubles(p, m)
  <2>1. v[m.from] = Value(us, p) /\ p \in Kinds /\ us \in Colors
    BY DEF Fits, Goes, AreFlags
  <2>2. Magnitude(v[m.from]) = p
    BY <2>1, Codings
  <2> QED
    BY <1>2, <1>3, <2>2 DEF Doubles
<1>7. PICK new : new = Ready(fl, p, m)
  OBVIOUS
<1>8. new \in Squares /\ new = IF double THEN m.to ELSE 0
  BY <1>6, <1>7 DEF Ready, Fits, Goes, Squares
<1>9. PICK hl : /\ AreFlags(hl) /\ hl.side = Flip(us)
                /\ hl.halfMoveCount = gl.halfMoveCount + 1 /\ hl.ep = new
                /\ hl.capture = gl.capture /\ hl.rights = gl.rights
                /\ Remembers(w, hl, gf, more)
                /\ Judged(Turning(EnPassantUpdated(State(w, gl, gf, ds, more), double, m), us))
                     = State(w, hl, gf, ds, more)
  BY <1>5, <1>8, FinishedStands
<1>10. Applied(b, m) = State(w, hl, gf, ds, more)
  BY <1>2, <1>3, <1>5, <1>9
<1> QED
  BY <1>1, <1>5, <1>7, <1>9, <1>10

PassesTo(v, fl, ff, cs, u, after) ==
  \E gl, gf :
    /\ gf = ff + 1 /\ Remembers(v, gl, gf, Append(u, Entry(v, fl, ff, Empty)))
    /\ AreFlags(gl) /\ gl.side = Flip(fl.side)
    /\ gl.halfMoveCount = fl.halfMoveCount + 1 /\ gl.ep = 0
    /\ gl.rights = fl.rights
    /\ after = State(v, gl, gf, cs, Append(u, Entry(v, fl, ff, Empty)))

LEMMA AppliedNull ==
  ASSUME NEW v, NEW fl, NEW ff, NEW cs, NEW u, AreFlags(fl)
  PROVE  PassesTo(v, fl, ff, cs, u, Applied(State(v, fl, ff, cs, u), Empty))
<1> SUFFICES
  \E gl, gf :
    /\ gf = ff + 1 /\ Remembers(v, gl, gf, Append(u, Entry(v, fl, ff, Empty)))
    /\ AreFlags(gl) /\ gl.side = Flip(fl.side)
    /\ gl.halfMoveCount = fl.halfMoveCount + 1 /\ gl.ep = 0
    /\ gl.rights = fl.rights
    /\ Applied(State(v, fl, ff, cs, u), Empty)
         = State(v, gl, gf, cs, Append(u, Entry(v, fl, ff, Empty)))
  BY DEF PassesTo
<1>0. PICK us : us = fl.side
  OBVIOUS
<1>1. PICK m, b, more, fg :
        /\ m = Empty /\ b = State(v, fl, ff, cs, u)
        /\ more = Append(u, Entry(v, fl, ff, m)) /\ fg = ff + 1
  OBVIOUS
<1>2. PICK stored, moved, double, passed :
        /\ stored = Remembering(b, Info(b, m))
        /\ moved = IF m = Empty THEN stored ELSE Moved(stored, m)
        /\ double <=> /\ m # Empty /\ Magnitude(b.values[m.from]) = pawn
                      /\ Magnitude(m.from - m.to) = 16
        /\ passed = EnPassantUpdated(moved, double, m)
        /\ Applied(b, m) = Judged(Turning(passed, b.flags.side))
  BY AppliedParts
<1>3. b.flags = fl
  BY <1>1 DEF State, Standing
<1>4. stored = State(v, fl, fg, cs, more)
  BY <1>1, <1>2, InfoOfState, RememberedStands DEF State
<1>5. PICK new : new = 0
  OBVIOUS
<1>6. new \in Squares /\ new = IF double THEN m.to ELSE 0
  BY <1>1, <1>2, <1>5 DEF Squares
<1>7. PICK hl : /\ AreFlags(hl) /\ hl.side = Flip(us)
                /\ hl.halfMoveCount = fl.halfMoveCount + 1 /\ hl.ep = new
                /\ hl.capture = fl.capture /\ hl.rights = fl.rights
                /\ Remembers(v, hl, fg, more)
                /\ Judged(Turning(EnPassantUpdated(State(v, fl, fg, cs, more), double, m), us))
                     = State(v, hl, fg, cs, more)
  BY <1>0, <1>6, FinishedStands
<1>8. Applied(b, m) = State(v, hl, fg, cs, more)
  BY <1>0, <1>1, <1>2, <1>3, <1>4, <1>7
<1> QED
  BY <1>0, <1>1, <1>5, <1>7, <1>8
LEMMA PieceIsPut ==
  ASSUME NEW v \in Contents, NEW c \in Colors, NEW p \in Kinds, NEW s \in Squares,
         NEW w, w = Put(v, s, Value(c, p))
  PROVE  /\ w \in Contents /\ w[s] = Value(c, p)
         /\ \A t \in Squares \ {s} : w[t] = v[t]
<1>1. Value(c, p) \in Codes
  BY AtIsWord
<1> QED
  BY <1>1, PutAt

LEMMA SquareIsCleared ==
  ASSUME NEW v \in Contents, NEW s \in Squares, NEW w, w = Put(v, s, empty)
  PROVE  /\ w \in Contents /\ w[s] = empty
         /\ \A t \in Squares \ {s} : w[t] = v[t]
<1>1. empty \in Codes
  BY DEF empty, Codes
<1> QED
  BY <1>1, PutAt

\* What the squares are after each kind of move.
HasCastled(v, fl, us, p, m, w) ==
  LET here == RookFrom(us, m)
      there == RookTo(us, m)
  IN /\ m.promo = 0 /\ p = king
     /\ here \in Squares \ {m.from, m.to} /\ there \in Squares \ {m.from, m.to, here}
     /\ v[here] = Value(us, rook) /\ v[there] = empty
     /\ v[m.to] = empty /\ <<us, CastledSide(m)>> \in fl.rights
     /\ w \in Contents /\ w[m.from] = empty /\ w[m.to] = Value(us, king)
     /\ w[here] = empty /\ w[there] = Value(us, rook)
     /\ \A s \in Squares \ {m.from, m.to, here, there} : w[s] = v[s]

LEMMA AfterCastle ==
  ASSUME NEW v \in Contents, NEW fl, NEW us, NEW p, NEW m, NEW w,
         AreFlags(fl), us = fl.side, Fits(v, fl, p, m), Castles(p, m),
         w = After(v, us, p, m)
  PROVE  HasCastled(v, fl, us, p, m, w)
<1>0. PICK here, there : here = RookFrom(us, m) /\ there = RookTo(us, m)
  OBVIOUS
<1>1. /\ us \in Colors /\ p \in Kinds /\ Goes(v, us, p, m) /\ p = king
      /\ m.promo = 0 /\ rook \in Kinds
  BY KindsApart DEF Fits, Castles, AreFlags
<1>2. /\ here \in Squares \ {m.from, m.to} /\ there \in Squares \ {m.from, m.to, here}
      /\ v[here] = Value(us, rook) /\ v[there] = empty /\ v[m.to] = empty
      /\ <<us, CastledSide(m)>> \in fl.rights
  BY <1>0 DEF Fits
<1>3. PICK r, x, y : r = Arrived(v, m) /\ x = Put(r, here, empty) /\ y = Put(v, m.to, empty)
  OBVIOUS
<1>4. /\ r \in Contents /\ r[m.to] = Value(us, king) /\ r[m.from] = empty
      /\ \A s \in Squares \ {m.from, m.to} : r[s] = v[s]
  BY <1>1, <1>3, ArrivedAt
<1>5. w = Put(x, there, Value(us, rook))
  BY <1>0, <1>3 DEF After
<1>6. /\ x \in Contents /\ x[here] = empty /\ \A s \in Squares \ {here} : x[s] = r[s]
  <2>1. here \in Squares /\ r \in Contents /\ x = Put(r, here, empty)
    BY <1>2, <1>3, <1>4
  <2> QED
    BY <2>1, SquareIsCleared
<1>7. /\ w \in Contents /\ w[there] = Value(us, rook)
      /\ \A s \in Squares \ {there} : w[s] = x[s]
  BY <1>1, <1>2, <1>5, <1>6, PieceIsPut
<1>8. m.from \in Squares /\ m.to \in Squares
  BY <1>1 DEF Goes
<1> QED
  BY <1>0, <1>1, <1>2, <1>4, <1>6, <1>7, <1>8 DEF HasCastled

LEMMA AfterOther ==
  ASSUME NEW v \in Contents, NEW fl, NEW us, NEW p, NEW m, NEW w, NEW q,
         AreFlags(fl), us = fl.side, Fits(v, fl, p, m), ~Castles(p, m),
         w = After(v, us, p, m), q = IF m.promo # 0 THEN m.promo ELSE p
  PROVE  /\ w \in Contents /\ w[m.from] = empty /\ w[m.to] = Value(us, q)
         /\ m.promo # 0 => p = pawn /\ m.promo \in Kinds \ {pawn, king}
         /\ m.promo # 0 \/ ~TakesInPassing(v, us, p, m) =>
              \A s \in Squares \ {m.from, m.to} : w[s] = v[s]
         /\ m.promo = 0 /\ TakesInPassing(v, us, p, m) =>
              /\ Behind(us, m) \in Squares \ {m.from, m.to}
              /\ v[Behind(us, m)] = Value(Flip(us), pawn) /\ w[Behind(us, m)] = empty
              /\ v[m.to] = empty /\ p = pawn
              /\ \A s \in Squares \ {m.from, m.to, Behind(us, m)} : w[s] = v[s]
<1>1. /\ us \in Colors /\ p \in Kinds /\ Goes(v, us, p, m) /\ Flip(us) \in Colors
      /\ pawn \in Kinds /\ empty \in Codes /\ Flip(us) # us
  BY KindsApart, AtIsWord DEF Fits, AreFlags, Flip, Colors, white, black
<1>2. /\ m.from \in Squares /\ m.to \in Squares /\ m.from # m.to /\ v[m.from] = Value(us, p)
  BY <1>1 DEF Goes
<1>3. PICK r, y : r = Arrived(v, m) /\ y = Put(v, m.to, empty)
  OBVIOUS
<1>4. /\ r \in Contents /\ r[m.to] = Value(us, p) /\ r[m.from] = empty
      /\ \A s \in Squares \ {m.from, m.to} : r[s] = v[s]
  BY <1>1, <1>3, ArrivedAt
<1>5. CASE m.promo # 0
  <2>1. p = pawn /\ m.promo \in Kinds \ {pawn, king} /\ m.promo \in Kinds
    BY <1>5 DEF Fits
  <2>2. w = Put(r, m.to, Value(us, m.promo)) /\ Value(us, m.promo) \in Codes
    BY <1>1, <1>3, <1>5, <2>1, AtIsWord DEF After
  <2>3. /\ w \in Contents /\ w[m.to] = Value(us, m.promo)
        /\ \A s \in Squares \ {m.to} : w[s] = r[s]
    BY <1>2, <1>4, <2>2, PutAt
  <2> QED
    BY <1>2, <1>4, <1>5, <2>1, <2>3
<1>6. CASE m.promo = 0 /\ TakesInPassing(v, us, p, m)
  <2>1. PICK square : square = Behind(us, m)
    OBVIOUS
  <2>2. square \in Squares /\ v[square] = Value(Flip(us), pawn) /\ v[m.to] = empty /\ p = pawn
    BY <1>6, <2>1 DEF Fits, TakesInPassing
  <2>3. square # m.from /\ square # m.to
    <3>1. Value(Flip(us), pawn) # Value(us, p) /\ Value(Flip(us), pawn) # empty
      BY <1>1, Codings
    <3> QED
      BY <1>2, <2>2, <3>1
  <2>4. w = Put(r, square, empty)
    BY <1>3, <1>6, <2>1 DEF After
  <2>5. /\ w \in Contents /\ w[square] = empty
        /\ \A s \in Squares \ {square} : w[s] = r[s]
    BY <1>1, <1>4, <2>2, <2>4, PutAt
  <2> QED
    BY <1>2, <1>4, <1>6, <2>1, <2>2, <2>3, <2>5
<1>7. CASE m.promo = 0 /\ ~TakesInPassing(v, us, p, m)
  <2>1. w = r
    BY <1>3, <1>7 DEF After
  <2> QED
    BY <1>4, <1>7, <2>1
<1> QED
  BY <1>5, <1>6, <1>7
-----------------------------------------------------------------------------
(***************************************************************************)
(* undoMove takes back what makeMove did.                                  *)
(***************************************************************************)
\* The mover is back, and what it took.
Freed(b, us, taken, m) ==
  LET piece == Magnitude(b.values[m.to])
      back == Placed(Lifted(b, us, piece, m.to), us, piece, m.from)
  IN IF taken = empty THEN back
     ELSE Counted(Placed(back, Flip(us), taken, m.to), Flip(us), taken, 1)

LEMMA FreedStands ==
  ASSUME NEW x \in Contents, NEW us \in Colors, NEW p \in Kinds, NEW m, NEW y,
         NEW k, NEW pk, NEW fl, NEW ff, NEW cs, NEW u,
         m.from \in Squares, m.to \in Squares, m.from # m.to,
         x[m.to] = Value(us, p), x[m.from] = empty,
         y = empty \/ \E q \in Kinds : y = Value(Flip(us), q)
  PROVE  \E z \in Contents :
           /\ z[m.from] = Value(us, p) /\ z[m.to] = y
           /\ \A s \in Squares \ {m.from, m.to} : z[s] = x[s]
           /\ Freed(Standing(x, Census(x), k, pk, fl, ff, cs, u), us, Magnitude(y), m)
                = Standing(z, Census(z), k, pk, fl, ff, cs, u)
<1>1. PICK from, to, them : from = m.from /\ to = m.to /\ them = Flip(us)
  OBVIOUS
<1>2. them \in Colors
  BY <1>1 DEF Flip, Colors, white, black
<1>3. PICK x1, x2, b :
        /\ x1 = Put(x, to, empty) /\ x2 = Put(x1, from, Value(us, p))
        /\ b = Standing(x, Census(x), k, pk, fl, ff, cs, u)
  OBVIOUS
<1>4. /\ x1 \in Contents /\ x2 \in Contents /\ Census(x2) = Census(x)
      /\ x2[from] = Value(us, p) /\ x2[to] = empty
      /\ \A s \in Squares \ {to, from} : x2[s] = x[s]
  BY <1>1, <1>3, Relocated
<1>5. Placed(Lifted(b, us, p, to), us, p, from)
        = Standing(x2, Census(x), k, pk, fl, ff, cs, u)
  BY <1>1, <1>3, RelocatedStands
<1>6. Magnitude(b.values[m.to]) = p
  BY <1>3, Codings DEF Standing
<1>7. CASE y = empty
  <2>1. Magnitude(y) = empty
    BY <1>7 DEF Magnitude, empty
  <2>2. Freed(b, us, Magnitude(y), m) = Placed(Lifted(b, us, p, to), us, p, from)
    BY <1>1, <1>6, <2>1 DEF Freed
  <2> QED
    BY <1>1, <1>3, <1>4, <1>5, <1>7, <2>2
<1>8. CASE y # empty
  <2>1. PICK q \in Kinds : y = Value(them, q)
    BY <1>1, <1>8
  <2>2. Magnitude(y) = q /\ q # empty
    BY <1>2, <2>1, Codings DEF Kinds, empty
  <2>3. PICK x3 : x3 = Put(x2, to, Value(them, q))
    OBVIOUS
  <2>4. Placed(Standing(x2, Census(x), k, pk, fl, ff, cs, u), them, q, to)
          = Standing(x3, Census(x), k, pk, fl, ff, cs, u)
    BY <1>1, <1>2, <1>4, <2>3, PlacedStands
  <2>5. Census(x3) = Put(Census(x), them, More(Census(x)[them], q, 1))
    BY <1>1, <1>2, <1>4, <2>3, CensusPlaced
  <2>6. Counted(Standing(x3, Census(x), k, pk, fl, ff, cs, u), them, q, 1)
          = Standing(x3, Census(x3), k, pk, fl, ff, cs, u)
    BY <2>5, CountedStands
  <2>7. /\ x3 \in Contents /\ x3[to] = y /\ \A s \in Squares \ {to} : x3[s] = x2[s]
    <3>1. /\ to \in Squares /\ x2 \in Contents /\ them \in Colors
          /\ x3 = Put(x2, to, Value(them, q))
      BY <1>1, <1>2, <1>4, <2>3
    <3>2. y \in Codes /\ x3 = Put(x2, to, y)
      BY <2>1, <3>1, AtIsWord
    <3> QED
      BY <3>1, <3>2, PutAt
  <2>8. Freed(b, us, Magnitude(y), m)
          = Counted(Placed(Placed(Lifted(b, us, p, to), us, p, from), them, q, to), them, q, 1)
    BY <1>1, <1>6, <2>2 DEF Freed
  <2>9. Freed(b, us, Magnitude(y), m) = Standing(x3, Census(x3), k, pk, fl, ff, cs, u)
    BY <1>5, <2>4, <2>6, <2>8
  <2> QED
    BY <1>1, <1>3, <1>4, <2>7, <2>9
<1> QED
  BY <1>7, <1>8
\* The rest of the move taken back.
Returned(freed, us, m) ==
  IF IsCastleMove(freed, m)
  THEN Uncastling(Placed(Lifted(freed, us, rook, RookTo(us, m)), us, rook, RookFrom(us, m)),
                  {<<us, CastledSide(m)>>})
  ELSE IF m.promo # 0 THEN Exchanged(freed, us, m.promo, pawn, m.from)
  ELSE IF IsEnPassantMove(freed, m)
  THEN Counted(Placed(freed, Flip(us), pawn, Behind(us, m)), Flip(us), pawn, 1)
  ELSE freed

LEMMA PutBackParts ==
  ASSUME NEW b, NEW us, NEW taken, NEW m
  PROVE  PutBack(b, us, taken, m) = Returned(Freed(b, us, taken, m), us, m)
BY Zenon DEF PutBack, Freed, Returned, Uncastling, Behind

LEMMA PutBackStands ==
  ASSUME NEW v \in Contents, NEW fl, NEW ff, NEW cs, NEW u, NEW us, NEW p, NEW m,
         NEW ds, NEW w, NEW k, NEW pk,
         AreFlags(fl), us = fl.side, Fits(v, fl, p, m), fl.rights \cap cs = {},
         ds = CastledBy(us, p, m, cs), w = After(v, us, p, m)
  PROVE  PutBack(Standing(w, Census(w), k, pk, fl, ff, ds, u), us, Magnitude(v[m.to]), m)
           = Standing(v, Census(v), k, pk, fl, ff, cs, u)
<1>1. PICK b, q, y :
        /\ b = Standing(w, Census(w), k, pk, fl, ff, ds, u)
        /\ q = IF m.promo # 0 THEN m.promo ELSE p
        /\ y = v[m.to]
  OBVIOUS
<1>2. /\ us \in Colors /\ p \in Kinds /\ q \in Kinds /\ Flip(us) \in Colors
      /\ m.from \in Squares /\ m.to \in Squares /\ m.from # m.to
      /\ v[m.from] = Value(us, p)
      /\ y = empty \/ \E t \in Kinds : y = Value(Flip(us), t)
  BY <1>1 DEF Fits, Goes, AreFlags, Flip, Colors, white, black
<1>3. w \in Contents /\ w[m.from] = empty /\ w[m.to] = Value(us, q)
  <2>1. CASE Castles(p, m)
    <3>1. HasCastled(v, fl, us, p, m, w)
      BY <2>1, AfterCastle
    <3> QED
      BY <1>1, <3>1 DEF HasCastled
  <2>2. CASE ~Castles(p, m)
    BY <1>1, <2>2, AfterOther
  <2> QED
    BY <2>1, <2>2
<1>4. PICK z \in Contents :
        /\ z[m.from] = Value(us, q) /\ z[m.to] = y
        /\ \A s \in Squares \ {m.from, m.to} : z[s] = w[s]
        /\ Freed(b, us, Magnitude(y), m) = Standing(z, Census(z), k, pk, fl, ff, ds, u)
  BY <1>1, <1>2, <1>3, FreedStands
<1>5. PICK freed : freed = Standing(z, Census(z), k, pk, fl, ff, ds, u)
  OBVIOUS
<1>6. PutBack(b, us, Magnitude(y), m) = Returned(freed, us, m)
  BY <1>4, <1>5, PutBackParts
<1>7. /\ IsCastleMove(freed, m) <=> Castles(p, m)
      /\ m.promo = 0 => (IsEnPassantMove(freed, m) <=> TakesInPassing(v, us, p, m))
  <2>1. freed.values = z /\ freed.flags = fl
    BY <1>5 DEF Standing
  <2>2. m.promo # 0 => p = pawn /\ q # king
    BY <1>1 DEF Fits
  <2>3. Magnitude(z[m.from]) = q
    BY <1>2, <1>4, Codings
  <2>4. IsCastleMove(freed, m) <=> Castles(p, m)
    BY <1>1, <2>1, <2>2, <2>3, KindsApart DEF IsCastleMove, Castles
  <2>5. m.promo = 0 => (IsEnPassantMove(freed, m) <=> TakesInPassing(v, us, p, m))
    BY <1>1, <1>4, <2>1, <2>3 DEF IsEnPassantMove, TakesInPassing
  <2> QED
    BY <2>4, <2>5
<1>8. CASE Castles(p, m)
  <2>1. PICK here, there, right :
          here = RookFrom(us, m) /\ there = RookTo(us, m) /\ right = {<<us, CastledSide(m)>>}
    OBVIOUS
  <2>2. /\ m.promo = 0 /\ p = king
        /\ here \in Squares \ {m.from, m.to} /\ there \in Squares \ {m.from, m.to, here}
        /\ v[here] = Value(us, rook) /\ v[there] = empty
        /\ <<us, CastledSide(m)>> \in fl.rights
        /\ w[here] = empty /\ w[there] = Value(us, rook)
        /\ \A s \in Squares \ {m.from, m.to, here, there} : w[s] = v[s]
    <3>1. HasCastled(v, fl, us, p, m, w)
      BY <1>8, AfterCastle
    <3> QED
      BY <2>1, <3>1 DEF HasCastled
  <2>3. z[here] = empty /\ z[there] = Value(us, rook)
    BY <1>4, <2>2
  <2>4. PICK x, x1 : x1 = Put(z, there, empty) /\ x = Put(x1, here, Value(us, rook))
    OBVIOUS
  <2>5. /\ x \in Contents /\ Census(x) = Census(z)
        /\ x[here] = Value(us, rook) /\ x[there] = empty
        /\ \A s \in Squares \ {there, here} : x[s] = z[s]
    <3>1. here \in Squares /\ there \in Squares /\ there # here /\ rook \in Kinds
      BY <2>2, KindsApart
    <3> QED
      BY <1>2, <1>4, <2>3, <2>4, <3>1, Relocated
  <2>6. x = v
    <3>1. \A s \in Squares : x[s] = v[s]
      BY <1>1, <1>2, <1>4, <2>2, <2>5
    <3> QED
      BY <2>5, <3>1, ContentsEqual
  <2>7. Placed(Lifted(freed, us, rook, there), us, rook, here)
          = Standing(x, Census(z), k, pk, fl, ff, ds, u)
    <3>1. here \in Squares /\ there \in Squares /\ there # here /\ rook \in Kinds
      BY <2>2, KindsApart
    <3> QED
      BY <1>2, <1>4, <1>5, <2>3, <2>4, <3>1, RelocatedStands
  <2>8. cs = ds \ right
    <3>1. <<us, CastledSide(m)>> \notin cs
      BY <2>2
    <3>2. ds = cs \union right
      BY <1>8, <2>1 DEF CastledBy
    <3> QED
      BY <2>1, <3>1, <3>2
  <2>9. Uncastling(Standing(x, Census(z), k, pk, fl, ff, ds, u), right)
          = Standing(x, Census(z), k, pk, fl, ff, cs, u)
    BY <2>8 DEF Uncastling, Standing
  <2>10. PutBack(b, us, Magnitude(y), m)
           = Uncastling(Placed(Lifted(freed, us, rook, there), us, rook, here), right)
    BY <1>6, <1>7, <1>8, <2>1 DEF Returned
  <2> QED
    BY <1>1, <2>5, <2>6, <2>7, <2>9, <2>10
<1>9. CASE ~Castles(p, m)
  <2>1. ds = cs
    BY <1>9 DEF CastledBy
  <2>2. /\ m.promo # 0 => p = pawn /\ m.promo \in Kinds \ {pawn, king}
        /\ m.promo # 0 \/ ~TakesInPassing(v, us, p, m) =>
             \A s \in Squares \ {m.from, m.to} : w[s] = v[s]
        /\ m.promo = 0 /\ TakesInPassing(v, us, p, m) =>
             /\ Behind(us, m) \in Squares \ {m.from, m.to}
             /\ v[Behind(us, m)] = Value(Flip(us), pawn) /\ w[Behind(us, m)] = empty
             /\ v[m.to] = empty /\ p = pawn
             /\ \A s \in Squares \ {m.from, m.to, Behind(us, m)} : w[s] = v[s]
    BY <1>9, AfterOther
  <2>3. CASE m.promo # 0
    <3>1. PICK from, x : from = m.from /\ x = Put(z, from, Value(us, pawn))
      OBVIOUS
    <3>2. /\ q \in Kinds /\ q # pawn /\ pawn \in Kinds /\ z[from] = Value(us, q)
          /\ from \in Squares /\ p = pawn
      BY <1>1, <1>2, <1>4, <2>2, <2>3, <3>1, KindsApart
    <3>3. Exchanged(freed, us, q, pawn, from) = Standing(x, Census(x), k, pk, fl, ff, ds, u)
      BY <1>2, <1>4, <1>5, <3>1, <3>2, ExchangedStands
    <3>4. /\ x \in Contents /\ x[from] = Value(us, pawn)
          /\ \A s \in Squares \ {from} : x[s] = z[s]
      <4>1. z \in Contents /\ us \in Colors /\ pawn \in Kinds /\ from \in Squares
        BY <1>2, <1>4, <3>2
      <4> QED
        BY <3>1, <4>1, PieceIsPut
    <3>5. x = v
      <4>1. \A s \in Squares : x[s] = v[s]
        BY <1>1, <1>2, <1>4, <2>2, <2>3, <3>1, <3>2, <3>4
      <4> QED
        BY <3>4, <4>1, ContentsEqual
    <3>6. PutBack(b, us, Magnitude(y), m) = Exchanged(freed, us, q, pawn, from)
      BY <1>1, <1>6, <1>7, <1>9, <2>3, <3>1 DEF Returned
    <3> QED
      BY <1>1, <2>1, <3>3, <3>5, <3>6
  <2>4. CASE m.promo = 0 /\ TakesInPassing(v, us, p, m)
    <3>1. PICK them, square, x :
            /\ them = Flip(us) /\ square = Behind(us, m)
            /\ x = Put(z, square, Value(them, pawn))
      OBVIOUS
    <3>2. /\ square \in Squares /\ square # m.from /\ square # m.to /\ pawn \in Kinds
          /\ v[square] = Value(them, pawn) /\ z[square] = empty /\ them \in Colors
      BY <1>2, <1>4, <2>2, <2>4, <3>1, KindsApart
    <3>3. Placed(freed, them, pawn, square) = Standing(x, Census(z), k, pk, fl, ff, ds, u)
      BY <1>4, <1>5, <3>1, <3>2, PlacedStands
    <3>4. Census(x) = Put(Census(z), them, More(Census(z)[them], pawn, 1))
      BY <1>4, <3>1, <3>2, CensusPlaced
    <3>5. Counted(Standing(x, Census(z), k, pk, fl, ff, ds, u), them, pawn, 1)
            = Standing(x, Census(x), k, pk, fl, ff, ds, u)
      BY <3>4, CountedStands
    <3>6. /\ x \in Contents /\ x[square] = Value(them, pawn)
          /\ \A s \in Squares \ {square} : x[s] = z[s]
      BY <1>4, <3>1, <3>2, PieceIsPut
    <3>7. x = v
      <4>1. q = p
        BY <1>1, <2>4
      <4>2. \A s \in Squares \ {m.from, m.to, square} : z[s] = v[s]
        BY <1>4, <2>2, <2>4, <3>1
      <4>3. \A s \in Squares : x[s] = v[s]
        BY <1>1, <1>2, <1>4, <3>2, <3>6, <4>1, <4>2
      <4> QED
        BY <3>6, <4>3, ContentsEqual
    <3>8. PutBack(b, us, Magnitude(y), m)
            = Counted(Placed(freed, them, pawn, square), them, pawn, 1)
      BY <1>6, <1>7, <1>9, <2>4, <3>1 DEF Returned
    <3> QED
      BY <1>1, <2>1, <3>3, <3>5, <3>7, <3>8
  <2>5. CASE m.promo = 0 /\ ~TakesInPassing(v, us, p, m)
    <3>1. z = v
      <4>1. \A s \in Squares : z[s] = v[s]
        BY <1>1, <1>2, <1>4, <2>2, <2>5
      <4> QED
        BY <1>4, <4>1, ContentsEqual
    <3>2. PutBack(b, us, Magnitude(y), m) = freed
      BY <1>6, <1>7, <1>9, <2>5 DEF Returned
    <3> QED
      BY <1>1, <1>5, <2>1, <3>1, <3>2
  <2> QED
    BY <2>3, <2>4, <2>5
<1> QED
  BY <1>8, <1>9
IsSeq(u) == \E S : u \in Seq(S)

LEMMA Appended ==
  ASSUME NEW u, NEW x, IsSeq(u)
  PROVE  /\ IsSeq(Append(u, x)) /\ Len(u) \in Nat
         /\ Len(Append(u, x)) = Len(u) + 1
         /\ Append(u, x)[Len(u) + 1] = x
         /\ \A i \in 1 .. Len(u) : Append(u, x)[i] = u[i]
         /\ SubSeq(Append(u, x), 1, Len(u)) = u
<1>1. PICK S : u \in Seq(S)
  BY DEF IsSeq
<1>2. PICK T : T = S \union {x}
  OBVIOUS
<1>3. u \in Seq(T) /\ x \in T /\ Len(u) \in Nat
  BY <1>1, <1>2
<1>4. PICK more : more = Append(u, x)
  OBVIOUS
<1>5. /\ more \in Seq(T) /\ Len(more) = Len(u) + 1 /\ more[Len(u) + 1] = x
      /\ \A i \in 1 .. Len(u) : more[i] = u[i]
  BY <1>3, <1>4, AppendProperties
<1>6. PICK less : less = SubSeq(more, 1, Len(u))
  OBVIOUS
<1>7. less \in Seq(T) /\ Len(less) = Len(u) /\ \A i \in 1 .. Len(u) : less[i] = more[i]
  BY <1>3, <1>5, <1>6
<1>8. less = u
  BY <1>3, <1>5, <1>7
<1> QED
  BY <1>3, <1>4, <1>5, <1>6, <1>8 DEF IsSeq

Restoring(b, info, u) ==
  [b EXCEPT !.flags = info.flags, !.fifty = info.fifty,
            !.key = info.key, !.pawnKey = info.pawnKey, !.undoInfo = u]

LEMMA RestoringStands ==
  ASSUME NEW v, NEW n, NEW k, NEW pk, NEW fl, NEW ff, NEW cs, NEW u, NEW info, NEW less
  PROVE  Restoring(Standing(v, n, k, pk, fl, ff, cs, u), info, less)
           = Standing(v, n, info.key, info.pawnKey, info.flags, info.fifty, cs, less)
<1>1. PICK fl2, ff2, k2, pk2 :
        fl2 = info.flags /\ ff2 = info.fifty /\ k2 = info.key /\ pk2 = info.pawnKey
  OBVIOUS
<1> DEFINE b0 == Standing(v, n, k, pk, fl, ff, cs, u)
           b1 == Standing(v, n, k, pk, fl2, ff, cs, u)
           b2 == Standing(v, n, k, pk, fl2, ff2, cs, u)
           b3 == Standing(v, n, k2, pk, fl2, ff2, cs, u)
           b4 == Standing(v, n, k2, pk2, fl2, ff2, cs, u)
           b5 == Standing(v, n, k2, pk2, fl2, ff2, cs, less)
<1>2. [b0 EXCEPT !.flags = fl2] = b1 /\ [b1 EXCEPT !.fifty = ff2] = b2
  BY DEF Standing
<1>3. [b2 EXCEPT !.key = k2] = b3 /\ [b3 EXCEPT !.pawnKey = pk2] = b4
  BY DEF Standing
<1>4. [b4 EXCEPT !.undoInfo = less] = b5
  BY DEF Standing
<1> HIDE DEF b0, b1, b2, b3, b4, b5
<1>5. Restoring(b0, info, less)
        = [[[[[b0 EXCEPT !.flags = fl2] EXCEPT !.fifty = ff2] EXCEPT !.key = k2]
             EXCEPT !.pawnKey = pk2] EXCEPT !.undoInfo = less]
  BY <1>1 DEF Restoring
<1>6. Restoring(b0, info, less) = b5
  BY <1>2, <1>3, <1>4, <1>5
<1> QED
  BY <1>1, <1>6 DEF b0, b5

LEMMA UndoneParts ==
  ASSUME NEW b, NEW n, NEW info, NEW less, NEW restored,
         n = b.flags.halfMoveCount, info = b.undoInfo[n],
         less = SubSeq(b.undoInfo, 1, n - 1), restored = Restoring(b, info, less)
  PROVE  Undone(b) = IF info.move = Empty THEN restored
                     ELSE PutBack(restored, restored.flags.side, b.flags.capture, info.move)
<1>1. Undone(b) =
        IF b.undoInfo[b.flags.halfMoveCount].move = Empty
        THEN Restoring(b, b.undoInfo[b.flags.halfMoveCount],
                       SubSeq(b.undoInfo, 1, b.flags.halfMoveCount - 1))
        ELSE PutBack(Restoring(b, b.undoInfo[b.flags.halfMoveCount],
                               SubSeq(b.undoInfo, 1, b.flags.halfMoveCount - 1)),
                     Restoring(b, b.undoInfo[b.flags.halfMoveCount],
                               SubSeq(b.undoInfo, 1, b.flags.halfMoveCount - 1)).flags.side,
                     b.flags.capture, b.undoInfo[b.flags.halfMoveCount].move)
  BY Zenon DEF Undone, TakenPiece, Restoring
<1> QED
  BY <1>1

\* What the undo record and the flags make of a board.
LEMMA UndoneStands ==
  ASSUME NEW w, NEW gl, NEW gf, NEW ds, NEW u, NEW v, NEW fl, NEW ff, NEW m,
         IsSeq(u), gl.halfMoveCount = Len(u) + 1
  PROVE  \E b, restored :
           /\ b = State(w, gl, gf, ds, Append(u, Entry(v, fl, ff, m)))
           /\ restored = Standing(w, Census(w), KeyIn(v, fl), PawnKeyIn(v, fl), fl, ff, ds, u)
           /\ m = Empty => Undone(b) = restored
           /\ m # Empty => Undone(b) = PutBack(restored, fl.side, gl.capture, m)
<1>1. PICK info, more, b, restored, n :
        /\ info = Entry(v, fl, ff, m) /\ more = Append(u, info)
        /\ b = State(w, gl, gf, ds, more) /\ n = Len(u) + 1
        /\ restored = Standing(w, Census(w), KeyIn(v, fl), PawnKeyIn(v, fl), fl, ff, ds, u)
  OBVIOUS
<1>2. /\ info.key = KeyIn(v, fl) /\ info.pawnKey = PawnKeyIn(v, fl) /\ info.flags = fl
      /\ info.fifty = ff /\ info.move = m
  BY <1>1 DEF Entry
<1>3. more[n] = info /\ SubSeq(more, 1, n - 1) = u
  <2>1. n - 1 = Len(u)
    BY <1>1, Appended
  <2> QED
    BY <1>1, <2>1, Appended
<1>4. /\ b.flags.halfMoveCount = n /\ b.undoInfo = more /\ b.flags.capture = gl.capture
  BY <1>1 DEF State, Standing
<1>5. Restoring(b, info, u) = restored
  BY <1>1, <1>2, RestoringStands DEF State
<1>6. restored.flags.side = fl.side
  BY <1>1 DEF Standing
<1>7. Undone(b) = IF info.move = Empty THEN restored
                  ELSE PutBack(restored, restored.flags.side, b.flags.capture, info.move)
  BY <1>3, <1>4, <1>5, UndoneParts, ZenonT(40)
<1> QED
  BY <1>1, <1>2, <1>4, <1>6, <1>7

LEMMA UndoneNull ==
  ASSUME NEW v, NEW fl, NEW ff, NEW cs, NEW u, AreFlags(fl), IsSeq(u),
         fl.halfMoveCount = Len(u)
  PROVE  Undone(Applied(State(v, fl, ff, cs, u), Empty)) = State(v, fl, ff, cs, u)
<1>1. PICK m, us : m = Empty /\ us = fl.side
  OBVIOUS
<1>2. PICK gl, gf :
        /\ gl.halfMoveCount = fl.halfMoveCount + 1
        /\ Applied(State(v, fl, ff, cs, u), m)
             = State(v, gl, gf, cs, Append(u, Entry(v, fl, ff, m)))
  <2>1. PassesTo(v, fl, ff, cs, u, Applied(State(v, fl, ff, cs, u), Empty))
    BY AppliedNull
  <2> QED
    BY <1>1, <2>1 DEF PassesTo
<1>3. PICK b, restored :
        /\ b = State(v, gl, gf, cs, Append(u, Entry(v, fl, ff, m)))
        /\ restored = Standing(v, Census(v), KeyIn(v, fl), PawnKeyIn(v, fl), fl, ff, cs, u)
        /\ m = Empty => Undone(b) = restored
  BY <1>2, UndoneStands
<1> QED
  BY <1>1, <1>2, <1>3 DEF State

LEMMA UndoneMove ==
  ASSUME NEW v \in Contents, NEW fl, NEW ff, NEW cs, NEW u, NEW p, NEW m,
         AreFlags(fl), IsSeq(u), fl.halfMoveCount = Len(u), fl.rights \cap cs = {},
         m # Empty, Fits(v, fl, p, m)
  PROVE  Undone(Applied(State(v, fl, ff, cs, u), m)) = State(v, fl, ff, cs, u)
<1>1. PICK w, us : w = After(v, us, p, m) /\ us = fl.side
  OBVIOUS
<1>2. MakesOf(v, fl, ff, cs, u, us, p, m, Applied(State(v, fl, ff, cs, u), m))
  BY <1>1, AppliedMove
<1>3. PICK gl, gf, ds :
        /\ gl.halfMoveCount = fl.halfMoveCount + 1 /\ gl.capture = Magnitude(v[m.to])
        /\ ds = CastledBy(us, p, m, cs)
        /\ Applied(State(v, fl, ff, cs, u), m)
             = State(w, gl, gf, ds, Append(u, Entry(v, fl, ff, m)))
  BY <1>1, <1>2 DEF MakesOf
<1>4. PICK b, restored :
        /\ b = State(w, gl, gf, ds, Append(u, Entry(v, fl, ff, m)))
        /\ restored = Standing(w, Census(w), KeyIn(v, fl), PawnKeyIn(v, fl), fl, ff, ds, u)
        /\ m # Empty => Undone(b) = PutBack(restored, fl.side, gl.capture, m)
  BY <1>3, UndoneStands
<1>5. PutBack(restored, us, Magnitude(v[m.to]), m)
        = Standing(v, Census(v), KeyIn(v, fl), PawnKeyIn(v, fl), fl, ff, cs, u)
  BY <1>1, <1>3, <1>4, PutBackStands
<1> QED
  BY <1>1, <1>3, <1>4, <1>5 DEF State
-----------------------------------------------------------------------------
(***************************************************************************)
(* What holds of every board beside its sets and keys.                     *)
(***************************************************************************)
\* Who may still castle has king and rook at home.
Homed(v, fl) ==
  \A r \in fl.rights :
    /\ v[FirstRow(r[1]) + 4] = Value(r[1], king)
    /\ v[FirstRow(r[1]) + IF r[2] = "king" THEN 7 ELSE 0] = Value(r[1], rook)

\* A pawn that can be taken in passing stands before an empty square.
EpReady(v, fl) ==
  fl.ep # 0 =>
    /\ v[fl.ep] = Value(Flip(fl.side), pawn)
    /\ Row(fl.ep) = IF fl.side = white THEN 4 ELSE 3
    /\ fl.ep + 8 * Forward(fl.side) \in Squares
    /\ v[fl.ep + 8 * Forward(fl.side)] = empty

\* No pawn stands on the first or the last row.
Inside(v) == \A s \in Squares : Magnitude(v[s]) = pawn => Row(s) \notin {0, 7}

\* Each colour has one king.
KingAt(v, c, k) == k \in Squares /\ \A s \in Squares : v[s] = Value(c, king) <=> s = k
Crowned(v) == \A c \in Colors : \E k : KingAt(v, c, k)

Wholly(v, fl, ff, cs, u) ==
  /\ v \in Contents /\ AreFlags(fl) /\ Homed(v, fl) /\ EpReady(v, fl) /\ Inside(v)
  /\ Crowned(v)
  /\ fl.rights \cap cs = {} /\ IsSeq(u) /\ Len(u) = fl.halfMoveCount
  /\ ff \in Nat /\ Remembers(v, fl, ff, u)

Whole(b) == \E v, fl, ff, cs, u : b = State(v, fl, ff, cs, u) /\ Wholly(v, fl, ff, cs, u)

LEMMA HomesHeld ==
  ASSUME NEW v, NEW fl, NEW r, NEW s, AreFlags(fl), Homed(v, fl), r \in fl.rights,
         s \in Homes(r[1], r[2])
  PROVE  /\ s \in Squares /\ r[1] \in Colors
         /\ v[s] = Value(r[1], king) \/ v[s] = Value(r[1], rook)
<1>1. r[1] \in Colors
  BY DEF AreFlags, Rights
<1>2. s = FirstRow(r[1]) + 4 \/ s = FirstRow(r[1]) + IF r[2] = "king" THEN 7 ELSE 0
  BY DEF Homes
<1>3. s \in Squares
  BY <1>1, <1>2 DEF FirstRow, Squares, Colors, white, black
<1>4. v[s] = Value(r[1], king) \/ v[s] = Value(r[1], rook)
  BY <1>2 DEF Homed
<1> QED
  BY <1>1, <1>3, <1>4

\* A right that is left has its king and rook where they were.
LEMMA HomesKept ==
  ASSUME NEW v \in Contents, NEW fl, NEW us, NEW p, NEW m, NEW w, NEW r, NEW s,
         AreFlags(fl), us = fl.side, Fits(v, fl, p, m), w = After(v, us, p, m),
         Homed(v, fl), r \in fl.rights, r \notin Lost(fl, p, m), s \in Homes(r[1], r[2])
  PROVE  w[s] = v[s]
<1>1. PICK c, x : c = r[1] /\ x = v[s]
  OBVIOUS
<1>2. s \in Squares /\ c \in Colors /\ (x = Value(c, king) \/ x = Value(c, rook))
  BY <1>1, HomesHeld
<1>3. /\ us \in Colors /\ p \in Kinds /\ Flip(us) \in Colors /\ Flip(us) # us
      /\ c = us \/ c = Flip(us)
      /\ m.from \in Squares /\ m.to \in Squares /\ v[m.from] = Value(us, p)
      /\ v[m.to] = empty \/ \E q \in Kinds : v[m.to] = Value(Flip(us), q)
  BY <1>2 DEF Fits, Goes, AreFlags, Flip, Colors, white, black
<1>4. /\ x # empty
      /\ \A d \in Colors, q \in Kinds : x = Value(d, q) => d = c /\ q # pawn
  BY <1>2, Codings, KindsApart
<1>5. c = us => s # m.to /\ ~Castles(p, m) /\ s # m.from
  <2>1. ASSUME c = us
        PROVE  s # m.to
    BY <1>1, <1>3, <1>4, <2>1
  <2>2. ASSUME c = us
        PROVE  ~Castles(p, m)
    <3>1. r \in {us} \X Sides
      BY <1>1, <2>2 DEF AreFlags, Rights
    <3> QED
      BY <3>1 DEF Lost
  <2>3. ASSUME c = us
        PROVE  s # m.from
    BY <1>1, <2>2, <2>3 DEF Lost
  <2> QED
    BY <2>1, <2>2, <2>3
<1>6. c # us => s # m.from /\ (~Castles(p, m) => s # m.to)
  <2>1. ASSUME c # us
        PROVE  s # m.from
    BY <1>1, <1>3, <1>4, <2>1
  <2>2. ASSUME c # us, ~Castles(p, m)
        PROVE  s # m.to
    BY <1>1, <2>2 DEF Lost
  <2> QED
    BY <2>1, <2>2
<1>7. CASE Castles(p, m)
  <2>1. HasCastled(v, fl, us, p, m, w)
    BY <1>7, AfterCastle
  <2>2. PICK here, there : here = RookFrom(us, m) /\ there = RookTo(us, m)
    OBVIOUS
  <2>3. /\ v[here] = Value(us, rook) /\ v[there] = empty /\ v[m.to] = empty
        /\ \A t \in Squares \ {m.from, m.to, here, there} : w[t] = v[t]
    BY <2>1, <2>2 DEF HasCastled
  <2>4. s # here /\ s # there /\ s # m.to /\ s # m.from
    BY <1>1, <1>3, <1>4, <1>5, <1>6, <1>7, <2>3, KindsApart
  <2> QED
    BY <1>2, <2>3, <2>4
<1>8. CASE ~Castles(p, m)
  <2>1. s # m.from /\ s # m.to
    BY <1>5, <1>6, <1>8
  <2>2. CASE m.promo # 0 \/ ~TakesInPassing(v, us, p, m)
    <3>1. \A t \in Squares \ {m.from, m.to} : w[t] = v[t]
      BY <1>8, <2>2, AfterOther
    <3> QED
      BY <1>2, <2>1, <3>1
  <2>3. CASE m.promo = 0 /\ TakesInPassing(v, us, p, m)
    <3>1. PICK square : square = Behind(us, m)
      OBVIOUS
    <3>2. /\ v[square] = Value(Flip(us), pawn)
          /\ \A t \in Squares \ {m.from, m.to, square} : w[t] = v[t]
      BY <1>8, <2>3, <3>1, AfterOther
    <3>3. s # square
      BY <1>1, <1>3, <1>4, <3>2, KindsApart
    <3> QED
      BY <1>2, <2>1, <3>2, <3>3
  <2> QED
    BY <2>2, <2>3
<1> QED
  BY <1>7, <1>8

LEMMA HomedAfter ==
  ASSUME NEW v \in Contents, NEW fl, NEW us, NEW p, NEW m, NEW w, NEW gl,
         AreFlags(fl), us = fl.side, Fits(v, fl, p, m), w = After(v, us, p, m),
         Homed(v, fl), gl.rights = fl.rights \ Lost(fl, p, m)
  PROVE  Homed(w, gl)
<1> SUFFICES ASSUME NEW r \in gl.rights
             PROVE  /\ w[FirstRow(r[1]) + 4] = Value(r[1], king)
                    /\ w[FirstRow(r[1]) + IF r[2] = "king" THEN 7 ELSE 0] = Value(r[1], rook)
  BY DEF Homed
<1>1. PICK s, t : /\ s = FirstRow(r[1]) + 4
                  /\ t = FirstRow(r[1]) + IF r[2] = "king" THEN 7 ELSE 0
  OBVIOUS
<1>2. s \in Homes(r[1], r[2]) /\ t \in Homes(r[1], r[2])
  BY <1>1 DEF Homes
<1>3. r \in fl.rights /\ r \notin Lost(fl, p, m)
  OBVIOUS
<1>4. w[s] = v[s] /\ w[t] = v[t]
  BY <1>2, <1>3, HomesKept
<1>5. v[s] = Value(r[1], king) /\ v[t] = Value(r[1], rook)
  BY <1>1, <1>3 DEF Homed
<1> QED
  BY <1>1, <1>4, <1>5

LEMMA EpReadyAfter ==
  ASSUME NEW v \in Contents, NEW fl, NEW us, NEW p, NEW m, NEW w, NEW gl,
         AreFlags(fl), us = fl.side, Fits(v, fl, p, m), w = After(v, us, p, m),
         gl.ep = Ready(fl, p, m), gl.side = Flip(us)
  PROVE  EpReady(w, gl)
<1> SUFFICES ASSUME gl.ep # 0
             PROVE  /\ w[gl.ep] = Value(Flip(gl.side), pawn)
                    /\ Row(gl.ep) = IF gl.side = white THEN 4 ELSE 3
                    /\ gl.ep + 8 * Forward(gl.side) \in Squares
                    /\ w[gl.ep + 8 * Forward(gl.side)] = empty
  BY DEF EpReady
<1>1. Doubles(p, m) /\ gl.ep = m.to
  BY DEF Ready
<1>2. /\ m.promo = 0 /\ p = pawn
      /\ Behind(us, m) \in Squares \ {m.from, m.to} /\ v[Behind(us, m)] = empty
      /\ us \in Colors /\ m.from \in Squares /\ m.to \in Squares
  BY <1>1 DEF Fits, Goes, AreFlags, Doubles
<1>3. ~Castles(p, m) /\ ~TakesInPassing(v, us, p, m)
  <2>1. ~Castles(p, m)
    BY <1>2, KindsApart DEF Castles
  <2>2. ~TakesInPassing(v, us, p, m)
    <3>1. PICK from, to : from = m.from /\ to = m.to
      OBVIOUS
    <3>2. Magnitude(from - to) = 16 /\ from \in Squares /\ to \in Squares
      BY <1>1, <1>2, <3>1 DEF Doubles
    <3>3. (to - from) * Forward(us) \notin {7, 9}
      BY <1>2, <3>2 DEF Magnitude, Squares, Forward, Colors, white, black
    <3> QED
      BY <3>1, <3>3 DEF TakesInPassing
  <2> QED
    BY <2>1, <2>2
<1>4. w[m.to] = Value(us, pawn) /\ \A s \in Squares \ {m.from, m.to} : w[s] = v[s]
  <2>1. PICK q : q = IF m.promo # 0 THEN m.promo ELSE p
    OBVIOUS
  <2>2. w[m.to] = Value(us, q) /\ \A s \in Squares \ {m.from, m.to} : w[s] = v[s]
    BY <1>2, <1>3, <2>1, AfterOther
  <2> QED
    BY <1>2, <2>1, <2>2
<1>5. Flip(gl.side) = us /\ gl.ep + 8 * Forward(gl.side) = Behind(us, m)
  <2>1. Flip(Flip(us)) = us /\ Forward(Flip(us)) = -Forward(us) /\ Forward(us) \in Int
    BY <1>2 DEF Flip, Forward, Colors, white, black
  <2>2. PICK f, to : f = Forward(us) /\ to = m.to
    OBVIOUS
  <2>3. to + 8 * (-f) = to - 8 * f
    BY <1>2, <2>1, <2>2 DEF Squares
  <2> QED
    BY <1>1, <2>1, <2>2, <2>3 DEF Behind
<1>6. Row(gl.ep) = IF gl.side = white THEN 4 ELSE 3
  <2>1. Row(m.to) = IF us = white THEN 3 ELSE 4
    BY <1>1 DEF Fits
  <2> QED
    BY <1>1, <1>2, <2>1 DEF Flip, Colors, white, black
<1> QED
  BY <1>1, <1>2, <1>4, <1>5, <1>6

LEMMA InsideAfter ==
  ASSUME NEW v \in Contents, NEW fl, NEW us, NEW p, NEW m, NEW w,
         AreFlags(fl), us = fl.side, Fits(v, fl, p, m), w = After(v, us, p, m), Inside(v)
  PROVE  Inside(w)
<1> SUFFICES ASSUME NEW s \in Squares, Magnitude(w[s]) = pawn
             PROVE  Row(s) \notin {0, 7}
  BY DEF Inside
<1>1. /\ us \in Colors /\ p \in Kinds
      /\ m.promo # 0 => m.promo \in Kinds \ {pawn}
      /\ p = pawn /\ m.promo = 0 => Row(m.to) \notin {0, 7}
  BY DEF Fits, AreFlags
<1>2. Magnitude(empty) # pawn /\ \A q \in Kinds : Magnitude(Value(us, q)) = q
  <2>1. Magnitude(empty) # pawn
    BY DEF Magnitude, empty, pawn
  <2> QED
    BY <1>1, <2>1, Codings
<1>3. v[s] = w[s] => Row(s) \notin {0, 7}
  BY DEF Inside
<1>4. CASE Castles(p, m)
  <2>1. PICK here, there : here = RookFrom(us, m) /\ there = RookTo(us, m)
    OBVIOUS
  <2>2. HasCastled(v, fl, us, p, m, w)
    BY <1>4, AfterCastle
  <2>3. /\ w[m.from] = empty /\ w[m.to] = Value(us, king) /\ w[here] = empty
        /\ w[there] = Value(us, rook)
        /\ \A x \in Squares \ {m.from, m.to, here, there} : w[x] = v[x]
    BY <2>1, <2>2 DEF HasCastled
  <2> QED
    BY <1>2, <1>3, <2>3, KindsApart
<1>5. CASE ~Castles(p, m)
  <2>1. PICK q : q = IF m.promo # 0 THEN m.promo ELSE p
    OBVIOUS
  <2>2. /\ w[m.from] = empty /\ w[m.to] = Value(us, q)
        /\ \/ \A x \in Squares \ {m.from, m.to} : w[x] = v[x]
           \/ /\ w[Behind(us, m)] = empty
              /\ \A x \in Squares \ {m.from, m.to, Behind(us, m)} : w[x] = v[x]
    BY <1>5, <2>1, AfterOther
  <2>3. q \in Kinds /\ (q = pawn => m.promo = 0 /\ p = pawn)
    BY <1>1, <2>1
  <2>4. CASE s = m.to
    <3>1. q = pawn
      BY <1>2, <2>2, <2>3, <2>4
    <3> QED
      BY <1>1, <2>3, <2>4, <3>1
  <2>5. CASE s # m.to
    <3>1. w[s] = v[s]
      BY <1>2, <2>2, <2>5
    <3> QED
      BY <1>3, <3>1
  <2> QED
    BY <2>4, <2>5
<1> QED
  BY <1>4, <1>5

\* No move takes a king or makes a second one.
LEMMA CrownedAfter ==
  ASSUME NEW v \in Contents, NEW fl, NEW us, NEW p, NEW m, NEW w,
         AreFlags(fl), us = fl.side, Fits(v, fl, p, m), w = After(v, us, p, m), Crowned(v)
  PROVE  Crowned(w)
<1> SUFFICES ASSUME NEW c \in Colors
             PROVE  \E k : KingAt(w, c, k)
  BY DEF Crowned
<1>1. PICK k : KingAt(v, c, k)
  BY DEF Crowned
<1>2. PICK x, from, to : x = Value(c, king) /\ from = m.from /\ to = m.to
  OBVIOUS
<1>3. k \in Squares /\ \A s \in Squares : v[s] = x <=> s = k
  BY <1>1, <1>2 DEF KingAt
<1>4. /\ us \in Colors /\ p \in Kinds /\ Flip(us) \in Colors
      /\ from \in Squares /\ to \in Squares /\ v[from] = Value(us, p)
      /\ v[to] = empty \/ \E q \in Kinds : q # king /\ v[to] = Value(Flip(us), q)
      /\ m.promo # 0 => p = pawn /\ m.promo \in Kinds \ {king}
  BY <1>2 DEF Fits, Goes, AreFlags, Flip, Colors, white, black
<1>5. /\ x # empty /\ king \in Kinds /\ king # pawn /\ king # rook
      /\ pawn \in Kinds /\ rook \in Kinds
      /\ \A d \in Colors, q \in Kinds : x = Value(d, q) <=> d = c /\ q = king
  <2>1. king \in Kinds /\ king # pawn /\ king # rook /\ pawn \in Kinds /\ rook \in Kinds
    BY DEF king, pawn, rook, Kinds
  <2> QED
    BY <1>2, <2>1, Codings
<1>6. v[to] # x
  BY <1>4, <1>5
<1>7. PICK q : q = IF m.promo # 0 THEN m.promo ELSE p
  OBVIOUS
<1>8. q \in Kinds /\ (q = king <=> p = king)
  BY <1>4, <1>5, <1>7
<1>9. \E others \in SUBSET Squares :
        /\ \A s \in others : v[s] # x /\ w[s] # x
        /\ w[from] = empty /\ w[to] = Value(us, q)
        /\ \A s \in (Squares \ {from, to}) \ others : w[s] = v[s]
  <2>1. CASE Castles(p, m)
    <3>1. HasCastled(v, fl, us, p, m, w)
      BY <2>1, AfterCastle
    <3>2. PICK here, there : here = RookFrom(us, m) /\ there = RookTo(us, m)
      OBVIOUS
    <3>3. /\ here \in Squares /\ there \in Squares
          /\ v[here] = Value(us, rook) /\ v[there] = empty /\ w[here] = empty
          /\ w[there] = Value(us, rook) /\ w[from] = empty /\ w[to] = Value(us, king)
          /\ \A t \in Squares \ {from, to, here, there} : w[t] = v[t]
      BY <1>2, <2>1, <3>1, <3>2 DEF HasCastled, Fits
    <3>4. q = king
      BY <1>8, <2>1 DEF Castles
    <3>5. PICK others \in SUBSET Squares : others = {here, there}
      BY <3>3
    <3>6. /\ \A s \in others : v[s] # x /\ w[s] # x
          /\ \A s \in (Squares \ {from, to}) \ others : w[s] = v[s]
      BY <1>4, <1>5, <3>3, <3>5
    <3> QED
      BY <3>3, <3>4, <3>6
  <2>2. CASE ~Castles(p, m) /\ (m.promo # 0 \/ ~TakesInPassing(v, us, p, m))
    <3>1. /\ \A s \in Squares \ {from, to} : w[s] = v[s]
          /\ w[from] = empty /\ w[to] = Value(us, q)
      BY <1>2, <1>7, <2>2, AfterOther
    <3>2. PICK others \in SUBSET Squares : others = {}
      OBVIOUS
    <3>3. /\ \A s \in others : v[s] # x /\ w[s] # x
          /\ \A s \in (Squares \ {from, to}) \ others : w[s] = v[s]
      BY <3>1, <3>2
    <3> QED
      BY <3>1, <3>3
  <2>3. CASE ~Castles(p, m) /\ m.promo = 0 /\ TakesInPassing(v, us, p, m)
    <3>1. PICK square : square = Behind(us, m)
      OBVIOUS
    <3>2. /\ v[square] = Value(Flip(us), pawn) /\ square \in Squares
          /\ w[from] = empty /\ w[to] = Value(us, q) /\ w[square] = empty
          /\ \A t \in Squares \ {from, to, square} : w[t] = v[t]
      BY <1>2, <1>7, <2>3, <3>1, AfterOther DEF Fits
    <3>3. PICK others \in SUBSET Squares : others = {square}
      BY <3>2
    <3>4. /\ \A s \in others : v[s] # x /\ w[s] # x
          /\ \A s \in (Squares \ {from, to}) \ others : w[s] = v[s]
      BY <1>4, <1>5, <3>2, <3>3
    <3> QED
      BY <3>2, <3>4
  <2> QED
    BY <2>1, <2>2, <2>3
<1>10. PICK others \in SUBSET Squares :
         /\ \A s \in others : v[s] # x /\ w[s] # x
         /\ w[from] = empty /\ w[to] = Value(us, q)
         /\ \A s \in (Squares \ {from, to}) \ others : w[s] = v[s]
  BY <1>9
<1>11. CASE c = us /\ p = king
  <2>1. v[from] = x /\ from = k /\ w[to] = x
    BY <1>2, <1>3, <1>4, <1>8, <1>10, <1>11
  <2>2. \A s \in Squares : w[s] = x <=> s = to
    BY <1>3, <1>5, <1>10, <2>1
  <2> QED
    BY <1>2, <1>4, <2>2 DEF KingAt
<1>12. CASE ~(c = us /\ p = king)
  <2>1. v[from] # x /\ w[to] # x
    BY <1>4, <1>5, <1>8, <1>10, <1>12
  <2>2. \A s \in Squares : w[s] = x <=> s = k
    BY <1>3, <1>4, <1>5, <1>6, <1>10, <2>1
  <2> QED
    BY <1>2, <1>3, <2>2 DEF KingAt
<1> QED
  BY <1>11, <1>12

LEMMA CrownedLoaded ==
  ASSUME NEW start, Acceptable(start), NEW v, v = start.values
  PROVE  Crowned(v)
<1> SUFFICES ASSUME NEW c \in Colors
             PROVE  \E k : KingAt(v, c, k)
  BY DEF Crowned
<1>1. PICK kings : kings = SquaresOf(v, c, king)
  OBVIOUS
<1>2. IsFiniteSet(kings)
  <2>1. kings \subseteq Squares
    BY <1>1 DEF SquaresOf
  <2> QED
    BY <2>1, FiniteSquares, FS_Subset
<1>3. Cardinality(kings) = 1
  BY <1>1 DEF Acceptable
<1>4. PICK k : kings = {k}
  BY <1>2, <1>3, FS_Singleton
<1>5. KingAt(v, c, k)
  BY <1>1, <1>4 DEF KingAt, SquaresOf
<1> QED
  BY <1>5

\* A move that the generators may offer, or none.
Suits(v, fl, m) == m # Empty => \E p : Fits(v, fl, p, m)

LEMMA WholeAfter ==
  ASSUME NEW v, NEW fl, NEW ff, NEW cs, NEW u, NEW us, NEW p, NEW m, NEW after,
         us = fl.side, Wholly(v, fl, ff, cs, u), Fits(v, fl, p, m),
         MakesOf(v, fl, ff, cs, u, us, p, m, after)
  PROVE  Whole(after) /\ after.flags.halfMoveCount = fl.halfMoveCount + 1
<1>1. PICK w, more : w = After(v, us, p, m) /\ more = Append(u, Entry(v, fl, ff, m))
  OBVIOUS
<1>2. PICK gl, gf, ds :
        /\ gf = Clock(v, p, m, ff + 1) /\ Remembers(w, gl, gf, more)
        /\ AreFlags(gl) /\ gl.side = Flip(us)
        /\ gl.halfMoveCount = fl.halfMoveCount + 1
        /\ gl.ep = Ready(fl, p, m) /\ gl.rights = fl.rights \ Lost(fl, p, m)
        /\ ds = CastledBy(us, p, m, cs) /\ w \in Contents
        /\ after = State(w, gl, gf, ds, more)
  BY <1>1 DEF MakesOf
<1>3. /\ v \in Contents /\ AreFlags(fl) /\ Homed(v, fl) /\ fl.rights \cap cs = {}
      /\ IsSeq(u) /\ Len(u) = fl.halfMoveCount /\ Inside(v) /\ ff \in Nat /\ Crowned(v)
  BY DEF Wholly
<1>4. Homed(w, gl)
  BY <1>1, <1>2, <1>3, HomedAfter
<1>5. EpReady(w, gl)
  BY <1>1, <1>2, <1>3, EpReadyAfter
<1>6. IsSeq(more) /\ Len(more) = gl.halfMoveCount
  BY <1>1, <1>2, <1>3, Appended
<1>7. gl.rights \cap ds = {}
  <2>1. CASE Castles(p, m)
    <3>1. PICK side : side = CastledSide(m)
      OBVIOUS
    <3>2. ds = cs \union {<<us, side>>} /\ side \in Sides
      BY <1>2, <2>1, <3>1 DEF CastledBy, CastledSide, Sides
    <3>3. <<us, side>> \notin gl.rights
      BY <1>2, <2>1, <3>2 DEF Lost
    <3> QED
      BY <1>2, <1>3, <3>2, <3>3
  <2>2. CASE ~Castles(p, m)
    BY <1>2, <1>3, <2>2 DEF CastledBy
  <2> QED
    BY <2>1, <2>2
<1>8. Wholly(w, gl, gf, ds, more)
  <2>1. Inside(w) /\ Crowned(w)
    BY <1>1, <1>3, InsideAfter, CrownedAfter
  <2>2. gf \in Nat
    BY <1>2, <1>3 DEF Clock
  <2> QED
    BY <1>2, <1>4, <1>5, <1>6, <1>7, <2>1, <2>2 DEF Wholly
<1>9. after.flags = gl
  BY <1>2 DEF State, Standing
<1> QED
  BY <1>2, <1>8, <1>9 DEF Whole

\* makeMove of such a move leaves a whole board, and undoMove takes it back.
LEMMA WholeApplied ==
  ASSUME NEW b, NEW m, Whole(b), Suits(b.values, b.flags, m),
         NEW after, after = Applied(b, m)
  PROVE  /\ Whole(after) /\ Undone(after) = b
         /\ after.flags.halfMoveCount = b.flags.halfMoveCount + 1
<1>1. PICK v, fl, ff, cs, u : b = State(v, fl, ff, cs, u) /\ Wholly(v, fl, ff, cs, u)
  BY DEF Whole
<1>2. b.values = v /\ b.flags = fl
  BY <1>1 DEF State, Standing
<1>3. /\ v \in Contents /\ AreFlags(fl) /\ Homed(v, fl) /\ fl.rights \cap cs = {}
      /\ IsSeq(u) /\ fl.halfMoveCount = Len(u) /\ Inside(v) /\ ff \in Nat /\ Crowned(v)
  BY <1>1 DEF Wholly
<1>4. CASE m = Empty
  <2>1. PassesTo(v, fl, ff, cs, u, after)
    BY <1>1, <1>3, <1>4, AppliedNull
  <2>2. PICK gl, gf :
          /\ gf = ff + 1 /\ Remembers(v, gl, gf, Append(u, Entry(v, fl, ff, Empty)))
          /\ AreFlags(gl) /\ gl.halfMoveCount = fl.halfMoveCount + 1 /\ gl.ep = 0
          /\ gl.rights = fl.rights
          /\ after = State(v, gl, gf, cs, Append(u, Entry(v, fl, ff, Empty)))
    BY <2>1 DEF PassesTo
  <2>3. PICK more : more = Append(u, Entry(v, fl, ff, Empty))
    OBVIOUS
  <2>4. Homed(v, gl) /\ EpReady(v, gl)
    BY <1>3, <2>2 DEF Homed, EpReady
  <2>5. IsSeq(more) /\ Len(more) = gl.halfMoveCount
    BY <1>3, <2>2, <2>3, Appended
  <2>6. Wholly(v, gl, gf, cs, more)
    BY <1>3, <2>2, <2>3, <2>4, <2>5 DEF Wholly
  <2>7. Undone(after) = b
    BY <1>1, <1>3, <1>4, UndoneNull
  <2>8. after.flags = gl
    BY <2>2 DEF State, Standing
  <2> QED
    BY <1>2, <2>2, <2>3, <2>6, <2>7, <2>8 DEF Whole
<1>5. CASE m # Empty
  <2>1. PICK p : Fits(v, fl, p, m)
    BY <1>2, <1>5 DEF Suits
  <2>2. PICK us : us = fl.side
    OBVIOUS
  <2>3. MakesOf(v, fl, ff, cs, u, us, p, m, after)
    BY <1>1, <1>3, <1>5, <2>1, <2>2, AppliedMove
  <2>4. Whole(after) /\ after.flags.halfMoveCount = fl.halfMoveCount + 1
    BY <1>1, <2>1, <2>2, <2>3, WholeAfter
  <2>5. Undone(after) = b
    BY <1>1, <1>3, <1>5, <2>1, UndoneMove
  <2> QED
    BY <1>2, <2>4, <2>5
<1> QED
  BY <1>4, <1>5
-----------------------------------------------------------------------------
(***************************************************************************)
(* The generators.                                                         *)
(***************************************************************************)
LEMMA StepAt ==
  ASSUME NEW s \in Squares, NEW d \in -7 .. 7, NEW e \in -7 .. 7, NEW t \in Step(s, d, e)
  PROVE  /\ t \in Squares /\ t - s = 8 * d + e
         /\ Row(t) = Row(s) + d /\ Column(t) = Column(s) + e
<1>1. t \in Squares /\ Row(t) = Row(s) + d /\ Column(t) = Column(s) + e
  BY DEF Step
<1>2. s = 8 * Row(s) + Column(s) /\ t = 8 * Row(t) + Column(t)
  BY <1>1 DEF Row, Column, Squares
<1>3. Row(s) \in Int /\ Column(s) \in Int
  BY DEF Row, Column, Squares
<1> QED
  BY <1>1, <1>2, <1>3 DEF Squares

\* A step along one of eight directions.
Directions == Straight \union Diagonal

LEMMA DirectionsAre ==
  ASSUME NEW d \in Directions
  PROVE  d = <<d[1], d[2]>> /\ d[1] \in -1 .. 1 /\ d[2] \in -1 .. 1
BY DEF Directions, Straight, Diagonal

\* The board is convex: what lies before a square of a ray is on the board.
LEMMA RaysHaveNoGaps ==
  ASSUME NEW s \in Squares, NEW d \in -1 .. 1, NEW e \in -1 .. 1,
         NEW k \in 1 .. 7, NEW j \in 1 .. k, Step(s, k * d, k * e) # {}
  PROVE  Step(s, j * d, j * e) # {}
<1>1. PICK t \in Squares : Row(t) = Row(s) + k * d /\ Column(t) = Column(s) + k * e
  BY DEF Step
<1>2. /\ Row(s) \in 0 .. 7 /\ Column(s) \in 0 .. 7 /\ Row(t) \in 0 .. 7 /\ Column(t) \in 0 .. 7
      /\ s = 8 * Row(s) + Column(s)
  BY DEF Row, Column, Squares
<1>3. ASSUME NEW r \in 0 .. 7, NEW x \in -1 .. 1, r + k * x \in 0 .. 7
      PROVE  r + j * x \in 0 .. 7
  <2>1. CASE x = -1
    <3>1. k * x = -k /\ j * x = -j
      BY <2>1
    <3> QED
      BY <1>3, <3>1
  <2>2. CASE x = 0
    <3>1. k * x = 0 /\ j * x = 0
      BY <2>2
    <3> QED
      BY <1>3, <3>1
  <2>3. CASE x = 1
    <3>1. k * x = k /\ j * x = j
      BY <2>3
    <3> QED
      BY <1>3, <3>1
  <2> QED
    BY <2>1, <2>2, <2>3
<1>4. Row(s) + j * d \in 0 .. 7 /\ Column(s) + j * e \in 0 .. 7
  BY <1>1, <1>2, <1>3
<1>5. \A r \in 0 .. 7, c \in 0 .. 7 :
        8 * r + c \in Squares /\ Row(8 * r + c) = r /\ Column(8 * r + c) = c
  BY DEF Squares, Row, Column
<1>6. \E x \in Squares : Row(x) = Row(s) + j * d /\ Column(x) = Column(s) + j * e
  BY <1>4, <1>5
<1> QED
  BY <1>6 DEF Step

\* A ray is as long as there are squares, one after the other.
LEMMA RaysAre ==
  ASSUME NEW s \in Squares, NEW d \in Directions
  PROVE  /\ DOMAIN Rays[s][d] = {k \in 1 .. 7 : Step(s, k * d[1], k * d[2]) # {}}
         /\ \A k \in DOMAIN Rays[s][d] : Rays[s][d][k] \in Step(s, k * d[1], k * d[2])
<1> DEFINE steps == {i \in 1 .. 7 : Step(s, i * d[1], i * d[2]) # {}}
<1>1. Rays[s][d] = [i \in 1 .. Cardinality(steps) |->
                      CHOOSE t \in Step(s, i * d[1], i * d[2]) : TRUE]
  BY DEF Rays, Directions
<1>2. d[1] \in -1 .. 1 /\ d[2] \in -1 .. 1
  BY DirectionsAre
<1>3. \A i \in steps : i \in 1 .. 7 /\ \A j \in 1 .. i : j \in steps
  <2> SUFFICES ASSUME NEW i \in steps, NEW j \in 1 .. i
               PROVE  i \in 1 .. 7 /\ j \in steps
    OBVIOUS
  <2>1. i \in 1 .. 7 /\ Step(s, i * d[1], i * d[2]) # {} /\ j \in 1 .. 7
    OBVIOUS
  <2>2. PICK x, y : x = d[1] /\ y = d[2]
    OBVIOUS
  <2>3. Step(s, j * x, j * y) # {}
    BY <1>2, <2>1, <2>2, RaysHaveNoGaps
  <2> QED
    BY <2>1, <2>2, <2>3
<1>4. PICK S, n : S = steps /\ n = Cardinality(S)
  OBVIOUS
<1>5. IsFiniteSet(S) /\ n \in Nat /\ S \subseteq 1 .. 7
  <2>1. S \in SUBSET (1 .. 7)
    BY <1>4
  <2>2. IsFiniteSet(1 .. 7)
    <3>1. 1 \in Int /\ 7 \in Int
      OBVIOUS
    <3> QED
      BY <3>1, FS_Interval, Zenon
  <2> QED
    BY <1>4, <2>1, <2>2, FS_Subset, FS_CardinalityType
<1>6. \A i \in S : \A j \in 1 .. i : j \in S
  BY <1>3, <1>4
<1> HIDE DEF steps
<1>7. \A k \in Nat : IsFiniteSet(1 .. k) /\ Cardinality(1 .. k) = k
  <2>1. ASSUME NEW k \in Nat
        PROVE  IsFiniteSet(1 .. k) /\ Cardinality(1 .. k) = k
    <3>1. IsFiniteSet(1 .. k) /\ Cardinality(1 .. k) = IF 1 > k THEN 0 ELSE k - 1 + 1
      <4>1. 1 \in Int /\ k \in Int
        OBVIOUS
      <4> QED
        BY <4>1, FS_Interval
    <3> QED
      BY <3>1
  <2> QED
    BY <2>1
<1>8. ASSUME NEW k \in 1 .. n, k \notin S
      PROVE  FALSE
  <2>1. k - 1 \in Nat /\ S \subseteq 1 .. k - 1
    BY <1>5, <1>6, <1>8
  <2>2. PICK i \in Nat : i = k - 1
    BY <2>1
  <2>3. S \subseteq 1 .. i /\ IsFiniteSet(1 .. i) /\ Cardinality(1 .. i) = i
    BY <1>7, <2>1, <2>2
  <2>4. n <= i
    BY <1>4, <2>3, FS_Subset
  <2> QED
    BY <1>5, <2>2, <2>4
<1>9. ASSUME NEW k \in S
      PROVE  k \in 1 .. n
  <2>1. k \in Nat /\ k >= 1 /\ 1 .. k \subseteq S
    BY <1>5, <1>6
  <2>2. k <= n
    BY <1>4, <1>5, <1>7, <2>1, FS_Subset
  <2> QED
    BY <1>5, <2>1, <2>2
<1>10. DOMAIN Rays[s][d] = S
  BY <1>1, <1>4, <1>8, <1>9
<1>11. \A k \in S : k \in 1 .. 7 /\ Step(s, k * d[1], k * d[2]) # {}
  BY <1>4 DEF steps
<1>12. \A k \in S : Rays[s][d][k] = CHOOSE t \in Step(s, k * d[1], k * d[2]) : TRUE
  BY <1>1, <1>4, <1>9
<1> QED
  BY <1>4, <1>10, <1>11, <1>12 DEF steps

LEMMA RaysOnBoard ==
  ASSUME NEW s \in Squares, NEW d \in Directions, NEW k \in DOMAIN Rays[s][d]
  PROVE  Rays[s][d][k] \in Squares
BY RaysAre DEF Step

\* What the generators read of a whole board.
Reads(b, v, fl) ==
  b.values = v /\ b.flags = fl /\ b.boards = BoardsOf(v) /\ b.occupied = Filled(v)

LEMMA PiecesRead ==
  ASSUME NEW v \in Contents, NEW c \in Colors, NEW p \in Kinds, NEW s \in BoardsOf(v)[c][p]
  PROVE  s \in Squares /\ v[s] = Value(c, p)
<1>1. s \in Squares
  BY BoardsTyped DEF Kinds
<1> QED
  BY <1>1, BoardsAt

\* A man of a colour, by the sign of its square.
LEMMA MenByColour ==
  ASSUME NEW x \in Codes, NEW c \in Colors, x * Forward(c) > 0
  PROVE  x # empty /\ \E q \in Kinds : x = Value(c, q)
<1>1. c = white \/ c = black
  BY DEF Colors
<1>2. CASE c = white
  <2>1. Forward(c) = 1 /\ \A q : Value(c, q) = q
    BY <1>2 DEF Forward, Value
  <2>2. x \in Kinds /\ x # 0
    BY <2>1 DEF Codes, Kinds
  <2> QED
    BY <2>1, <2>2 DEF empty
<1>3. CASE c = black
  <2>1. Forward(c) = -1 /\ \A q : Value(c, q) = -q
    BY <1>3 DEF Forward, Value, white, black
  <2>2. -x \in Kinds /\ x = -(-x) /\ x # 0
    BY <2>1 DEF Codes, Kinds
  <2> QED
    BY <2>1, <2>2 DEF empty
<1> QED
  BY <1>1, <1>2, <1>3

\* What may stand where a piece goes.
LEMMA TargetFits ==
  ASSUME NEW v \in Contents, NEW us \in Colors, NEW to \in Squares,
         to \notin Filled(v) \/ to \in BoardsOf(v)[Flip(us)][0],
         Magnitude(v[to]) # king
  PROVE  /\ v[to] = empty \/ \E q \in Kinds : q # king /\ v[to] = Value(Flip(us), q)
         /\ to \in BoardsOf(v)[Flip(us)][0] => v[to] # empty
<1>1. Flip(us) \in Colors /\ v[to] \in Codes
  BY DEF Flip, Colors, white, black, Contents
<1>2. CASE to \in BoardsOf(v)[Flip(us)][0]
  <2>1. v[to] * Forward(Flip(us)) > 0
    BY <1>1, <1>2, BoardsAt
  <2>2. PICK q \in Kinds : v[to] = Value(Flip(us), q)
    BY <1>1, <2>1, MenByColour
  <2>3. q # king
    BY <1>1, <2>2, Codings
  <2> QED
    BY <1>1, <2>1, <2>2, <2>3, MenByColour
<1>3. CASE to \notin BoardsOf(v)[Flip(us)][0]
  BY <1>3 DEF Filled
<1> QED
  BY <1>2, <1>3

LEMMA PawnAttacksAre ==
  ASSUME NEW us \in Colors, NEW from \in Squares, NEW to \in PawnAttacks[us][from]
  PROVE  /\ to \in Squares /\ (to - from) * Forward(us) \in {7, 9}
         /\ (Row(to) - Row(from)) * Forward(us) > 0
<1>1. Forward(us) = 1 \/ Forward(us) = -1
  BY DEF Forward, Colors
<1>2. to \in Step(from, Forward(us), -1) \/ to \in Step(from, Forward(us), 1)
  BY DEF PawnAttacks, Leaps
<1>3. /\ to \in Squares /\ (to - from = 8 * Forward(us) - 1 \/ to - from = 8 * Forward(us) + 1)
      /\ Row(to) = Row(from) + Forward(us)
  BY <1>1, <1>2, StepAt
<1>4. Row(from) \in Int
  BY DEF Row, Squares
<1> QED
  BY <1>1, <1>3, <1>4 DEF Squares

TargetsOn(free, near, ep, enemies, us, from) ==
  LET double == {t \in near : Row(t) = IF us = white THEN 3 ELSE 4}
      enPassant == {t \in PawnAttacks[us][from] : ep # 0 /\ t = ep + 8 * Forward(us)}
  IN free \union double \union enPassant \union (PawnAttacks[us][from] \cap enemies)

\* The four ways in which a pawn goes.
LEMMA TargetsOnAre ==
  ASSUME NEW free, NEW near, NEW ep, NEW enemies, NEW us, NEW from,
         NEW to \in TargetsOn(free, near, ep, enemies, us, from)
  PROVE  \/ to \in free
         \/ to \in near /\ Row(to) = IF us = white THEN 3 ELSE 4
         \/ to \in PawnAttacks[us][from] /\ ep # 0 /\ to = ep + 8 * Forward(us)
         \/ to \in PawnAttacks[us][from] /\ to \in enemies
BY DEF TargetsOn

LEMMA AheadIs ==
  ASSUME NEW occupied, NEW us, NEW from
  PROVE  /\ \A to \in Ahead(occupied, us, from) :
              to \in Step(from, Forward(us), 0) /\ to \notin occupied
         /\ \A to \in TwoAhead(occupied, us, from) :
              /\ to \notin occupied
              /\ \E s \in Step(from, Forward(us), 0) :
                   s \notin occupied /\ to \in Step(s, Forward(us), 0)
BY DEF Ahead, TwoAhead

LEMMA PawnTargetsAre ==
  ASSUME NEW b, NEW v, NEW fl, Reads(b, v, fl), NEW us \in Colors, NEW from,
         NEW to \in PawnTargets(b, us, from)
  PROVE  \/ to \in Step(from, Forward(us), 0) /\ to \notin Filled(v)
         \/ /\ to \notin Filled(v) /\ Row(to) = IF us = white THEN 3 ELSE 4
            /\ \E s \in Step(from, Forward(us), 0) :
                 s \notin Filled(v) /\ to \in Step(s, Forward(us), 0)
         \/ /\ to \in PawnAttacks[us][from] /\ fl.ep # 0
            /\ to = fl.ep + 8 * Forward(us)
         \/ to \in PawnAttacks[us][from] /\ to \in BoardsOf(v)[Flip(us)][0]
<1>1. b.occupied = Filled(v) /\ b.flags = fl /\ b.boards = BoardsOf(v)
  BY DEF Reads
<1>2. PawnTargets(b, us, from)
        = TargetsOn(Ahead(b.occupied, us, from), TwoAhead(b.occupied, us, from),
                    b.flags.ep, b.boards[Flip(us)][0], us, from)
  BY Zenon DEF PawnTargets, TargetsOn
<1>3. PICK occupied, ep, enemies :
        occupied = Filled(v) /\ ep = fl.ep /\ enemies = BoardsOf(v)[Flip(us)][0]
  OBVIOUS
<1>4. to \in TargetsOn(Ahead(occupied, us, from), TwoAhead(occupied, us, from), ep,
                      enemies, us, from)
  BY <1>1, <1>2, <1>3
<1> QED
  BY <1>3, <1>4, TargetsOnAre, AheadIs

LEMMA PawnMovesFit ==
  ASSUME NEW b, NEW v \in Contents, NEW fl, NEW us, NEW m, Reads(b, v, fl), AreFlags(fl),
         EpReady(v, fl), us = fl.side, m \in PawnMoves(b, us), Magnitude(v[m.to]) # king
  PROVE  Fits(v, fl, pawn, m)
<1>0. PICK from \in b.boards[us][pawn] :
        \E to \in PawnTargets(b, us, from) :
          m \in Moves(from, {to},
                      IF Row(to) \in {0, 7} THEN {queen, rook, bishop, knight} ELSE {0})
  <2> DEFINE Of(from) ==
        UNION {Moves(from, {to},
                     IF Row(to) \in {0, 7} THEN {queen, rook, bishop, knight} ELSE {0})
               : to \in PawnTargets(b, us, from)}
  <2>1. m \in UNION {Of(from) : from \in b.boards[us][pawn]}
    BY DEF PawnMoves
  <2>2. \A from : m \in Of(from) =>
          \E to \in PawnTargets(b, us, from) :
            m \in Moves(from, {to},
                        IF Row(to) \in {0, 7} THEN {queen, rook, bishop, knight} ELSE {0})
    OBVIOUS
  <2> HIDE DEF Of
  <2>3. \E from \in b.boards[us][pawn] : m \in Of(from)
    BY <2>1
  <2> QED
    BY <2>2, <2>3
<1>1. PICK to \in PawnTargets(b, us, from) :
        m \in Moves(from, {to},
                    IF Row(to) \in {0, 7} THEN {queen, rook, bishop, knight} ELSE {0})
  BY <1>0
<1>2. /\ m.from = from /\ m.to = to
      /\ m.promo # 0 => Row(to) \in {0, 7} /\ m.promo \in {queen, rook, bishop, knight}
  BY <1>1 DEF Moves
<1>3. us \in Colors /\ pawn \in Kinds /\ from \in Squares /\ v[from] = Value(us, pawn)
  BY <1>0, KindsApart, PiecesRead DEF AreFlags, Reads
<1>4. /\ m.promo # 0 => m.promo \in Kinds \ {pawn, king}
      /\ m.promo = 0 => Row(m.to) \notin {0, 7}
  <2>1. Row(to) \in {0, 7} => m.promo \in {queen, rook, bishop, knight}
    BY <1>1 DEF Moves
  <2> QED
    BY <1>2, <2>1 DEF queen, rook, bishop, knight, Kinds, pawn, king
<1>5. ~Castles(pawn, m)
  BY KindsApart DEF Castles
<1>6. /\ \/ to \in Step(from, Forward(us), 0) /\ to \notin Filled(v)
         \/ /\ to \notin Filled(v) /\ Row(to) = IF us = white THEN 3 ELSE 4
            /\ \E s \in Step(from, Forward(us), 0) :
                 s \notin Filled(v) /\ to \in Step(s, Forward(us), 0)
         \/ /\ to \in PawnAttacks[us][from] /\ fl.ep # 0
            /\ to = fl.ep + 8 * Forward(us)
         \/ to \in PawnAttacks[us][from] /\ to \in BoardsOf(v)[Flip(us)][0]
  BY <1>1, <1>3, PawnTargetsAre
<1>7. PICK f : f = Forward(us) /\ (f = 1 \/ f = -1)
  BY <1>3 DEF Forward, Colors
<1>8. f \in -7 .. 7 /\ 0 \in -7 .. 7
  BY <1>7
<1>14. ASSUME to \in Squares,
              to - from \in {8 * f, 16 * f} \/ to \in PawnAttacks[us][from]
       PROVE  (Row(m.to) - Row(m.from)) * Forward(us) > 0
  <2>1. CASE to \in PawnAttacks[us][from]
    BY <1>2, <1>3, <2>1, PawnAttacksAre
  <2>2. CASE to - from \in {8 * f, 16 * f}
    <3>1. (Row(to) - Row(from)) * f > 0
      BY <1>3, <1>7, <1>14, <2>2 DEF Row, Squares
    <3> QED
      BY <1>2, <1>7, <3>1
  <2> QED
    BY <1>14, <2>1, <2>2
<1>9. CASE to \in Step(from, f, 0) /\ to \notin Filled(v)
  <2>1. to \in Squares /\ to - from = 8 * f
    BY <1>3, <1>8, <1>9, StepAt
  <2>2. v[to] = empty
    BY <1>9, <2>1 DEF Filled
  <2>3. to # from /\ (to - from) * f \notin {7, 9} /\ Magnitude(from - to) # 16
    BY <1>3, <1>7, <2>1 DEF Magnitude, Squares
  <2>4. Goes(v, us, pawn, m) /\ ~TakesInPassing(v, us, pawn, m) /\ ~Doubles(pawn, m)
    BY <1>2, <1>3, <1>7, <2>1, <2>2, <2>3 DEF Goes, TakesInPassing, Doubles
  <2> QED
    BY <1>3, <1>4, <1>5, <1>14, <2>1, <2>4 DEF Fits
<1>10. CASE /\ to \notin Filled(v) /\ Row(to) = IF us = white THEN 3 ELSE 4
            /\ \E s \in Step(from, f, 0) : s \notin Filled(v) /\ to \in Step(s, f, 0)
  <2>1. PICK s \in Step(from, f, 0) : s \notin Filled(v) /\ to \in Step(s, f, 0)
    BY <1>10
  <2>2. s \in Squares /\ s - from = 8 * f
    BY <1>3, <1>8, <2>1, StepAt
  <2>3. to \in Squares /\ to - s = 8 * f
    BY <1>8, <2>1, <2>2, StepAt
  <2>4. v[to] = empty /\ v[s] = empty
    BY <1>10, <2>1, <2>2, <2>3 DEF Filled
  <2>5. /\ to # from /\ s # from /\ s # to /\ (to - from) * f \notin {7, 9} /\ to - 8 * f = s
    BY <1>3, <1>7, <2>2, <2>3 DEF Squares
  <2>6. m.promo = 0
    BY <1>2, <1>10
  <2>7. Goes(v, us, pawn, m) /\ ~TakesInPassing(v, us, pawn, m) /\ Behind(us, m) = s
    BY <1>2, <1>3, <1>7, <2>3, <2>4, <2>5 DEF Goes, TakesInPassing, Behind
  <2>8. (Row(m.to) - Row(m.from)) * Forward(us) > 0
    <3>1. to - from = 16 * f
      BY <1>3, <1>7, <2>2, <2>3 DEF Squares
    <3> QED
      BY <1>14, <2>3, <3>1
  <2> QED
    BY <1>2, <1>3, <1>4, <1>5, <1>10, <2>2, <2>4, <2>5, <2>6, <2>7, <2>8 DEF Fits
<1>11. ASSUME to \in PawnAttacks[us][from]
       PROVE  /\ to \in Squares /\ to # from /\ ~Doubles(pawn, m)
              /\ (to - from) * f \in {7, 9}
  <2>1. to \in Squares /\ (to - from) * f \in {7, 9}
    BY <1>3, <1>7, <1>11, PawnAttacksAre
  <2>2. to # from /\ Magnitude(from - to) # 16
    BY <1>3, <1>7, <2>1 DEF Magnitude, Squares
  <2> QED
    BY <1>2, <2>1, <2>2 DEF Doubles
<1>12. CASE to \in PawnAttacks[us][from] /\ fl.ep # 0 /\ to = fl.ep + 8 * f
  <2>1. v[fl.ep] = Value(Flip(us), pawn) /\ v[to] = empty /\ fl.ep \in Squares
    BY <1>7, <1>12 DEF EpReady, AreFlags
  <2>2. to - 8 * f = fl.ep
    BY <1>7, <1>12, <2>1 DEF Squares
  <2>3. Goes(v, us, pawn, m) /\ Behind(us, m) = fl.ep
    BY <1>2, <1>3, <1>7, <1>11, <1>12, <2>1, <2>2 DEF Goes, Behind
  <2> QED
    BY <1>3, <1>4, <1>5, <1>11, <1>12, <1>14, <2>1, <2>3 DEF Fits
<1>13. CASE to \in PawnAttacks[us][from] /\ to \in BoardsOf(v)[Flip(us)][0]
  <2>1. /\ to \in Squares /\ v[to] # empty
        /\ \E q \in Kinds : q # king /\ v[to] = Value(Flip(us), q)
    BY <1>2, <1>3, <1>11, <1>13, TargetFits
  <2>2. Goes(v, us, pawn, m) /\ ~TakesInPassing(v, us, pawn, m)
    BY <1>2, <1>3, <1>11, <1>13, <2>1 DEF Goes, TakesInPassing
  <2> QED
    BY <1>3, <1>4, <1>5, <1>11, <1>13, <1>14, <2>2 DEF Fits
<1> QED
  BY <1>6, <1>7, <1>9, <1>10, <1>12, <1>13

LEMMA SlidesOnBoard ==
  ASSUME NEW occupied, NEW from \in Squares, NEW D \in SUBSET Directions,
         NEW to \in Slides(occupied, from, D)
  PROVE  to \in Squares
<1> DEFINE Reach(d) ==
      LET ray == Rays[from][d]
      IN {ray[k] : k \in {k \in DOMAIN ray : \A j \in 1 .. k - 1 : ray[j] \notin occupied}}
<1>1. to \in UNION {Reach(d) : d \in D}
  BY Zenon DEF Slides
<1>2. PICK d \in D : to \in Reach(d)
  <2> HIDE DEF Reach
  <2> QED
    BY <1>1
<1>3. \E k \in DOMAIN Rays[from][d] : to = Rays[from][d][k]
  BY <1>2
<1>4. d \in Directions
  BY <1>2
<1> QED
  BY <1>3, <1>4, RaysOnBoard

\* Where a piece other than a pawn can go.
LEMMA AttacksOnBoard ==
  ASSUME NEW b, NEW piece \in {knight, bishop, rook, queen, king}, NEW from \in Squares,
         NEW to \in Attacks(b, piece, from)
  PROVE  to \in Squares /\ (piece = king => Magnitude(from - to) # 2)
<1>1. /\ knight # king /\ bishop # king /\ rook # king /\ queen # king
      /\ knight # bishop /\ knight # rook /\ knight # queen /\ bishop # rook
      /\ bishop # queen /\ rook # queen
  BY DEF knight, bishop, rook, queen, king
<1>2. CASE piece = knight
  <2>1. to \in KnightAttacks[from]
    BY <1>1, <1>2 DEF Attacks
  <2>2. PICK d \in Jumps : to \in Step(from, d[1], d[2])
    BY <2>1 DEF KnightAttacks, Leaps
  <2> QED
    BY <1>1, <1>2, <2>2 DEF Step
<1>3. CASE piece = king
  <2>1. to \in KingAttacks[from]
    BY <1>1, <1>3 DEF Attacks
  <2>2. PICK d \in Directions : to \in Step(from, d[1], d[2])
    BY <2>1 DEF KingAttacks, Leaps, Directions
  <2>3. PICK x \in -1 .. 1, y \in -1 .. 1 : x = d[1] /\ y = d[2]
    BY DirectionsAre
  <2>4. to \in Squares /\ to - from = 8 * x + y
    BY <2>2, <2>3, StepAt
  <2>5. Magnitude(from - to) # 2
    BY <2>3, <2>4 DEF Magnitude, Squares
  <2> QED
    BY <2>4, <2>5
<1>4. CASE piece \in {bishop, rook, queen}
  <2>1. PICK occupied : occupied = b.occupied
    OBVIOUS
  <2>2. PICK D \in SUBSET Directions : to \in Slides(occupied, from, D)
    <3>1. Straight \in SUBSET Directions /\ Diagonal \in SUBSET Directions
      BY DEF Directions
    <3>2. CASE piece = bishop
      BY <1>1, <2>1, <3>1, <3>2 DEF Attacks
    <3>3. CASE piece = rook
      BY <1>1, <2>1, <3>1, <3>3 DEF Attacks
    <3>4. CASE piece = queen
      BY <1>1, <2>1, <3>1, <3>4 DEF Attacks, Directions
    <3> QED
      BY <1>4, <3>2, <3>3, <3>4
  <2> QED
    BY <1>1, <1>4, <2>2, SlidesOnBoard
<1> QED
  BY <1>2, <1>3, <1>4

LEMMA PieceMovesFit ==
  ASSUME NEW b, NEW v \in Contents, NEW fl, NEW us, NEW m, Reads(b, v, fl), AreFlags(fl),
         us = fl.side, m \in PieceMoves(b, us), Magnitude(v[m.to]) # king
  PROVE  \E p : Fits(v, fl, p, m)
<1> DEFINE Goals(p, from) == Attacks(b, p, from) \ (b.occupied \ b.boards[Flip(us)][0])
           Of(p, from) == Moves(from, Goals(p, from), {0})
           From(p) == UNION {Of(p, from) : from \in b.boards[us][p]}
<1>1. m \in UNION {From(p) : p \in {knight, bishop, rook, queen, king}}
  BY Zenon DEF PieceMoves
<1>2. PICK p \in {knight, bishop, rook, queen, king} : m \in From(p)
  <2> HIDE DEF From
  <2> QED
    BY <1>1
<1>3. PICK from \in b.boards[us][p] : m \in Of(p, from)
  <2> HIDE DEF Of
  <2> QED
    BY <1>2
<1>4. m.from = from /\ m.to \in Goals(p, from) /\ m.promo = 0
  <2> HIDE DEF Goals
  <2> QED
    BY <1>3 DEF Moves
<1>5. PICK to : to = m.to
  OBVIOUS
<1>6. to \in Attacks(b, p, from) /\ (to \notin b.occupied \/ to \in b.boards[Flip(us)][0])
  BY <1>4, <1>5
<1>7. b.occupied = Filled(v) /\ b.boards = BoardsOf(v) /\ us \in Colors
  BY DEF Reads, AreFlags
<1>8. p \in Kinds /\ p # pawn /\ p # 0
  BY <1>2 DEF knight, bishop, rook, queen, king, pawn, Kinds
<1>9. from \in Squares /\ v[from] = Value(us, p)
  BY <1>3, <1>7, <1>8, PiecesRead
<1>10. to \in Squares /\ (p = king => Magnitude(from - to) # 2)
  BY <1>2, <1>6, <1>9, AttacksOnBoard
<1>11. v[to] = empty \/ \E q \in Kinds : q # king /\ v[to] = Value(Flip(us), q)
  BY <1>5, <1>6, <1>7, <1>10, TargetFits
<1>12. from # to
  <2>1. Flip(us) \in Colors /\ Flip(us) # us
    BY <1>7 DEF Flip, Colors, white, black
  <2>2. v[from] # empty /\ \A q \in Kinds : v[from] # Value(Flip(us), q)
    BY <1>7, <1>8, <1>9, <2>1, Codings
  <2> QED
    BY <1>11, <2>2
<1>13. Goes(v, us, p, m)
  BY <1>4, <1>5, <1>9, <1>10, <1>11, <1>12 DEF Goes
<1>14. ~Castles(p, m) /\ ~TakesInPassing(v, us, p, m) /\ ~Doubles(p, m)
  BY <1>4, <1>5, <1>8, <1>10 DEF Castles, TakesInPassing, Doubles
<1> QED
  BY <1>4, <1>8, <1>13, <1>14 DEF Fits

\* What castling asks of the squares.
CastlesTo(b, us, side, home, landing, between, m) ==
  /\ <<us, side>> \in b.flags.rights /\ between \cap b.occupied = {}
  /\ m.from = home /\ m.to = landing /\ m.promo = 0

LEMMA CastleMovesAre ==
  ASSUME NEW b, NEW us, NEW m \in CastleMoves(b, us), NEW home, home = FirstRow(us) + 4
  PROVE  \/ CastlesTo(b, us, "king", home, home + 2, {home + 1, home + 2}, m)
         \/ CastlesTo(b, us, "queen", home, home - 2, {home - 1, home - 2, home - 3}, m)
<1>1. \/ m \in Castlings(b, us, "king", home, home + 2, {home + 1, home + 2}, home + 1)
      \/ m \in Castlings(b, us, "queen", home, home - 2, {home - 1, home - 2, home - 3},
                         home - 1)
  BY DEF CastleMoves
<1>2. ASSUME NEW side, NEW landing, NEW between, NEW passed,
             m \in Castlings(b, us, side, home, landing, between, passed)
      PROVE  CastlesTo(b, us, side, home, landing, between, m)
  BY <1>2 DEF Castlings, Moves, CastlesTo
<1> QED
  BY <1>1, <1>2

LEMMA CastleMovesFit ==
  ASSUME NEW b, NEW v \in Contents, NEW fl, NEW us, NEW m, Reads(b, v, fl), AreFlags(fl),
         Homed(v, fl), us = fl.side, m \in CastleMoves(b, us)
  PROVE  Fits(v, fl, king, m)
<1>1. PICK home : home = FirstRow(us) + 4
  OBVIOUS
<1>2. /\ us \in Colors /\ home \in {4, 60} /\ FirstRow(us) = home - 4
  BY <1>1 DEF AreFlags, Colors, FirstRow
<1>3. king \in Kinds /\ king # pawn
  BY KindsApart
<1>4. \A s \in Squares : s \notin b.occupied => v[s] = empty
  BY DEF Reads, Filled
<1>5. \A side : <<us, side>> \in b.flags.rights =>
        /\ <<us, side>> \in fl.rights
        /\ v[home] = Value(us, king)
        /\ v[FirstRow(us) + IF side = "king" THEN 7 ELSE 0] = Value(us, rook)
  <2> SUFFICES ASSUME NEW side, <<us, side>> \in b.flags.rights
               PROVE  /\ <<us, side>> \in fl.rights /\ v[home] = Value(us, king)
                      /\ v[FirstRow(us) + IF side = "king" THEN 7 ELSE 0] = Value(us, rook)
    OBVIOUS
  <2>1. PICK r : r = <<us, side>> /\ r \in fl.rights /\ r[1] = us /\ r[2] = side
    BY DEF Reads
  <2> QED
    BY <1>1, <2>1 DEF Homed
<1>6. CASE CastlesTo(b, us, "king", home, home + 2, {home + 1, home + 2}, m)
  <2>1. /\ m.from = home /\ m.to = home + 2 /\ m.promo = 0
        /\ <<us, "king">> \in b.flags.rights
        /\ home + 1 \notin b.occupied /\ home + 2 \notin b.occupied
    BY <1>1, <1>6 DEF CastlesTo
  <2>2. home \in Squares /\ home + 1 \in Squares /\ home + 2 \in Squares /\ home + 3 \in Squares
    BY <1>2 DEF Squares
  <2>3. v[home + 1] = empty /\ v[home + 2] = empty
    BY <1>4, <2>1, <2>2
  <2>4. CastledSide(m) = "king" /\ RookFrom(us, m) = home + 3 /\ RookTo(us, m) = home + 1
    BY <1>2, <2>1 DEF CastledSide, RookFrom, RookTo
  <2>5. /\ <<us, "king">> \in fl.rights /\ v[home] = Value(us, king)
        /\ v[home + 3] = Value(us, rook)
    BY <1>2, <1>5, <2>1
  <2>6. Goes(v, us, king, m) /\ ~TakesInPassing(v, us, king, m) /\ ~Doubles(king, m)
    BY <1>2, <1>3, <2>1, <2>2, <2>3, <2>5 DEF Goes, TakesInPassing, Doubles
  <2>7. /\ RookFrom(us, m) \in Squares \ {m.from, m.to}
        /\ RookTo(us, m) \in Squares \ {m.from, m.to, RookFrom(us, m)}
    BY <1>2, <2>1, <2>2, <2>4
  <2> QED
    BY <1>3, <2>1, <2>3, <2>4, <2>5, <2>6, <2>7 DEF Fits
<1>7. CASE CastlesTo(b, us, "queen", home, home - 2, {home - 1, home - 2, home - 3}, m)
  <2>1. /\ m.from = home /\ m.to = home - 2 /\ m.promo = 0
        /\ <<us, "queen">> \in b.flags.rights
        /\ home - 1 \notin b.occupied /\ home - 2 \notin b.occupied
    BY <1>1, <1>7 DEF CastlesTo
  <2>2. home \in Squares /\ home - 1 \in Squares /\ home - 2 \in Squares /\ home - 4 \in Squares
    BY <1>2 DEF Squares
  <2>3. v[home - 1] = empty /\ v[home - 2] = empty
    BY <1>4, <2>1, <2>2
  <2>4. CastledSide(m) = "queen" /\ RookFrom(us, m) = home - 4 /\ RookTo(us, m) = home - 1
    BY <1>2, <2>1 DEF CastledSide, RookFrom, RookTo
  <2>5. /\ <<us, "queen">> \in fl.rights /\ v[home] = Value(us, king)
        /\ v[home - 4] = Value(us, rook)
    BY <1>2, <1>5, <2>1
  <2>6. Goes(v, us, king, m) /\ ~TakesInPassing(v, us, king, m) /\ ~Doubles(king, m)
    BY <1>2, <1>3, <2>1, <2>2, <2>3, <2>5 DEF Goes, TakesInPassing, Doubles
  <2>7. /\ RookFrom(us, m) \in Squares \ {m.from, m.to}
        /\ RookTo(us, m) \in Squares \ {m.from, m.to, RookFrom(us, m)}
    BY <1>2, <2>1, <2>2, <2>4
  <2> QED
    BY <1>3, <2>1, <2>3, <2>4, <2>5, <2>6, <2>7 DEF Fits
<1> QED
  BY <1>1, <1>6, <1>7, CastleMovesAre

\* Every move the generators offer and makeMove does not refuse fits the board.
LEMMA GeneratedSuits ==
  ASSUME NEW b, Whole(b), NEW m \in PseudolegalMoves(b), ~Refused(b, m)
  PROVE  Suits(b.values, b.flags, m)
<1>1. PICK v, fl, ff, cs, u : b = State(v, fl, ff, cs, u) /\ Wholly(v, fl, ff, cs, u)
  BY DEF Whole
<1>2. Reads(b, v, fl)
  BY <1>1 DEF Reads, State, Standing
<1>3. v \in Contents /\ AreFlags(fl) /\ Homed(v, fl) /\ EpReady(v, fl)
  BY <1>1 DEF Wholly
<1>4. b.values = v /\ b.flags = fl
  BY <1>2 DEF Reads
<1>5. m # Empty => Magnitude(v[m.to]) # king
  BY <1>4 DEF Refused
<1>6. ASSUME m # Empty
      PROVE  \E p : Fits(v, fl, p, m)
  <2>1. PICK us : us = fl.side
    OBVIOUS
  <2>2. m \in PawnMoves(b, us) \union PieceMoves(b, us) \union CastleMoves(b, us)
    BY <1>4, <2>1 DEF PseudolegalMoves
  <2>3. CASE m \in PawnMoves(b, us)
    BY <1>2, <1>3, <1>5, <1>6, <2>1, <2>3, PawnMovesFit
  <2>4. CASE m \in PieceMoves(b, us)
    BY <1>2, <1>3, <1>5, <1>6, <2>1, <2>4, PieceMovesFit
  <2>5. CASE m \in CastleMoves(b, us)
    BY <1>2, <1>3, <2>1, <2>5, CastleMovesFit
  <2> QED
    BY <2>2, <2>3, <2>4, <2>5
<1> QED
  BY <1>4, <1>6 DEF Suits
-----------------------------------------------------------------------------
(***************************************************************************)
(* The specification.                                                      *)
(***************************************************************************)
LEMMA LoadedWhole ==
  ASSUME NEW start \in Starts, Acceptable(start)
  PROVE  Whole(Loaded(start)) /\ Loaded(start).flags.halfMoveCount = 0
<1>1. PICK v, fl, ff :
        /\ v = start.values /\ ff = start.fifty
        /\ fl = FlagsOf(0, start.ep, empty, 0, FALSE, FALSE, start.side, start.rights)
  OBVIOUS
<1>2. /\ v \in Contents /\ start.side \in Colors /\ start.rights \in SUBSET Rights
      /\ start.ep \in Squares
  BY <1>1, StartsAssumption DEF Contents, Codes, king
<1>3. /\ fl.halfMoveCount = 0 /\ fl.ep = start.ep /\ fl.rights = start.rights
      /\ fl = FlagsOf(fl.halfMoveCount, fl.ep, fl.capture, fl.repeats, fl.check, fl.draw,
                      fl.side, fl.rights)
      /\ fl.side = start.side
  BY <1>1 DEF FlagsOf
<1>4. AreFlags(fl)
  BY <1>2, <1>3 DEF AreFlags, Squares
<1>5. Loaded(start) = Judged(State(v, fl, ff, {}, <<>>))
  <2>1. /\ BoardsOf(v)[white][0] \union BoardsOf(v)[black][0] = Filled(v)
        /\ ComputedKey(v, fl) = KeyIn(v, fl) /\ ComputedPawnKey(v, fl) = PawnKeyIn(v, fl)
    BY <1>2, OccupiedIsFilled, KeysAreWords DEF KeyIn, Key, PawnKeyIn, PawnKey
  <2>2. Loaded(start)
          = Judged([values |-> v, boards |-> BoardsOf(v), counts |-> CountsOf(BoardsOf(v)),
                    occupied |-> BoardsOf(v)[white][0] \union BoardsOf(v)[black][0],
                    key |-> ComputedKey(v, fl), pawnKey |-> ComputedPawnKey(v, fl),
                    flags |-> fl, fifty |-> ff, castled |-> {}, undoInfo |-> <<>>])
    BY Zenon, <1>1 DEF Loaded, FlagsOf
  <2> QED
    BY <2>1, <2>2 DEF State, Standing, Census
<1>6. PICK gl : /\ AreFlags(gl) /\ SameFlags(fl, gl) /\ Remembers(v, gl, ff, <<>>)
                /\ Loaded(start) = State(v, gl, ff, {}, <<>>)
  BY <1>4, <1>5, JudgedStands
<1>7. /\ gl.halfMoveCount = 0 /\ gl.ep = start.ep /\ gl.side = start.side
      /\ gl.rights = start.rights
  BY <1>3, <1>6 DEF SameFlags
<1>8. Homed(v, gl)
  BY <1>1, <1>7 DEF Homed, Acceptable
<1>9. Wholly(v, gl, ff, {}, <<>>)
  <2>1. IsSeq(<<>>) /\ Len(<<>>) = 0
    BY DEF IsSeq
  <2>2. Inside(v) /\ Crowned(v)
    BY <1>1, CrownedLoaded DEF Inside, Acceptable
  <2>3. ff \in Nat
    BY <1>1, StartsAssumption
  <2>4. EpReady(v, gl)
    <3>1. PICK e, us : e = start.ep /\ us = start.side
      OBVIOUS
    <3>2. e # 0 => /\ v[e] = Value(Flip(us), pawn)
                   /\ Row(e) = IF us = white THEN 4 ELSE 3
                   /\ v[e + 8 * Forward(us)] = empty
      BY <1>1, <3>1 DEF Acceptable
    <3>3. e \in Squares /\ us \in Colors
      BY <1>2, <3>1
    <3>4. e # 0 => e + 8 * Forward(us) \in Squares
      BY <3>2, <3>3 DEF Row, Squares, Forward, Colors, white, black
    <3>5. gl.ep = e /\ gl.side = us
      BY <1>7, <3>1
    <3> QED
      BY <3>2, <3>4, <3>5 DEF EpReady
  <2> QED
    BY <1>2, <1>6, <1>7, <1>8, <2>1, <2>2, <2>3, <2>4 DEF Wholly
<1>10. Loaded(start).flags = gl
  BY <1>6 DEF State, Standing
<1> QED
  BY <1>6, <1>7, <1>9, <1>10 DEF Whole

LEMMA WholeConsistent == Whole(board) => Consistent
<1> SUFFICES ASSUME Whole(board)
             PROVE  Consistent
  OBVIOUS
<1>1. PICK v, fl, ff, cs, u : board = State(v, fl, ff, cs, u) /\ Wholly(v, fl, ff, cs, u)
  BY DEF Whole
<1>2. v \in Contents
  BY <1>1 DEF Wholly
<1>3. /\ BoardsOf(v)[white][0] \union BoardsOf(v)[black][0] = Filled(v)
      /\ ComputedKey(v, fl) = KeyIn(v, fl) /\ ComputedPawnKey(v, fl) = PawnKeyIn(v, fl)
  BY <1>2, OccupiedIsFilled, KeysAreWords DEF KeyIn, Key, PawnKeyIn, PawnKey
<1>4. /\ board.values = v /\ board.boards = BoardsOf(v) /\ board.counts = CountsOf(BoardsOf(v))
      /\ board.occupied = Filled(v) /\ board.key = KeyIn(v, fl)
      /\ board.pawnKey = PawnKeyIn(v, fl) /\ board.flags = fl
  BY <1>1 DEF State, Standing, Census
<1> QED
  BY <1>3, <1>4 DEF Consistent

\* The boards of before each half move, up to b: all of them whole, each the one
\* that undoMove gives back from the next.
Backed(h, b) ==
  /\ IsSeq(h) /\ Whole(b) /\ Len(h) = b.flags.halfMoveCount
  /\ \A i \in 1 .. Len(h) :
       /\ Whole(h[i]) /\ h[i].flags.halfMoveCount = i - 1
       /\ Undone(IF i = Len(h) THEN b ELSE h[i + 1]) = h[i]

\* A move made on b with the history h, and one taken back.
Plays(h, b, m, more, after) ==
  /\ after = Made(b, m)
  /\ more = IF after.flags.halfMoveCount > b.flags.halfMoveCount THEN Append(h, b) ELSE h
TakesBack(h, b, less, before) == before = Undone(b) /\ less = SubSeq(h, 1, Len(h) - 1)

LEMMA BackedByMove ==
  ASSUME NEW h, NEW b, NEW m, NEW more, NEW after, Backed(h, b),
         Suits(b.values, b.flags, m), Plays(h, b, m, more, after)
  PROVE  Backed(more, after) /\ Len(more) >= Len(h) /\ (Len(more) = Len(h) => after = b)
<1> USE DEF Plays
<1>1. Whole(b) /\ IsSeq(h) /\ Len(h) = b.flags.halfMoveCount
  BY DEF Backed
<1>2. PICK played : played = Applied(b, m)
  OBVIOUS
<1>3. /\ Whole(played) /\ Undone(played) = b
      /\ played.flags.halfMoveCount = b.flags.halfMoveCount + 1
  BY <1>1, <1>2, WholeApplied
<1>4. Len(h) \in Nat /\ IsSeq(Append(h, b)) /\ Len(Append(h, b)) = Len(h) + 1
      /\ Append(h, b)[Len(h) + 1] = b /\ \A i \in 1 .. Len(h) : Append(h, b)[i] = h[i]
  BY <1>1, Appended
<1>5. after = IF MoverSafe(played) THEN played ELSE Undone(played)
  BY Zenon, <1>2 DEF Made
<1>6. CASE MoverSafe(played)
  <2>1. after = played /\ more = Append(h, b)
    BY <1>1, <1>3, <1>4, <1>5, <1>6
  <2>2. Len(more) = Len(h) + 1 /\ more[Len(h) + 1] = b /\ \A i \in 1 .. Len(h) : more[i] = h[i]
    BY <1>4, <2>1
  <2>3. ASSUME NEW i \in 1 .. Len(more)
        PROVE  /\ Whole(more[i]) /\ more[i].flags.halfMoveCount = i - 1
               /\ Undone(IF i = Len(more) THEN after ELSE more[i + 1]) = more[i]
    <3>1. CASE i = Len(h) + 1
      BY <1>1, <1>3, <1>4, <2>1, <2>2, <3>1
    <3>2. CASE i # Len(h) + 1
      <4>1. i \in 1 .. Len(h) /\ more[i] = h[i] /\ i # Len(more)
        BY <1>4, <2>2, <3>2
      <4>2. more[i + 1] = IF i = Len(h) THEN b ELSE h[i + 1]
        BY <1>4, <2>2, <4>1
      <4> QED
        BY <4>1, <4>2 DEF Backed
    <3> QED
      BY <3>1, <3>2
  <2>4. Backed(more, after)
    BY <1>1, <1>3, <1>4, <2>1, <2>2, <2>3 DEF Backed
  <2> QED
    BY <1>4, <2>2, <2>4
<1>7. CASE ~MoverSafe(played)
  <2>1. after = b
    BY <1>3, <1>5, <1>7
  <2>2. more = h
    BY <1>1, <1>4, <2>1
  <2> QED
    BY <1>4, <2>1, <2>2
<1> QED
  BY <1>6, <1>7

LEMMA BackedByUndo ==
  ASSUME NEW h, NEW b, NEW less, NEW before, Backed(h, b), b.flags.halfMoveCount # 0,
         TakesBack(h, b, less, before)
  PROVE  Backed(less, before) /\ Len(less) < Len(h) /\ before = h[Len(h)]
<1> USE DEF TakesBack
<1>1. PICK n : n = Len(h)
  OBVIOUS
<1>2. IsSeq(h) /\ n = b.flags.halfMoveCount
  BY <1>1 DEF Backed
<1>3. PICK S : h \in Seq(S)
  BY <1>2 DEF IsSeq
<1>4. n \in Nat /\ n # 0 /\ n \in 1 .. n
  <2>1. n \in Nat
    BY <1>1, <1>3
  <2>2. n # 0
    BY <1>2
  <2> QED
    BY <2>1, <2>2
<1>5. Whole(h[n]) /\ h[n].flags.halfMoveCount = n - 1 /\ Undone(b) = h[n]
  BY <1>1, <1>4 DEF Backed
<1>6. less \in Seq(S) /\ Len(less) = n - 1 /\ \A i \in 1 .. n - 1 : less[i] = h[i]
  BY <1>1, <1>3, <1>4, SubSeqProperties
<1>7. ASSUME NEW i \in 1 .. Len(less)
      PROVE  /\ Whole(less[i]) /\ less[i].flags.halfMoveCount = i - 1
             /\ Undone(IF i = Len(less) THEN before ELSE less[i + 1]) = less[i]
  <2>1. i \in 1 .. n /\ i # n /\ less[i] = h[i]
    BY <1>4, <1>6
  <2>2. (IF i = Len(less) THEN before ELSE less[i + 1]) = h[i + 1]
    BY <1>4, <1>5, <1>6, <2>1
  <2>3. Whole(h[i]) /\ h[i].flags.halfMoveCount = i - 1 /\ Undone(h[i + 1]) = h[i]
    BY <1>1, <2>1 DEF Backed
  <2> QED
    BY <2>1, <2>2, <2>3
<1>8. IsSeq(less)
  BY <1>6 DEF IsSeq
<1> QED
  BY <1>1, <1>4, <1>5, <1>6, <1>7, <1>8 DEF Backed

BackedInv == Backed(past, board)

LEMMA BackedInit == Init => BackedInv
<1> SUFFICES ASSUME Init
             PROVE  BackedInv
  OBVIOUS
<1>1. PICK start \in Starts : Acceptable(start) /\ board = Loaded(start) /\ past = <<>>
  BY DEF Init
<1>2. Whole(board) /\ board.flags.halfMoveCount = 0
  BY <1>1, LoadedWhole
<1>3. IsSeq(past) /\ Len(past) = 0
  BY <1>1 DEF IsSeq
<1> QED
  BY <1>2, <1>3 DEF BackedInv, Backed

LEMMA BackedNext == BackedInv /\ [Next]_vars => BackedInv' /\ (Restores \/ UNCHANGED vars)
<1> SUFFICES ASSUME BackedInv, [Next]_vars
             PROVE  BackedInv' /\ (Restores \/ UNCHANGED vars)
  OBVIOUS
<1>1. Backed(past, board)
  BY DEF BackedInv
<1>2. ASSUME NEW m, Suits(board.values, board.flags, m), board' = Made(board, m), Record
      PROVE  Backed(past', board') /\ Restores
  <2>1. /\ Backed(past', board') /\ Len(past') >= Len(past)
        /\ Len(past') = Len(past) => board' = board
    <3>1. PICK h, b, after, more :
            h = past /\ b = board /\ after = board' /\ more = past'
      OBVIOUS
    <3>2. Backed(h, b) /\ Suits(b.values, b.flags, m) /\ Plays(h, b, m, more, after)
      BY <1>1, <1>2, <3>1 DEF Record, Plays
    <3>3. Backed(more, after) /\ Len(more) >= Len(h) /\ (Len(more) = Len(h) => after = b)
      BY <3>2, BackedByMove
    <3> QED
      BY <3>1, <3>3
  <2>2. Len(past') \in Nat /\ Len(past) \in Nat
    BY <1>1, <2>1 DEF Backed, IsSeq
  <2> QED
    BY <2>1, <2>2 DEF Restores
<1>3. CASE MakeMove
  <2>1. PICK m \in PseudolegalMoves(board) : ~Refused(board, m) /\ board' = Made(board, m)
    BY <1>3 DEF MakeMove
  <2>2. Suits(board.values, board.flags, m)
    BY <1>1, <2>1, GeneratedSuits DEF Backed
  <2>3. Record
    BY <1>3 DEF MakeMove
  <2> QED
    BY <1>2, <2>1, <2>2, <2>3 DEF BackedInv
<1>4. CASE MakeNullMove
  <2>1. Suits(board.values, board.flags, Empty)
    BY DEF Suits
  <2>2. board' = Made(board, Empty) /\ Record
    BY <1>4 DEF MakeNullMove
  <2> QED
    BY <1>2, <2>1, <2>2 DEF BackedInv
<1>5. CASE UndoMove
  <2>1. /\ board.flags.halfMoveCount # 0 /\ board' = Undone(board)
        /\ past' = SubSeq(past, 1, Len(past) - 1)
    BY <1>5 DEF UndoMove
  <2>2. Backed(past', board') /\ Len(past') < Len(past) /\ board' = past[Len(past)]
    <3>1. PICK h, b, before, less :
            h = past /\ b = board /\ before = board' /\ less = past'
      OBVIOUS
    <3>2. Backed(h, b) /\ b.flags.halfMoveCount # 0 /\ TakesBack(h, b, less, before)
      BY <1>1, <2>1, <3>1 DEF TakesBack
    <3>3. Backed(less, before) /\ Len(less) < Len(h) /\ before = h[Len(h)]
      BY <3>2, BackedByUndo
    <3> QED
      BY <3>1, <3>3
  <2> QED
    BY <2>2 DEF BackedInv, Restores
<1>6. CASE UNCHANGED vars
  BY <1>1, <1>6 DEF BackedInv, vars
<1> QED
  BY <1>3, <1>4, <1>5, <1>6 DEF Next

\* Whatever moves are made, refused for the king they expose and taken back, the
\* sets, counts, occupancy and both keys are those that assertBoardConsistency()
\* rebuilds.
THEOREM BoardConsistent == Spec => []Consistent
<1>1. Init => BackedInv
  BY BackedInit
<1>2. BackedInv /\ [Next]_vars => BackedInv'
  BY BackedNext
<1>3. BackedInv => Consistent
  BY WholeConsistent DEF BackedInv, Backed
<1> QED
  BY <1>1, <1>2, <1>3, PTL DEF Spec

\* undoMove() gives back every field of the board of before the move, whatever the
\* move was, and so does makeMove() for a move it rejects.
THEOREM BoardsComeBack == Spec => TakingBackRestores
<1>1. Init => BackedInv
  BY BackedInit
<1>2. BackedInv /\ [Next]_vars => BackedInv' /\ [Restores]_vars
  BY BackedNext
<1> QED
  BY <1>1, <1>2, PTL DEF Spec, TakingBackRestores
-----------------------------------------------------------------------------
(***************************************************************************)
(* Repetitions: what a pawn move or a capture uses up for good.            *)
(***************************************************************************)
\* A man counts one, a pawn one more for each row before it.
Weight(x, s) == IF x = empty THEN 0
                ELSE IF x = pawn THEN 8 - Row(s)
                ELSE IF x = -pawn THEN 1 + Row(s) ELSE 1
Units(v) == {y \in Squares \X (1 .. 8) : y[2] <= Weight(v[y[1]], y[1])}
Potential(v) == Cardinality(Units(v))

LEMMA Weights ==
  ASSUME NEW s \in Squares
  PROVE  /\ \A x \in Codes : Weight(x, s) \in 0 .. 8 /\ (x # empty => Weight(x, s) >= 1)
         /\ Weight(empty, s) = 0
         /\ \A c \in Colors, p \in Kinds :
              /\ p # pawn => Weight(Value(c, p), s) = 1
              /\ Weight(Value(c, pawn), s) = IF c = white THEN 8 - Row(s) ELSE 1 + Row(s)
<1>1. Row(s) \in 0 .. 7
  BY DEF Row, Squares
<1>2. /\ Weight(empty, s) = 0
      /\ \A x \in Codes : Weight(x, s) \in 0 .. 8 /\ (x # empty => Weight(x, s) >= 1)
  BY <1>1 DEF Weight, Codes, empty, pawn
<1>3. \A c \in Colors, p \in Kinds :
        /\ p # pawn => Weight(Value(c, p), s) = 1
        /\ Weight(Value(c, pawn), s) = IF c = white THEN 8 - Row(s) ELSE 1 + Row(s)
  BY DEF Weight, Value, Colors, Kinds, white, black, empty, pawn
<1> QED
  BY <1>2, <1>3

LEMMA FiniteUnits ==
  ASSUME NEW S \in SUBSET (Squares \X (1 .. 8))
  PROVE  IsFiniteSet(S) /\ Cardinality(S) \in Nat
<1>1. IsFiniteSet(Squares)
  BY FiniteSquares
<1>2. IsFiniteSet(1 .. 8)
  <2>1. 1 \in Int /\ 8 \in Int
    OBVIOUS
  <2> QED
    BY <2>1, FS_Interval, Zenon
<1>3. IsFiniteSet(Squares \X (1 .. 8))
  BY <1>1, <1>2, FS_Product
<1> QED
  BY <1>3, FS_Subset, FS_CardinalityType

\* The units of one square.
LEMMA PileOf ==
  ASSUME NEW s \in Squares, NEW n \in 0 .. 8
  PROVE  /\ {s} \X (1 .. n) \in SUBSET (Squares \X (1 .. 8))
         /\ Cardinality({s} \X (1 .. n)) = n
<1>1. IsFiniteSet({s}) /\ Cardinality({s}) = 1
  BY FS_Singleton
<1>2. IsFiniteSet(1 .. n) /\ Cardinality(1 .. n) = n
  <2>1. 1 \in Int /\ n \in Int
    OBVIOUS
  <2>2. IsFiniteSet(1 .. n) /\ Cardinality(1 .. n) = IF 1 > n THEN 0 ELSE n - 1 + 1
    BY <2>1, FS_Interval, Zenon
  <2> QED
    BY <2>2
<1>3. Cardinality({s} \X (1 .. n)) = Cardinality({s}) * Cardinality(1 .. n)
  BY <1>1, <1>2, FS_Product, ZenonT(30)
<1> QED
  BY <1>1, <1>2, <1>3

LEMMA UnitsAt ==
  ASSUME NEW v \in Contents, NEW s \in Squares, NEW rest,
         rest = {y \in Units(v) : y[1] # s}
  PROVE  /\ Potential(v) = Cardinality(rest) + Weight(v[s], s)
         /\ Cardinality(rest) \in Nat
<1>1. PICK n : n = Weight(v[s], s) /\ n \in 0 .. 8
  BY Weights DEF Contents
<1>2. PICK pile : pile = {s} \X (1 .. n)
  OBVIOUS
<1>3. pile \in SUBSET (Squares \X (1 .. 8)) /\ Cardinality(pile) = n
  BY <1>1, <1>2, PileOf
<1>4. rest \in SUBSET (Squares \X (1 .. 8))
  BY DEF Units
<1>5. Units(v) = rest \union pile
  <2>1. \A y : y \in pile <=> y \in Squares \X (1 .. 8) /\ y[1] = s /\ y[2] <= n
    BY <1>1, <1>2
  <2>2. \A y : y \in Units(v) <=> y \in Squares \X (1 .. 8) /\ y[2] <= Weight(v[y[1]], y[1])
    BY DEF Units
  <2> QED
    BY <1>1, <2>1, <2>2
<1>6. rest \cap pile = {}
  BY <1>2
<1>7. Cardinality(rest \union pile)
        = Cardinality(rest) + Cardinality(pile) - Cardinality(rest \cap pile)
  BY <1>3, <1>4, FiniteUnits, FS_Union
<1>8. Cardinality({}) = 0
  BY FS_EmptySet
<1>9. Cardinality(rest) \in Nat
  BY <1>4, FiniteUnits
<1>10. Potential(v) = Cardinality(rest) + n - 0
  BY <1>3, <1>5, <1>6, <1>7, <1>8 DEF Potential
<1> QED
  BY <1>1, <1>9, <1>10

LEMMA PotentialPut ==
  ASSUME NEW v \in Contents, NEW s \in Squares, NEW x \in Codes, NEW w, w = Put(v, s, x)
  PROVE  /\ Potential(v) \in Nat /\ w \in Contents
         /\ Potential(w) = Potential(v) - Weight(v[s], s) + Weight(x, s)
<1>1. w \in Contents /\ w[s] = x /\ \A t \in Squares \ {s} : w[t] = v[t]
  BY PutAt
<1>2. PICK rest, less : /\ rest = {y \in Units(v) : y[1] # s}
                        /\ less = {y \in Units(w) : y[1] # s}
  OBVIOUS
<1>3. less = rest
  <2>1. \A y \in Squares \X (1 .. 8) : y[1] # s => w[y[1]] = v[y[1]]
    BY <1>1
  <2> QED
    BY <1>2, <2>1 DEF Units
<1>4. Potential(v) = Cardinality(rest) + Weight(v[s], s) /\ Cardinality(rest) \in Nat
  BY <1>2, UnitsAt
<1>5. Potential(w) = Cardinality(rest) + Weight(x, s)
  BY <1>1, <1>2, <1>3, UnitsAt
<1>6. Weight(v[s], s) \in 0 .. 8 /\ Weight(x, s) \in 0 .. 8
  BY Weights DEF Contents
<1> QED
  BY <1>1, <1>4, <1>5, <1>6

LEMMA ArrivedPotential ==
  ASSUME NEW v \in Contents, NEW us \in Colors, NEW p \in Kinds, NEW m, Goes(v, us, p, m)
  PROVE  /\ Arrived(v, m) \in Contents
         /\ Potential(v) \in Nat
         /\ Potential(Arrived(v, m))
              = Potential(v) - Weight(v[m.to], m.to) - Weight(Value(us, p), m.from)
                  + Weight(Value(us, p), m.to)
<1>1. PICK from, to, x, w, z, r :
        /\ from = m.from /\ to = m.to /\ x = Value(us, p) /\ w = Put(v, to, empty)
        /\ z = Put(w, from, empty) /\ r = Put(z, to, x)
  OBVIOUS
<1>2. from \in Squares /\ to \in Squares /\ from # to /\ v[from] = x /\ x \in Codes
      /\ empty \in Codes
  BY <1>1, AtIsWord, Codings DEF Goes
<1>3. Arrived(v, m) = r
  BY <1>1, <1>2 DEF Arrived
<1>4. /\ w \in Contents /\ w[from] = x /\ w[to] = empty /\ Potential(v) \in Nat
      /\ Potential(w) = Potential(v) - Weight(v[to], to) + Weight(empty, to)
  BY <1>1, <1>2, PotentialPut, PutAt
<1>5. /\ z \in Contents /\ z[to] = empty
      /\ Potential(z) = Potential(w) - Weight(x, from) + Weight(empty, from)
  <2>1. z[to] = empty
    BY <1>1, <1>2, <1>4, PutAt
  <2> QED
    BY <1>1, <1>2, <1>4, <2>1, PotentialPut
<1>6. /\ r \in Contents
      /\ Potential(r) = Potential(z) - Weight(empty, to) + Weight(x, to)
  BY <1>1, <1>2, <1>5, PotentialPut
<1>7. Weight(v[to], to) \in 0 .. 8 /\ Weight(x, from) \in 0 .. 8 /\ Weight(x, to) \in 0 .. 8
      /\ Weight(empty, to) = 0 /\ Weight(empty, from) = 0
  BY <1>2, Weights DEF Contents
<1> QED
  BY <1>1, <1>3, <1>4, <1>5, <1>6, <1>7

\* What a move uses up.
LEMMA PotentialAfter ==
  ASSUME NEW v \in Contents, NEW fl, NEW us, NEW p, NEW m, NEW w,
         AreFlags(fl), us = fl.side, Fits(v, fl, p, m), w = After(v, us, p, m)
  PROVE  /\ Potential(v) \in Nat /\ Potential(w) \in Nat
         /\ Potential(w) <= Potential(v)
         /\ p = pawn \/ v[m.to] # empty => Potential(w) < Potential(v)
<1>1. PICK from, to, x, r :
        from = m.from /\ to = m.to /\ x = Value(us, p) /\ r = Arrived(v, m)
  OBVIOUS
<1>2. /\ us \in Colors /\ p \in Kinds /\ Goes(v, us, p, m) /\ from \in Squares
      /\ to \in Squares /\ from # to /\ v[from] = x /\ Flip(us) \in Colors
  BY <1>1 DEF Fits, AreFlags, Goes, Flip, Colors, white, black
<1>3. /\ r \in Contents /\ Potential(v) \in Nat
      /\ Potential(r) = Potential(v) - Weight(v[to], to) - Weight(x, from) + Weight(x, to)
  BY <1>1, <1>2, ArrivedPotential
<1>4. /\ r[to] = x /\ r[from] = empty /\ \A s \in Squares \ {from, to} : r[s] = v[s]
  <2>1. PICK y : y = Put(v, m.to, empty)
    OBVIOUS
  <2> QED
    BY <1>1, <1>2, <2>1, ArrivedAt
<1>5. /\ Weight(v[to], to) \in 0 .. 8 /\ Weight(x, from) \in 0 .. 8 /\ Weight(x, to) \in 0 .. 8
      /\ v[to] # empty => Weight(v[to], to) >= 1
  <2>1. x \in Codes /\ v[to] \in Codes
    BY <1>1, <1>2, Codings DEF Contents
  <2> QED
    BY <1>2, <2>1, Weights
<1>6. p = pawn => Weight(x, to) < Weight(x, from)
  <2>1. ASSUME p = pawn
        PROVE  (Row(to) - Row(from)) * Forward(us) > 0
    BY <1>1, <2>1 DEF Fits
  <2>2. Row(to) \in Int /\ Row(from) \in Int
    BY <1>2 DEF Row, Squares
  <2>3. ASSUME p = pawn
        PROVE  IF us = white THEN Row(to) > Row(from) ELSE Row(to) < Row(from)
    BY <1>2, <2>1, <2>2, <2>3 DEF Forward, Colors
  <2>4. ASSUME p = pawn
        PROVE  /\ Weight(x, to) = IF us = white THEN 8 - Row(to) ELSE 1 + Row(to)
               /\ Weight(x, from) = IF us = white THEN 8 - Row(from) ELSE 1 + Row(from)
    BY <1>1, <1>2, <2>4, Weights
  <2> QED
    BY <2>2, <2>3, <2>4
<1>7. p # pawn => Weight(x, to) = 1 /\ Weight(x, from) = 1
  BY <1>1, <1>2, Weights
<1>8. /\ Potential(r) \in Nat /\ Potential(r) <= Potential(v)
      /\ p = pawn \/ v[to] # empty => Potential(r) < Potential(v)
  <2>1. r \in Contents /\ Potential(r) \in Nat
    BY <1>3, PotentialPut, <1>2, AtIsWord
  <2> QED
    BY <1>3, <1>5, <1>6, <1>7, <2>1
<1>9. CASE Castles(p, m)
  <2>1. PICK here, there, y :
          /\ here = RookFrom(us, m) /\ there = RookTo(us, m) /\ y = Put(r, here, empty)
          /\ w = Put(y, there, Value(us, rook))
    BY <1>1, <1>9 DEF After
  <2>2. /\ here \in Squares \ {from, to} /\ there \in Squares \ {from, to, here}
        /\ v[here] = Value(us, rook) /\ v[there] = empty
    BY <1>1, <1>9, <2>1 DEF Fits
  <2>3. empty \in Codes /\ Value(us, rook) \in Codes /\ rook \in Kinds /\ rook # pawn
    BY <1>2, AtIsWord, Codings, KindsApart
  <2>4. /\ y \in Contents /\ y[there] = empty
        /\ Potential(y) = Potential(r) - Weight(Value(us, rook), here) + Weight(empty, here)
    BY <1>3, <1>4, <2>1, <2>2, <2>3, PotentialPut, PutAt
  <2>5. Potential(w) = Potential(y) - Weight(empty, there) + Weight(Value(us, rook), there)
    BY <2>1, <2>2, <2>3, <2>4, PotentialPut
  <2>6. /\ Weight(Value(us, rook), here) = 1 /\ Weight(Value(us, rook), there) = 1
        /\ Weight(empty, here) = 0 /\ Weight(empty, there) = 0
    BY <1>2, <2>2, <2>3, Weights
  <2> QED
    BY <1>1, <1>3, <1>8, <2>4, <2>5, <2>6
<1>10. CASE ~Castles(p, m) /\ m.promo # 0
  <2>1. PICK y : y = Value(us, m.promo) /\ w = Put(r, to, y)
    BY <1>1, <1>10 DEF After
  <2>2. p = pawn /\ m.promo \in Kinds \ {pawn, king}
    BY <1>10 DEF Fits
  <2>3. y \in Codes /\ Weight(y, to) = 1 /\ Weight(x, to) >= 1
    <3>1. x # empty /\ x \in Codes
      BY <1>1, <1>2, Codings
    <3> QED
      BY <1>2, <2>1, <2>2, <3>1, Codings, Weights
  <2>4. Potential(w) = Potential(r) - Weight(x, to) + Weight(y, to)
    BY <1>2, <1>3, <1>4, <2>1, <2>3, PotentialPut
  <2>5. Potential(w) \in Nat
    BY <1>2, <1>3, <2>1, <2>3, PotentialPut
  <2> QED
    BY <1>1, <1>3, <1>5, <1>8, <2>3, <2>4, <2>5
<1>11. CASE ~Castles(p, m) /\ m.promo = 0 /\ TakesInPassing(v, us, p, m)
  <2>1. PICK square : square = Behind(us, m) /\ w = Put(r, square, empty)
    BY <1>1, <1>11 DEF After
  <2>2. square \in Squares /\ empty \in Codes
    BY <1>11, <2>1 DEF Fits, empty, Codes
  <2>3. /\ Potential(w) = Potential(r) - Weight(r[square], square) + Weight(empty, square)
        /\ w \in Contents
    BY <1>3, <2>1, <2>2, PotentialPut
  <2>4. Weight(r[square], square) \in 0 .. 8 /\ Weight(empty, square) = 0
    BY <1>3, <2>2, Weights DEF Contents
  <2>5. Potential(w) \in Nat
    BY <2>2, <2>3, PotentialPut
  <2> QED
    BY <1>1, <1>3, <1>8, <2>3, <2>4, <2>5
<1>12. CASE ~Castles(p, m) /\ m.promo = 0 /\ ~TakesInPassing(v, us, p, m)
  BY <1>1, <1>3, <1>8, <1>12 DEF After
<1> QED
  BY <1>9, <1>10, <1>11, <1>12

\* What a half move of the colour us leaves of the squares v: the mover's square
\* is left empty, and no enemy's man appears.
Stepped(v, us, w, m) ==
  IF m = Empty THEN w = v
  ELSE \E from \in Squares :
         /\ v[from] * Forward(us) > 0 /\ w[from] = empty
         /\ \A s \in Squares : w[s] = v[s] \/ ~(w[s] * Forward(Flip(us)) > 0)

LEMMA SteppedAfter ==
  ASSUME NEW v \in Contents, NEW fl, NEW us, NEW p, NEW m, NEW w,
         AreFlags(fl), us = fl.side, Fits(v, fl, p, m), w = After(v, us, p, m), m # Empty
  PROVE  Stepped(v, us, w, m)
<1>1. PICK from : from = m.from
  OBVIOUS
<1>2. /\ us \in Colors /\ p \in Kinds /\ from \in Squares /\ m.to \in Squares
      /\ v[from] = Value(us, p) /\ Flip(us) \in Colors
  BY <1>1 DEF Fits, AreFlags, Goes, Flip, Colors, white, black
<1>3. v[from] * Forward(us) > 0
  BY <1>2, Codings
<1>4. \A q \in Kinds : ~(Value(us, q) * Forward(Flip(us)) > 0)
  BY <1>2, Codings
<1>5. ~(empty * Forward(Flip(us)) > 0)
  BY <1>2, Codings
<1>6. CASE Castles(p, m)
  <2>1. HasCastled(v, fl, us, p, m, w)
    BY <1>6, AfterCastle
  <2>2. PICK here, there :
          /\ w[from] = empty /\ w[m.to] = Value(us, king) /\ w[here] = empty
          /\ w[there] = Value(us, rook)
          /\ \A s \in Squares \ {from, m.to, here, there} : w[s] = v[s]
    BY <1>1, <2>1 DEF HasCastled
  <2> QED
    BY <1>2, <1>3, <1>4, <1>5, <2>2, KindsApart DEF Stepped
<1>7. CASE ~Castles(p, m)
  <2>1. PICK q : q = IF m.promo # 0 THEN m.promo ELSE p
    OBVIOUS
  <2>2. /\ w[m.from] = empty /\ w[m.to] = Value(us, q)
        /\ m.promo # 0 => p = pawn /\ m.promo \in Kinds \ {pawn, king}
        /\ m.promo # 0 \/ ~TakesInPassing(v, us, p, m) =>
             \A s \in Squares \ {m.from, m.to} : w[s] = v[s]
        /\ m.promo = 0 /\ TakesInPassing(v, us, p, m) =>
             /\ w[Behind(us, m)] = empty
             /\ \A s \in Squares \ {m.from, m.to, Behind(us, m)} : w[s] = v[s]
    BY <1>7, <2>1, AfterOther
  <2>3. q \in Kinds
    BY <1>2, <2>1, <2>2
  <2>4. PICK square : /\ w[square] = empty \/ square = from
                      /\ \A s \in Squares \ {from, m.to, square} : w[s] = v[s]
    BY <1>1, <2>2
  <2>5. w[from] = empty /\ w[m.to] = Value(us, q)
    BY <1>1, <2>2
  <2> QED
    BY <1>2, <1>3, <1>4, <1>5, <2>3, <2>4, <2>5 DEF Stepped
<1> QED
  BY <1>6, <1>7

\* Nothing comes back after one half move of each side, but if neither moves.
LEMMA TwoSteps ==
  ASSUME NEW x \in Contents, NEW v \in Contents, NEW w \in Contents, NEW us \in Colors,
         NEW m, NEW n, Stepped(x, us, v, m), Stepped(v, Flip(us), w, n),
         ~(m = Empty /\ n = Empty)
  PROVE  w # x
<1>1. Flip(us) \in Colors /\ Flip(Flip(us)) = us
  BY DEF Flip, Colors, white, black
<1>2. ~(empty * Forward(us) > 0) /\ ~(empty * Forward(Flip(us)) > 0)
  BY <1>1, KindsApart, Codings
<1>3. CASE m # Empty
  <2>1. PICK from \in Squares : x[from] * Forward(us) > 0 /\ v[from] = empty
    BY <1>3 DEF Stepped
  <2>2. w[from] = v[from] \/ ~(w[from] * Forward(us) > 0)
    BY <1>1, <2>1 DEF Stepped
  <2> QED
    BY <1>2, <2>1, <2>2
<1>4. CASE m = Empty
  <2>1. v = x /\ n # Empty
    BY <1>4 DEF Stepped
  <2>2. PICK from \in Squares : v[from] * Forward(Flip(us)) > 0 /\ w[from] = empty
    BY <2>1 DEF Stepped
  <2> QED
    BY <1>2, <2>1, <2>2
<1> QED
  BY <1>3, <1>4
-----------------------------------------------------------------------------
(***************************************************************************)
(* A key tells everything of a position but the side and the row of the    *)
(* pawn that can be taken in passing, which the side tells.                *)
(***************************************************************************)
LEMMA KeyTells ==
  ASSUME NEW v \in Contents, NEW fl, AreFlags(fl), NEW key, key = KeyIn(v, fl)
  PROVE  /\ \A s \in Squares, x \in AnyMan : Word(x, s) \in key <=> v[s] = x
         /\ \A r \in Rights : Absent(r) \in key <=> r \notin fl.rights
         /\ \A c : <<"ep", c, 0>> \in key <=> fl.ep # 0 /\ Column(fl.ep) = c
<1>1. PICK others : others = Others(fl.rights, fl.ep)
  OBVIOUS
<1>2. key = Words(v, AnyMan) \union others
  BY <1>1 DEF KeyIn, Key
<1>3. \A s, x : Word(x, s) \notin others
  BY <1>1, OthersAreNoWords
<1>4. \A s \in Squares, x \in AnyMan : Word(x, s) \in Words(v, AnyMan) <=> v[s] = x
  BY WordsEqual DEF Words
<1>5. \A r \in Rights : r[2] \in {"king", "queen"} /\ r = <<r[1], r[2]>>
  BY DEF Rights, Sides
<1>6. \A r \in Rights : Absent(r) \notin Words(v, AnyMan) /\ Absent(r) \notin EnPassant(fl.ep)
  BY <1>5 DEF Words, Word, Absent, EnPassant
<1>7. \A r \in Rights, q \in Rights : Absent(r) = Absent(q) => r = q
  BY <1>5 DEF Absent
<1>8. \A r \in Rights : Absent(r) \in others <=> r \notin fl.rights
  BY <1>1, <1>6, <1>7 DEF Others
<1>9. \A c : <<"ep", c, 0>> \notin Words(v, AnyMan)
  BY DEF Words, Word
<1>10. \A c : \A r \in Rights : <<"ep", c, 0>> # Absent(r)
  BY <1>5 DEF Absent
<1>11. \A c : <<"ep", c, 0>> \in EnPassant(fl.ep) <=> fl.ep # 0 /\ Column(fl.ep) = c
  BY DEF EnPassant
<1>12. \A c : <<"ep", c, 0>> \in others <=> fl.ep # 0 /\ Column(fl.ep) = c
  BY <1>1, <1>10, <1>11 DEF Others
<1> QED
  BY <1>2, <1>3, <1>4, <1>6, <1>8, <1>9, <1>12

LEMMA SameKeys ==
  ASSUME NEW v \in Contents, NEW fl, NEW w \in Contents, NEW gl, AreFlags(fl), AreFlags(gl),
         EpReady(v, fl), EpReady(w, gl), fl.side = gl.side, KeyIn(v, fl) = KeyIn(w, gl)
  PROVE  w = v /\ gl.rights = fl.rights /\ gl.ep = fl.ep
<1>1. PICK key : key = KeyIn(v, fl) /\ key = KeyIn(w, gl)
  OBVIOUS
<1>2. /\ \A s \in Squares, x \in AnyMan : Word(x, s) \in key <=> v[s] = x
      /\ \A r \in Rights : Absent(r) \in key <=> r \notin fl.rights
      /\ \A c : <<"ep", c, 0>> \in key <=> fl.ep # 0 /\ Column(fl.ep) = c
  BY <1>1, KeyTells
<1>3. /\ \A s \in Squares, x \in AnyMan : Word(x, s) \in key <=> w[s] = x
      /\ \A r \in Rights : Absent(r) \in key <=> r \notin gl.rights
      /\ \A c : <<"ep", c, 0>> \in key <=> gl.ep # 0 /\ Column(gl.ep) = c
  BY <1>1, KeyTells
<1>4. ASSUME NEW s \in Squares
      PROVE  w[s] = v[s]
  <2>1. v[s] \in AnyMan \union {empty} /\ w[s] \in AnyMan \union {empty}
    BY DEF Contents, AnyMan
  <2>2. empty \notin AnyMan
    BY DEF AnyMan
  <2>3. \A x \in AnyMan : v[s] = x <=> w[s] = x
    BY <1>2, <1>3
  <2> QED
    BY <2>1, <2>2, <2>3
<1>5. w = v
  BY <1>4, ContentsEqual
<1>6. gl.rights = fl.rights
  BY <1>2, <1>3 DEF AreFlags
<1>7. \A c : (fl.ep # 0 /\ Column(fl.ep) = c) <=> (gl.ep # 0 /\ Column(gl.ep) = c)
  BY <1>2, <1>3
<1>8. gl.ep = fl.ep
  <2>1. CASE fl.ep = 0
    BY <1>7, <2>1
  <2>2. CASE fl.ep # 0
    <3>1. gl.ep # 0 /\ Column(gl.ep) = Column(fl.ep)
      BY <1>7, <2>2
    <3>2. Row(gl.ep) = Row(fl.ep)
      BY <2>2, <3>1 DEF EpReady
    <3>3. PICK e, g : e = fl.ep /\ g = gl.ep /\ e \in Squares /\ g \in Squares
      BY DEF AreFlags
    <3>4. \A s \in Squares : s = 8 * Row(s) + Column(s)
      BY DEF Row, Column, Squares
    <3>5. e = 8 * Row(e) + Column(e) /\ g = 8 * Row(g) + Column(g)
      BY <3>3, <3>4
    <3> QED
      BY <3>1, <3>2, <3>3, <3>5
  <2> QED
    BY <2>1, <2>2
<1> QED
  BY <1>5, <1>6, <1>8
-----------------------------------------------------------------------------
(***************************************************************************)
(* One half move, and all those before it.                                 *)
(***************************************************************************)
\* What a half move from b to after says to the count of repetitions.
Yields(b, m, after) ==
  /\ \E e : e.key = b.key /\ e.move = m /\ after.undoInfo = Append(b.undoInfo, e)
  /\ b.flags.side \in Colors /\ after.flags.side = Flip(b.flags.side)
  /\ Stepped(b.values, b.flags.side, after.values, m)
  /\ Potential(b.values) \in Nat /\ Potential(after.values) \in Nat
  /\ Potential(after.values) <= Potential(b.values)
  /\ \/ after.fifty = b.fifty + 1
     \/ after.fifty = 0 /\ Potential(after.values) < Potential(b.values)

LEMMA StateFields ==
  ASSUME NEW v, NEW fl, NEW ff, NEW cs, NEW u, NEW b, b = State(v, fl, ff, cs, u)
  PROVE  /\ b.values = v /\ b.flags = fl /\ b.fifty = ff /\ b.undoInfo = u
         /\ b.key = KeyIn(v, fl)
BY DEF State, Standing

LEMMA YieldsSo ==
  ASSUME NEW b, NEW m, Whole(b), Suits(b.values, b.flags, m), NEW after, after = Applied(b, m)
  PROVE  Yields(b, m, after)
<1>1. PICK v, fl, ff, cs, u : b = State(v, fl, ff, cs, u) /\ Wholly(v, fl, ff, cs, u)
  BY DEF Whole
<1>2. b.values = v /\ b.flags = fl /\ b.fifty = ff /\ b.undoInfo = u /\ b.key = KeyIn(v, fl)
  BY <1>1, StateFields
<1>3. v \in Contents /\ AreFlags(fl) /\ fl.side \in Colors
  BY <1>1 DEF Wholly, AreFlags
<1>4. PICK us, e : us = fl.side /\ e = Entry(v, fl, ff, m)
  OBVIOUS
<1>5. e.key = KeyIn(v, fl) /\ e.move = m
  BY <1>4 DEF Entry
<1>6. CASE m = Empty
  <2>1. PassesTo(v, fl, ff, cs, u, after)
    BY <1>1, <1>3, <1>6, AppliedNull
  <2>2. PICK more : more = Append(u, e)
    OBVIOUS
  <2>3. PICK gl, gf :
          /\ gf = ff + 1 /\ gl.side = Flip(fl.side)
          /\ after = State(v, gl, gf, cs, more)
    BY <1>4, <1>6, <2>1, <2>2 DEF PassesTo
  <2>4. /\ after.values = v /\ after.flags = gl /\ after.fifty = gf
        /\ after.undoInfo = more
    BY <2>3, StateFields
  <2>5. Potential(v) \in Nat
    <3>1. 0 \in Squares /\ empty \in Codes
      BY DEF Squares, Codes, empty
    <3> QED
      BY <1>3, <3>1, PotentialPut
  <2>6. Stepped(v, us, v, m)
    BY <1>6 DEF Stepped
  <2> QED
    BY <1>2, <1>3, <1>4, <1>5, <2>2, <2>3, <2>4, <2>5, <2>6 DEF Yields
<1>7. CASE m # Empty
  <2>1. PICK p : Fits(v, fl, p, m)
    BY <1>2, <1>7 DEF Suits
  <2>2. MakesOf(v, fl, ff, cs, u, us, p, m, after)
    BY <1>1, <1>3, <1>4, <1>7, <2>1, AppliedMove
  <2>3. PICK w, more : w = After(v, us, p, m) /\ more = Append(u, e)
    OBVIOUS
  <2>4. PICK gl, gf, ds :
          /\ gf = Clock(v, p, m, ff + 1) /\ gl.side = Flip(us)
          /\ after = State(w, gl, gf, ds, more)
    BY <1>4, <2>2, <2>3 DEF MakesOf
  <2>5. /\ after.values = w /\ after.flags = gl /\ after.fifty = gf
        /\ after.undoInfo = more
    BY <2>4, StateFields
  <2>6. /\ Potential(v) \in Nat /\ Potential(w) \in Nat /\ Potential(w) <= Potential(v)
        /\ p = pawn \/ v[m.to] # empty => Potential(w) < Potential(v)
    BY <1>3, <1>4, <2>1, <2>3, PotentialAfter
  <2>7. Stepped(v, us, w, m)
    BY <1>3, <1>4, <1>7, <2>1, <2>3, SteppedAfter
  <2>8. gf = ff + 1 \/ (gf = 0 /\ Potential(w) < Potential(v))
    BY <2>4, <2>6 DEF Clock
  <2> QED
    BY <1>2, <1>3, <1>4, <1>5, <2>3, <2>4, <2>5, <2>6, <2>7, <2>8 DEF Yields
<1> QED
  BY <1>6, <1>7

\* What is known of b and the n boards before it.
Follows(h, n, b) ==
  /\ b.flags.side \in Colors /\ b.fifty \in Nat /\ Potential(b.values) \in Nat
  /\ \A i \in 1 .. n :
       /\ b.undoInfo[i].key = h[i].key
       /\ h[i].flags.side = IF (n + 1 - i) % 2 = 0 THEN b.flags.side ELSE Flip(b.flags.side)
       /\ Potential(h[i].values) \in Nat
       /\ Potential(b.values) <= Potential(h[i].values)
       /\ i - 1 < n - b.fifty => Potential(b.values) < Potential(h[i].values)
  /\ n >= 1 => Stepped(h[n].values, h[n].flags.side, b.values, b.undoInfo[n].move)
  /\ n >= 2 => Stepped(h[n - 1].values, h[n - 1].flags.side, h[n].values,
                       b.undoInfo[n - 1].move)

LEMMA FollowsAlike ==
  ASSUME NEW h, NEW g, NEW n \in Nat, NEW b, \A i \in 1 .. n : g[i] = h[i], Follows(h, n, b)
  PROVE  Follows(g, n, b)
<1>1. n >= 1 => g[n] = h[n]
  OBVIOUS
<1>2. n >= 2 => g[n - 1] = h[n - 1]
  OBVIOUS
<1>3. \A i \in 1 .. n : g[i] = h[i]
  OBVIOUS
<1> QED
  BY <1>1, <1>2, <1>3 DEF Follows

LEMMA FollowsOn ==
  ASSUME NEW h, NEW n \in Nat, NEW b, NEW m, NEW g, NEW after, Follows(h, n, b),
         Yields(b, m, after), \A i \in 1 .. n : g[i] = h[i], g[n + 1] = b,
         IsSeq(b.undoInfo), Len(b.undoInfo) = n
  PROVE  Follows(g, n + 1, after)
<1>1. PICK e, u, more : /\ u = b.undoInfo /\ more = Append(u, e) /\ after.undoInfo = more
                        /\ e.key = b.key /\ e.move = m
  BY DEF Yields
<1>2. more[n + 1] = e /\ \A i \in 1 .. n : more[i] = u[i]
  BY <1>1, Appended
<1>3. PICK us, f, pb, pa : /\ us = b.flags.side /\ f = b.fifty /\ pb = Potential(b.values)
                           /\ pa = Potential(after.values)
  OBVIOUS
<1>4. /\ us \in Colors /\ after.flags.side = Flip(us) /\ pb \in Nat /\ pa \in Nat
      /\ pa <= pb /\ f \in Nat
      /\ after.fifty = f + 1 \/ (after.fifty = 0 /\ pa < pb)
      /\ Flip(us) \in Colors /\ Flip(Flip(us)) = us
  BY <1>3 DEF Yields, Follows, Flip, Colors, white, black
<1>8. PICK k : k = n + 1 /\ k - 1 = n /\ k \in Nat
  OBVIOUS
<1>5. ASSUME NEW i \in 1 .. k
      PROVE  /\ more[i].key = g[i].key
             /\ g[i].flags.side = IF (k + 1 - i) % 2 = 0 THEN Flip(us) ELSE us
             /\ Potential(g[i].values) \in Nat
             /\ pa <= Potential(g[i].values)
             /\ i - 1 < k - after.fifty => pa < Potential(g[i].values)
  <2>1. CASE i = n + 1
    <3>1. (k + 1 - i) % 2 = 1 /\ i - 1 = n
      BY <1>8, <2>1
    <3> QED
      BY <1>1, <1>2, <1>3, <1>4, <1>8, <2>1, <3>1
  <2>2. CASE i # n + 1
    <3>1. i \in 1 .. n
      BY <1>8, <2>2
    <3>2. (k + 1 - i) % 2 = 0 <=> (n + 1 - i) % 2 # 0
      BY <1>8, <3>1
    <3>3. more[i] = u[i] /\ g[i] = h[i]
      BY <1>2, <3>1
    <3>4. PICK ph : ph = Potential(h[i].values)
      OBVIOUS
    <3>5. /\ u[i].key = h[i].key
          /\ h[i].flags.side = IF (n + 1 - i) % 2 = 0 THEN us ELSE Flip(us)
          /\ ph \in Nat /\ pb <= ph
          /\ i - 1 < n - f => pb < ph
      BY <1>1, <1>3, <3>1, <3>4 DEF Follows
    <3>6. pa <= ph
      BY <1>4, <3>5
    <3>7. i - 1 < k - after.fifty => pa < ph
      BY <1>4, <1>8, <3>1, <3>5
    <3> QED
      BY <3>2, <3>3, <3>4, <3>5, <3>6, <3>7
  <2> QED
    BY <2>1, <2>2
<1>6. Stepped(g[n + 1].values, g[n + 1].flags.side, after.values, after.undoInfo[n + 1].move)
  BY <1>1, <1>2 DEF Yields
<1>7. n + 1 >= 2 => Stepped(g[n].values, g[n].flags.side, g[n + 1].values,
                            after.undoInfo[n].move)
  <2> SUFFICES ASSUME n + 1 >= 2
               PROVE  Stepped(g[n].values, g[n].flags.side, g[n + 1].values,
                              after.undoInfo[n].move)
    OBVIOUS
  <2>1. n \in 1 .. n /\ n >= 1
    OBVIOUS
  <2>2. g[n] = h[n] /\ after.undoInfo[n] = u[n]
    BY <1>1, <1>2, <2>1
  <2> QED
    BY <1>1, <2>1, <2>2 DEF Follows
<1>9. ASSUME NEW i \in 1 .. k
      PROVE  /\ after.undoInfo[i].key = g[i].key
             /\ g[i].flags.side
                  = IF (k + 1 - i) % 2 = 0 THEN after.flags.side ELSE Flip(after.flags.side)
             /\ Potential(g[i].values) \in Nat
             /\ Potential(after.values) <= Potential(g[i].values)
             /\ i - 1 < k - after.fifty => Potential(after.values) < Potential(g[i].values)
  <2>2. /\ more[i].key = g[i].key
        /\ g[i].flags.side = IF (k + 1 - i) % 2 = 0 THEN Flip(us) ELSE us
        /\ Potential(g[i].values) \in Nat /\ pa <= Potential(g[i].values)
        /\ i - 1 < k - after.fifty => pa < Potential(g[i].values)
    BY <1>5
  <2>3. after.flags.side = Flip(us) /\ Flip(after.flags.side) = us
    BY <1>4
  <2> QED
    BY <1>1, <1>3, <2>2, <2>3
<1>10. /\ after.flags.side \in Colors /\ after.fifty \in Nat
       /\ Potential(after.values) \in Nat
  BY <1>3, <1>4
<1>11. /\ Stepped(g[k].values, g[k].flags.side, after.values, after.undoInfo[k].move)
       /\ k >= 2 => Stepped(g[k - 1].values, g[k - 1].flags.side, g[k].values,
                            after.undoInfo[k - 1].move)
  BY <1>6, <1>7, <1>8
<1>12. Follows(g, k, after)
  BY <1>9, <1>10, <1>11 DEF Follows
<1> QED
  BY <1>8, <1>12

\* The boards of before each half move, up to b, with what each knows of those
\* before it.
Chronicle(h, b) ==
  Backed(h, b) /\ Follows(h, Len(h), b) /\ \A i \in 1 .. Len(h) : Follows(h, i - 1, h[i])

LEMMA LengthsAgree ==
  ASSUME NEW h, NEW b, Backed(h, b)
  PROVE  IsSeq(b.undoInfo) /\ Len(b.undoInfo) = Len(h) /\ Len(h) \in Nat
<1>1. IsSeq(h) /\ Whole(b) /\ Len(h) = b.flags.halfMoveCount
  BY DEF Backed
<1>2. PICK v, fl, ff, cs, u : b = State(v, fl, ff, cs, u) /\ Wholly(v, fl, ff, cs, u)
  BY <1>1 DEF Whole
<1>3. b.undoInfo = u /\ b.flags = fl
  BY <1>2, StateFields
<1>4. IsSeq(u) /\ Len(u) = fl.halfMoveCount
  BY <1>2 DEF Wholly
<1>5. Len(h) \in Nat
  BY <1>1 DEF IsSeq
<1> QED
  BY <1>1, <1>3, <1>4, <1>5

LEMMA ChronicleByMove ==
  ASSUME NEW h, NEW b, NEW m, NEW more, NEW after, Chronicle(h, b),
         Suits(b.values, b.flags, m), Plays(h, b, m, more, after)
  PROVE  Chronicle(more, after)
<1>1. Backed(h, b) /\ Backed(more, after)
  BY BackedByMove DEF Chronicle
<1>2. PICK n : n = Len(h)
  OBVIOUS
<1>3. IsSeq(b.undoInfo) /\ Len(b.undoInfo) = n /\ n \in Nat /\ Whole(b) /\ IsSeq(h)
      /\ n = b.flags.halfMoveCount
  BY <1>1, <1>2, LengthsAgree DEF Backed
<1>4. PICK played : played = Applied(b, m)
  OBVIOUS
<1>5. /\ Undone(played) = b /\ played.flags.halfMoveCount = n + 1
  BY <1>3, <1>4, WholeApplied
<1>6. after = IF MoverSafe(played) THEN played ELSE b
  <2>1. after = Made(b, m)
    BY DEF Plays
  <2> QED
    BY Zenon, <1>4, <1>5, <2>1 DEF Made
<1>7. more = IF after.flags.halfMoveCount > n THEN Append(h, b) ELSE h
  BY <1>3 DEF Plays
<1>8. CASE MoverSafe(played)
  <2>1. after = played /\ more = Append(h, b)
    BY <1>3, <1>5, <1>6, <1>7, <1>8
  <2>7. /\ Len(Append(h, b)) = Len(h) + 1 /\ Append(h, b)[Len(h) + 1] = b
        /\ \A i \in 1 .. Len(h) : Append(h, b)[i] = h[i]
    BY <1>3, Appended
  <2>2. Len(more) = n + 1 /\ more[n + 1] = b /\ \A i \in 1 .. n : more[i] = h[i]
    BY <1>2, <2>1, <2>7
  <2>3. Yields(b, m, after)
    BY <1>3, <1>4, <2>1, YieldsSo
  <2>4. Follows(h, n, b)
    BY <1>2 DEF Chronicle
  <2>5. Follows(more, n + 1, after)
    BY <1>3, <2>2, <2>3, <2>4, FollowsOn
  <2>6. ASSUME NEW i \in 1 .. n + 1
        PROVE  Follows(more, i - 1, more[i])
    <3>1. PICK k : k = i - 1 /\ k \in Nat /\ k <= n
      BY <1>3
    <3>2. \A j \in 1 .. k : more[j] = h[j]
      BY <1>3, <2>2, <3>1
    <3>3. Follows(h, k, more[i])
      <4>1. CASE i = n + 1
        BY <1>3, <2>2, <2>4, <3>1, <4>1
      <4>2. CASE i # n + 1
        <5>1. i \in 1 .. n /\ more[i] = h[i]
          BY <1>3, <2>2, <4>2
        <5> QED
          BY <1>2, <3>1, <5>1 DEF Chronicle
      <4> QED
        BY <4>1, <4>2
    <3>4. Follows(more, k, more[i])
      BY <3>1, <3>2, <3>3, FollowsAlike
    <3> QED
      BY <3>1, <3>4
  <2> QED
    BY <1>1, <2>2, <2>5, <2>6 DEF Chronicle
<1>9. CASE ~MoverSafe(played)
  <2>1. after = b
    BY <1>6, <1>9
  <2>2. more = h
    BY <1>3, <1>7, <2>1
  <2> QED
    BY <2>1, <2>2
<1> QED
  BY <1>8, <1>9

LEMMA ChronicleByUndo ==
  ASSUME NEW h, NEW b, NEW less, NEW before, Chronicle(h, b), b.flags.halfMoveCount # 0,
         TakesBack(h, b, less, before)
  PROVE  Chronicle(less, before)
<1>1. Backed(h, b) /\ Backed(less, before) /\ before = h[Len(h)]
  BY BackedByUndo DEF Chronicle
<1>2. PICK n : n = Len(h)
  OBVIOUS
<1>3. n \in Nat /\ n # 0 /\ IsSeq(h)
  BY <1>1, <1>2, LengthsAgree DEF Backed
<1>4. PICK S : h \in Seq(S)
  BY <1>3 DEF IsSeq
<1>5. Len(less) = n - 1 /\ \A i \in 1 .. n - 1 : less[i] = h[i]
  <2>1. less = SubSeq(h, 1, n - 1)
    BY <1>2 DEF TakesBack
  <2> QED
    BY <1>2, <1>3, <1>4, <2>1, SubSeqProperties
<1>6. PICK k : k = n - 1 /\ k \in Nat
  BY <1>3
<1>7. \A i \in 1 .. n : Follows(h, i - 1, h[i])
  BY <1>2 DEF Chronicle
<1>8. Follows(less, k, before)
  <2>1. Follows(h, k, before)
    BY <1>1, <1>2, <1>3, <1>6, <1>7
  <2> QED
    BY <1>5, <1>6, <2>1, FollowsAlike
<1>9. ASSUME NEW i \in 1 .. k
      PROVE  Follows(less, i - 1, less[i])
  <2>1. PICK j : j = i - 1 /\ j \in Nat /\ j <= k
    BY <1>6
  <2>2. i \in 1 .. n /\ less[i] = h[i] /\ \A x \in 1 .. j : less[x] = h[x]
    BY <1>3, <1>5, <1>6, <2>1
  <2>3. Follows(h, j, less[i])
    BY <1>7, <2>1, <2>2
  <2>4. Follows(less, j, less[i])
    BY <2>1, <2>2, <2>3, FollowsAlike
  <2> QED
    BY <2>1, <2>4
<1> QED
  BY <1>1, <1>5, <1>6, <1>8, <1>9 DEF Chronicle

ChronicleInv == Chronicle(past, board)

LEMMA ChronicleInit == Init => ChronicleInv
<1> SUFFICES ASSUME Init
             PROVE  ChronicleInv
  OBVIOUS
<1>1. Backed(past, board) /\ past = <<>>
  BY BackedInit DEF BackedInv, Init
<1>2. Len(past) = 0
  BY <1>1
<1>3. PICK v, fl, ff, cs, u : board = State(v, fl, ff, cs, u) /\ Wholly(v, fl, ff, cs, u)
  BY <1>1 DEF Backed, Whole
<1>4. board.values = v /\ board.flags = fl /\ board.fifty = ff
  BY <1>3, StateFields
<1>5. v \in Contents /\ fl.side \in Colors /\ ff \in Nat
  BY <1>3 DEF Wholly, AreFlags
<1>6. Potential(v) \in Nat
  <2>1. 0 \in Squares /\ empty \in Codes
    BY DEF Squares, Codes, empty
  <2> QED
    BY <1>5, <2>1, PotentialPut
<1>7. Follows(past, 0, board)
  BY <1>4, <1>5, <1>6 DEF Follows
<1> QED
  BY <1>1, <1>2, <1>7 DEF ChronicleInv, Chronicle

LEMMA ChronicleNext == ChronicleInv /\ [Next]_vars => ChronicleInv'
<1> SUFFICES ASSUME ChronicleInv, [Next]_vars
             PROVE  ChronicleInv'
  OBVIOUS
<1>1. Chronicle(past, board) /\ Backed(past, board)
  BY DEF ChronicleInv, Chronicle
<1>2. ASSUME NEW m, Suits(board.values, board.flags, m), board' = Made(board, m), Record
      PROVE  Chronicle(past', board')
  <2>1. PICK h, b, after, more : h = past /\ b = board /\ after = board' /\ more = past'
    OBVIOUS
  <2>2. Chronicle(h, b) /\ Suits(b.values, b.flags, m) /\ Plays(h, b, m, more, after)
    BY <1>1, <1>2, <2>1 DEF Record, Plays
  <2>3. Chronicle(more, after)
    BY <2>2, ChronicleByMove
  <2> QED
    BY <2>1, <2>3
<1>3. CASE MakeMove
  <2>1. PICK m \in PseudolegalMoves(board) : ~Refused(board, m) /\ board' = Made(board, m)
    BY <1>3 DEF MakeMove
  <2>2. Suits(board.values, board.flags, m)
    BY <1>1, <2>1, GeneratedSuits DEF Backed
  <2>3. Record
    BY <1>3 DEF MakeMove
  <2> QED
    BY <1>2, <2>1, <2>2, <2>3 DEF ChronicleInv
<1>4. CASE MakeNullMove
  <2>1. Suits(board.values, board.flags, Empty)
    BY DEF Suits
  <2>2. board' = Made(board, Empty) /\ Record
    BY <1>4 DEF MakeNullMove
  <2> QED
    BY <1>2, <2>1, <2>2 DEF ChronicleInv
<1>5. CASE UndoMove
  <2>1. PICK h, b, before, less : h = past /\ b = board /\ before = board' /\ less = past'
    OBVIOUS
  <2>2. Chronicle(h, b) /\ b.flags.halfMoveCount # 0 /\ TakesBack(h, b, less, before)
    BY <1>1, <1>5, <2>1 DEF UndoMove, TakesBack
  <2>3. Chronicle(less, before)
    BY <2>2, ChronicleByUndo
  <2> QED
    BY <2>1, <2>3 DEF ChronicleInv
<1>6. CASE UNCHANGED vars
  BY <1>1, <1>6 DEF ChronicleInv, vars
<1> QED
  BY <1>3, <1>4, <1>5, <1>6 DEF Next

-----------------------------------------------------------------------------
(***************************************************************************)
(* The count is exact.                                                     *)
(***************************************************************************)
LEMMA WholeFields ==
  ASSUME NEW b, Whole(b)
  PROVE  /\ b.values \in Contents /\ AreFlags(b.flags) /\ EpReady(b.values, b.flags)
         /\ b.key = KeyIn(b.values, b.flags)
         /\ b.flags.repeats
              = UpToTwo(Times(b.flags.halfMoveCount, b.fifty, b.key, b.undoInfo))
<1>1. PICK v, fl, ff, cs, u : b = State(v, fl, ff, cs, u) /\ Wholly(v, fl, ff, cs, u)
  BY DEF Whole
<1>2. b.values = v /\ b.flags = fl /\ b.fifty = ff /\ b.undoInfo = u /\ b.key = KeyIn(v, fl)
  BY <1>1, StateFields
<1>3. /\ v \in Contents /\ AreFlags(fl) /\ EpReady(v, fl)
      /\ fl.repeats = UpToTwo(Times(fl.halfMoveCount, ff, KeyIn(v, fl), u))
  BY <1>1 DEF Wholly, Remembers
<1> QED
  BY <1>2, <1>3

LEMMA SamePosition ==
  ASSUME NEW b, NEW c
  PROVE  Position(b) = Position(c) <=>
           /\ b.values = c.values /\ b.flags.side = c.flags.side
           /\ b.flags.rights = c.flags.rights /\ b.flags.ep = c.flags.ep
BY DEF Position

\* The half moves that adjustRepeatCount() counts are those before which the
\* position was the one of now.
Recurs(n, ff, k, u, i) ==
  i \in 0 .. n - 4 /\ i >= n - ff /\ (n - i) % 2 = 0 /\ u[i + 1].key = k

LEMMA CountedIsRepeated ==
  ASSUME NEW h, NEW b, Chronicle(h, b), NEW n, n = Len(h),
         n >= 2 => ~(b.undoInfo[n].move = Empty /\ b.undoInfo[n - 1].move = Empty),
         NEW i \in 1 .. n
  PROVE  Position(h[i]) = Position(b) <=> Recurs(n, b.fifty, b.key, b.undoInfo, i - 1)
<1>1. /\ n \in Nat /\ Whole(b) /\ Whole(h[i])
  BY LengthsAgree DEF Chronicle, Backed
<1>2. PICK a : a = h[i]
  OBVIOUS
<1>3. /\ b.values \in Contents /\ AreFlags(b.flags) /\ EpReady(b.values, b.flags)
      /\ b.key = KeyIn(b.values, b.flags)
      /\ a.values \in Contents /\ AreFlags(a.flags) /\ EpReady(a.values, a.flags)
      /\ a.key = KeyIn(a.values, a.flags)
  BY <1>1, <1>2, WholeFields
<1>4. PICK us, f, pa, pb : /\ us = b.flags.side /\ f = b.fifty /\ pa = Potential(a.values)
                           /\ pb = Potential(b.values)
  OBVIOUS
<1>5. Follows(h, n, b)
  BY DEF Chronicle
<1>6. /\ us \in Colors /\ f \in Nat /\ pb \in Nat /\ pa \in Nat /\ pb <= pa
      /\ b.undoInfo[i].key = a.key
      /\ a.flags.side = IF (n + 1 - i) % 2 = 0 THEN us ELSE Flip(us)
      /\ i - 1 < n - f => pb < pa
  BY <1>2, <1>4, <1>5 DEF Follows
<1>7. Flip(us) # us
  BY <1>6 DEF Flip, Colors, white, black
<1>8. PICK j : j = i - 1 /\ j \in 0 .. n - 1 /\ j + 1 = i
  BY <1>1
<1>9. a.flags.side = us <=> (n - j) % 2 = 0
  BY <1>1, <1>6, <1>7, <1>8
<1>10. ASSUME Recurs(n, f, b.key, b.undoInfo, j)
       PROVE  Position(a) = Position(b)
  <2>1. (n - j) % 2 = 0 /\ b.undoInfo[i].key = b.key
    BY <1>8, <1>10 DEF Recurs
  <2>2. a.flags.side = b.flags.side /\ KeyIn(b.values, b.flags) = KeyIn(a.values, a.flags)
    BY <1>3, <1>4, <1>6, <1>9, <2>1
  <2>3. a.values = b.values /\ a.flags.rights = b.flags.rights /\ a.flags.ep = b.flags.ep
    BY <1>3, <2>2, SameKeys
  <2> QED
    BY <2>2, <2>3, SamePosition
<1>11. ASSUME Position(a) = Position(b)
       PROVE  Recurs(n, f, b.key, b.undoInfo, j)
  <2>1. /\ a.values = b.values /\ a.flags.side = b.flags.side
        /\ a.flags.rights = b.flags.rights /\ a.flags.ep = b.flags.ep
    BY <1>11, SamePosition
  <2>2. b.undoInfo[i].key = b.key
    BY <1>3, <1>6, <2>1 DEF KeyIn
  <2>3. (n - j) % 2 = 0
    BY <1>4, <1>9, <2>1
  <2>4. j >= n - f
    <3>1. pa = pb /\ pb \in Nat
      BY <1>4, <1>6, <2>1
    <3>2. ~(j < n - f)
      BY <1>6, <1>8, <3>1
    <3> QED
      BY <1>1, <1>6, <1>8, <3>2
  <2>5. j # n - 2
    <3> SUFFICES ASSUME j = n - 2
                 PROVE  FALSE
      OBVIOUS
    <3>1. PICK c, x, y : /\ c = h[n] /\ x = b.undoInfo[n - 1].move
                         /\ y = b.undoInfo[n].move
      OBVIOUS
    <3>2. n >= 2 /\ i = n - 1
      BY <1>1, <1>8
    <3>3. /\ Stepped(c.values, c.flags.side, b.values, y)
          /\ Stepped(a.values, a.flags.side, c.values, x)
      BY <1>1, <1>2, <1>5, <3>1, <3>2 DEF Follows
    <3>4. c.flags.side = Flip(us)
      <4>1. n \in 1 .. n /\ (n + 1 - n) % 2 = 1
        BY <1>1, <3>2
      <4> QED
        BY <1>4, <1>5, <3>1, <4>1 DEF Follows
    <3>5. c.values \in Contents
      <4>1. Whole(c)
        BY <1>1, <3>1, <3>2 DEF Chronicle, Backed
      <4> QED
        BY <4>1, WholeFields
    <3>6. ~(x = Empty /\ y = Empty)
      BY <3>1, <3>2
    <3>7. a.flags.side = us
      BY <1>4, <2>1
    <3>8. PICK va, vb, vc : va = a.values /\ vb = b.values /\ vc = c.values
      OBVIOUS
    <3>9. /\ va \in Contents /\ vb \in Contents /\ vc \in Contents
          /\ Stepped(va, us, vc, x) /\ Stepped(vc, Flip(us), vb, y)
      BY <1>3, <3>3, <3>4, <3>5, <3>7, <3>8
    <3>10. vb # va
      BY <1>6, <3>6, <3>9, TwoSteps
    <3> QED
      BY <2>1, <3>8, <3>10
  <2>6. j \in 0 .. n - 4
    <3>1. (n - (n - 1)) % 2 = 1 /\ (n - (n - 3)) % 2 = 1
      BY <1>1
    <3>2. j # n - 1 /\ j # n - 3
      BY <2>3, <3>1
    <3> QED
      BY <1>1, <1>8, <2>5, <3>2
  <2> QED
    BY <1>8, <2>2, <2>3, <2>4, <2>6 DEF Recurs
<1> QED
  BY <1>2, <1>4, <1>8, <1>10, <1>11

LEMMA CountedAlike ==
  ASSUME NEW h, NEW b, Chronicle(h, b), NEW n, n = Len(h),
         n >= 2 => ~(b.undoInfo[n].move = Empty /\ b.undoInfo[n - 1].move = Empty)
  PROVE  Cardinality({i \in 1 .. n : Position(h[i]) = Position(b)})
           = Times(n, b.fifty, b.key, b.undoInfo)
<1>1. n \in Nat
  BY LengthsAgree DEF Chronicle
<1>2. PICK f, k, u : f = b.fifty /\ k = b.key /\ u = b.undoInfo
  OBVIOUS
<1>3. PICK S, T : /\ T = {i \in 1 .. n : Position(h[i]) = Position(b)}
                  /\ S = {i \in {i \in 0 .. n - 4 : i >= n - f /\ (n - i) % 2 = 0} :
                            u[i + 1].key = k}
  OBVIOUS
<1>4. \A j : j \in S <=> Recurs(n, f, k, u, j)
  BY <1>3 DEF Recurs
<1>5. \A i \in 1 .. n : i \in T <=> Recurs(n, f, k, u, i - 1)
  BY <1>2, <1>3, CountedIsRepeated
<1>6. \A i : i \in T => i \in 1 .. n
  BY <1>3
<1>7. PICK up : up = [j \in S |-> j + 1]
  OBVIOUS
<1>8. \A j \in S : j \in 0 .. n - 4 /\ up[j] = j + 1
  BY <1>4, <1>7 DEF Recurs
<1>9. \A j \in S : j + 1 \in T
  <2> SUFFICES ASSUME NEW j \in S
               PROVE  j + 1 \in T
    OBVIOUS
  <2>1. PICK i : i = j + 1 /\ i \in 1 .. n /\ i - 1 = j
    BY <1>1, <1>8
  <2>2. Recurs(n, f, k, u, i - 1)
    BY <1>4, <2>1
  <2> QED
    BY <1>5, <2>1, <2>2
<1>10. \A i \in T : i - 1 \in S /\ i \in 1 .. n
  BY <1>4, <1>5, <1>6
<1>11. /\ up \in [S -> T]
       /\ \A x, y \in S : up[x] = up[y] => x = y
       /\ \A t \in T : \E x \in S : up[x] = t
  <2>1. up \in [S -> T]
    BY <1>7, <1>9
  <2>2. \A x, y \in S : up[x] = up[y] => x = y
    BY <1>8
  <2>3. \A t \in T : t - 1 \in S /\ up[t - 1] = t
    <3> SUFFICES ASSUME NEW t \in T
                 PROVE  t - 1 \in S /\ up[t - 1] = t
      OBVIOUS
    <3>1. t - 1 \in S /\ t \in 1 .. n
      BY <1>10
    <3> QED
      BY <1>8, <3>1
  <2> QED
    BY <2>1, <2>2, <2>3
<1>12. IsFiniteSet(S)
  <2>1. IsFiniteSet(0 .. n - 4)
    <3>1. 0 \in Int /\ n - 4 \in Int
      BY <1>1
    <3> QED
      BY <3>1, FS_Interval, Zenon
  <2>2. S \in SUBSET (0 .. n - 4)
    BY <1>8
  <2> QED
    BY <2>1, <2>2, FS_Subset
<1>13. Cardinality(T) = Cardinality(S)
  BY <1>11, <1>12, SameNumber
<1> QED
  BY <1>2, <1>3, <1>13 DEF Times

\* The window of adjustRepeatCount() loses no repetition: on every line of play
\* from every position, with moves made and taken back as one likes but no two
\* passes in a row, the count it keeps is that of the earlier positions equal to
\* this one since the game was loaded, up to two.
THEOREM RepetitionsCounted == Spec => []RepetitionsExact
<1>1. ChronicleInv => RepetitionsExact
  <2> SUFFICES ASSUME ChronicleInv, NoTwoPasses
               PROVE  board.flags.repeats
                        = UpToTwo(Cardinality({i \in 1 .. Len(past) :
                                                 Position(past[i]) = Position(board)}))
    BY DEF RepetitionsExact, UpToTwo
  <2>1. PICK n : n = Len(past)
    OBVIOUS
  <2>2. Chronicle(past, board) /\ Whole(board) /\ n = board.flags.halfMoveCount
    BY <2>1 DEF ChronicleInv, Chronicle, Backed
  <2>3. n \in Nat /\ Len(board.undoInfo) = n
    BY <2>1, <2>2, LengthsAgree DEF Chronicle
  <2>4. n >= 2 => ~(board.undoInfo[n].move = Empty /\ board.undoInfo[n - 1].move = Empty)
    BY <2>3 DEF NoTwoPasses
  <2>5. Cardinality({i \in 1 .. n : Position(past[i]) = Position(board)})
          = Times(n, board.fifty, board.key, board.undoInfo)
    BY <2>1, <2>2, <2>4, CountedAlike
  <2>6. board.flags.repeats = UpToTwo(Times(n, board.fifty, board.key, board.undoInfo))
    BY <2>2, WholeFields
  <2> QED
    BY <2>1, <2>5, <2>6
<1> QED
  BY <1>1, ChronicleInit, ChronicleNext, PTL DEF Spec

-----------------------------------------------------------------------------
(***************************************************************************)
(* Killers.                                                                *)
(***************************************************************************)
Quiet(from, to) == [from |-> from, to |-> to, promo |-> 0]

LEMMA QuietsAre ==
  ASSUME NEW from, NEW to
  PROVE  /\ Quiet(from, to).from = from /\ Quiet(from, to).to = to
         /\ Quiet(from, to).promo = 0 /\ Quiet(from, to) # Empty
         /\ \A T : Quiet(from, to) \in Moves(from, T, {0}) <=> to \in T
BY DEF Quiet, Moves, Empty

LEMMA QuietMoves ==
  ASSUME NEW from, NEW T, NEW K, NEW m \in Moves(from, T, K), m.promo = 0
  PROVE  m = Quiet(from, m.to) /\ m.to \in T
BY DEF Moves, Quiet

LEMMA StepAhead ==
  ASSUME NEW from \in Squares, NEW to, NEW f \in {-1, 1}
  PROVE  to \in Step(from, f, 0) <=> to \in Squares /\ to - from = 8 * f
<1>1. ASSUME to \in Squares, to - from = 8 * f
      PROVE  Row(to) = Row(from) + f /\ Column(to) = Column(from) + 0
  BY <1>1 DEF Row, Column, Squares
<1>2. ASSUME to \in Step(from, f, 0)
      PROVE  to \in Squares /\ to - from = 8 * f
  BY <1>2, StepAt
<1> QED
  BY <1>1, <1>2 DEF Step

\* What a pawn can do without capture or promotion.
QuietPawn(v, us, from, to) ==
  /\ to \in Squares /\ v[to] = empty /\ Row(to) \notin {0, 7}
  /\ \/ (to - from) * Forward(us) = 8
     \/ /\ (to - from) * Forward(us) = 16 /\ v[to - 8 * Forward(us)] = empty
        /\ Row(from) = IF us = white THEN 1 ELSE 6

\* A move that stays on the board's squares, judged by the squares alone.
Usable(b, from, to) ==
  /\ to \in Reaches(b, from) /\ ~MoveIsCapture(b, Quiet(from, to))
  /\ IsPseudoLegalMove(b, Quiet(from, to))

LEMMA UsablePawns ==
  ASSUME NEW b, NEW v \in Contents, NEW fl, NEW us, Reads(b, v, fl), AreFlags(fl),
         Inside(v), us = fl.side, NEW from \in Squares, v[from] = Value(us, pawn), NEW to
  PROVE  Usable(b, from, to) <=> QuietPawn(v, us, from, to)
<1>1. b.values = v /\ b.flags = fl /\ b.flags.side = us /\ us \in Colors
  BY DEF Reads, AreFlags
<1>2. PICK f : f = Forward(us) /\ f \in {-1, 1}
  BY <1>1 DEF Forward, Colors
<1>3. PICK m : m = Quiet(from, to)
  OBVIOUS
<1>4. m.from = from /\ m.to = to /\ m.promo = 0 /\ m # Empty
  BY <1>3, QuietsAre
<1>5. Magnitude(v[from]) = pawn /\ v[from] * f > 0
  BY <1>1, <1>2, KindsApart, Codings
<1>6. IsEnPassantMove(b, m) <=> v[to] = empty /\ (to - from) * f \in {7, 9}
  BY <1>1, <1>2, <1>4, <1>5 DEF IsEnPassantMove
<1>7. PawnReaches(b, from, to) <=>
        IF IsEnPassantMove(b, m) THEN to = EnPassantTarget(b)
        ELSE IF v[to] = empty
        THEN \/ (to - from) * f = 8
             \/ /\ (to - from) * f = 16 /\ v[to - 8 * f] = empty
                /\ Row(from) = IF us = white THEN 1 ELSE 6
        ELSE to \in PawnAttacks[us][from] \cap b.boards[Flip(us)][0]
  BY <1>1, <1>2, <1>3 DEF PawnReaches, Quiet
<1>8. MoveIsCapture(b, m) <=>
        v[to] # empty \/ (fl.ep # 0 /\ to = EnPassantTarget(b) /\ IsEnPassantMove(b, m))
  BY <1>1, <1>4 DEF MoveIsCapture
<1>9. to \in Reaches(b, from) <=> to \in Squares /\ PawnReaches(b, from, to)
  BY <1>1, <1>5 DEF Reaches
<1>10. IsPseudoLegalMove(b, m) <=> to \in Reaches(b, from) /\ Row(to) \notin {0, 7}
  <2>1. 0 \notin knight .. queen
    BY DEF knight, queen
  <2> QED
    BY <1>1, <1>2, <1>4, <1>5, <2>1 DEF IsPseudoLegalMove
<1>11. EnPassantTarget(b) = fl.ep + 8 * f
  BY <1>1, <1>2 DEF EnPassantTarget
<1>12. ASSUME to \in Squares, to = 8 * f, (to - from) * f \in {7, 9}
       PROVE  FALSE
  <2>1. Row(from) = 0
    BY <1>2, <1>12 DEF Row, Squares
  <2> QED
    BY <1>5, <2>1 DEF Inside
<1>13. to \in Squares /\ PawnReaches(b, from, to) /\ ~MoveIsCapture(b, m)
         => ~IsEnPassantMove(b, m) /\ v[to] = empty
  <2> SUFFICES ASSUME to \in Squares, PawnReaches(b, from, to), ~MoveIsCapture(b, m),
                      IsEnPassantMove(b, m)
               PROVE  FALSE
    BY <1>8
  <2>1. to = EnPassantTarget(b) /\ fl.ep = 0 /\ (to - from) * f \in {7, 9}
    BY <1>6, <1>7, <1>8
  <2>2. to = 8 * f
    BY <1>2, <1>11, <2>1
  <2> QED
    BY <1>12, <2>1, <2>2
<1>14. QuietPawn(v, us, from, to) => ~IsEnPassantMove(b, m)
  BY <1>2, <1>6 DEF QuietPawn
<1> QED
  BY <1>2, <1>3, <1>7, <1>8, <1>9, <1>10, <1>13, <1>14 DEF Usable, QuietPawn

LEMMA AttackedColumns ==
  ASSUME NEW us \in Colors, NEW from \in Squares, NEW to \in PawnAttacks[us][from]
  PROVE  Column(to) # Column(from)
<1>1. Forward(us) = 1 \/ Forward(us) = -1
  BY DEF Forward, Colors
<1>2. to \in Step(from, Forward(us), -1) \/ to \in Step(from, Forward(us), 1)
  BY DEF PawnAttacks, Leaps
<1>3. PICK f \in -7 .. 7 : f = Forward(us)
  BY <1>1
<1>4. Column(to) = Column(from) + (-1) \/ Column(to) = Column(from) + 1
  BY <1>2, <1>3, StepAt
<1>5. Column(from) \in Int
  BY DEF Column, Squares
<1> QED
  BY <1>4, <1>5

LEMMA PawnMovesAre ==
  ASSUME NEW b, NEW us, NEW m
  PROVE  m \in PawnMoves(b, us) <=>
           \E from \in b.boards[us][pawn] : \E to \in PawnTargets(b, us, from) :
             m \in Moves(from, {to},
                         IF Row(to) \in {0, 7} THEN {queen, rook, bishop, knight} ELSE {0})
<1> DEFINE Leads(from, to) ==
      Moves(from, {to}, IF Row(to) \in {0, 7} THEN {queen, rook, bishop, knight} ELSE {0})
    Of(from) == UNION {Leads(from, to) : to \in PawnTargets(b, us, from)}
<1>1. PawnMoves(b, us) = UNION {Of(from) : from \in b.boards[us][pawn]}
  BY Zenon DEF PawnMoves
<1>2. \A from : m \in Of(from) <=> \E to \in PawnTargets(b, us, from) : m \in Leads(from, to)
  <2> HIDE DEF Leads
  <2> QED
    OBVIOUS
<1> HIDE DEF Of
<1>3. m \in PawnMoves(b, us) <=> \E from \in b.boards[us][pawn] : m \in Of(from)
  BY <1>1
<1> QED
  BY <1>2, <1>3

LEMMA PieceMovesAre ==
  ASSUME NEW b, NEW us, NEW m
  PROVE  m \in PieceMoves(b, us) <=>
           \E p \in {knight, bishop, rook, queen, king} : \E from \in b.boards[us][p] :
             m \in Moves(from, Attacks(b, p, from) \ (b.occupied \ b.boards[Flip(us)][0]), {0})
<1> DEFINE Leads(p, from) ==
      Moves(from, Attacks(b, p, from) \ (b.occupied \ b.boards[Flip(us)][0]), {0})
    Of(p) == UNION {Leads(p, from) : from \in b.boards[us][p]}
<1>1. PieceMoves(b, us) = UNION {Of(p) : p \in {knight, bishop, rook, queen, king}}
  BY Zenon DEF PieceMoves
<1>2. \A p : m \in Of(p) <=> \E from \in b.boards[us][p] : m \in Leads(p, from)
  <2> HIDE DEF Leads
  <2> QED
    OBVIOUS
<1> HIDE DEF Of
<1>3. m \in PieceMoves(b, us) <=> \E p \in {knight, bishop, rook, queen, king} : m \in Of(p)
  BY <1>1
<1> QED
  BY <1>2, <1>3

\* A pawn's quiet targets.
LEMMA ListedPawns ==
  ASSUME NEW b, NEW v \in Contents, NEW fl, NEW us, Reads(b, v, fl), AreFlags(fl),
         us = fl.side, NEW from \in Squares, v[from] = Value(us, pawn), NEW to
  PROVE  /\ QuietPawn(v, us, from, to) => to \in PawnTargets(b, us, from)
         /\ to \in PawnTargets(b, us, from) =>
              \/ to \in Squares /\ v[to] # empty
              \/ Column(to) # Column(from)
              \/ Row(to) \notin {0, 7} => QuietPawn(v, us, from, to)
<1>1. us \in Colors
  BY DEF AreFlags
<1>2. PICK f : f = Forward(us) /\ f \in {-1, 1}
  BY <1>1 DEF Forward, Colors
<1>3. f = IF us = white THEN 1 ELSE -1
  BY <1>2 DEF Forward
<1>4. PICK occupied, ep, enemies :
        /\ occupied = Filled(v) /\ ep = fl.ep /\ enemies = BoardsOf(v)[Flip(us)][0]
        /\ PawnTargets(b, us, from)
             = TargetsOn(Ahead(occupied, us, from), TwoAhead(occupied, us, from), ep,
                         enemies, us, from)
  <2>1. b.occupied = Filled(v) /\ b.flags = fl /\ b.boards = BoardsOf(v)
    BY DEF Reads
  <2>2. PawnTargets(b, us, from)
          = TargetsOn(Ahead(b.occupied, us, from), TwoAhead(b.occupied, us, from),
                      b.flags.ep, b.boards[Flip(us)][0], us, from)
    BY Zenon DEF PawnTargets, TargetsOn
  <2> QED
    BY <2>1, <2>2
<1>5. \A s \in Squares : s \in occupied <=> v[s] # empty
  BY <1>4 DEF Filled
<1>6. /\ \A x : x \in Ahead(occupied, us, from) <=>
              x \in Squares /\ x - from = 8 * f /\ v[x] = empty
      /\ \A s \in Squares : \A x : x \in Ahead(occupied, us, s) <=>
              x \in Squares /\ x - s = 8 * f /\ v[x] = empty
  <2>1. \A s \in Squares : \A x : x \in Step(s, f, 0) <=> x \in Squares /\ x - s = 8 * f
    BY <1>2, StepAhead
  <2> QED
    BY <1>2, <1>5, <2>1 DEF Ahead
<1>7. \A x : x \in TwoAhead(occupied, us, from) <=>
        \E s \in Ahead(occupied, us, from) : x \in Ahead(occupied, us, s)
  BY DEF TwoAhead
<1>8. ASSUME QuietPawn(v, us, from, to)
      PROVE  to \in PawnTargets(b, us, from)
  <2>1. to \in Squares /\ v[to] = empty
    BY <1>8 DEF QuietPawn
  <2>2. CASE (to - from) * f = 8
    <3>1. to \in Ahead(occupied, us, from)
      BY <1>2, <1>6, <2>1, <2>2 DEF Squares
    <3> QED
      BY <1>4, <3>1 DEF TargetsOn
  <2>3. CASE /\ (to - from) * f = 16 /\ v[to - 8 * f] = empty
             /\ Row(from) = IF us = white THEN 1 ELSE 6
    <3>1. PICK s : s = to - 8 * f
      OBVIOUS
    <3>2. s \in Squares /\ s - from = 8 * f /\ to - s = 8 * f
      BY <1>2, <2>1, <2>3, <3>1 DEF Squares
    <3>3. to \in TwoAhead(occupied, us, from)
      BY <1>6, <1>7, <2>1, <2>3, <3>1, <3>2
    <3>4. Row(to) = IF us = white THEN 3 ELSE 4
      BY <1>3, <2>1, <2>3 DEF Row, Squares
    <3> QED
      BY <1>4, <3>3, <3>4 DEF TargetsOn
  <2> QED
    BY <1>2, <1>8, <2>2, <2>3 DEF QuietPawn
<1>9. ASSUME to \in PawnTargets(b, us, from), Row(to) \notin {0, 7},
             Column(to) = Column(from)
      PROVE  QuietPawn(v, us, from, to)
  <2>1. \/ to \in Ahead(occupied, us, from)
        \/ /\ to \in TwoAhead(occupied, us, from)
           /\ Row(to) = IF us = white THEN 3 ELSE 4
    BY <1>1, <1>4, <1>9, TargetsOnAre, AttackedColumns
  <2>2. CASE to \in Ahead(occupied, us, from)
    <3>1. to \in Squares /\ to - from = 8 * f /\ v[to] = empty
      BY <1>6, <2>2
    <3>2. (to - from) * f = 8
      BY <1>2, <3>1
    <3> QED
      BY <1>2, <1>9, <3>1, <3>2 DEF QuietPawn
  <2>3. CASE /\ to \in TwoAhead(occupied, us, from)
             /\ Row(to) = IF us = white THEN 3 ELSE 4
    <3>1. PICK s \in Ahead(occupied, us, from) : to \in Ahead(occupied, us, s)
      BY <1>7, <2>3
    <3>2. s \in Squares /\ s - from = 8 * f /\ v[s] = empty
      BY <1>6, <3>1
    <3>3. to \in Squares /\ to - s = 8 * f /\ v[to] = empty
      BY <1>6, <3>1, <3>2
    <3>4. /\ (to - from) * f = 16 /\ to - 8 * f = s
          /\ Row(from) = IF us = white THEN 1 ELSE 6
      BY <1>2, <1>3, <2>3, <3>2, <3>3 DEF Row, Squares
    <3> QED
      BY <1>2, <1>9, <3>2, <3>3, <3>4 DEF QuietPawn
  <2> QED
    BY <2>1, <2>2, <2>3
<1> QED
  BY <1>8, <1>9

LEMMA UsablePieces ==
  ASSUME NEW b, NEW v \in Contents, NEW fl, NEW us, Reads(b, v, fl), AreFlags(fl),
         us = fl.side, NEW p \in Kinds \ {pawn}, NEW from \in Squares,
         v[from] = Value(us, p), NEW to \in Squares
  PROVE  Usable(b, from, to) <=>
           /\ v[to] = empty
           /\ \/ to \in Attacks(b, p, from)
              \/ p = king /\ \E c \in CastleMoves(b, us) : c.from = from /\ c.to = to
<1>1. /\ b.values = v /\ b.flags = fl /\ b.flags.side = us /\ us \in Colors
      /\ b.boards = BoardsOf(v)
  BY DEF Reads, AreFlags
<1>2. PICK m : m = Quiet(from, to)
  OBVIOUS
<1>3. m.from = from /\ m.to = to /\ m.promo = 0 /\ m # Empty
  BY <1>2, QuietsAre
<1>4. Magnitude(v[from]) = p /\ v[from] * Forward(us) > 0
  BY <1>1, Codings
<1>5. ~IsEnPassantMove(b, m)
  BY <1>1, <1>3, <1>4 DEF IsEnPassantMove
<1>6. MoveIsCapture(b, m) <=> v[to] # empty
  BY <1>1, <1>3, <1>5 DEF MoveIsCapture
<1>7. to \in Reaches(b, from) <=>
        \/ to \in Attacks(b, p, from) /\ to \notin b.boards[us][0]
        \/ p = king /\ \E c \in CastleMoves(b, us) : c.from = from /\ c.to = to
  BY <1>1, <1>4 DEF Reaches
<1>8. v[to] = empty => to \notin b.boards[us][0]
  <2>1. ~(empty * Forward(us) > 0)
    BY <1>1, <1>4, Codings
  <2> QED
    BY <1>1, <2>1, BoardsAt
<1>9. IsPseudoLegalMove(b, m) <=> to \in Reaches(b, from)
  BY <1>1, <1>3, <1>4 DEF IsPseudoLegalMove
<1> QED
  BY <1>2, <1>6, <1>7, <1>8, <1>9 DEF Usable

LEMMA CastleMovesQuiet ==
  ASSUME NEW b, NEW v \in Contents, NEW fl, NEW us, NEW m, Reads(b, v, fl), AreFlags(fl),
         Homed(v, fl), us = fl.side, m \in CastleMoves(b, us),
         NEW from, NEW to, from = m.from, to = m.to
  PROVE  /\ m = Quiet(from, to) /\ from \in Squares /\ to \in Squares
         /\ v[from] = Value(us, king) /\ v[to] = empty
<1>1. PICK home : home = FirstRow(us) + 4
  OBVIOUS
<1>2. \/ m \in Castlings(b, us, "king", home, home + 2, {home + 1, home + 2}, home + 1)
      \/ m \in Castlings(b, us, "queen", home, home - 2, {home - 1, home - 2, home - 3},
                         home - 1)
  BY <1>1 DEF CastleMoves
<1>3. m = Quiet(from, to) /\ to \notin b.occupied
  BY <1>2 DEF Castlings, Moves, Quiet
<1>4. Fits(v, fl, king, m)
  BY CastleMovesFit
<1>5. Goes(v, us, king, m)
  BY <1>4 DEF Fits
<1>6. from \in Squares /\ to \in Squares /\ v[from] = Value(us, king)
  BY <1>5 DEF Goes
<1>7. b.occupied = Filled(v)
  BY DEF Reads
<1> QED
  BY <1>3, <1>6, <1>7 DEF Filled

LEMMA KillersFit ==
  ASSUME NEW b, Whole(b), NEW m
  PROVE  m \in UsableKillers(b) <=> m \in Noncaptures(b) /\ m.promo = 0
<1>1. PICK v, fl, ff, cs, u : b = State(v, fl, ff, cs, u) /\ Wholly(v, fl, ff, cs, u)
  BY DEF Whole
<1>2. Reads(b, v, fl)
  BY <1>1 DEF Reads, State, Standing
<1>3. v \in Contents /\ AreFlags(fl) /\ Homed(v, fl) /\ Inside(v)
  BY <1>1 DEF Wholly
<1>4. PICK us : us = fl.side /\ us \in Colors
  BY <1>3 DEF AreFlags
<1>5. /\ b.values = v /\ b.flags.side = us /\ b.boards = BoardsOf(v)
      /\ \A s \in Squares : s \in b.occupied <=> v[s] # empty
  BY <1>2, <1>4 DEF Reads, Filled
<1>6. \A p \in Kinds, s \in Squares :
        v[s] = Value(us, p) => Magnitude(v[s]) = p /\ v[s] # empty /\ v[s] * Forward(us) > 0
  BY <1>4, Codings
<1>7. pawn \in Kinds /\ {knight, bishop, rook, queen, king} = Kinds \ {pawn} /\ queen # 0
  BY DEF Kinds, pawn, knight, bishop, rook, queen, king
<1>8. m \in UsableKillers(b) <=>
        \E from \in b.boards[us][0] : \E to : m = Quiet(from, to) /\ Usable(b, from, to)
  <2>1. \A from : m \in Moves(from, Reaches(b, from), {0})
          <=> \E to \in Reaches(b, from) : m = Quiet(from, to)
    BY DEF Moves, Quiet
  <2> QED
    BY <1>5, <2>1 DEF UsableKillers, Usable
<1>9. m \in Noncaptures(b) /\ m.promo = 0 <=>
        /\ m \in PawnMoves(b, us) \/ m \in PieceMoves(b, us) \/ m \in CastleMoves(b, us)
        /\ m.promo = 0 /\ ~Takes(b, m)
  BY <1>5, <1>7 DEF Noncaptures, PseudolegalMoves
<1>10. ASSUME m \in UsableKillers(b)
       PROVE  m \in Noncaptures(b) /\ m.promo = 0
  <2>0. PICK from \in b.boards[us][0] : \E to : m = Quiet(from, to) /\ Usable(b, from, to)
    BY <1>8, <1>10
  <2>1. PICK to : m = Quiet(from, to) /\ Usable(b, from, to)
    BY <2>0
  <2>2. from \in Squares /\ v[from] * Forward(us) > 0
    <3>1. from \in Squares
      BY <1>3, <1>4, <1>5, BoardsTyped
    <3> QED
      BY <1>3, <1>4, <1>5, <3>1, BoardsAt
  <2>3. PICK p \in Kinds : v[from] = Value(us, p)
    <3>1. v[from] \in Codes
      BY <1>3, <2>2 DEF Contents
    <3> QED
      BY <1>4, <2>2, <3>1, MenByColour
  <2>4. m.from = from /\ m.to = to /\ m.promo = 0 /\ m \in Moves(from, {to}, {0})
    BY <2>1, QuietsAre
  <2>5. from \in b.boards[us][p]
    BY <1>3, <1>4, <1>5, <2>2, <2>3, BoardsAt
  <2>6. CASE p = pawn
    <3>1. QuietPawn(v, us, from, to)
      BY <1>2, <1>3, <1>4, <2>1, <2>2, <2>3, <2>6, UsablePawns
    <3>2. to \in PawnTargets(b, us, from)
      BY <1>2, <1>3, <1>4, <2>2, <2>3, <2>6, <3>1, ListedPawns
    <3>3. to \in Squares /\ v[to] = empty /\ Row(to) \notin {0, 7}
      BY <3>1 DEF QuietPawn
    <3>4. m \in PawnMoves(b, us)
      BY <2>4, <2>5, <2>6, <3>2, <3>3, PawnMovesAre
    <3>5. Column(from) = Column(to)
      BY <1>4, <2>2, <3>1 DEF QuietPawn, Forward, Column, Squares, Colors
    <3>6. ~Takes(b, m)
      BY <1>5, <2>4, <3>3, <3>5 DEF Takes
    <3> QED
      BY <1>9, <2>4, <3>4, <3>6
  <2>7. CASE p # pawn
    <3>1. to \in Squares
      <4>1. \/ to \in Attacks(b, p, from)
            \/ \E c \in CastleMoves(b, us) : c.to = to
        BY <1>5, <1>6, <2>1, <2>2, <2>3, <2>7 DEF Usable, Reaches
      <4>2. p \in {knight, bishop, rook, queen, king}
        BY <1>7, <2>7
      <4>3. to \in Attacks(b, p, from) => to \in Squares
        BY <2>2, <4>2, AttacksOnBoard
      <4>4. \A c \in CastleMoves(b, us) : c.to \in Squares
        BY <1>2, <1>3, <1>4, CastleMovesQuiet
      <4> QED
        BY <4>1, <4>3, <4>4
    <3>2. /\ v[to] = empty
          /\ \/ to \in Attacks(b, p, from)
             \/ p = king /\ \E c \in CastleMoves(b, us) : c.from = from /\ c.to = to
      BY <1>2, <1>3, <1>4, <2>1, <2>2, <2>3, <2>7, <3>1, UsablePieces
    <3>3. ~Takes(b, m)
      BY <1>5, <1>6, <2>2, <2>3, <2>4, <2>7, <3>1, <3>2 DEF Takes
    <3>4. m \in PieceMoves(b, us) \/ m \in CastleMoves(b, us)
      <4>1. CASE to \in Attacks(b, p, from)
        <5>1. to \in Attacks(b, p, from) \ (b.occupied \ b.boards[Flip(us)][0])
          BY <1>5, <3>1, <3>2, <4>1
        <5>2. m \in Moves(from, Attacks(b, p, from) \ (b.occupied \ b.boards[Flip(us)][0]), {0})
          BY <2>1, <5>1, QuietsAre
        <5> QED
          BY <1>7, <2>5, <2>7, <5>2, PieceMovesAre
      <4>2. ASSUME NEW c \in CastleMoves(b, us), c.from = from, c.to = to
            PROVE  m \in CastleMoves(b, us)
        <5>1. c = Quiet(from, to)
          BY <1>2, <1>3, <1>4, <4>2, CastleMovesQuiet
        <5> QED
          BY <2>1, <4>2, <5>1
      <4> QED
        BY <3>2, <4>1, <4>2
    <3> QED
      BY <1>9, <2>4, <3>3, <3>4
  <2> QED
    BY <2>6, <2>7
<1>11. ASSUME m \in Noncaptures(b), m.promo = 0
       PROVE  m \in UsableKillers(b)
  <2>1. /\ m \in PawnMoves(b, us) \/ m \in PieceMoves(b, us) \/ m \in CastleMoves(b, us)
        /\ ~Takes(b, m)
    BY <1>9, <1>11
  <2>2. ASSUME NEW p \in Kinds, NEW from \in b.boards[us][p]
        PROVE  from \in Squares /\ v[from] = Value(us, p) /\ from \in b.boards[us][0]
    <3>1. from \in Squares /\ v[from] = Value(us, p)
      BY <1>3, <1>4, <1>5, <2>2, PiecesRead
    <3> QED
      BY <1>3, <1>4, <1>5, <1>6, <2>2, <3>1, BoardsAt
  <2>3. CASE m \in PawnMoves(b, us)
    <3>0. PICK from \in b.boards[us][pawn] :
            \E to \in PawnTargets(b, us, from) :
               m \in Moves(from, {to},
                           IF Row(to) \in {0, 7} THEN {queen, rook, bishop, knight} ELSE {0})
      BY <2>3, PawnMovesAre
    <3>1. PICK to \in PawnTargets(b, us, from) :
            m \in Moves(from, {to},
                        IF Row(to) \in {0, 7} THEN {queen, rook, bishop, knight} ELSE {0})
      BY <3>0
    <3>2. m = Quiet(from, to) /\ m.from = from /\ m.to = to
      BY <1>11, <3>1, QuietMoves, QuietsAre
    <3>3. Row(to) \notin {0, 7}
      BY <1>11, <3>1 DEF Moves, queen, rook, bishop, knight
    <3>4. from \in Squares /\ v[from] = Value(us, pawn) /\ from \in b.boards[us][0]
      BY <1>7, <2>2, <3>1
    <3>5. Column(to) = Column(from) /\ (to \in Squares => v[to] = empty)
      BY <1>5, <1>6, <1>7, <2>1, <3>2, <3>4 DEF Takes
    <3>6. QuietPawn(v, us, from, to)
      BY <1>2, <1>3, <1>4, <3>1, <3>3, <3>4, <3>5, ListedPawns
    <3>7. Usable(b, from, to)
      BY <1>2, <1>3, <1>4, <3>4, <3>6, UsablePawns
    <3> QED
      BY <1>8, <3>2, <3>4, <3>7
  <2>4. CASE m \in PieceMoves(b, us)
    <3>0. PICK p \in {knight, bishop, rook, queen, king} :
            \E from \in b.boards[us][p] :
               m \in Moves(from, Attacks(b, p, from) \ (b.occupied \ b.boards[Flip(us)][0]),
                           {0})
      BY <2>4, PieceMovesAre
    <3>1. PICK from \in b.boards[us][p] :
            m \in Moves(from, Attacks(b, p, from) \ (b.occupied \ b.boards[Flip(us)][0]), {0})
      BY <3>0
    <3>2. PICK to : m = Quiet(from, to) /\ to \in Attacks(b, p, from)
      BY <1>11, <3>1, QuietMoves
    <3>3. /\ p \in Kinds \ {pawn} /\ from \in Squares /\ v[from] = Value(us, p)
          /\ from \in b.boards[us][0]
      BY <1>7, <2>2, <3>1
    <3>4. to \in Squares
      BY <3>1, <3>2, <3>3, AttacksOnBoard
    <3>5. v[to] = empty
      <4>1. m.to = to
        BY <3>2, QuietsAre
      <4> QED
        BY <1>5, <2>1, <3>4, <4>1 DEF Takes
    <3>6. Usable(b, from, to)
      BY <1>2, <1>3, <1>4, <3>2, <3>3, <3>4, <3>5, UsablePieces
    <3> QED
      BY <1>8, <3>2, <3>3, <3>6
  <2>5. CASE m \in CastleMoves(b, us)
    <3>1. PICK from, to : from = m.from /\ to = m.to
      OBVIOUS
    <3>2. /\ m = Quiet(from, to) /\ from \in Squares /\ to \in Squares
          /\ v[from] = Value(us, king) /\ v[to] = empty
      BY <1>2, <1>3, <1>4, <2>5, <3>1, CastleMovesQuiet
    <3>3. Usable(b, from, to)
      BY <1>2, <1>3, <1>4, <2>5, <3>1, <3>2, KindsApart, UsablePieces
    <3>4. from \in b.boards[us][0]
      BY <1>3, <1>4, <1>5, <1>6, <3>2, KindsApart, BoardsAt
    <3> QED
      BY <1>8, <3>2, <3>3, <3>4
  <2> QED
    BY <2>1, <2>3, <2>4, <2>5
<1> QED
  BY <1>10, <1>11

\* What the move picker lets through as a killer, by the two tests that look at
\* squares alone, is exactly a quiet move that the generators will list, at
\* every board that moves and undos lead to.
THEOREM KillersAlwaysFit == Spec => []KillersAreQuietMoves
<1>1. Init => BackedInv
  BY BackedInit
<1>2. BackedInv /\ [Next]_vars => BackedInv'
  BY BackedNext
<1>3. BackedInv => KillersAreQuietMoves
  <2>1. Whole(board) => \A m : m \in UsableKillers(board)
                               <=> m \in {x \in Noncaptures(board) : x.promo = 0}
    BY KillersFit
  <2> QED
    BY <2>1 DEF BackedInv, Backed, KillersAreQuietMoves
<1> QED
  BY <1>1, <1>2, <1>3, PTL DEF Spec
-----------------------------------------------------------------------------
(***************************************************************************)
(* The texts of moves.                                                     *)
(***************************************************************************)
\* A move is nothing but its squares and what it promotes to.
IsMove(m) == m = [from |-> m.from, to |-> m.to, promo |-> m.promo]

LEMMA MovesAre ==
  ASSUME NEW m, NEW from, NEW targets, NEW promos, m \in Moves(from, targets, promos)
  PROVE  IsMove(m) /\ m.from = from /\ m.to \in targets /\ m.promo \in promos
BY DEF Moves, IsMove

\* What the generators offer: a king goes two squares to castle only.
LEMMA ListedAre ==
  ASSUME NEW b, NEW v \in Contents, NEW fl, NEW us, Reads(b, v, fl), AreFlags(fl),
         us = fl.side, NEW m \in PseudolegalMoves(b)
  PROVE  IsMove(m) /\ m # Empty /\ (IsCastleMove(b, m) => m = CastleNamed(b, CastledSide(m)))
<1>1. m \in PawnMoves(b, us) \union PieceMoves(b, us) \union CastleMoves(b, us)
  BY DEF PseudolegalMoves, Reads
<1>2. us \in Colors /\ b.boards = BoardsOf(v) /\ b.values = v /\ b.flags.side = us
  BY DEF Reads, AreFlags
<1>3. ASSUME m.promo # 1
      PROVE  m # Empty
  BY <1>3 DEF Empty
<1>4. CASE m \in PawnMoves(b, us)
  <2>1. PICK from \in b.boards[us][pawn] : \E to \in PawnTargets(b, us, from) :
          m \in Moves(from, {to},
                      IF Row(to) \in {0, 7} THEN {queen, rook, bishop, knight} ELSE {0})
    BY <1>4, PawnMovesAre
  <2>2. IsMove(m) /\ m.from = from /\ m.promo \in {0, queen, rook, bishop, knight}
    BY <2>1, MovesAre
  <2>3. m.promo # 1
    BY <2>2 DEF queen, rook, bishop, knight
  <2>4. v[from] = Value(us, pawn)
    BY <1>2, <2>1, KindsApart, PiecesRead
  <2>5. ~IsCastleMove(b, m)
    BY <1>2, <2>2, <2>4, KindsApart, Codings DEF IsCastleMove
  <2> QED
    BY <1>3, <2>2, <2>3, <2>5
<1>5. CASE m \in PieceMoves(b, us)
  <2>7. PICK p \in {knight, bishop, rook, queen, king} : \E from \in b.boards[us][p] :
          m \in Moves(from, Attacks(b, p, from) \ (b.occupied \ b.boards[Flip(us)][0]), {0})
    BY <1>5, PieceMovesAre
  <2>1. PICK from \in b.boards[us][p] :
          m \in Moves(from, Attacks(b, p, from) \ (b.occupied \ b.boards[Flip(us)][0]), {0})
    BY <2>7
  <2>2. /\ IsMove(m) /\ m.from = from /\ m.promo = 0
        /\ m.to \in Attacks(b, p, from) \ (b.occupied \ b.boards[Flip(us)][0])
    BY <2>1, MovesAre
  <2>3. p \in Kinds
    BY <2>7 DEF knight, bishop, rook, queen, king, Kinds
  <2>4. from \in Squares /\ v[from] = Value(us, p)
    BY <1>2, <2>1, <2>3, PiecesRead
  <2>5. p = king => Magnitude(from - m.to) # 2
    BY <2>2, <2>4, <2>7, AttacksOnBoard
  <2>6. ~IsCastleMove(b, m)
    BY <1>2, <2>2, <2>3, <2>4, <2>5, Codings DEF IsCastleMove
  <2> QED
    BY <1>3, <2>2, <2>6
<1>6. CASE m \in CastleMoves(b, us)
  <2>1. PICK home : home = FirstRow(us) + 4 /\ home \in {4, 60}
    BY <1>2 DEF FirstRow, Colors
  <2>6. \/ CastlesTo(b, us, "king", home, home + 2, {home + 1, home + 2}, m)
        \/ CastlesTo(b, us, "queen", home, home - 2, {home - 1, home - 2, home - 3}, m)
    BY <1>6, <2>1, CastleMovesAre
  <2>2. /\ m.from = home /\ m.promo = 0
        /\ m.to = home + 2 \/ m.to = home - 2
    BY <2>6 DEF CastlesTo
  <2>3. IsMove(m)
    BY <1>6, MovesAre DEF CastleMoves, Castlings
  <2>4. m.to = IF CastledSide(m) = "king" THEN home + 2 ELSE home - 2
    BY <2>1, <2>2 DEF CastledSide
  <2>5. CastleNamed(b, CastledSide(m)) = m
    BY <1>2, <2>1, <2>2, <2>3, <2>4 DEF CastleNamed, IsMove
  <2> QED
    BY <1>3, <2>2, <2>3, <2>5
<1> QED
  BY <1>1, <1>4, <1>5, <1>6

\* A legal move, with the man that makes it.
Proper(b, m) ==
  /\ IsMove(m) /\ m.from \in Squares
  /\ \E p \in Kinds : b.values[m.from] = Value(b.flags.side, p)
  /\ IsCastleMove(b, m) => m = CastleNamed(b, CastledSide(m))

AllProper(b, legal) == b.flags.side \in Colors /\ \A m \in legal : Proper(b, m)

LEMMA LegalAreProper ==
  ASSUME NEW b, Whole(b), NEW m \in LegalMoves(b)
  PROVE  Proper(b, m) /\ b.flags.side \in Colors
<1>1. PICK v, fl, ff, cs, u : b = State(v, fl, ff, cs, u) /\ Wholly(v, fl, ff, cs, u)
  BY DEF Whole
<1>2. Reads(b, v, fl)
  BY <1>1 DEF Reads, State, Standing
<1>3. v \in Contents /\ AreFlags(fl) /\ b.flags = fl /\ b.values = v
  BY <1>1, <1>2 DEF Wholly, Reads
<1>4. m \in PseudolegalMoves(b) /\ ~Refused(b, m)
  BY DEF LegalMoves, Makes
<1>5. IsMove(m) /\ m # Empty /\ (IsCastleMove(b, m) => m = CastleNamed(b, CastledSide(m)))
  BY <1>2, <1>3, <1>4, ListedAre
<1>6. PICK p : Fits(v, fl, p, m)
  BY <1>3, <1>4, <1>5, GeneratedSuits DEF Suits
<1>7. p \in Kinds /\ m.from \in Squares /\ v[m.from] = Value(fl.side, p)
  BY <1>6 DEF Fits, Goes
<1> QED
  BY <1>3, <1>5, <1>7 DEF Proper, AreFlags

\* A text of squares means the one legal move that matches it.
LEMMA MeantAre ==
  ASSUME NEW b, NEW legal, NEW text, text.castle = "none", NEW m
  PROVE  m \in MeantBy(b, legal, text) <=>
           /\ m \in legal /\ Matches(b, m, text)
           /\ \A other \in legal : Matches(b, other, text) => other = m
BY DEF MeantBy, Matches

\* Two men of one colour are of one kind when they are the same on the squares.
LEMMA SameKind ==
  ASSUME NEW c \in Colors, NEW x, NEW y, \E p \in Kinds : x = Value(c, p),
         \E p \in Kinds : y = Value(c, p)
  PROVE  (Magnitude(x) = Magnitude(y) <=> x = y) /\ Magnitude(x) # 0
<1>1. PICK p \in Kinds, q \in Kinds : x = Value(c, p) /\ y = Value(c, q)
  OBVIOUS
<1>2. Magnitude(x) = p /\ Magnitude(y) = q
  BY <1>1, Codings
<1> QED
  BY <1>1, <1>2 DEF Kinds

LEMMA SquareTexts ==
  ASSUME NEW prefix, NEW file, NEW rank, NEW to, NEW promo, NEW mark,
         NEW text, text = SquareText(prefix, file, rank, to, promo, mark)
  PROVE  /\ text.castle = "none" /\ text.prefix = prefix /\ text.file = file
         /\ text.rank = rank /\ text.to = to /\ text.promo = promo /\ text.mark = mark
BY DEF SquareText

LEMMA CastleTexts ==
  ASSUME NEW side, NEW mark, NEW text, text = CastleText(side, mark)
  PROVE  text.castle = side /\ text.mark = mark
BY DEF CastleText

\* What moveToStr writes is read back.
LEMMA LongTextsRead ==
  ASSUME NEW b, NEW legal, AllProper(b, legal), NEW m \in legal, NEW text, text = MoveToStr(b, m),
         text.castle = "none" \/ text.mark = "none"
  PROVE  MeantBy(b, legal, text) = {m}
<1>1. Proper(b, m) /\ b.flags.side \in Colors
  BY DEF AllProper
<1>2. CASE IsCastleMove(b, m)
  <2>1. PICK side, mark : side = CastledSide(m) /\ mark = CheckMark(b, m)
    OBVIOUS
  <2>2. text = CastleText(side, mark)
    BY <1>2, <2>1 DEF MoveToStr
  <2>3. text.castle = side /\ text.mark = mark
    BY <2>2, CastleTexts
  <2>4. side \in {"king", "queen"}
    BY <2>1 DEF CastledSide
  <2>5. text.castle # "none" /\ text.mark = "none"
    BY <2>3, <2>4
  <2>6. m = CastleNamed(b, text.castle)
    BY <1>1, <1>2, <2>1, <2>3 DEF Proper
  <2> QED
    BY <2>5, <2>6 DEF MeantBy
<1>3. CASE ~IsCastleMove(b, m)
  <2>1. PICK mark, prefix, file, rank :
          /\ mark = CheckMark(b, m) /\ prefix = Letter(b, m)
          /\ file = Column(m.from) /\ rank = Row(m.from)
    OBVIOUS
  <2>2. text = SquareText(prefix, file, rank, m.to, m.promo, mark)
    BY <1>3, <2>1 DEF MoveToStr
  <2>3. /\ text.castle = "none" /\ text.prefix = prefix /\ text.file = file
        /\ text.rank = rank /\ text.to = m.to /\ text.promo = m.promo
    BY <2>2, SquareTexts
  <2>4. Magnitude(b.values[m.from]) # 0
    BY <1>1, SameKind DEF Proper
  <2>5. Matches(b, m, text)
    BY <2>1, <2>3, <2>4 DEF Matches, PieceMatches, Letter
  <2>6. ASSUME NEW other \in legal, Matches(b, other, text)
        PROVE  other = m
    <3>1. Proper(b, other)
      BY DEF AllProper
    <3>2. PICK x, y : x = m.from /\ y = other.from /\ x \in Squares /\ y \in Squares
      BY <1>1, <3>1 DEF Proper
    <3>3. other.to = m.to /\ other.promo = m.promo
      BY <2>3, <2>6 DEF Matches
    <3>4. Row(x) \in 0 .. 7 /\ Column(x) \in 0 .. 7
      BY <3>2 DEF Row, Column, Squares
    <3>5. Row(y) = Row(x) /\ Column(y) = Column(x)
      BY <2>1, <2>3, <2>6, <3>2, <3>4 DEF Matches, Unsaid
    <3>8. \A s \in Squares : s = 8 * Row(s) + Column(s)
      BY DEF Row, Column, Squares
    <3>6. x = 8 * Row(x) + Column(x) /\ y = 8 * Row(y) + Column(y)
      BY <3>2, <3>8
    <3>7. x = y
      BY <3>5, <3>6
    <3> QED
      BY <1>1, <3>1, <3>2, <3>3, <3>7 DEF Proper, IsMove
  <2>7. \A n : n \in MeantBy(b, legal, text) <=> n = m
    BY <2>3, <2>5, <2>6, MeantAre
  <2> QED
    BY <2>7
<1> QED
  BY <1>2, <1>3

\* A set of moves to one square is finite.
Arriving(set, to, promo) ==
  \A m \in set : IsMove(m) /\ m.from \in Squares /\ m.to = to /\ m.promo = promo

LEMMA FewMoves ==
  ASSUME NEW alike, NEW to, NEW promo, Arriving(alike, to, promo)
  PROVE  IsFiniteSet(alike)
<1>0. \A m \in alike : IsMove(m) /\ m.from \in Squares /\ m.to = to /\ m.promo = promo
  BY DEF Arriving
<1>1. PICK F, move :
        /\ F = {m.from : m \in alike}
        /\ move = [s \in F |-> [from |-> s, to |-> to, promo |-> promo]]
  OBVIOUS
<1>2. F \in SUBSET Squares /\ \A m \in alike : m.from \in F
  BY <1>0, <1>1
<1>3. IsFiniteSet(F)
  BY <1>2, FiniteSquares
<1>4. \A m \in alike : move[m.from] = m
  BY <1>0, <1>1, <1>2 DEF IsMove
<1>5. \A s \in F : move[s] \in alike /\ move[s].from = s
  <2> SUFFICES ASSUME NEW s \in F
               PROVE  move[s] \in alike /\ move[s].from = s
    OBVIOUS
  <2>1. PICK m \in alike : m.from = s
    BY <1>1
  <2> QED
    BY <1>4, <2>1
<1>6. move \in [F -> alike]
  BY <1>1, <1>5
<1>7. /\ \A x, y \in F : move[x] = move[y] => x = y
      /\ \A m \in alike : \E s \in F : move[s] = m
  BY <1>2, <1>4, <1>5
<1> QED
  BY <1>3, <1>6, <1>7, SameNumber

\* A text without the file or without the rank is read when it leaves no doubt.
ShortText(b, move, file, rank) ==
  SquareText(Letter(b, move), file, rank, move.to, move.promo, "none")
Alike(b, legal, move, file, rank) ==
  {m \in legal : /\ m.to = move.to /\ m.promo = move.promo
                 /\ b.values[m.from] = b.values[move.from]
                 /\ file \in {Unsaid, Column(m.from)}
                 /\ rank \in {Unsaid, Row(m.from)}}
ShortlyRead(b, legal, move, file, rank) ==
  MeantBy(b, legal, ShortText(b, move, file, rank))
    = IF Cardinality(Alike(b, legal, move, file, rank)) = 1
      THEN Alike(b, legal, move, file, rank) ELSE {}

LEMMA ShortTextsRead ==
  ASSUME NEW b, NEW legal, AllProper(b, legal), NEW move \in legal, NEW file, NEW rank,
         Unsaid \in {file, rank}
  PROVE  ShortlyRead(b, legal, move, file, rank)
<1>0. PICK alike, text :
        /\ alike = Alike(b, legal, move, file, rank)
        /\ text = ShortText(b, move, file, rank)
  OBVIOUS
<1>1. PICK prefix, to, promo :
        prefix = Letter(b, move) /\ to = move.to /\ promo = move.promo
  OBVIOUS
<1>2. text = SquareText(prefix, file, rank, to, promo, "none")
  BY <1>0, <1>1 DEF ShortText
<1>10. alike = {m \in legal : /\ m.to = to /\ m.promo = promo
                              /\ b.values[m.from] = b.values[move.from]
                              /\ file \in {Unsaid, Column(m.from)}
                              /\ rank \in {Unsaid, Row(m.from)}}
  BY <1>0, <1>1 DEF Alike
<1>3. /\ text.castle = "none" /\ text.prefix = prefix /\ text.file = file
      /\ text.rank = rank /\ text.to = to /\ text.promo = promo
  BY <1>2, SquareTexts
<1>4. ASSUME NEW m \in legal
      PROVE  Matches(b, m, text) <=> m \in alike
  <2>1. PICK x, y : x = b.values[m.from] /\ y = b.values[move.from]
    OBVIOUS
  <2>2. Proper(b, m) /\ Proper(b, move) /\ b.flags.side \in Colors
    BY DEF AllProper
  <2>3. (Magnitude(x) = Magnitude(y) <=> x = y) /\ Magnitude(y) # 0
    BY <2>1, <2>2, SameKind DEF Proper
  <2>4. PieceMatches(b, m, text) <=> x = y
    BY <1>1, <1>3, <2>1, <2>3 DEF PieceMatches, Letter
  <2> QED
    BY <1>1, <1>3, <1>10, <2>1, <2>4 DEF Matches
<1>5. \A m : m \in MeantBy(b, legal, text) <=> m \in alike /\ \A other \in alike : other = m
  BY <1>3, <1>4, <1>10, MeantAre
<1>6. Cardinality(alike) = 1 <=> \E m : alike = {m}
  <2>1. Arriving(alike, to, promo)
    BY <1>10 DEF AllProper, Proper, Arriving
  <2>2. IsFiniteSet(alike)
    BY <2>1, FewMoves
  <2> QED
    BY <2>2, FS_Singleton
<1>7. CASE \E m : alike = {m}
  <2>1. PICK m : alike = {m}
    BY <1>7
  <2>2. MeantBy(b, legal, text) = alike
    BY <1>5, <2>1
  <2>3. Cardinality(alike) = 1
    BY <1>6, <1>7
  <2> QED
    BY <1>0, <2>2, <2>3 DEF ShortlyRead
<1>8. CASE ~\E m : alike = {m}
  <2>1. ASSUME NEW m \in alike, \A other \in alike : other = m
        PROVE  FALSE
    <3>1. alike = {m}
      BY <2>1
    <3> QED
      BY <1>8, <3>1
  <2>2. MeantBy(b, legal, text) = {}
    BY <1>5, <2>1
  <2>3. Cardinality(alike) # 1
    BY <1>6, <1>8
  <2> QED
    BY <1>0, <2>2, <2>3 DEF ShortlyRead
<1> QED
  BY <1>7, <1>8

LEMMA WholeTextsRead == Whole(board) => TextsReadBack
<1> SUFFICES ASSUME Whole(board)
             PROVE  TextsReadBack
  OBVIOUS
<1>1. PICK legal, written : legal = LegalMoves(board) /\ written = Written(board)
  OBVIOUS
<1>2. legal = {} \/ AllProper(board, legal)
  BY <1>1, LegalAreProper DEF AllProper
<1>3. written = {<<m, MoveToStr(board, m)>> : m \in legal}
  BY <1>1 DEF Written
<1>4. {w[1] : w \in written} = legal
  <2>1. \A m : <<m, MoveToStr(board, m)>>[1] = m
    OBVIOUS
  <2>2. ASSUME NEW m
        PROVE  m \in {w[1] : w \in written} <=> \E n \in legal : m = <<n, MoveToStr(board, n)>>[1]
    BY <1>3
  <2> QED
    BY <2>1, <2>2
<1>5. ASSUME NEW w \in written, w[2].castle = "none" \/ w[2].mark = "none"
      PROVE  ReadsBack(board, legal, w)
  <2>1. PICK m \in legal : w = <<m, MoveToStr(board, m)>>
    BY <1>3
  <2>4. PICK text : text = MoveToStr(board, m)
    OBVIOUS
  <2>2. w[1] = m /\ w[2] = text
    BY <2>1, <2>4
  <2>5. /\ AllProper(board, legal)
        /\ text.castle = "none" \/ text.mark = "none"
    BY <1>2, <1>5, <2>2
  <2>3. MeantBy(board, legal, text) = {m}
    BY <2>4, <2>5, LongTextsRead
  <2> QED
    BY <2>2, <2>3 DEF ReadsBack
<1>6. ASSUME NEW reaching
      PROVE  ShortTextsUnambiguous(board, legal, reaching)
  <2>1. ASSUME NEW move \in legal, NEW file, NEW rank, Unsaid \in {file, rank}
        PROVE  ShortlyRead(board, legal, move, file, rank)
    BY <1>2, <2>1, ShortTextsRead
  <2>2. ASSUME NEW move \in legal, NEW file \in Said, NEW rank \in Said,
               Unsaid \in {file, rank}
        PROVE
          LET alike == {m \in legal : /\ m.to = move.to /\ m.promo = move.promo
                                     /\ board.values[m.from] = board.values[move.from]
                                     /\ file \in {Unsaid, Column(m.from)}
                                     /\ rank \in {Unsaid, Row(m.from)}}
              text == SquareText(Letter(board, move), file, rank, move.to, move.promo, "none")
          IN MeantBy(board, legal, text) = IF Cardinality(alike) = 1 THEN alike ELSE {}
    <3>1. ShortlyRead(board, legal, move, file, rank)
      BY <2>1, <2>2
    <3> QED
      BY <3>1, Zenon DEF ShortlyRead, ShortText, Alike
  <2> QED
    BY <2>2, Zenon DEF ShortTextsUnambiguous
<1> QED
  BY <1>1, <1>4, <1>5, <1>6 DEF TextsReadBack

\* On every line of play what moveToStr writes makeTextMove reads as the same move,
\* but for a castling move that gives check; and a text with the source file alone,
\* the rank alone or neither is read as a move exactly when no other legal move is
\* worded the same.
THEOREM TextsAlwaysRead == Spec => []TextsReadBack
<1>1. BackedInv => TextsReadBack
  BY WholeTextsRead DEF BackedInv, Backed
<1>2. BackedInv /\ [Next]_vars => BackedInv'
  BY BackedNext
<1> QED
  BY <1>1, <1>2, BackedInit, PTL DEF Spec
=============================================================================
