----------------------------- MODULE SearchProofs -----------------------------
(***************************************************************************)
(* Theorems about Search, for every depth, cap on the ply, reduction and   *)
(* number of moves: how the frames of the recursion stand on each other,   *)
(* what that says of the ply counter and the null-move flags, and that the *)
(* board is given back whichever way a call ends.                          *)
(***************************************************************************)
EXTENDS Search, SequenceTheorems, FiniteSetTheorems, TLAPS

(***************************************************************************)
(* The stack of frames.                                                    *)
(***************************************************************************)
\* Where in its function a frame may be.
Placed(f) ==
  \/ f.function = "walk" /\ f.at = "entry"
  \/ f.function = "value" /\ f.at = "searched"
  \/ f.function = "test" /\ f.at \in {"entry", "node", "reduced", "searched"}
  \/ f.function = "child" /\ f.at \in {"entry", "leaf", "null", "node", "reduced",
                                       "searched", "leaving"}
  \/ f.function = "null" /\ f.at \in {"probe", "verify"}
  \/ f.function = "quiet" /\ f.at \in {"entry", "node", "searched"}

\* The moves a frame has on the board: one while it waits for what the move is worth.
MovesOnBoard(f) ==
  IF \/ f.function \in {"test", "child", "quiet"} /\ f.at \in {"reduced", "searched"}
     \/ f.function = "null" /\ f.at = "probe"
  THEN 1 ELSE 0

Bottom(f) == f.function \in {"walk", "test", "value"}

\* What frame t may have called while it is where it is.
Calls(t, f) ==
  \/ t.function = "value" /\ f.function = "quiet"
  \/ /\ t.function \in {"test", "child"} /\ t.at \in {"reduced", "searched"}
     /\ f.function = "child"
  \/ t.function = "child" /\ t.at = "leaf" /\ f.function = "quiet"
  \/ t.function = "child" /\ t.at = "null" /\ f.function = "null"
  \/ t.function = "null" /\ f.function = "child"
  \/ t.function = "quiet" /\ t.at = "searched" /\ f.function = "quiet"

\* A verification searches at least one ply.
Above(t, f) ==
  /\ Calls(t, f)
  /\ t.at = "verify" /\ f.at = "entry" => f.depth >= 1

\* How deep a frame may have been entered, which the depth it has left does not say.
Fits(f, ply) ==
  /\ f.function \in {"walk", "value", "test"} => ply = 0
  /\ f.function = "walk" => f.moves <= MaxDepth
  /\ f.function = "child" =>
       /\ ply <= MaxDepth - 1
       /\ f.at \in {"null", "node", "reduced", "searched"} => ply < MaxDepth - 1
  /\ f.function = "null" => ply < MaxDepth - 1 /\ f.depth > 1
  /\ f.function = "quiet" =>
       /\ ply <= MaxDepth
       /\ f.at \in {"node", "searched"} => ply < MaxDepth

\* No verification among the first n frames.
NoneVerifies(s, n) == \A j \in 1 .. n : s[j].at # "verify"

\* How high frame i may stand: a ply takes two frames, a node and its free move; one
\* verification takes two more, without a ply; a capture takes one.
Extra(s, i) == IF NoneVerifies(s, i - 1) THEN 0 ELSE 2
Low(s, i, ply) ==
  LET f == s[i].function
  IN /\ f \in {"walk", "value"} => i = 1
     /\ f \in {"test", "child"} => i <= 2 * ply + 1 + Extra(s, i)
     /\ f = "null" => i <= 2 * ply + 2 + Extra(s, i)
     /\ f = "quiet" => i <= ply + MaxDepth + 3

\* Frame i of s, entered at that ply, stands where it may.
Stands(s, i, ply) ==
  /\ Placed(s[i])
  /\ IF i = 1 THEN Bottom(s[1]) ELSE Above(s[i - 1], s[i])
  /\ Fits(s[i], ply)
  /\ Low(s, i, ply)
  /\ s[i].at = "verify" => NoneVerifies(s, i - 1)
  /\ s[i].function \in {"test", "child", "null"} => s[1].function # "value"

\* Each frame stands where it may, at the ply that the moves below it make.
Measured(s, plies) ==
  /\ s \in Seq(Frames)
  /\ plies \in [0 .. Len(s) -> Nat]
  /\ plies[0] = 0
  /\ \A i \in 1 .. Len(s) :
       /\ plies[i] = plies[i - 1] + MovesOnBoard(s[i])
       /\ Stands(s, i, plies[i - 1])

Sound(s, ply) ==
  \E plies \in [0 .. Len(s) -> Nat] : Measured(s, plies) /\ ply = plies[Len(s)]

LEMMA MovesNat == \A f : MovesOnBoard(f) \in {0, 1}
BY DEF MovesOnBoard

\* Whether a frame stands is a matter of the frames up to it.
LEMMA StandsLocally ==
  ASSUME NEW s, NEW t, NEW i \in Nat \ {0}, NEW ply,
         \A j \in 1 .. i : t[j] = s[j],
         Stands(s, i, ply)
  PROVE  Stands(t, i, ply)
<1>1. t[1] = s[1] /\ t[i] = s[i] /\ (i # 1 => t[i - 1] = s[i - 1])
  OBVIOUS
<1>2. NoneVerifies(t, i - 1) <=> NoneVerifies(s, i - 1)
  BY DEF NoneVerifies
<1> QED
  BY <1>1, <1>2 DEF Stands, Low, Extra

LEMMA EmptySound == Sound(<<>>, 0)
<1> DEFINE plies == [i \in 0 .. 0 |-> 0]
<1>1. <<>> \in Seq(Frames) /\ Len(<<>>) = 0
  BY EmptySeq
<1>2. plies \in [0 .. Len(<<>>) -> Nat] /\ plies[0] = 0
  BY <1>1
<1>3. Measured(<<>>, plies)
  BY <1>1, <1>2 DEF Measured
<1> QED
  BY <1>1, <1>2, <1>3 DEF Sound

\* The first elements of a sequence.
LEMMA Truncated ==
  ASSUME NEW S, NEW s \in Seq(S), NEW k \in 0 .. Len(s)
  PROVE  /\ SubSeq(s, 1, k) \in Seq(S) /\ Len(SubSeq(s, 1, k)) = k
         /\ \A i \in 1 .. k : SubSeq(s, 1, k)[i] = s[i]
<1>1. Len(s) \in Nat
  BY LenProperties
<1>2. \A i \in 1 .. k : s[i] \in S
  BY <1>1, ElementOfSeq
<1>3. k \in Int /\ 1 \in Int
  BY <1>1
<1>4. /\ SubSeq(s, 1, k) \in Seq(S)
      /\ Len(SubSeq(s, 1, k)) = IF 1 <= k THEN k - 1 + 1 ELSE 0
      /\ \A i \in 1 .. k - 1 + 1 : SubSeq(s, 1, k)[i] = s[1 + i - 1]
  BY ONLY <1>2, <1>3, SubSeqProperties
<1> QED
  BY <1>1, <1>3, <1>4

\* The frames below some frame.
LEMMA Prefix ==
  ASSUME NEW s, NEW plies, Measured(s, plies), NEW k \in 0 .. Len(s)
  PROVE  Sound(SubSeq(s, 1, k), plies[k])
<1> DEFINE t == SubSeq(s, 1, k)
           below == [i \in 0 .. k |-> plies[i]]
<1>1. s \in Seq(Frames) /\ Len(s) \in Nat
  BY LenProperties DEF Measured
<1>3. /\ t \in Seq(Frames) /\ Len(t) = k
      /\ \A i \in 1 .. k : t[i] = s[i]
  BY <1>1, Truncated
<1> HIDE DEF t
<1>4. below \in [0 .. Len(t) -> Nat] /\ below[0] = 0 /\ below[k] = plies[k]
  <2>1. (\A i \in 0 .. k : plies[i] \in Nat) /\ plies[0] = 0
    BY <1>1 DEF Measured
  <2>2. 0 \in 0 .. k /\ k \in 0 .. k
    BY <1>1
  <2> QED
    BY <1>3, <2>1, <2>2
<1>5. ASSUME NEW i \in 1 .. k
      PROVE  /\ below[i] = below[i - 1] + MovesOnBoard(t[i])
             /\ Stands(t, i, below[i - 1])
  <2>1. /\ plies[i] = plies[i - 1] + MovesOnBoard(s[i])
        /\ Stands(s, i, plies[i - 1])
    BY <1>1 DEF Measured
  <2>2. below[i] = plies[i] /\ below[i - 1] = plies[i - 1]
    BY <1>1
  <2>3. Stands(t, i, plies[i - 1])
    BY <1>1, <1>3, <2>1, StandsLocally
  <2> QED
    BY <1>3, <2>1, <2>2, <2>3
<1> HIDE DEF below
<1>6. Measured(t, below)
  BY <1>3, <1>4, <1>5 DEF Measured
<1> QED
  BY <1>3, <1>4, <1>6 DEF Sound, t

\* One frame more.
LEMMA Grown ==
  ASSUME NEW s, NEW ply, Sound(s, ply), NEW f \in Frames,
         Stands(Append(s, f), Len(s) + 1, ply)
  PROVE  Sound(Append(s, f), ply + MovesOnBoard(f))
<1> DEFINE t == Append(s, f)
           n == Len(s)
<1>1. PICK plies : Measured(s, plies) /\ ply = plies[n]
  BY DEF Sound
<1>2. s \in Seq(Frames) /\ n \in Nat /\ ply \in Nat
  <2>1. s \in Seq(Frames)
    BY <1>1 DEF Measured
  <2>2. n \in Nat
    BY <2>1, LenProperties
  <2> QED
    BY <1>1, <2>1, <2>2 DEF Measured
<1>3. /\ t \in Seq(Frames) /\ Len(t) = n + 1
      /\ \A i \in 1 .. n : t[i] = s[i]
      /\ t[n + 1] = f
  BY <1>2, AppendProperties
<1> HIDE DEF t
<1> DEFINE more == [i \in 0 .. n + 1 |-> IF i = n + 1 THEN ply + MovesOnBoard(f)
                                                      ELSE plies[i]]
<1>4. /\ more \in [0 .. Len(t) -> Nat] /\ more[0] = 0
      /\ more[n + 1] = ply + MovesOnBoard(f)
  <2>1. \A i \in 0 .. n : plies[i] \in Nat
    BY <1>1 DEF Measured
  <2>2. plies[0] = 0
    BY <1>1 DEF Measured
  <2>3. ply + MovesOnBoard(f) \in Nat
    BY <1>2, MovesNat
  <2> QED
    BY <1>2, <1>3, <2>1, <2>2, <2>3
<1>5. ASSUME NEW i \in 1 .. n + 1
      PROVE  /\ more[i] = more[i - 1] + MovesOnBoard(t[i])
             /\ Stands(t, i, more[i - 1])
  <2>1. CASE i = n + 1
    <3>1. more[i - 1] = ply
      BY <1>1, <1>2, <2>1
    <3> QED
      BY <1>3, <1>4, <2>1, <3>1 DEF t
  <2>2. CASE i \in 1 .. n
    <3>1. /\ plies[i] = plies[i - 1] + MovesOnBoard(s[i])
          /\ Stands(s, i, plies[i - 1])
      BY <1>1, <2>2 DEF Measured
    <3>2. more[i] = plies[i] /\ more[i - 1] = plies[i - 1]
      BY <1>2, <2>2
    <3>3. Stands(t, i, plies[i - 1])
      <4>1. \A j \in 1 .. i : t[j] = s[j]
        BY <1>2, <1>3, <2>2
      <4> QED
        BY <1>2, <2>2, <3>1, <4>1, StandsLocally
    <3> QED
      BY <1>3, <2>2, <3>1, <3>2, <3>3
  <2> QED
    BY <1>2, <2>1, <2>2
<1> HIDE DEF more
<1>6. Measured(t, more)
  BY <1>3, <1>4, <1>5 DEF Measured
<1> QED
  BY <1>3, <1>4, <1>6 DEF Sound, t

\* The innermost frame, and what is left without it.
LEMMA Innermost ==
  ASSUME NEW s, NEW ply, Sound(s, ply), s # <<>>
  PROVE  LET n == Len(s)
             entered == ply - MovesOnBoard(s[n])
         IN /\ s \in Seq(Frames) /\ n \in Nat \ {0} /\ s[n] \in Frames
            /\ ply \in Nat /\ entered \in Nat
            /\ Stands(s, n, entered)
            /\ Sound(SubSeq(s, 1, n - 1), entered)
<1> DEFINE n == Len(s)
           entered == ply - MovesOnBoard(s[n])
<1>1. PICK plies : Measured(s, plies) /\ ply = plies[n]
  BY DEF Sound
<1>2. s \in Seq(Frames)
  BY <1>1 DEF Measured
<1>3. n \in Nat \ {0} /\ s[n] \in Frames
  BY <1>2, EmptySeq, ElementOfSeq
<1>4. plies[n] \in Nat /\ plies[n - 1] \in Nat
  BY <1>1, <1>3 DEF Measured
<1>5. plies[n] = plies[n - 1] + MovesOnBoard(s[n]) /\ Stands(s, n, plies[n - 1])
  BY <1>1, <1>3 DEF Measured
<1>6. entered = plies[n - 1]
  BY <1>1, <1>4, <1>5, MovesNat
<1>7. Sound(SubSeq(s, 1, n - 1), plies[n - 1])
  <2>1. n - 1 \in 0 .. Len(s)
    BY <1>3
  <2> QED
    BY <1>1, <2>1, Prefix
<1> QED
  BY <1>1, <1>2, <1>3, <1>4, <1>5, <1>6, <1>7

LEMMA SoundTypes ==
  ASSUME NEW s, NEW ply, Sound(s, ply)
  PROVE  s \in Seq(Frames) /\ Len(s) \in Nat /\ ply \in Nat
<1>1. PICK plies : Measured(s, plies) /\ ply = plies[Len(s)]
  BY DEF Sound
<1>2. s \in Seq(Frames)
  BY <1>1 DEF Measured
<1>3. Len(s) \in Nat
  BY <1>2, LenProperties
<1> QED
  BY <1>1, <1>2, <1>3 DEF Measured

\* The innermost frame moves on within its function.
LEMMA Turned ==
  ASSUME NEW s, NEW ply, Sound(s, ply), s # <<>>,
         NEW f \in Frames, f.function = s[Len(s)].function,
         Placed(f), Fits(f, ply - MovesOnBoard(s[Len(s)])),
         f.at = "entry" => f.function = "walk",
         f.at = "verify" => NoneVerifies(s, Len(s) - 1)
  PROVE  Sound([s EXCEPT ![Len(s)] = f],
               ply - MovesOnBoard(s[Len(s)]) + MovesOnBoard(f))
<1> DEFINE n == Len(s)
           entered == ply - MovesOnBoard(s[n])
           t == SubSeq(s, 1, n - 1)
           u == Append(t, f)
<1>1. /\ s \in Seq(Frames) /\ n \in Nat \ {0} /\ s[n] \in Frames
      /\ entered \in Nat /\ Stands(s, n, entered) /\ Sound(t, entered)
  BY Innermost
<1>2. /\ t \in Seq(Frames) /\ Len(t) = n - 1
      /\ \A i \in 1 .. n - 1 : t[i] = s[i]
  <2>1. n - 1 \in 0 .. Len(s)
    BY <1>1
  <2> QED
    BY <1>1, <2>1, Truncated
<1> HIDE DEF t
<1>3. /\ u \in Seq(Frames) /\ Len(u) = n
      /\ \A i \in 1 .. n - 1 : u[i] = s[i]
      /\ u[n] = f
  BY <1>1, <1>2, AppendProperties
<1>4. Stands(u, n, entered)
  <2>1. NoneVerifies(u, n - 1) <=> NoneVerifies(s, n - 1)
    BY <1>3 DEF NoneVerifies
  <2>2. u[1].function = s[1].function
    BY <1>1, <1>3
  <2>3. Low(u, n, entered)
    BY <1>1, <1>3, <2>1, <2>2 DEF Stands, Low, Extra
  <2>4. IF n = 1 THEN Bottom(u[1]) ELSE Above(u[n - 1], u[n])
    <3>1. CASE n = 1
      BY <1>1, <1>3, <3>1 DEF Stands, Bottom
    <3>2. CASE n # 1
      <4>1. u[n - 1] = s[n - 1] /\ Above(s[n - 1], s[n])
        BY <1>1, <1>3, <3>2 DEF Stands
      <4>2. f.at # "entry"
        BY <1>1, <3>2 DEF Stands, Low
      <4> QED
        BY <1>3, <3>2, <4>1, <4>2 DEF Above, Calls
    <3> QED
      BY <3>1, <3>2
  <2> QED
    BY <1>1, <1>3, <2>1, <2>2, <2>3, <2>4 DEF Stands
<1>5. Sound(u, entered + MovesOnBoard(f))
  <2>1. Len(t) + 1 = n
    BY <1>1, <1>2
  <2> QED
    BY <1>1, <1>4, <2>1, Grown
<1>6. u = [s EXCEPT ![n] = f]
  <2>1. /\ [s EXCEPT ![n] = f] \in Seq(Frames)
        /\ Len([s EXCEPT ![n] = f]) = n
        /\ \A i \in 1 .. n : [s EXCEPT ![n] = f][i] = IF i = n THEN f ELSE s[i]
    BY <1>1, ExceptSeq
  <2>2. \A i \in 1 .. n : u[i] = [s EXCEPT ![n] = f][i]
    BY <1>1, <1>3, <2>1
  <2> HIDE DEF u
  <2> QED
    BY <1>3, <2>1, <2>2, SeqEqual
<1> QED
  BY <1>5, <1>6

\* A frame calls another, which stands no higher than its ply allows.
LEMMA Called ==
  ASSUME NEW s, NEW ply, Sound(s, ply), s # <<>>,
         NEW g \in Frames, Above(s[Len(s)], g), Placed(g), Fits(g, ply), g.at # "verify"
  PROVE  Sound(Append(s, g), ply + MovesOnBoard(g))
<1> DEFINE n == Len(s)
           f == s[n]
           entered == ply - MovesOnBoard(f)
           u == Append(s, g)
<1>1. /\ s \in Seq(Frames) /\ n \in Nat \ {0} /\ f \in Frames
      /\ entered \in Nat /\ ply \in Nat /\ Stands(s, n, entered)
  BY Innermost
<1>2. /\ \A i \in 1 .. n : u[i] = s[i]
      /\ u[n + 1] = g
  BY <1>1, AppendProperties
<1>3. ply = entered + MovesOnBoard(f)
  BY <1>1, MovesNat
<1>4. u[1] = s[1] /\ u[n] = f
  BY <1>1, <1>2
<1>5. /\ NoneVerifies(u, n) <=> NoneVerifies(s, n - 1) /\ f.at # "verify"
      /\ f.at = "verify" => NoneVerifies(s, n - 1)
  <2>1. 1 .. n = (1 .. n - 1) \union {n}
    BY <1>1
  <2>2. NoneVerifies(u, n) <=> NoneVerifies(s, n - 1) /\ f.at # "verify"
    BY <1>2, <2>1 DEF NoneVerifies
  <2> QED
    BY <1>1, <2>2 DEF Stands
<1> DEFINE before == Extra(s, n)
           after == Extra(u, n + 1)
<1>6. /\ before \in {0, 2} /\ after \in {0, 2} /\ before <= after
      /\ f.at = "verify" => before = 0 /\ after = 2
  <2>1. n + 1 - 1 = n
    BY <1>1
  <2> QED
    BY <1>5, <2>1 DEF Extra
<1>7. MaxDepth \in Nat /\ MaxDepth > 1
  BY SearchAssumption
<1>8. Low(s, n, entered) /\ Fits(f, entered) /\ Placed(f) /\ Calls(f, g)
  BY <1>1 DEF Stands, Above
<1> HIDE DEF before, after, entered, u
<1>9. s[1].function = "value" => g.function = "quiet"
  BY <1>1, <1>8 DEF Stands, Calls, Placed, Low
<1>10. Low(u, n + 1, ply)
  <2> USE <1>1, <1>3, <1>6, <1>7, <1>8 DEF Low, before, after
  <2>1. CASE g.function = "child"
    BY <1>2, <2>1 DEF Calls, MovesOnBoard, Placed
  <2>2. CASE g.function = "null"
    BY <1>2, <2>2 DEF Calls, MovesOnBoard, Fits
  <2>3. CASE g.function = "quiet"
    BY <1>2, <2>3 DEF Calls, MovesOnBoard, Fits
  <2> QED
    BY <2>1, <2>2, <2>3 DEF Calls
<1>11. Stands(u, n + 1, ply)
  <2>1. u[n + 1 - 1] = f /\ u[n + 1] = g /\ n + 1 # 1
    BY <1>1, <1>2, <1>4
  <2> QED
    BY <1>4, <1>9, <1>10, <2>1 DEF Stands
<1> QED
  BY <1>11, Grown DEF u

LEMMA AllStand ==
  ASSUME NEW s, NEW ply, Sound(s, ply), NEW i \in 1 .. Len(s)
  PROVE  s[i] \in Frames /\ \E entered \in Nat : Stands(s, i, entered)
<1>1. PICK plies : Measured(s, plies)
  BY DEF Sound
<1>2. s \in Seq(Frames)
  BY <1>1 DEF Measured
<1>3. Len(s) \in Nat /\ s[i] \in Frames
  BY <1>2, LenProperties, ElementOfSeq
<1>4. Stands(s, i, plies[i - 1])
  BY <1>1 DEF Measured
<1>5. plies[i - 1] \in Nat
  BY <1>1, <1>3 DEF Measured
<1> QED
  BY <1>3, <1>4, <1>5

(***************************************************************************)
(* The stack, the ply counter and the flags agree.                         *)
(***************************************************************************)
\* A verification has begun and its root has not been asked for a null move yet, or
\* has given its answer.
VerificationRoot(s) ==
  /\ s # <<>>
  /\ LET n == Len(s)
     IN \/ s[n].at = "verify"
        \/ /\ n > 1 /\ s[n - 1].at = "verify"
           /\ s[n].function = "child" /\ s[n].at \in {"entry", "leaving"}

StackInv ==
  /\ Sound(stack, currentPly)
  /\ verifyNullMove \in BOOLEAN /\ nullVerification \in BOOLEAN
  /\ verifyNullMove <=> NoneVerifies(stack, Len(stack))
  /\ nullVerification => VerificationRoot(stack)
  /\ returned \in Answers \union {"none"}

\* The ply at which the innermost frame was entered.
Entered == currentPly - MovesOnBoard(Top)

LEMMA TopStands ==
  ASSUME StackInv, ~Idle
  PROVE  /\ stack \in Seq(Frames) /\ Len(stack) \in Nat \ {0} /\ Top \in Frames
         /\ currentPly \in Nat /\ Entered \in Nat
         /\ currentPly = Entered + MovesOnBoard(Top)
         /\ Stands(stack, Len(stack), Entered)
         /\ Placed(Top) /\ Fits(Top, Entered)
         /\ Sound(Below, Entered)
<1>1. /\ stack \in Seq(Frames) /\ Len(stack) \in Nat \ {0} /\ Top \in Frames
      /\ currentPly \in Nat /\ Entered \in Nat
      /\ Stands(stack, Len(stack), Entered)
      /\ Sound(Below, Entered)
  BY Innermost DEF StackInv, Idle, Top, Entered, Below
<1>2. Placed(Top) /\ Fits(Top, Entered)
  BY <1>1 DEF Stands, Top
<1>3. currentPly = Entered + MovesOnBoard(Top)
  BY <1>1, MovesNat DEF Entered
<1> QED
  BY <1>1, <1>2, <1>3

\* A call that is no verification returns.
LEMMA ReturnKeeps ==
  ASSUME StackInv, ~Idle, Top.at # "verify",
         NEW answer \in Answers \union {"none"}, Return(answer),
         currentPly' = Entered, verifyNullMove' = verifyNullMove,
         nullVerification' \in BOOLEAN, nullVerification' => nullVerification
  PROVE  StackInv'
<1> DEFINE n == Len(stack)
<1>1. stack' = Below /\ returned' \in Answers \union {"none"}
  BY DEF Return
<1>2. /\ stack \in Seq(Frames) /\ n \in Nat \ {0} /\ Sound(Below, Entered)
  BY TopStands
<1>3. /\ Len(Below) = n - 1
      /\ \A i \in 1 .. n - 1 : Below[i] = stack[i]
  <2>1. n - 1 \in 0 .. Len(stack)
    BY <1>2
  <2> QED
    BY <1>2, <2>1, Truncated DEF Below
<1>4. NoneVerifies(stack, n) <=> NoneVerifies(Below, n - 1)
  <2>1. 1 .. n = (1 .. n - 1) \union {n}
    BY <1>2
  <2> QED
    BY <1>3, <2>1 DEF NoneVerifies, Top
<1>5. nullVerification' => VerificationRoot(Below)
  <2> SUFFICES ASSUME nullVerification
               PROVE  VerificationRoot(Below)
    OBVIOUS
  <2>1. n > 1 /\ stack[n - 1].at = "verify"
    BY <1>2 DEF StackInv, VerificationRoot, Top
  <2>2. Below # <<>> /\ Below[n - 1] = stack[n - 1]
    BY <1>2, <1>3, <2>1, EmptySeq
  <2> QED
    BY <1>3, <2>1, <2>2 DEF VerificationRoot
<1> QED
  BY <1>1, <1>2, <1>3, <1>4, <1>5 DEF StackInv

\* The innermost frame moves on, and calls nobody.
LEMMA TurnKeeps ==
  ASSUME StackInv, ~Idle, Top.at # "verify",
         NEW f \in Frames, f.function = Top.function, Placed(f), Fits(f, Entered),
         f.at # "verify", f.at = "entry" => f.function = "walk",
         stack' = [stack EXCEPT ![Len(stack)] = f],
         currentPly' = Entered + MovesOnBoard(f), verifyNullMove' = verifyNullMove,
         nullVerification' \in BOOLEAN,
         nullVerification' => nullVerification /\ f.at = "leaving",
         returned' \in Answers \union {"none"}
  PROVE  StackInv'
<1> DEFINE n == Len(stack)
           t == [stack EXCEPT ![n] = f]
<1>1. stack \in Seq(Frames) /\ n \in Nat \ {0} /\ stack # <<>>
  BY TopStands DEF Idle
<1>2. Sound(t, Entered + MovesOnBoard(f))
  BY <1>1, Turned DEF StackInv, Top, Entered
<1>3. /\ Len(t) = n
      /\ \A i \in 1 .. n : t[i] = IF i = n THEN f ELSE stack[i]
  BY <1>1, ExceptSeq
<1> HIDE DEF t
<1>4. NoneVerifies(t, n) <=> NoneVerifies(stack, n)
  BY <1>1, <1>3 DEF NoneVerifies, Top
<1>5. nullVerification' => VerificationRoot(t)
  <2> SUFFICES ASSUME nullVerification, f.at = "leaving"
               PROVE  VerificationRoot(t)
    OBVIOUS
  <2>1. n > 1 /\ stack[n - 1].at = "verify" /\ f.function = "child"
    BY <1>1 DEF StackInv, VerificationRoot, Top
  <2>2. t # <<>> /\ t[n] = f /\ t[n - 1] = stack[n - 1]
    BY <1>1, <1>3, <2>1, EmptySeq
  <2> QED
    BY <1>3, <2>1, <2>2 DEF VerificationRoot
<1> QED
  BY <1>2, <1>3, <1>4, <1>5 DEF StackInv, t

\* The innermost frame moves on, and calls.
LEMMA CallKeeps ==
  ASSUME StackInv, ~Idle, Top.at # "verify",
         NEW f \in Frames, f.function = Top.function, Placed(f), Fits(f, Entered),
         f.at \notin {"verify", "entry"},
         NEW g \in Frames, Above(f, g), Placed(g), g.at # "verify",
         Fits(g, Entered + MovesOnBoard(f)),
         stack' = Append([stack EXCEPT ![Len(stack)] = f], g),
         currentPly' = Entered + MovesOnBoard(f) + MovesOnBoard(g),
         verifyNullMove' = verifyNullMove, nullVerification' = FALSE,
         returned' \in Answers \union {"none"}
  PROVE  StackInv'
<1> DEFINE n == Len(stack)
           t == [stack EXCEPT ![n] = f]
           u == Append(t, g)
<1>1. stack \in Seq(Frames) /\ n \in Nat \ {0} /\ stack # <<>>
  BY TopStands DEF Idle
<1>2. Sound(t, Entered + MovesOnBoard(f))
  BY <1>1, Turned DEF StackInv, Top, Entered
<1>3. /\ t \in Seq(Frames) /\ Len(t) = n
      /\ \A i \in 1 .. n : t[i] = IF i = n THEN f ELSE stack[i]
  BY <1>1, ExceptSeq
<1> HIDE DEF t
<1>4. Sound(u, Entered + MovesOnBoard(f) + MovesOnBoard(g))
  <2>1. t # <<>> /\ t[Len(t)] = f
    BY <1>1, <1>3, EmptySeq
  <2> QED
    BY <1>2, <2>1, Called
<1>5. /\ Len(u) = n + 1 /\ u[n + 1] = g
      /\ \A i \in 1 .. n : u[i] = t[i]
  BY <1>3, AppendProperties
<1> HIDE DEF u
<1>6. NoneVerifies(u, n + 1) <=> NoneVerifies(stack, n)
  <2>1. 1 .. n + 1 = (1 .. n) \union {n + 1}
    BY <1>1
  <2> QED
    BY <1>1, <1>3, <1>5, <2>1 DEF NoneVerifies, Top
<1> QED
  BY <1>4, <1>5, <1>6 DEF StackInv, u, t

\* Moving a frame on.
LEMMA Going ==
  ASSUME StackInv, ~Idle, NEW point, [Top EXCEPT !.at = point] \in Frames
  PROVE  /\ Goto(point) = [stack EXCEPT ![Len(stack)] = [Top EXCEPT !.at = point]]
         /\ [Top EXCEPT !.at = point].at = point
         /\ [Top EXCEPT !.at = point].function = Top.function
         /\ [Top EXCEPT !.at = point].moves = Top.moves
         /\ [Top EXCEPT !.at = point].depth = Top.depth
BY TopStands DEF Goto, WithTop, Frames

\* An answer of a child that is still to poll, or of any other frame.
LEMMA AnswerKeeps ==
  ASSUME StackInv, ~Idle,
         Top.function \in {"test", "child"}, NEW answer \in Answers, Answer(answer),
         currentPly' = Entered, verifyNullMove' = verifyNullMove,
         nullVerification' \in BOOLEAN, nullVerification' => nullVerification
  PROVE  StackInv'
<1>1. Top \in Frames /\ Placed(Top) /\ Fits(Top, Entered)
  BY TopStands
<1>2. Top.at # "verify"
  BY <1>1 DEF Placed
<1>3. CASE Top.function = "child"
  <2> DEFINE f == [Top EXCEPT !.at = "leaving"]
  <2>1. f \in Frames
    BY <1>1 DEF Frames
  <2>2. stack' = [stack EXCEPT ![Len(stack)] = f] /\ returned' = answer
    BY <1>3, <2>1, Going DEF Answer
  <2>3. f.function = "child" /\ f.at = "leaving"
    BY <1>1, <1>3 DEF Frames
  <2>4. Placed(f) /\ Fits(f, Entered) /\ MovesOnBoard(f) = 0
    BY <1>1, <1>3, <2>3 DEF Placed, Fits, MovesOnBoard
  <2>5. currentPly' = Entered + MovesOnBoard(f)
    BY <2>4, TopStands
  <2> HIDE DEF f
  <2> QED
    BY <1>2, <1>3, <2>1, <2>2, <2>3, <2>4, <2>5, TurnKeeps
<1>4. CASE Top.function # "child"
  BY <1>2, <1>4, ReturnKeeps DEF Answer
<1> QED
  BY <1>3, <1>4

\* Back to the moves of the node, all of them taken back.
LEMMA NodeKeeps ==
  ASSUME StackInv, ~Idle, Top.function \in {"test", "child", "quiet"},
         Top.at \in {"entry", "null", "searched"},
         Top.function = "child" => Top.at # "entry",
         Top.function = "quiet" => Entered < MaxDepth,
         stack' = Goto("node"), currentPly' = Entered,
         returned' \in Answers \union {"none"},
         verifyNullMove' = verifyNullMove, nullVerification' = nullVerification
  PROVE  StackInv'
<1> DEFINE f == [Top EXCEPT !.at = "node"]
<1>1. Top \in Frames /\ Placed(Top) /\ Fits(Top, Entered) /\ Entered \in Nat
  BY TopStands
<1>2. Top.at # "verify" /\ f \in Frames
  BY <1>1 DEF Placed, Frames
<1>3. /\ stack' = [stack EXCEPT ![Len(stack)] = f]
      /\ f.function = Top.function /\ f.at = "node"
  BY <1>2, Going
<1>4. Placed(f) /\ Fits(f, Entered) /\ MovesOnBoard(f) = 0
  BY <1>1, <1>3 DEF Placed, Fits, MovesOnBoard
<1>5. nullVerification \in BOOLEAN
  BY DEF StackInv
<1>6. ~nullVerification
  <2>1. Len(stack) \in Nat \ {0}
    BY TopStands
  <2> QED
    BY <1>1, <1>2 DEF StackInv, VerificationRoot, Top, Placed
<1>7. currentPly' = Entered + MovesOnBoard(f)
  BY <1>1, <1>4
<1> HIDE DEF f
<1> QED
  BY <1>2, <1>3, <1>4, <1>5, <1>6, <1>7, TurnKeeps

(***************************************************************************)
(* Each step.                                                              *)
(***************************************************************************)
\* A first frame.
LEMMA FirstFrame ==
  ASSUME StackInv, Idle, NEW f \in Frames, Bottom(f), Placed(f), Fits(f, 0),
         MovesOnBoard(f) = 0
  PROVE  /\ Sound(Append(stack, f), 0) /\ NoneVerifies(Append(stack, f), 1)
         /\ Append(stack, f) = <<f>> /\ Len(<<f>>) = 1
         /\ currentPly = 0 /\ verifyNullMove /\ ~nullVerification
<1>1. stack = <<>> /\ stack \in Seq(Frames) /\ Len(stack) = 0
  BY SoundTypes, EmptySeq DEF StackInv, Idle
<1> DEFINE u == Append(stack, f)
<1>2. Len(u) = 1 /\ u[1] = f
  BY <1>1, AppendProperties
<1>3. Append(stack, f) = <<f>>
  BY <1>1
<1> HIDE DEF u
<1>4. f.at # "verify" /\ f.function \in {"walk", "test", "value"}
  BY DEF Bottom, Placed
<1>5. NoneVerifies(u, 1) /\ NoneVerifies(stack, 0)
  BY <1>2, <1>4 DEF NoneVerifies
<1>6. currentPly = 0
  BY <1>1 DEF StackInv, Sound, Measured
<1>7. Stands(u, 1, 0)
  <2>1. Low(u, 1, 0)
    BY <1>2, <1>4 DEF Low, Extra
  <2> QED
    BY <1>2, <1>4, <2>1 DEF Stands
<1>8. Sound(u, 0)
  <2>1. Len(stack) + 1 = 1 /\ 0 + MovesOnBoard(f) = 0
    BY <1>1
  <2> QED
    BY <1>1, <1>6, <1>7, <2>1, Grown DEF StackInv, u
<1> QED
  BY <1>1, <1>2, <1>3, <1>5, <1>6, <1>8 DEF StackInv, VerificationRoot, u

\* What Frame() makes.
LEMMA NewFrame ==
  ASSUME NEW function, NEW at, NEW depth
  PROVE  LET f == Frame(function, at, depth)
         IN /\ f.function = function /\ f.at = at /\ f.depth = depth /\ f.moves = 0
            /\ /\ depth \in Int
               /\ function \in {"walk", "test", "value", "child", "null", "quiet"}
               /\ at \in {"entry", "searched", "probe"}
               => f \in Frames
BY DEF Frame, Frames

LEMMA BeginTestKeeps ==
  ASSUME StackInv, NEW depth \in TestDepths, BeginTest(depth)
  PROVE  StackInv'
<1> DEFINE f == Frame("test", "entry", depth)
<1>1. depth \in Int
  BY SearchAssumption
<1>2. f \in Frames /\ f.function = "test" /\ f.at = "entry"
  BY <1>1, NewFrame
<1>3. Bottom(f) /\ Placed(f) /\ Fits(f, 0) /\ MovesOnBoard(f) = 0
  BY <1>2 DEF Bottom, Placed, Fits, MovesOnBoard
<1>4. /\ Idle /\ stack' = Append(stack, f) /\ returned' = "none" /\ currentPly' = 0
      /\ verifyNullMove' = TRUE /\ nullVerification' = nullVerification
  BY DEF BeginTest, Call
<1> HIDE DEF f
<1>5. /\ Sound(stack', 0) /\ NoneVerifies(stack', 1) /\ Len(stack') = 1
      /\ ~nullVerification
  BY <1>2, <1>3, <1>4, FirstFrame
<1> QED
  BY <1>4, <1>5 DEF StackInv

LEMMA BeginWalkKeeps ==
  ASSUME StackInv, NEW depth \in WalkDepths, BeginWalk(depth)
  PROVE  StackInv'
<1> DEFINE f == Frame("walk", "entry", depth)
<1>1. depth \in Int /\ MaxDepth \in Nat
  BY SearchAssumption
<1>2. f \in Frames /\ f.function = "walk" /\ f.at = "entry" /\ f.moves = 0
  BY <1>1, NewFrame
<1>3. Bottom(f) /\ Placed(f) /\ Fits(f, 0) /\ MovesOnBoard(f) = 0
  BY <1>1, <1>2 DEF Bottom, Placed, Fits, MovesOnBoard
<1>4. /\ Idle /\ stack' = Append(stack, f) /\ returned' = "none"
      /\ currentPly' = currentPly
      /\ verifyNullMove' = verifyNullMove /\ nullVerification' = nullVerification
  BY DEF BeginWalk, Call, position, flags
<1> HIDE DEF f
<1>5. /\ Sound(stack', 0) /\ NoneVerifies(stack', 1) /\ Len(stack') = 1
      /\ currentPly = 0 /\ verifyNullMove /\ ~nullVerification
  BY <1>2, <1>3, <1>4, FirstFrame
<1> QED
  BY <1>4, <1>5 DEF StackInv

LEMMA BeginValueKeeps ==
  ASSUME StackInv, BeginValue
  PROVE  StackInv'
<1> DEFINE f == Frame("value", "searched", 0)
           g == Frame("quiet", "entry", 0)
           s == Append(stack, f)
<1>1. /\ f \in Frames /\ f.function = "value" /\ f.at = "searched"
      /\ g \in Frames /\ g.function = "quiet" /\ g.at = "entry"
  BY NewFrame
<1>2. /\ Bottom(f) /\ Placed(f) /\ Fits(f, 0) /\ MovesOnBoard(f) = 0
      /\ Above(f, g) /\ Placed(g) /\ Fits(g, 0) /\ MovesOnBoard(g) = 0
  BY <1>1, SearchAssumption DEF Bottom, Placed, Fits, MovesOnBoard, Above, Calls
<1>3. /\ Idle /\ stack' = Append(<<f>>, g) /\ returned' = "none"
      /\ currentPly' = currentPly
      /\ verifyNullMove' = verifyNullMove /\ nullVerification' = nullVerification
  BY DEF BeginValue, Call, position, flags
<1> HIDE DEF f, g
<1>4. /\ Sound(s, 0) /\ NoneVerifies(s, 1) /\ s = <<f>> /\ Len(s) = 1
      /\ currentPly = 0 /\ verifyNullMove /\ ~nullVerification
  BY <1>1, <1>2, <1>3, FirstFrame
<1>5. s \in Seq(Frames) /\ s # <<>> /\ s[1] = f
  BY <1>4, SoundTypes, EmptySeq
<1>6. stack' = Append(s, g)
  BY <1>3, <1>4
<1> HIDE DEF s
<1>7. Sound(Append(s, g), 0)
  <2>1. Above(s[Len(s)], g) /\ g.at # "verify"
    BY <1>1, <1>2, <1>4, <1>5
  <2>2. 0 + MovesOnBoard(g) = 0
    BY <1>2
  <2> QED
    BY <1>1, <1>2, <1>4, <1>5, <2>1, <2>2, Called
<1>8. NoneVerifies(Append(s, g), 2) /\ Len(Append(s, g)) = 2
  <2>1. /\ Len(Append(s, g)) = 2 /\ Append(s, g)[1] = f /\ Append(s, g)[2] = g
    BY <1>1, <1>4, <1>5, AppendProperties
  <2> QED
    BY <1>1, <2>1 DEF NoneVerifies
<1> QED
  BY <1>3, <1>4, <1>6, <1>7, <1>8 DEF StackInv

\* Cancellation leaves nothing, at ply 0 and with the flags of a new test;
\* quiescence on its own never verifies.
LEMMA CancelKeeps ==
  ASSUME StackInv, ~Idle, Cancel
  PROVE  StackInv' /\ currentPly' = 0 /\ verifyNullMove' /\ ~nullVerification'
<1>1. stack' = <<>> /\ currentPly' = 0 /\ returned' \in Answers \union {"none"}
  BY DEF Cancel, Unwind, Answers
<1>2. Sound(<<>>, 0) /\ NoneVerifies(<<>>, Len(<<>>))
  BY EmptySound, EmptySeq DEF NoneVerifies
<1>3. verifyNullMove' /\ ~nullVerification'
  <2>1. CASE stack[1].function # "value"
    BY <2>1 DEF Cancel
  <2>2. CASE stack[1].function = "value"
    <3>1. \A i \in 1 .. Len(stack) : stack[i].at # "verify"
      <4> SUFFICES ASSUME NEW i \in 1 .. Len(stack), stack[i].at = "verify"
                   PROVE  FALSE
        OBVIOUS
      <4>1. PICK entered \in Nat : Stands(stack, i, entered)
        BY AllStand DEF StackInv
      <4> QED
        BY <2>2, <4>1 DEF Stands, Placed
    <3>2. ~VerificationRoot(stack)
      BY <3>1, TopStands DEF VerificationRoot
    <3> QED
      BY <2>2, <3>1, <3>2 DEF Cancel, flags, StackInv, NoneVerifies
  <2> QED
    BY <2>1, <2>2
<1>4. verifyNullMove' \in BOOLEAN /\ nullVerification' \in BOOLEAN
  BY DEF Cancel, flags, StackInv
<1> QED
  BY <1>1, <1>2, <1>3, <1>4 DEF StackInv

LEMMA ThrowKeeps == StackInv /\ Throw => StackInv'
BY CancelKeeps DEF Throw, At

LEMMA LeaveChildKeeps == StackInv /\ LeaveChild => StackInv'
<1> SUFFICES ASSUME StackInv, LeaveChild PROVE StackInv'
  OBVIOUS
<1>1. ~Idle /\ Top.function = "child" /\ Top.at = "leaving"
  BY DEF LeaveChild, At
<1>2. Entered = currentPly
  BY <1>1, TopStands DEF MovesOnBoard
<1> QED
  BY <1>1, <1>2, ReturnKeeps DEF LeaveChild, StackInv, position, flags

LEMMA ProbeRootKeeps == StackInv /\ ProbeRoot => StackInv'
<1> SUFFICES ASSUME StackInv, ProbeRoot PROVE StackInv'
  OBVIOUS
<1>1. ~Idle /\ Top.function = "test" /\ Top.at = "entry"
  BY DEF ProbeRoot, At
<1>2. Entered = currentPly
  BY <1>1, TopStands DEF MovesOnBoard
<1>3. /\ currentPly' = Entered
      /\ verifyNullMove' = verifyNullMove /\ nullVerification' = nullVerification
      /\ nullVerification \in BOOLEAN /\ returned \in Answers \union {"none"}
  BY <1>2 DEF ProbeRoot, position, flags, StackInv
<1>4. CASE \E answer \in Answers : Return(answer)
  BY <1>1, <1>3, <1>4, ReturnKeeps
<1>5. CASE stack' = Goto("node") /\ returned' = returned
  BY <1>1, <1>3, <1>5, NodeKeeps
<1> QED
  BY <1>4, <1>5 DEF ProbeRoot

\* A frame that calls the same function from where it stands.
LEMMA StackSelf ==
  ASSUME StackInv, ~Idle
  PROVE  stack = [stack EXCEPT ![Len(stack)] = Top]
BY TopStands DEF Top

LEMMA NotVerifying ==
  ASSUME StackInv, ~Idle, Top.at # "verify",
         Top.function = "child" => Top.at \notin {"entry", "leaving"}
  PROVE  nullVerification = FALSE
BY TopStands DEF StackInv, VerificationRoot, Top

LEMMA NextThresholdKeeps == StackInv /\ NextThreshold => StackInv'
<1> SUFFICES ASSUME StackInv, NextThreshold PROVE StackInv'
  OBVIOUS
<1>1. ~Idle /\ Top.function = "value" /\ Top.at = "searched"
  BY DEF NextThreshold, At
<1>2. Entered = currentPly
  BY <1>1, TopStands DEF MovesOnBoard
<1>3. /\ currentPly' = Entered
      /\ verifyNullMove' = verifyNullMove /\ nullVerification' = nullVerification
      /\ nullVerification \in BOOLEAN /\ returned \in Answers \union {"none"}
  BY <1>2 DEF NextThreshold, position, flags, StackInv
<1>4. CASE Return(returned)
  BY <1>1, <1>3, <1>4, ReturnKeeps
<1>5. CASE Call(stack, "quiet", 0)
  <2> DEFINE g == Frame("quiet", "entry", 0)
  <2>1. g \in Frames /\ g.function = "quiet" /\ g.at = "entry"
    BY NewFrame
  <2>2. stack' = Append(stack, g) /\ returned' = "none"
    BY <1>5 DEF Call
  <2>3. Top \in Frames /\ Placed(Top) /\ Fits(Top, Entered) /\ Entered \in Nat
    BY <1>1, TopStands
  <2> HIDE DEF g
  <2>4. /\ Above(Top, g) /\ Placed(g) /\ MovesOnBoard(g) = 0 /\ MovesOnBoard(Top) = 0
        /\ Fits(g, Entered)
    BY <1>1, <2>1, <2>3, SearchAssumption DEF Above, Calls, Placed, MovesOnBoard, Fits
  <2>5. nullVerification = FALSE
    BY <1>1, NotVerifying
  <2>6. Entered + MovesOnBoard(Top) = Entered /\ Entered + MovesOnBoard(g) = Entered
    BY <2>3, <2>4
  <2>7. stack' = Append([stack EXCEPT ![Len(stack)] = Top], g)
    BY <1>1, <2>2, StackSelf
  <2>8. currentPly' = Entered + MovesOnBoard(Top) + MovesOnBoard(g)
    BY <1>3, <2>6
  <2> QED
    BY <1>1, <1>3, <2>1, <2>2, <2>3, <2>4, <2>5, <2>6, <2>7, <2>8, CallKeeps
<1> QED
  BY <1>4, <1>5 DEF NextThreshold

\* The walk of a variation.
LEMMA WalkMoveKeeps == StackInv /\ WalkMove => StackInv'
<1> SUFFICES ASSUME StackInv, WalkMove PROVE StackInv'
  OBVIOUS
<1>1. ~Idle /\ Top.function = "walk" /\ Top.at = "entry" /\ Top.moves < MaxDepth
  BY DEF WalkMove, At
<1>2. /\ Top \in Frames /\ Fits(Top, Entered) /\ Entered \in Nat
      /\ currentPly = Entered + MovesOnBoard(Top)
  BY <1>1, TopStands
<1>3. Entered = currentPly /\ MaxDepth \in Nat
  BY <1>1, <1>2, SearchAssumption DEF MovesOnBoard
<1>4. PICK check \in {0, 1} :
        stack' = WithTop([Top EXCEPT !.depth = Top.depth - 1 + check,
                                     !.moves = Top.moves + 1])
  BY Zenon DEF WalkMove
<1> DEFINE depth == Top.depth - 1 + check
           moves == Top.moves + 1
           f == [Top EXCEPT !.depth = depth, !.moves = moves]
<1>5. stack' = [stack EXCEPT ![Len(stack)] = f]
  BY <1>4 DEF WithTop
<1>6. /\ f \in Frames /\ f.function = "walk" /\ f.at = "entry"
      /\ f.moves = Top.moves + 1
  <2>1. depth \in Int /\ moves \in Nat
    BY <1>2 DEF Frames
  <2> HIDE DEF depth, moves
  <2>2. /\ f \in Frames /\ f.function = "walk" /\ f.at = "entry" /\ f.moves = moves
    BY <1>1, <1>2, <2>1 DEF Frames
  <2> QED
    BY <2>2 DEF moves
<1> HIDE DEF f
<1>7. Placed(f) /\ Fits(f, Entered) /\ MovesOnBoard(f) = 0
  <2>1. Top.moves \in Nat /\ Top.moves < MaxDepth /\ Entered = 0
    BY <1>1, <1>2 DEF Fits, Frames
  <2> QED
    BY <1>3, <1>6, <2>1 DEF Placed, Fits, MovesOnBoard
<1>8. /\ currentPly' = Entered + MovesOnBoard(f) /\ returned' \in Answers \union {"none"}
      /\ verifyNullMove' = verifyNullMove /\ nullVerification' = nullVerification
  BY <1>2, <1>3, <1>7 DEF WalkMove, flags, StackInv
<1>9. nullVerification = FALSE
  BY <1>1, NotVerifying
<1> QED
  BY <1>1, <1>5, <1>6, <1>7, <1>8, <1>9, TurnKeeps

LEMMA WalkBackKeeps == StackInv /\ WalkBack => StackInv'
<1> SUFFICES ASSUME StackInv, WalkBack PROVE StackInv'
  OBVIOUS
<1>1. ~Idle /\ Top.function = "walk"
  BY DEF WalkBack, At
<1>2. Placed(Top) /\ Entered = currentPly
  BY <1>1, TopStands DEF MovesOnBoard
<1>3. Return("none")
  BY DEF WalkBack
<1> QED
  BY <1>1, <1>2, <1>3, ReturnKeeps DEF WalkBack, flags, Placed, StackInv

\* testChild() and nullTest().
LEMMA ChildEntered ==
  ASSUME StackInv, ~Idle, Top.function = "child",
         Top.at \in {"entry", "leaf", "null", "leaving", "node"}
  PROVE  /\ Top \in Frames /\ Top.depth \in Int /\ Entered \in Nat
         /\ Entered = currentPly /\ Entered <= MaxDepth - 1 /\ Top.at # "verify"
         /\ MaxDepth \in Nat
<1>1. /\ Top \in Frames /\ Entered \in Nat /\ Fits(Top, Entered)
      /\ currentPly = Entered + MovesOnBoard(Top)
  BY TopStands
<1>2. MovesOnBoard(Top) = 0 /\ Top.at # "verify" /\ Top.depth \in Int
  BY <1>1 DEF MovesOnBoard, Frames
<1>3. Entered <= MaxDepth - 1
  BY <1>1 DEF Fits
<1> QED
  BY <1>1, <1>2, <1>3, SearchAssumption

\* The root of a verification has a depth to search and a ply to do it in.
LEMMA VerificationGoesOn ==
  ASSUME StackInv, ~Idle, Top.at # "verify", nullVerification
  PROVE  /\ Top.function = "child" /\ Top.at \in {"entry", "leaving"}
         /\ Top.at = "entry" => Top.depth >= 1
         /\ Entered < MaxDepth - 1
<1> DEFINE n == Len(stack)
           t == stack[n - 1]
<1>1. /\ n > 1 /\ t.at = "verify" /\ Top.function = "child"
      /\ Top.at \in {"entry", "leaving"}
  BY DEF StackInv, VerificationRoot, Top
<1>2. /\ stack \in Seq(Frames) /\ n \in Nat \ {0}
      /\ Stands(stack, n, Entered) /\ Sound(Below, Entered)
  BY TopStands
<1>3. Above(t, Top)
  BY <1>1, <1>2 DEF Stands, Top
<1>4. Len(Below) = n - 1 /\ Below[n - 1] = t /\ Below # <<>>
  <2>1. n - 1 \in 0 .. Len(stack) /\ n - 1 \in 1 .. n - 1
    BY <1>1, <1>2
  <2>2. /\ Below \in Seq(Frames) /\ Len(Below) = n - 1
        /\ \A i \in 1 .. n - 1 : Below[i] = stack[i]
    BY <1>2, <2>1, Truncated DEF Below
  <2> QED
    BY <1>1, <1>2, <2>1, <2>2, EmptySeq
<1> HIDE DEF t
<1>5. Stands(Below, n - 1, Entered - MovesOnBoard(t)) /\ Entered \in Nat
  BY <1>2, <1>4, Innermost
<1>6. t.function = "null" /\ MovesOnBoard(t) = 0 /\ Fits(t, Entered)
  <2>1. Placed(t) /\ Fits(t, Entered - MovesOnBoard(t))
    BY <1>4, <1>5 DEF Stands
  <2>2. t.function = "null" /\ MovesOnBoard(t) = 0
    BY <1>1, <2>1 DEF Placed, MovesOnBoard
  <2> QED
    BY <1>5, <2>1, <2>2
<1> QED
  BY <1>1, <1>3, <1>6 DEF Above, Fits

LEMMA AnswerAtOnceKeeps == StackInv /\ AnswerAtOnce => StackInv'
<1> SUFFICES ASSUME StackInv, AnswerAtOnce PROVE StackInv'
  OBVIOUS
<1>1. ~Idle /\ Top.function = "child" /\ Top.at = "entry"
  BY DEF AnswerAtOnce, At
<1>2. PICK answer \in Answers : Answer(answer)
  BY DEF AnswerAtOnce
<1>3. Entered = currentPly
  BY <1>1, ChildEntered
<1> QED
  BY <1>1, <1>2, <1>3, AnswerKeeps DEF AnswerAtOnce, position, flags, StackInv

LEMMA PositionTypes ==
  ASSUME NEW p \in Positions
  PROVE  p.extended \in BOOLEAN
BY DEF Positions

LEMMA EnterLeafKeeps == StackInv /\ EnterLeaf => StackInv'
<1> SUFFICES ASSUME StackInv, EnterLeaf PROVE StackInv'
  OBVIOUS
<1>1. ~Idle /\ Top.function = "child" /\ Top.at = "entry"
  BY DEF EnterLeaf, At
<1>2. /\ Top \in Frames /\ Top.depth \in Int /\ Entered \in Nat
      /\ Entered = currentPly /\ Entered <= MaxDepth - 1 /\ Top.at # "verify"
      /\ MaxDepth \in Nat
  BY <1>1, ChildEntered
<1>3. PICK p \in Positions : AtHorizon(p)
  BY DEF EnterLeaf
<1>4. ~nullVerification
  BY <1>1, <1>2, <1>3, VerificationGoesOn DEF AtHorizon, InteriorDepth
<1> DEFINE f == [Top EXCEPT !.at = "leaf"]
           g == Frame("quiet", "entry", 0)
<1>5. f \in Frames /\ f.function = "child" /\ f.at = "leaf"
  BY <1>1, <1>2 DEF Frames
<1>6. Goto("leaf") = [stack EXCEPT ![Len(stack)] = f]
  BY <1>1, <1>5, Going
<1>7. g \in Frames /\ g.function = "quiet" /\ g.at = "entry"
  BY NewFrame
<1>8. /\ stack' = Append(Goto("leaf"), g) /\ returned' = "none"
      /\ currentPly' = currentPly
      /\ verifyNullMove' = verifyNullMove /\ nullVerification' = nullVerification
  BY DEF EnterLeaf, Call, position, flags
<1> HIDE DEF f, g
<1>9. /\ Placed(f) /\ Fits(f, Entered) /\ MovesOnBoard(f) = 0
      /\ Placed(g) /\ Fits(g, Entered) /\ MovesOnBoard(g) = 0 /\ Above(f, g)
  BY <1>2, <1>5, <1>7 DEF Placed, Fits, MovesOnBoard, Above, Calls
<1>10. /\ Entered + MovesOnBoard(f) = Entered
       /\ currentPly' = Entered + MovesOnBoard(f) + MovesOnBoard(g)
  BY <1>2, <1>8, <1>9
<1>11. nullVerification' = FALSE
  BY <1>4, <1>8 DEF StackInv
<1> QED
  BY <1>1, <1>2, <1>5, <1>6, <1>7, <1>8, <1>9, <1>10, <1>11, CallKeeps

LEMMA LeaveLeafKeeps == StackInv /\ LeaveLeaf => StackInv'
<1> SUFFICES ASSUME StackInv, LeaveLeaf PROVE StackInv'
  OBVIOUS
<1>1. ~Idle /\ Top.function = "child" /\ Top.at = "leaf"
  BY DEF LeaveLeaf, At
<1>2. Entered = currentPly /\ returned \in Answers
  BY <1>1, ChildEntered DEF LeaveLeaf, StackInv
<1> QED
  BY <1>1, <1>2, AnswerKeeps DEF LeaveLeaf, position, flags, StackInv

\* What a new node finds out about itself.
LEMMA InteriorFrame ==
  ASSUME StackInv, ~Idle, Top.function = "child", Top.at = "entry",
         NEW p \in Positions, ~AtHorizon(p), NEW point \in {"node", "null"}
  PROVE  \E f \in Frames :
           /\ Interior(p, point) = [stack EXCEPT ![Len(stack)] = f]
           /\ f.function = "child" /\ f.at = point /\ f.depth = InteriorDepth(p)
           /\ Placed(f) /\ Fits(f, Entered) /\ MovesOnBoard(f) = 0
<1>1. /\ Top \in Frames /\ Top.depth \in Int /\ Entered \in Nat
      /\ Entered = currentPly /\ MaxDepth \in Nat
  BY ChildEntered
<1> DEFINE depth == InteriorDepth(p)
           extended == p.extended
           f == [Top EXCEPT !.at = point, !.depth = depth, !.extended = extended]
<1>2. depth \in Int /\ extended \in BOOLEAN
  BY <1>1, PositionTypes DEF InteriorDepth
<1>3. Interior(p, point) = [stack EXCEPT ![Len(stack)] = f]
  BY DEF Interior, WithTop
<1> HIDE DEF depth, extended
<1>4. f \in Frames /\ f.function = "child" /\ f.at = point /\ f.depth = depth
  BY <1>1, <1>2 DEF Frames
<1> HIDE DEF f
<1>5. Entered < MaxDepth - 1
  BY <1>1 DEF AtHorizon
<1>6. Placed(f) /\ Fits(f, Entered) /\ MovesOnBoard(f) = 0
  BY <1>1, <1>4, <1>5 DEF Placed, Fits, MovesOnBoard
<1> QED
  BY <1>3, <1>4, <1>6 DEF depth

LEMMA SkipNullKeeps == StackInv /\ SkipNull => StackInv'
<1> SUFFICES ASSUME StackInv, SkipNull PROVE StackInv'
  OBVIOUS
<1>1. ~Idle /\ Top.function = "child" /\ Top.at = "entry"
  BY DEF SkipNull, At
<1>2. PICK p \in Positions : ~AtHorizon(p) /\ stack' = Interior(p, "node")
  BY DEF SkipNull
<1>3. PICK f \in Frames :
        /\ stack' = [stack EXCEPT ![Len(stack)] = f]
        /\ f.function = "child" /\ f.at = "node"
        /\ Placed(f) /\ Fits(f, Entered) /\ MovesOnBoard(f) = 0
  BY <1>1, <1>2, InteriorFrame
<1>4. Entered = currentPly /\ Entered \in Nat
  BY <1>1, ChildEntered
<1>5. currentPly' = Entered + MovesOnBoard(f)
  BY <1>3, <1>4 DEF SkipNull, position
<1> QED
  BY <1>1, <1>3, <1>5, TurnKeeps DEF SkipNull, StackInv

LEMMA TryNullKeeps == StackInv /\ TryNull => StackInv'
<1> SUFFICES ASSUME StackInv, TryNull PROVE StackInv'
  OBVIOUS
<1>1. ~Idle /\ Top.function = "child" /\ Top.at = "entry" /\ ~nullVerification
  BY DEF TryNull, At
<1>2. PICK p \in Positions :
        /\ ~AtHorizon(p) /\ InteriorDepth(p) > 1
        /\ Call(Append(Interior(p, "null"), Frame("null", "probe", InteriorDepth(p))),
                "child", InteriorDepth(p) - 1 - NullReduction)
  BY DEF TryNull
<1>3. /\ Top.depth \in Int /\ Entered \in Nat /\ Entered = currentPly /\ MaxDepth \in Nat
      /\ NullReduction \in Nat /\ Top.at # "verify"
  BY <1>1, ChildEntered, SearchAssumption
<1>4. InteriorDepth(p) \in Int /\ Entered < MaxDepth - 1
  BY <1>2, <1>3 DEF InteriorDepth, AtHorizon
<1>5. PICK f \in Frames :
        /\ Interior(p, "null") = [stack EXCEPT ![Len(stack)] = f]
        /\ f.function = "child" /\ f.at = "null"
        /\ Placed(f) /\ Fits(f, Entered) /\ MovesOnBoard(f) = 0
  BY <1>1, <1>2, InteriorFrame
<1> DEFINE n == Len(stack)
           g == Frame("null", "probe", InteriorDepth(p))
           h == Frame("child", "entry", InteriorDepth(p) - 1 - NullReduction)
           t == [stack EXCEPT ![n] = f]
           u == Append(t, g)
           v == Append(u, h)
<1>6. stack' = v /\ returned' = "none"
  BY <1>2, <1>5 DEF Call
<1>7. /\ g \in Frames /\ g.function = "null" /\ g.at = "probe" /\ g.depth > 1
      /\ h \in Frames /\ h.function = "child" /\ h.at = "entry"
  <2>1. InteriorDepth(p) - 1 - NullReduction \in Int
    BY <1>3, <1>4
  <2> QED
    BY <1>2, <1>4, <2>1, NewFrame
<1> HIDE DEF g, h
<1>8. stack \in Seq(Frames) /\ n \in Nat \ {0} /\ stack # <<>>
  BY <1>1, TopStands DEF Idle
<1>9. Sound(t, Entered)
  <2>1. Entered + MovesOnBoard(f) = Entered
    BY <1>3, <1>5
  <2>2. /\ f.function = stack[n].function /\ Sound(stack, currentPly)
        /\ Fits(f, currentPly - MovesOnBoard(stack[n]))
    BY <1>1, <1>5 DEF StackInv, Top, Entered
  <2>3. Sound(t, currentPly - MovesOnBoard(stack[n]) + MovesOnBoard(f))
    BY <1>5, <1>8, <2>2, Turned
  <2> QED
    BY <2>1, <2>3 DEF Top, Entered
<1>10. /\ t \in Seq(Frames) /\ Len(t) = n /\ t # <<>>
       /\ \A i \in 1 .. n : t[i] = IF i = n THEN f ELSE stack[i]
  BY <1>8, ExceptSeq, EmptySeq
<1> HIDE DEF t
<1>11. Sound(u, Entered + 1)
  <2>1. /\ Above(f, g) /\ Placed(g) /\ Fits(g, Entered) /\ MovesOnBoard(g) = 1
    BY <1>4, <1>5, <1>7 DEF Above, Calls, Placed, Fits, MovesOnBoard
  <2>2. t[Len(t)] = f
    BY <1>8, <1>10
  <2> QED
    BY <1>7, <1>9, <1>10, <2>1, <2>2, Called
<1>12. /\ u \in Seq(Frames) /\ Len(u) = n + 1 /\ u # <<>> /\ u[n + 1] = g
       /\ \A i \in 1 .. n : u[i] = t[i]
  BY <1>7, <1>10, AppendProperties
<1> HIDE DEF u
<1>13. Sound(v, Entered + 1)
  <2>1. /\ Above(g, h) /\ Placed(h) /\ Fits(h, Entered + 1) /\ MovesOnBoard(h) = 0
    BY <1>3, <1>4, <1>7 DEF Above, Calls, Placed, Fits, MovesOnBoard
  <2>2. u[Len(u)] = g /\ Entered + 1 + MovesOnBoard(h) = Entered + 1
    BY <1>3, <1>12, <2>1
  <2> QED
    BY <1>7, <1>11, <1>12, <2>1, <2>2, Called
<1>14. /\ Len(v) = n + 2 /\ v[n + 2] = h
       /\ \A i \in 1 .. n + 1 : v[i] = u[i]
  <2>1. n + 1 + 1 = n + 2
    BY <1>8
  <2> QED
    BY <1>7, <1>12, <2>1, AppendProperties
<1> HIDE DEF v
<1>15. NoneVerifies(v, n + 2) <=> NoneVerifies(stack, n)
  <2>1. 1 .. n + 2 = (1 .. n) \union {n + 1, n + 2}
    BY <1>8
  <2>2. \A i \in 1 .. n : v[i] = IF i = n THEN f ELSE stack[i]
    BY <1>8, <1>10, <1>12, <1>14
  <2>3. v[n + 1] = g /\ v[n + 2] = h
    BY <1>8, <1>12, <1>14
  <2>4. stack[n].at # "verify" /\ f.at # "verify" /\ g.at # "verify" /\ h.at # "verify"
    BY <1>3, <1>5, <1>7 DEF Top
  <2> QED
    BY <1>8, <2>1, <2>2, <2>3, <2>4 DEF NoneVerifies
<1>16. /\ currentPly' = Entered + 1
       /\ verifyNullMove' = verifyNullMove /\ nullVerification' = nullVerification
  BY <1>3 DEF TryNull, flags
<1> QED
  BY <1>1, <1>6, <1>13, <1>14, <1>15, <1>16 DEF StackInv

LEMMA NullAnsweredKeeps == StackInv /\ NullAnswered => StackInv'
<1> SUFFICES ASSUME StackInv, NullAnswered PROVE StackInv'
  OBVIOUS
<1>1. ~Idle /\ Top.function = "null" /\ Top.at = "probe" /\ returned # "none"
  BY DEF NullAnswered, At
<1>2. /\ currentPly = Entered + MovesOnBoard(Top) /\ Entered \in Nat
      /\ MovesOnBoard(Top) = 1
  BY <1>1, TopStands DEF MovesOnBoard
<1>3. currentPly' = Entered
  BY <1>2 DEF NullAnswered, Restore
<1>4. Negated(returned) \in Answers \union {"none"} /\ Return(Negated(returned))
  BY DEF NullAnswered, Negated, Answers
<1> QED
  BY <1>1, <1>3, <1>4, ReturnKeeps DEF NullAnswered

LEMMA VerifyNullKeeps == StackInv /\ VerifyNull => StackInv'
<1> SUFFICES ASSUME StackInv, VerifyNull PROVE StackInv'
  OBVIOUS
<1>1. ~Idle /\ Top.function = "null" /\ Top.at = "probe" /\ verifyNullMove
  BY DEF VerifyNull, At
<1>2. /\ stack \in Seq(Frames) /\ Len(stack) \in Nat \ {0} /\ Top \in Frames
      /\ Fits(Top, Entered) /\ Entered \in Nat
      /\ currentPly = Entered + MovesOnBoard(Top)
  BY <1>1, TopStands
<1>3. /\ MovesOnBoard(Top) = 1 /\ Top.depth \in Int /\ Top.depth > 1
      /\ Entered < MaxDepth - 1 /\ MaxDepth \in Nat
  BY <1>1, <1>2, SearchAssumption DEF MovesOnBoard, Frames, Fits
<1> DEFINE n == Len(stack)
           f == [Top EXCEPT !.at = "verify"]
           g == Frame("child", "entry", Top.depth - 1)
           t == [stack EXCEPT ![n] = f]
           u == Append(t, g)
<1>4. /\ f \in Frames /\ f.function = "null" /\ f.at = "verify" /\ f.depth = Top.depth
  BY <1>1, <1>2 DEF Frames
<1>5. /\ g \in Frames /\ g.function = "child" /\ g.at = "entry" /\ g.depth >= 1
  <2>1. Top.depth - 1 \in Int /\ Top.depth - 1 >= 1
    BY <1>3
  <2> QED
    BY <2>1, NewFrame
<1>6. Goto("verify") = t
  BY <1>1, <1>4, Going
<1>7. /\ stack' = u /\ returned' = "none" /\ currentPly' = Entered
      /\ verifyNullMove' = FALSE /\ nullVerification' = TRUE
  <2>1. stack' = u /\ returned' = "none"
    BY <1>6 DEF VerifyNull, Call
  <2>2. currentPly' = Entered
    BY <1>2, <1>3 DEF VerifyNull, Restore
  <2> QED
    BY <2>1, <2>2 DEF VerifyNull
<1> HIDE DEF f, g
<1>8. /\ Placed(f) /\ Fits(f, Entered) /\ MovesOnBoard(f) = 0
      /\ Placed(g) /\ Fits(g, Entered) /\ MovesOnBoard(g) = 0 /\ Above(f, g)
  BY <1>2, <1>3, <1>4, <1>5 DEF Placed, Fits, MovesOnBoard, Above, Calls
<1>9. NoneVerifies(stack, n - 1)
  BY <1>1, <1>2 DEF StackInv, NoneVerifies
<1>10. Sound(t, Entered)
  <2>1. Entered + MovesOnBoard(f) = Entered /\ stack # <<>>
    BY <1>1, <1>2, <1>8 DEF Idle
  <2> QED
    BY <1>1, <1>4, <1>8, <1>9, <2>1, Turned DEF StackInv, Top, Entered
<1>11. /\ t \in Seq(Frames) /\ Len(t) = n /\ t[n] = f /\ t # <<>>
  BY <1>2, <1>4, ExceptSeq, EmptySeq
<1> HIDE DEF t
<1>12. Sound(u, Entered)
  <2>1. Entered + MovesOnBoard(g) = Entered /\ g.at # "verify"
    BY <1>2, <1>5, <1>8
  <2> QED
    BY <1>5, <1>8, <1>10, <1>11, <2>1, Called
<1>13. /\ Len(u) = n + 1 /\ u[n + 1] = g /\ u[n] = f /\ u # <<>>
  <2>1. n \in 1 .. n
    BY <1>2
  <2>2. /\ Len(u) = n + 1 /\ u[n + 1] = g
        /\ \A i \in 1 .. n : u[i] = t[i]
    BY <1>5, <1>11, AppendProperties
  <2> QED
    BY <1>2, <1>11, <2>1, <2>2, EmptySeq
<1> HIDE DEF u
<1>14. ~NoneVerifies(u, n + 1)
  <2>1. n \in 1 .. n + 1
    BY <1>2
  <2> QED
    BY <1>4, <1>13, <2>1 DEF NoneVerifies
<1>15. VerificationRoot(u)
  <2>1. n + 1 > 1 /\ n + 1 - 1 = n
    BY <1>2
  <2> QED
    BY <1>4, <1>5, <1>13, <2>1 DEF VerificationRoot
<1> QED
  BY <1>7, <1>12, <1>13, <1>14, <1>15 DEF StackInv

\* A verification is the only one, so without it there is none.
LEMMA NullVerifiedKeeps == StackInv /\ NullVerified => StackInv'
<1> SUFFICES ASSUME StackInv, NullVerified PROVE StackInv'
  OBVIOUS
<1>1. ~Idle /\ Top.function = "null" /\ Top.at = "verify"
  BY DEF NullVerified, At
<1> DEFINE n == Len(stack)
<1>2. /\ stack \in Seq(Frames) /\ n \in Nat \ {0} /\ Sound(Below, Entered)
      /\ Stands(stack, n, Entered) /\ currentPly = Entered + MovesOnBoard(Top)
      /\ Entered \in Nat
  BY <1>1, TopStands
<1>3. Entered = currentPly
  BY <1>1, <1>2 DEF MovesOnBoard
<1>4. /\ Len(Below) = n - 1
      /\ \A i \in 1 .. n - 1 : Below[i] = stack[i]
  <2>1. n - 1 \in 0 .. Len(stack)
    BY <1>2
  <2> QED
    BY <1>2, <2>1, Truncated DEF Below
<1>5. NoneVerifies(Below, n - 1)
  BY <1>1, <1>2, <1>4 DEF Stands, NoneVerifies, Top
<1>6. /\ stack' = Below /\ returned' \in Answers \union {"none"}
      /\ currentPly' = currentPly /\ verifyNullMove' = TRUE /\ nullVerification' = FALSE
  BY DEF NullVerified, Return, position, StackInv
<1> QED
  BY <1>2, <1>3, <1>4, <1>5, <1>6 DEF StackInv

LEMMA LeaveNullKeeps == StackInv /\ LeaveNull => StackInv'
<1> SUFFICES ASSUME StackInv, LeaveNull PROVE StackInv'
  OBVIOUS
<1>1. ~Idle /\ Top.function = "child" /\ Top.at = "null"
  BY DEF LeaveNull, At
<1>2. Entered = currentPly
  BY <1>1, ChildEntered
<1>3. /\ currentPly' = Entered
      /\ verifyNullMove' = verifyNullMove /\ nullVerification' = nullVerification
      /\ nullVerification \in BOOLEAN
  BY <1>2 DEF LeaveNull, position, flags, StackInv
<1>4. CASE Answer("above")
  <2>1. "above" \in Answers
    BY DEF Answers
  <2> QED
    BY <1>1, <1>3, <1>4, <2>1, AnswerKeeps
<1>5. CASE stack' = Goto("node") /\ returned' = "none"
  BY <1>1, <1>3, <1>5, NodeKeeps
<1> QED
  BY <1>4, <1>5 DEF LeaveNull

(***************************************************************************)
(* The moves of a node.                                                    *)
(***************************************************************************)
\* The frame of a node that has made one move more.
LEMMA CountedFrame ==
  ASSUME StackInv, ~Idle, Top.function \in {"test", "child", "quiet"}, Top.at = "node",
         NEW point \in {"searched", "reduced"},
         Top.function = "quiet" => point = "searched"
  PROVE  /\ \E f \in Frames :
              /\ Counted(point) = [stack EXCEPT ![Len(stack)] = f]
              /\ f.function = Top.function /\ f.at = point
              /\ Placed(f) /\ Fits(f, Entered) /\ MovesOnBoard(f) = 1
         /\ Entered = currentPly /\ Entered \in Nat /\ Top.depth \in Int
         /\ Top.at # "verify" /\ nullVerification = FALSE
         /\ Top.function = "child" => Entered < MaxDepth - 1
         /\ Top.function = "quiet" => Entered < MaxDepth
         /\ Top.function = "test" => Entered = 0
<1>1. /\ Top \in Frames /\ Entered \in Nat /\ Fits(Top, Entered)
      /\ currentPly = Entered + MovesOnBoard(Top)
  BY TopStands
<1> DEFINE moves == Top.moves + 1
           f == [Top EXCEPT !.at = point, !.moves = moves]
<1>2. moves \in Nat /\ Top.depth \in Int
  BY <1>1 DEF Frames
<1>3. Counted(point) = [stack EXCEPT ![Len(stack)] = f]
  BY DEF Counted, WithTop
<1> HIDE DEF moves
<1>4. f \in Frames /\ f.function = Top.function /\ f.at = point
  BY <1>1, <1>2 DEF Frames
<1> HIDE DEF f
<1>5. Placed(f) /\ MovesOnBoard(f) = 1 /\ MovesOnBoard(Top) = 0
  BY <1>4 DEF Placed, MovesOnBoard
<1>6. Fits(f, Entered)
  BY <1>1, <1>4 DEF Fits
<1>7. nullVerification = FALSE
  BY NotVerifying
<1>8. Entered = currentPly
  BY <1>1, <1>5
<1>9. /\ Top.function = "child" => Entered < MaxDepth - 1
      /\ Top.function = "quiet" => Entered < MaxDepth
      /\ Top.function = "test" => Entered = 0
  BY <1>1 DEF Fits
<1> QED
  BY <1>1, <1>2, <1>3, <1>4, <1>5, <1>6, <1>7, <1>8, <1>9

LEMMA SearchMoveKeeps == StackInv /\ SearchMove => StackInv'
<1> SUFFICES ASSUME StackInv, SearchMove PROVE StackInv'
  OBVIOUS
<1>1. ~Idle /\ Top.function \in {"test", "child"} /\ Top.at = "node"
  BY DEF SearchMove, At
<1>2. PICK point \in {"searched", "reduced"}, depth \in {Top.depth - 1, Top.depth - 2} :
        Call(Counted(point), "child", depth)
  BY DEF SearchMove
<1>3. PICK f \in Frames :
        /\ Counted(point) = [stack EXCEPT ![Len(stack)] = f]
        /\ f.function = Top.function /\ f.at = point
        /\ Placed(f) /\ Fits(f, Entered) /\ MovesOnBoard(f) = 1
  BY <1>1, CountedFrame
<1>4. /\ Entered = currentPly /\ Entered \in Nat /\ Top.depth \in Int
      /\ Top.at # "verify" /\ nullVerification = FALSE
      /\ Top.function = "child" => Entered < MaxDepth - 1
      /\ Top.function = "test" => Entered = 0
  BY <1>1, CountedFrame
<1> DEFINE g == Frame("child", "entry", depth)
<1>5. g \in Frames /\ g.function = "child" /\ g.at = "entry"
  BY <1>4, NewFrame
<1>6. /\ stack' = Append([stack EXCEPT ![Len(stack)] = f], g) /\ returned' = "none"
  BY <1>2, <1>3 DEF Call
<1> HIDE DEF g
<1>7. MaxDepth \in Nat /\ MaxDepth > 1
  BY SearchAssumption
<1>8. /\ Above(f, g) /\ Placed(g) /\ MovesOnBoard(g) = 0
  BY <1>1, <1>3, <1>5 DEF Placed, MovesOnBoard, Above, Calls
<1>9. Fits(g, Entered + 1)
  BY <1>1, <1>4, <1>5, <1>7 DEF Fits
<1>10. /\ Entered + MovesOnBoard(f) = Entered + 1
       /\ currentPly' = Entered + MovesOnBoard(f) + MovesOnBoard(g)
  BY <1>3, <1>4, <1>8 DEF SearchMove, MakeNextMove
<1>11. verifyNullMove' = verifyNullMove /\ nullVerification' = FALSE
  BY <1>4 DEF SearchMove, flags
<1> QED
  BY <1>1, <1>3, <1>4, <1>5, <1>6, <1>8, <1>9, <1>10, <1>11, CallKeeps

LEMMA SearchAgainKeeps == StackInv /\ SearchAgain => StackInv'
<1> SUFFICES ASSUME StackInv, SearchAgain PROVE StackInv'
  OBVIOUS
<1>1. ~Idle /\ Top.function \in {"test", "child"} /\ Top.at = "reduced"
  BY DEF SearchAgain, At
<1>2. /\ Top \in Frames /\ Entered \in Nat /\ Fits(Top, Entered)
      /\ currentPly = Entered + MovesOnBoard(Top)
  BY <1>1, TopStands
<1>3. MovesOnBoard(Top) = 1 /\ Top.depth \in Int /\ Top.at # "verify"
  BY <1>1, <1>2 DEF MovesOnBoard, Frames
<1>4. nullVerification = FALSE
  BY <1>1, NotVerifying
<1> DEFINE f == [Top EXCEPT !.at = "searched"]
           g == Frame("child", "entry", Top.depth - 1)
<1>5. f \in Frames /\ f.function = Top.function /\ f.at = "searched"
  BY <1>2 DEF Frames
<1>6. Goto("searched") = [stack EXCEPT ![Len(stack)] = f]
  BY <1>1, <1>5, Going
<1>7. g \in Frames /\ g.function = "child" /\ g.at = "entry"
  BY <1>3, NewFrame
<1> HIDE DEF f, g
<1>8. MaxDepth \in Nat /\ MaxDepth > 1
  BY SearchAssumption
<1>9. Placed(f) /\ Fits(f, Entered) /\ MovesOnBoard(f) = 1
  BY <1>1, <1>2, <1>5 DEF Placed, MovesOnBoard, Fits
<1>10. /\ verifyNullMove' = verifyNullMove /\ nullVerification' = FALSE
       /\ currentPly' = currentPly
  BY <1>4 DEF SearchAgain, position, flags
<1>11. CASE Call(Goto("searched"), "child", Top.depth - 1)
  <2>1. stack' = Append([stack EXCEPT ![Len(stack)] = f], g) /\ returned' = "none"
    BY <1>6, <1>11 DEF Call, g
  <2>2. /\ Above(f, g) /\ Placed(g) /\ MovesOnBoard(g) = 0
    BY <1>1, <1>5, <1>7 DEF Placed, MovesOnBoard, Above, Calls
  <2>3. Fits(g, Entered + 1)
    BY <1>1, <1>2, <1>7, <1>8 DEF Fits
  <2>4. /\ Entered + MovesOnBoard(f) = Entered + 1
        /\ currentPly' = Entered + MovesOnBoard(f) + MovesOnBoard(g)
    BY <1>2, <1>3, <1>9, <1>10, <2>2
  <2> QED
    BY <1>1, <1>3, <1>5, <1>7, <1>9, <1>10, <2>1, <2>2, <2>3, <2>4, CallKeeps
<1>12. CASE stack' = Goto("searched") /\ returned' = returned
  <2>1. /\ currentPly' = Entered + MovesOnBoard(f)
        /\ returned' \in Answers \union {"none"}
    BY <1>2, <1>3, <1>9, <1>10, <1>12 DEF StackInv
  <2> QED
    BY <1>1, <1>3, <1>5, <1>6, <1>9, <1>10, <1>12, <2>1, TurnKeeps
<1> QED
  BY <1>11, <1>12 DEF SearchAgain

LEMMA MoveSearchedKeeps == StackInv /\ MoveSearched => StackInv'
<1> SUFFICES ASSUME StackInv, MoveSearched PROVE StackInv'
  OBVIOUS
<1>1. ~Idle /\ Top.function \in {"test", "child"} /\ Top.at = "searched"
  BY DEF MoveSearched, At
<1>2. /\ currentPly = Entered + MovesOnBoard(Top) /\ Entered \in Nat
      /\ MovesOnBoard(Top) = 1
  BY <1>1, TopStands DEF MovesOnBoard
<1>3. /\ currentPly' = Entered
      /\ verifyNullMove' = verifyNullMove /\ nullVerification' = nullVerification
      /\ nullVerification \in BOOLEAN
  BY <1>2 DEF MoveSearched, Restore, flags, StackInv
<1>4. CASE Answer("above")
  <2>1. "above" \in Answers
    BY DEF Answers
  <2> QED
    BY <1>1, <1>3, <1>4, <2>1, AnswerKeeps
<1>5. CASE stack' = Goto("node") /\ returned' = "none"
  BY <1>1, <1>3, <1>5, NodeKeeps
<1> QED
  BY <1>4, <1>5 DEF MoveSearched

LEMMA NoMoreMovesKeeps == StackInv /\ NoMoreMoves => StackInv'
<1> SUFFICES ASSUME StackInv, NoMoreMoves PROVE StackInv'
  OBVIOUS
<1>1. ~Idle /\ Top.function \in {"test", "child"} /\ Top.at = "node"
  BY DEF NoMoreMoves, At
<1>2. PICK answer \in Answers : Answer(answer)
  BY DEF NoMoreMoves
<1>3. Entered = currentPly
  BY <1>1, TopStands DEF MovesOnBoard
<1> QED
  BY <1>1, <1>2, <1>3, AnswerKeeps DEF NoMoreMoves, position, flags, StackInv

(***************************************************************************)
(* Quiescence.                                                             *)
(***************************************************************************)
LEMMA QuietAnswerKeeps == StackInv /\ QuietAnswer => StackInv'
<1> SUFFICES ASSUME StackInv, QuietAnswer PROVE StackInv'
  OBVIOUS
<1>1. ~Idle /\ Top.function = "quiet" /\ Top.at = "entry"
  BY DEF QuietAnswer, At
<1>2. PICK answer \in Answers : Return(answer)
  BY DEF QuietAnswer
<1>3. Entered = currentPly
  BY <1>1, TopStands DEF MovesOnBoard
<1> QED
  BY <1>1, <1>2, <1>3, ReturnKeeps DEF QuietAnswer, position, flags, StackInv

LEMMA QuietNodeKeeps == StackInv /\ QuietNode => StackInv'
<1> SUFFICES ASSUME StackInv, QuietNode PROVE StackInv'
  OBVIOUS
<1>1. ~Idle /\ Top.function = "quiet" /\ Top.at = "entry"
  BY DEF QuietNode, At
<1>2. Entered = currentPly
  BY <1>1, TopStands DEF MovesOnBoard
<1>3. /\ Entered < MaxDepth /\ currentPly' = Entered /\ stack' = Goto("node")
      /\ returned' \in Answers \union {"none"}
      /\ verifyNullMove' = verifyNullMove /\ nullVerification' = nullVerification
  BY <1>2 DEF QuietNode, position, flags, StackInv
<1> QED
  BY <1>1, <1>3, NodeKeeps

LEMMA QuietMoveKeeps == StackInv /\ QuietMove => StackInv'
<1> SUFFICES ASSUME StackInv, QuietMove PROVE StackInv'
  OBVIOUS
<1>1. ~Idle /\ Top.function = "quiet" /\ Top.at = "node"
  BY DEF QuietMove, At
<1>2. PICK f \in Frames :
        /\ Counted("searched") = [stack EXCEPT ![Len(stack)] = f]
        /\ f.function = "quiet" /\ f.at = "searched"
        /\ Placed(f) /\ Fits(f, Entered) /\ MovesOnBoard(f) = 1
  BY <1>1, CountedFrame
<1>3. /\ Entered = currentPly /\ Entered \in Nat /\ Entered < MaxDepth
      /\ Top.at # "verify" /\ nullVerification = FALSE
  BY <1>1, CountedFrame
<1> DEFINE g == Frame("quiet", "entry", 0)
<1>4. g \in Frames /\ g.function = "quiet" /\ g.at = "entry"
  BY NewFrame
<1>5. stack' = Append([stack EXCEPT ![Len(stack)] = f], g) /\ returned' = "none"
  BY <1>2 DEF QuietMove, Call
<1> HIDE DEF g
<1>6. Above(f, g) /\ Placed(g) /\ MovesOnBoard(g) = 0
  BY <1>2, <1>4 DEF Placed, MovesOnBoard, Above, Calls
<1>7. Fits(g, Entered + 1)
  BY <1>3, <1>4, SearchAssumption DEF Fits
<1>8. /\ Entered + MovesOnBoard(f) = Entered + 1
      /\ currentPly' = Entered + MovesOnBoard(f) + MovesOnBoard(g)
  BY <1>2, <1>3, <1>6 DEF QuietMove, MakeNextMove
<1>9. verifyNullMove' = verifyNullMove /\ nullVerification' = FALSE
  BY <1>3 DEF QuietMove, flags
<1> QED
  BY <1>1, <1>2, <1>3, <1>4, <1>5, <1>6, <1>7, <1>8, <1>9, CallKeeps

LEMMA QuietMoveSearchedKeeps == StackInv /\ QuietMoveSearched => StackInv'
<1> SUFFICES ASSUME StackInv, QuietMoveSearched PROVE StackInv'
  OBVIOUS
<1>1. ~Idle /\ Top.function = "quiet" /\ Top.at = "searched"
  BY DEF QuietMoveSearched, At
<1>2. /\ currentPly = Entered + MovesOnBoard(Top) /\ Entered \in Nat
      /\ MovesOnBoard(Top) = 1 /\ Fits(Top, Entered)
  BY <1>1, TopStands DEF MovesOnBoard
<1>3. Entered < MaxDepth
  BY <1>1, <1>2 DEF Fits
<1>4. /\ currentPly' = Entered
      /\ verifyNullMove' = verifyNullMove /\ nullVerification' = nullVerification
      /\ nullVerification \in BOOLEAN
  BY <1>2 DEF QuietMoveSearched, Restore, flags, StackInv
<1>5. CASE Return("above")
  <2>1. "above" \in Answers \union {"none"}
    BY DEF Answers
  <2> QED
    BY <1>1, <1>4, <1>5, <2>1, ReturnKeeps
<1>6. CASE stack' = Goto("node") /\ returned' = "none"
  BY <1>1, <1>3, <1>4, <1>6, NodeKeeps
<1> QED
  BY <1>5, <1>6 DEF QuietMoveSearched

LEMMA QuietMovesDoneKeeps == StackInv /\ QuietMovesDone => StackInv'
<1> SUFFICES ASSUME StackInv, QuietMovesDone PROVE StackInv'
  OBVIOUS
<1>1. ~Idle /\ Top.function = "quiet" /\ Top.at = "node"
  BY DEF QuietMovesDone, At
<1>2. PICK answer \in Answers : Return(answer)
  BY DEF QuietMovesDone
<1>3. Entered = currentPly
  BY <1>1, TopStands DEF MovesOnBoard
<1> QED
  BY <1>1, <1>2, <1>3, ReturnKeeps DEF QuietMovesDone, position, flags, StackInv

(***************************************************************************)
(* Every step keeps the stack, the ply counter and the flags in agreement. *)
(***************************************************************************)
LEMMA StackInit == Init => StackInv
<1> SUFFICES ASSUME Init PROVE StackInv
  OBVIOUS
<1>1. stack = <<>> /\ Len(stack) = 0
  BY EmptySeq DEF Init
<1>2. Sound(stack, currentPly)
  BY <1>1, EmptySound DEF Init
<1>3. NoneVerifies(stack, Len(stack))
  BY <1>1 DEF NoneVerifies
<1>4. verifyNullMove = TRUE /\ nullVerification = FALSE /\ returned = "none"
  BY DEF Init
<1> QED
  BY <1>2, <1>3, <1>4 DEF StackInv

LEMMA StackStep == StackInv /\ [Next]_vars => StackInv'
<1> SUFFICES ASSUME StackInv, [Next]_vars PROVE StackInv'
  OBVIOUS
<1>1. ASSUME UNCHANGED <<position, flags, stack, returned>> PROVE StackInv'
  BY <1>1 DEF StackInv, position, flags
<1>2. CASE \E depth \in TestDepths : BeginTest(depth)
  BY <1>2, BeginTestKeeps
<1>3. CASE \E depth \in WalkDepths : BeginWalk(depth)
  BY <1>3, BeginWalkKeeps
<1>4. CASE BeginValue
  BY <1>4, BeginValueKeeps
<1>5. CASE SearchStep
  BY <1>5, ProbeRootKeeps, NextThresholdKeeps, WalkMoveKeeps,
     WalkBackKeeps, AnswerAtOnceKeeps, EnterLeafKeeps,
     LeaveLeafKeeps, SkipNullKeeps, TryNullKeeps, NullAnsweredKeeps, VerifyNullKeeps,
     NullVerifiedKeeps, LeaveNullKeeps, SearchMoveKeeps, SearchAgainKeeps,
     MoveSearchedKeeps, NoMoreMovesKeeps, QuietAnswerKeeps, QuietNodeKeeps,
     QuietMoveKeeps, QuietMoveSearchedKeeps, QuietMovesDoneKeeps, LeaveChildKeeps,
     ThrowKeeps
     DEF SearchStep
<1>6. CASE RequestStop \/ DeadlinePasses \/ ClearStop
  BY <1>1, <1>6 DEF RequestStop, DeadlinePasses, ClearStop
<1>7. CASE UNCHANGED vars
  BY <1>1, <1>7 DEF vars
<1> QED
  BY <1>2, <1>3, <1>4, <1>5, <1>6, <1>7 DEF Next

(***************************************************************************)
(* What the stack says of the flags and of the depth.                      *)
(***************************************************************************)
LEMMA StackInvariant == Spec => []StackInv
BY StackInit, StackStep, PTL DEF Spec

LEMMA FlagsFollow == StackInv => FlagsFollowStack
<1> SUFFICES ASSUME StackInv PROVE FlagsFollowStack
  OBVIOUS
<1> DEFINE verifying == {i \in 1 .. Len(stack) : stack[i].at = "verify"}
<1>1. Len(stack) \in Nat
  BY SoundTypes DEF StackInv
<1>2. ASSUME NEW i \in verifying, NEW j \in verifying, i < j
      PROVE  FALSE
  <2>1. PICK entered \in Nat : Stands(stack, j, entered)
    BY AllStand DEF StackInv
  <2>2. NoneVerifies(stack, j - 1) /\ i \in 1 .. j - 1
    BY <1>2, <2>1 DEF Stands
  <2> QED
    BY <2>2 DEF NoneVerifies
<1>3. Cardinality(verifying) <= 1
  <2>1. CASE verifying = {}
    BY <2>1, FS_EmptySet
  <2>2. CASE verifying # {}
    <3>1. PICK i \in verifying : TRUE
      BY <2>2
    <3>2. \A j \in verifying : j = i
      BY <1>2
    <3>3. verifying = {i}
      BY <3>1, <3>2
    <3> HIDE DEF verifying
    <3>4. Cardinality({i}) = 1
      BY FS_Singleton
    <3> QED
      BY <3>3, <3>4
  <2> QED
    BY <2>1, <2>2
<1>4. verifyNullMove <=> verifying = {}
  BY DEF StackInv, NoneVerifies
<1>5. nullVerification => \E i \in verifying : Len(stack) <= i + 2
  <2> SUFFICES ASSUME nullVerification
               PROVE  \E i \in verifying : Len(stack) <= i + 2
    OBVIOUS
  <2>1. stack # <<>> /\ Len(stack) \in Nat \ {0}
    BY <1>1, SoundTypes, EmptySeq DEF StackInv, VerificationRoot
  <2>2. CASE stack[Len(stack)].at = "verify"
    BY <2>1, <2>2
  <2>3. CASE Len(stack) > 1 /\ stack[Len(stack) - 1].at = "verify"
    <3>1. Len(stack) - 1 \in verifying
      BY <2>1, <2>3
    <3> QED
      BY <2>1, <3>1
  <2> QED
    BY <2>2, <2>3 DEF StackInv, VerificationRoot
<1> HIDE DEF verifying
<1>6. /\ Cardinality(verifying) <= 1
      /\ verifyNullMove <=> verifying = {}
      /\ nullVerification => \E i \in verifying : Len(stack) <= i + 2
  BY <1>3, <1>4, <1>5
<1> QED
  BY <1>6 DEF FlagsFollowStack, verifying

LEMMA CapHolds == StackInv => DepthCapped
<1> SUFFICES ASSUME StackInv PROVE DepthCapped
  OBVIOUS
<1> DEFINE n == Len(stack)
<1>1. /\ MaxDepth \in Nat /\ MaxDepth > 1
  BY SearchAssumption
<1>2. CASE Idle
  <2>1. stack = <<>> /\ n = 0 /\ currentPly = 0
    BY <1>2, EmptySeq DEF StackInv, Sound, Measured, Idle
  <2>2. Walked = 0
    BY <1>2 DEF Walked
  <2> QED
    BY <1>1, <2>1, <2>2 DEF DepthCapped
<1>3. CASE ~Idle
  <2>1. /\ stack \in Seq(Frames) /\ n \in Nat \ {0} /\ Top \in Frames
        /\ currentPly \in Nat /\ Entered \in Nat
        /\ currentPly = Entered + MovesOnBoard(Top)
        /\ Stands(stack, n, Entered)
        /\ Placed(Top) /\ Fits(Top, Entered)
    BY <1>3, TopStands
  <2>2. currentPly <= MaxDepth
    BY <1>1, <2>1 DEF Placed, Fits, MovesOnBoard
  <2>3. ASSUME NEW i \in 1 .. n, stack[i].function = "child", stack[i].at = "node"
        PROVE  currentPly < MaxDepth
    <3>1. i = n
      <4> SUFFICES ASSUME i # n PROVE FALSE
        OBVIOUS
      <4>1. i + 1 \in 1 .. n /\ i + 1 # 1 /\ i + 1 - 1 = i
        BY <2>1
      <4>2. PICK entered \in Nat : Stands(stack, i + 1, entered)
        BY <4>1, AllStand DEF StackInv
      <4>3. Calls(stack[i], stack[i + 1])
        BY <4>1, <4>2 DEF Stands, Above
      <4> QED
        BY <2>3, <4>3 DEF Calls
    <3>2. Top.function = "child" /\ Top.at = "node"
      BY <2>3, <3>1 DEF Top
    <3> QED
      BY <1>1, <2>1, <3>2 DEF Fits, MovesOnBoard
  <2>4. n <= 2 * MaxDepth + 3
    <3> DEFINE extra == Extra(stack, n)
    <3>1. extra \in {0, 2}
      BY DEF Extra
    <3>2. /\ Top.function \in {"walk", "value"} => n = 1
          /\ Top.function \in {"test", "child"} => n <= 2 * Entered + 1 + extra
          /\ Top.function = "null" => n <= 2 * Entered + 2 + extra
          /\ Top.function = "quiet" => n <= Entered + MaxDepth + 3
      BY <2>1 DEF Stands, Low, Top
    <3>3. /\ Top.function = "test" => Entered = 0
          /\ Top.function = "child" => Entered <= MaxDepth - 1
          /\ Top.function = "null" => Entered < MaxDepth - 1
          /\ Top.function = "quiet" => Entered <= MaxDepth
      BY <2>1 DEF Fits
    <3>4. Top.function \in {"walk", "value", "test", "child", "null", "quiet"}
      BY <2>1 DEF Placed
    <3>5. Entered \in Nat /\ n \in Nat
      BY <2>1
    <3> HIDE DEF extra, n
    <3> QED
      BY <1>1, <3>1, <3>2, <3>3, <3>4, <3>5
  <2>5. Walked <= MaxDepth
    <3>1. 1 \in 1 .. Len(stack)
      BY <2>1
    <3>2. PICK entered \in Nat : Stands(stack, 1, entered)
      BY <3>1, AllStand DEF StackInv
    <3> QED
      BY <1>1, <3>2 DEF Walked, Stands, Fits
  <2> QED
    BY <2>2, <2>3, <2>4, <2>5 DEF DepthCapped
<1> QED
  BY <1>2, <1>3

\* FlagsFollowStack: exactly the nodes under a verification search null moves
\* unverified, there is one verification at a time, and only its root tries no free
\* move, for every depth and cap and through every cancellation.
THEOREM VerificationsDoNotNest == Spec => []FlagsFollowStack
BY StackInvariant, FlagsFollow, PTL

\* DepthCapped: whatever extends the search, no node lies below ply kMaxDepth and the
\* calls under way are bounded with it, for every cap and whatever the position says.
THEOREM RecursionBounded == Spec => []DepthCapped
BY StackInvariant, CapHolds, PTL

(***************************************************************************)
(* The board.                                                              *)
(***************************************************************************)
\* The undo history has room for a game and the deepest search, or longest variation,
\* from its end.  Without it makeMove() refuses and nobody looks, and what follows is
\* false.
Room == RootPlies + MaxDepth <= HistoryLimit

\* The moves of the walk at the bottom of a stack.
WalkOf(s) == IF s # <<>> /\ s[1].function = "walk" THEN s[1].moves ELSE 0

Kinds == {"move", "null"}

\* A board that holds the game's half moves, and n more.
Holds(b, n) ==
  /\ b \in Seq(Kinds)
  /\ Len(b) = RootPlies + n
  /\ \A i \in 1 .. RootPlies : b[i] = "move"

BoardInv ==
  /\ Holds(board, WalkOf(stack) + currentPly)
  /\ stopRequested \in BOOLEAN /\ deadlinePassed \in BOOLEAN

LEMMA WalkedOf == StackInv => Walked = WalkOf(stack) /\ WalkOf(stack) \in Nat
<1> SUFFICES ASSUME StackInv PROVE Walked = WalkOf(stack) /\ WalkOf(stack) \in Nat
  OBVIOUS
<1>1. CASE Idle \/ stack[1].function # "walk"
  BY <1>1 DEF Walked, WalkOf, Idle
<1>2. CASE ~Idle /\ stack[1].function = "walk"
  <2>1. 1 \in 1 .. Len(stack)
    BY <1>2, TopStands
  <2>2. stack[1] \in Frames
    BY <2>1, AllStand DEF StackInv
  <2> QED
    BY <1>2, <2>2 DEF Walked, WalkOf, Idle, Frames
<1> QED
  BY <1>1, <1>2

\* A walk calls nothing: above any other frame there is none.
LEMMA NoWalkBelow ==
  ASSUME StackInv, ~Idle, Top.function # "walk"
  PROVE  WalkOf(stack) = 0
<1> DEFINE n == Len(stack)
<1>1. n \in Nat \ {0}
  BY TopStands
<1>2. CASE n = 1
  BY <1>2 DEF WalkOf, Top
<1>3. CASE n # 1
  <2>1. 2 \in 1 .. n
    <3> HIDE DEF n
    <3> QED
      BY <1>1, <1>3
  <2>2. PICK entered \in Nat : Stands(stack, 2, entered)
    BY <2>1, AllStand DEF StackInv
  <2>3. Calls(stack[1], stack[2])
    BY <2>2 DEF Stands, Above
  <2> QED
    BY <2>3 DEF Calls, WalkOf
<1> QED
  BY <1>2, <1>3

\* A walk goes on only in its own steps.
LEMMA WalkTurned ==
  ASSUME NEW s \in Seq(Frames), s # <<>>, NEW f \in Frames,
         f.function = s[Len(s)].function,
         f.function = "walk" => f.moves = s[Len(s)].moves
  PROVE  LET t == [s EXCEPT ![Len(s)] = f]
         IN t \in Seq(Frames) /\ WalkOf(t) = WalkOf(s)
<1> DEFINE n == Len(s)
           t == [s EXCEPT ![n] = f]
<1>1. n \in Nat \ {0}
  BY EmptySeq
<1>2. /\ t \in Seq(Frames) /\ t # <<>>
      /\ \A i \in 1 .. n : t[i] = IF i = n THEN f ELSE s[i]
  BY <1>1, ExceptSeq, EmptySeq
<1>3. t[1] = IF n = 1 THEN f ELSE s[1]
  BY <1>1, <1>2
<1> HIDE DEF t
<1> QED
  BY <1>1, <1>2, <1>3 DEF WalkOf, t

LEMMA WalkReplaced ==
  ASSUME NEW s \in Seq(Frames), Len(s) = 1, NEW f \in Frames, f.function = "walk"
  PROVE  WalkOf([s EXCEPT ![1] = f]) = f.moves
<1> DEFINE t == [s EXCEPT ![1] = f]
<1>1. 1 \in 1 .. Len(s)
  OBVIOUS
<1>2. /\ t \in Seq(Frames) /\ Len(t) = Len(s)
      /\ \A i \in 1 .. Len(s) : t[i] = IF i = 1 THEN f ELSE s[i]
  BY ONLY <1>1, ExceptSeq, s \in Seq(Frames), f \in Frames
<1>3. t[1] = f
  BY <1>1, <1>2
<1>4. t # <<>>
  BY <1>2, EmptySeq
<1> HIDE DEF t
<1> QED
  BY <1>3, <1>4 DEF WalkOf, t

LEMMA WalkCalled ==
  ASSUME NEW s \in Seq(Frames), NEW g \in Frames, g.moves = 0
  PROVE  WalkOf(Append(s, g)) = WalkOf(s)
<1> DEFINE t == Append(s, g)
<1>1. /\ Len(s) \in Nat /\ Len(t) = Len(s) + 1 /\ t \in Seq(Frames)
      /\ \A i \in 1 .. Len(s) : t[i] = s[i]
      /\ t[Len(s) + 1] = g
  BY LenProperties, AppendProperties
<1> HIDE DEF t
<1>2. t # <<>>
  BY <1>1, EmptySeq
<1>3. CASE s = <<>>
  <2>1. t[1] = g
    BY <1>1, <1>3, EmptySeq
  <2> QED
    BY <1>2, <1>3, <2>1 DEF WalkOf, t
<1>4. CASE s # <<>>
  <2>1. t[1] = s[1]
    BY <1>1, <1>4, EmptySeq
  <2> QED
    BY <1>2, <1>4, <2>1 DEF WalkOf, t
<1> QED
  BY <1>3, <1>4

LEMMA WalkReturned ==
  ASSUME StackInv, ~Idle, Top.function # "walk"
  PROVE  WalkOf(Below) = WalkOf(stack)
<1> DEFINE n == Len(stack)
<1>1. stack \in Seq(Frames) /\ n \in Nat \ {0}
  BY TopStands
<1>2. /\ Below \in Seq(Frames) /\ Len(Below) = n - 1
      /\ \A i \in 1 .. n - 1 : Below[i] = stack[i]
  <2>1. n - 1 \in 0 .. Len(stack)
    BY <1>1
  <2> QED
    BY <1>1, <2>1, Truncated DEF Below
<1>3. CASE n = 1
  BY <1>2, <1>3, EmptySeq DEF WalkOf, Top
<1>4. CASE n > 1
  <2>1. Below # <<>> /\ Below[1] = stack[1]
    BY <1>1, <1>2, <1>4, EmptySeq
  <2> QED
    BY <2>1 DEF WalkOf, Idle
<1>5. n = 1 \/ n > 1
  <2> HIDE DEF n
  <2> QED
    BY <1>1
<1> QED
  BY <1>3, <1>4, <1>5

\* One move more, and some moves back.
LEMMA HoldsMore ==
  ASSUME NEW b, NEW n \in Nat, Holds(b, n), NEW kind \in Kinds
  PROVE  Holds(Append(b, kind), n + 1)
<1>1. RootPlies \in Nat /\ b \in Seq(Kinds) /\ Len(b) = RootPlies + n
  BY SearchAssumption DEF Holds
<1> DEFINE c == Append(b, kind)
<1>2. /\ c \in Seq(Kinds) /\ Len(c) = Len(b) + 1
      /\ \A i \in 1 .. Len(b) : c[i] = b[i]
  BY <1>1, AppendProperties
<1> HIDE DEF c
<1>3. \A i \in 1 .. RootPlies : c[i] = "move"
  BY <1>1, <1>2 DEF Holds
<1> QED
  BY <1>1, <1>2, <1>3 DEF Holds, c

LEMMA HoldsLess ==
  ASSUME NEW n \in Nat, Holds(board, n), NEW k \in 0 .. n
  PROVE  Holds(Undone(k), n - k)
<1>1. /\ RootPlies \in Nat /\ board \in Seq(Kinds)
      /\ Len(board) = RootPlies + n
  BY SearchAssumption DEF Holds
<1> DEFINE m == Len(board) - k
           c == Undone(k)
<1>2. m \in 0 .. Len(board) /\ m = RootPlies + (n - k)
  BY <1>1
<1>3. /\ c \in Seq(Kinds) /\ Len(c) = m
      /\ \A i \in 1 .. m : c[i] = board[i]
  BY <1>1, <1>2, Truncated DEF Undone
<1> HIDE DEF c, m
<1>4. \A i \in 1 .. RootPlies : c[i] = "move"
  BY <1>1, <1>2, <1>3 DEF Holds
<1> QED
  BY <1>2, <1>3, <1>4 DEF Holds, c

\* makeMove() is not refused while a search or a walk is on.
LEMMA RoomForOne ==
  ASSUME Room, StackInv, BoardInv, WalkOf(stack) + currentPly < MaxDepth
  PROVE  CanMake
<1>1. {RootPlies, MaxDepth, HistoryLimit} \subseteq Nat
  BY SearchAssumption
<1>2. WalkOf(stack) \in Nat /\ currentPly \in Nat
  BY WalkedOf, SoundTypes DEF StackInv
<1> QED
  BY <1>1, <1>2 DEF Room, BoardInv, Holds, CanMake

LEMMA BoardTypes ==
  ASSUME StackInv
  PROVE  /\ WalkOf(stack) \in Nat /\ currentPly \in Nat /\ MaxDepth \in Nat
         /\ WalkOf(stack) <= MaxDepth
BY WalkedOf, SoundTypes, CapHolds, SearchAssumption DEF StackInv, DepthCapped

\* What a step does to the stack when it leaves the walk where it is: a frame returns,
\* goes on, or goes on and calls.
Shifts ==
  \/ Top.function # "walk" /\ stack' = Below
  \/ \E f \in Frames :
       /\ f.function = Top.function
       /\ f.function = "walk" => f.moves = Top.moves
       /\ \/ stack' = WithTop(f)
          \/ \E g \in Frames : g.moves = 0 /\ stack' = Append(WithTop(f), g)

LEMMA ShiftKeepsWalk ==
  ASSUME StackInv, ~Idle, Shifts
  PROVE  WalkOf(stack') = WalkOf(stack)
<1>1. stack \in Seq(Frames) /\ stack # <<>>
  BY TopStands DEF Idle
<1>2. CASE Top.function # "walk" /\ stack' = Below
  BY <1>2, WalkReturned
<1>3. ASSUME NEW f \in Frames, f.function = Top.function,
             f.function = "walk" => f.moves = Top.moves,
             \/ stack' = WithTop(f)
             \/ \E g \in Frames : g.moves = 0 /\ stack' = Append(WithTop(f), g)
      PROVE  WalkOf(stack') = WalkOf(stack)
  <2>1. WithTop(f) \in Seq(Frames) /\ WalkOf(WithTop(f)) = WalkOf(stack)
    BY <1>1, <1>3, WalkTurned DEF WithTop, Top
  <2>2. CASE stack' = WithTop(f)
    BY <2>1, <2>2
  <2>3. CASE \E g \in Frames : g.moves = 0 /\ stack' = Append(WithTop(f), g)
    BY <2>1, <2>3, WalkCalled
  <2> QED
    BY <1>3, <2>2, <2>3
<1> QED
  BY <1>2, <1>3 DEF Shifts

Points == {"leaf", "node", "searched", "verify", "leaving"}

LEMMA GoingFrame ==
  ASSUME StackInv, ~Idle, NEW point \in Points
  PROVE  \E f \in Frames : /\ f.function = Top.function /\ f.moves = Top.moves
                           /\ Goto(point) = WithTop(f)
<1> DEFINE f == [Top EXCEPT !.at = point]
<1>1. Top \in Frames
  BY TopStands
<1>2. f \in Frames /\ f.function = Top.function /\ f.moves = Top.moves
  BY <1>1 DEF Frames, Points
<1> QED
  BY <1>2 DEF Goto

LEMMA GotoShifts ==
  ASSUME StackInv, ~Idle, NEW point \in Points, stack' = Goto(point)
  PROVE  Shifts
BY GoingFrame DEF Shifts

\* A frame that has just been made.
LEMMA CalledFrame ==
  ASSUME NEW depth \in Int,
         NEW function \in {"test", "child", "null", "quiet"}
  PROVE  /\ Frame(function, "entry", depth) \in Frames
         /\ Frame(function, "entry", depth).moves = 0
BY NewFrame

LEMMA CallShifts ==
  ASSUME StackInv, ~Idle, NEW point \in Points, NEW depth \in Int,
         NEW function \in {"test", "child", "null", "quiet"},
         Call(Goto(point), function, depth)
  PROVE  Shifts
<1> DEFINE g == Frame(function, "entry", depth)
<1>1. PICK f \in Frames : /\ f.function = Top.function /\ f.moves = Top.moves
                          /\ Goto(point) = WithTop(f)
  BY GoingFrame
<1>2. g \in Frames /\ g.moves = 0
  BY CalledFrame
<1>3. stack' = Append(WithTop(f), g)
  BY <1>1 DEF Call
<1> HIDE DEF g
<1> QED
  BY <1>1, <1>2, <1>3 DEF Shifts

LEMMA ReturnShifts ==
  ASSUME NEW answer, Return(answer), Top.function # "walk"
  PROVE  Shifts
BY DEF Return, Shifts

LEMMA AnswerShifts ==
  ASSUME StackInv, ~Idle, NEW answer, Answer(answer), Top.function # "walk"
  PROVE  Shifts
BY GotoShifts, ReturnShifts DEF Answer, Points

\* The steps that make and take back no move.
Standing ==
  \/ ProbeRoot \/ NextThreshold
  \/ AnswerAtOnce \/ EnterLeaf \/ LeaveLeaf \/ SkipNull \/ NullVerified \/ LeaveNull
  \/ SearchAgain \/ NoMoreMoves \/ QuietAnswer \/ QuietNode \/ QuietMovesDone
  \/ LeaveChild

LEMMA StandingShifts ==
  ASSUME StackInv, Standing
  PROVE  ~Idle /\ Shifts
<1>1. ~Idle
  BY DEF Standing, ProbeRoot, NextThreshold,
     AnswerAtOnce, EnterLeaf, LeaveLeaf, SkipNull, NullVerified, LeaveNull, SearchAgain,
     NoMoreMoves, QuietAnswer, QuietNode, QuietMovesDone, LeaveChild, At
<1>2. Top \in Frames /\ Top.depth \in Int /\ Top.depth - 1 \in Int /\ 0 \in Int
  BY <1>1, TopStands DEF Frames
<1> USE <1>1
<1>3. CASE ProbeRoot
  BY <1>3, GotoShifts, ReturnShifts DEF ProbeRoot, At, Points
<1>4. CASE NextThreshold
  <2>1. Top.function = "value"
    BY <1>4 DEF NextThreshold, At
  <2>2. CASE Return(returned)
    BY <2>1, <2>2, ReturnShifts
  <2>3. CASE Call(stack, "quiet", 0)
    <3> DEFINE g == Frame("quiet", "entry", 0)
    <3>1. g \in Frames /\ g.moves = 0
      BY CalledFrame
    <3>2. stack' = Append(WithTop(Top), g)
      BY <2>3, StackSelf DEF Call, WithTop
    <3> HIDE DEF g
    <3> QED
      BY <1>2, <3>1, <3>2 DEF Shifts
  <2> QED
    BY <1>4, <2>2, <2>3 DEF NextThreshold
<1>5. CASE AnswerAtOnce
  BY <1>5, AnswerShifts DEF AnswerAtOnce, At
<1>6. CASE EnterLeaf
  BY <1>2, <1>6, CallShifts DEF EnterLeaf, Points
<1>7. CASE LeaveLeaf
  BY <1>7, AnswerShifts DEF LeaveLeaf, At
<1>8. CASE SkipNull
  <2>1. Top.function = "child" /\ Top.at = "entry"
    BY <1>8 DEF SkipNull, At
  <2>2. PICK p \in Positions : ~AtHorizon(p) /\ stack' = Interior(p, "node")
    BY <1>8 DEF SkipNull
  <2>3. PICK f \in Frames : /\ stack' = [stack EXCEPT ![Len(stack)] = f]
                            /\ f.function = "child"
    BY <2>1, <2>2, InteriorFrame
  <2> QED
    BY <2>1, <2>3 DEF Shifts, WithTop
<1>9. CASE NullVerified
  BY <1>9, ReturnShifts DEF NullVerified, At
<1>10. CASE LeaveNull
  BY <1>10, AnswerShifts, GotoShifts DEF LeaveNull, At, Points
<1>11. CASE SearchAgain
  BY <1>2, <1>11, CallShifts, GotoShifts DEF SearchAgain, Points
<1>12. CASE NoMoreMoves
  BY <1>12, AnswerShifts DEF NoMoreMoves, At
<1>13. CASE QuietAnswer
  BY <1>13, ReturnShifts DEF QuietAnswer, At
<1>14. CASE QuietNode
  BY <1>14, GotoShifts DEF QuietNode, Points
<1>15. CASE QuietMovesDone
  BY <1>15, ReturnShifts DEF QuietMovesDone, At
<1>16. CASE LeaveChild
  BY <1>16, ReturnShifts DEF LeaveChild, At
<1> QED
  BY <1>3, <1>4, <1>5, <1>6, <1>7, <1>8, <1>9, <1>10, <1>11, <1>12,
     <1>13, <1>14, <1>15, <1>16 DEF Standing

LEMMA StandingKeepsBoard ==
  ASSUME StackInv, BoardInv, Standing
  PROVE  BoardInv'
<1>1. WalkOf(stack') = WalkOf(stack)
  BY StandingShifts, ShiftKeepsWalk
<1>2. board' = board /\ stopRequested' = stopRequested /\ deadlinePassed' = deadlinePassed
  BY DEF Standing, ProbeRoot, NextThreshold,
     AnswerAtOnce, EnterLeaf, LeaveLeaf, SkipNull, NullVerified, LeaveNull, SearchAgain,
     NoMoreMoves, QuietAnswer, QuietNode, QuietMovesDone, LeaveChild, position, kill
<1>3. currentPly' = currentPly
  BY DEF Standing, ProbeRoot, NextThreshold,
     AnswerAtOnce, EnterLeaf, LeaveLeaf, SkipNull, NullVerified, LeaveNull, SearchAgain,
     NoMoreMoves, QuietAnswer, QuietNode, QuietMovesDone, LeaveChild, position
<1> QED
  BY <1>1, <1>2, <1>3 DEF BoardInv

\* The steps that begin a call from nothing.
LEMMA BeginKeepsBoard ==
  ASSUME StackInv, BoardInv,
         \/ \E depth \in TestDepths : BeginTest(depth)
         \/ \E depth \in WalkDepths : BeginWalk(depth)
         \/ BeginValue
  PROVE  BoardInv'
<1>1. Idle /\ stack \in Seq(Frames) /\ currentPly = 0 /\ WalkOf(stack) = 0
  <2>1. Idle
    BY DEF BeginTest, BeginWalk, BeginValue
  <2> QED
    BY <2>1, SoundTypes, EmptySeq DEF Idle, WalkOf, StackInv, Sound, Measured
<1>2. /\ board' = board /\ stopRequested' = stopRequested
      /\ deadlinePassed' = deadlinePassed
  BY DEF BeginTest, BeginWalk, BeginValue, position, kill
<1>3. currentPly' = 0
  BY <1>1 DEF BeginTest, BeginWalk, BeginValue, position
<1>4. WalkOf(stack') = 0
  <2>1. ASSUME NEW function \in {"test", "walk"}, NEW depth \in Int,
               Call(stack, function, depth)
        PROVE  WalkOf(stack') = 0
    <3> DEFINE g == Frame(function, "entry", depth)
    <3>1. g \in Frames /\ g.moves = 0
      BY NewFrame
    <3>2. stack' = Append(stack, g)
      BY <2>1 DEF Call
    <3> HIDE DEF g
    <3> QED
      BY <1>1, <3>1, <3>2, WalkCalled
  <2>2. CASE \E depth \in TestDepths : BeginTest(depth)
    BY <2>1, <2>2, SearchAssumption DEF BeginTest
  <2>3. CASE \E depth \in WalkDepths : BeginWalk(depth)
    BY <2>1, <2>3, SearchAssumption DEF BeginWalk
  <2>4. CASE BeginValue
    <3> DEFINE f == Frame("value", "searched", 0)
               g == Frame("quiet", "entry", 0)
    <3>1. /\ f \in Frames /\ f.function = "value" /\ f.moves = 0
          /\ g \in Frames /\ g.moves = 0
      BY NewFrame
    <3>2. stack' = Append(Append(stack, f), g)
      BY <1>1, <2>4 DEF BeginValue, Call, Idle
    <3> HIDE DEF f, g
    <3>3. Append(stack, f) \in Seq(Frames) /\ WalkOf(Append(stack, f)) = 0
      BY <1>1, <3>1, WalkCalled, AppendProperties
    <3> QED
      BY <3>1, <3>2, <3>3, WalkCalled
  <2> QED
    BY <2>2, <2>3, <2>4
<1> QED
  BY <1>1, <1>2, <1>3, <1>4 DEF BoardInv

\* The moves of a node.
LEMMA MoveKeepsBoard ==
  ASSUME StackInv, BoardInv, SearchMove \/ QuietMove
  PROVE  BoardInv'
<1>1. /\ ~Idle /\ Top.function \in {"test", "child", "quiet"} /\ Top.at = "node"
      /\ Top.function = "quiet" => QuietMove
      /\ MakeNextMove /\ UNCHANGED kill
  BY DEF SearchMove, QuietMove, At
<1>2. Shifts
  <2>1. PICK point \in {"searched", "reduced"}, depth \in Int,
             function \in {"child", "quiet"} :
          /\ Call(Counted(point), function, depth)
          /\ Top.function = "quiet" => point = "searched"
    <3>1. Top.depth \in Int
      BY <1>1, TopStands DEF Frames
    <3>2. Top.depth - 1 \in Int /\ Top.depth - 2 \in Int /\ 0 \in Int
      BY <3>1
    <3>3. CASE SearchMove
      BY <3>2, <3>3 DEF SearchMove, At
    <3>4. CASE QuietMove
      BY <3>2, <3>4 DEF QuietMove
    <3> QED
      BY <3>3, <3>4
  <2>2. PICK f \in Frames : /\ Counted(point) = [stack EXCEPT ![Len(stack)] = f]
                            /\ f.function = Top.function
    BY <1>1, <2>1, CountedFrame
  <2> DEFINE g == Frame(function, "entry", depth)
  <2>3. g \in Frames /\ g.moves = 0
    BY CalledFrame
  <2>4. stack' = Append(WithTop(f), g)
    BY <2>1, <2>2 DEF Call, WithTop
  <2> HIDE DEF g
  <2> QED
    BY <1>1, <2>2, <2>3, <2>4 DEF Shifts
<1>3. WalkOf(stack') = WalkOf(stack)
  BY <1>1, <1>2, ShiftKeepsWalk
<1>4. Holds(board', WalkOf(stack) + currentPly + 1)
  <2>1. Holds(board, WalkOf(stack) + currentPly) /\ WalkOf(stack) + currentPly \in Nat
    BY BoardTypes DEF BoardInv
  <2>2. board' = Append(board, "move") /\ "move" \in Kinds
    BY <1>1 DEF MakeNextMove, Kinds
  <2> QED
    BY <2>1, <2>2, HoldsMore
<1>5. WalkOf(stack) + currentPly + 1 = WalkOf(stack') + currentPly'
  BY <1>1, <1>3, BoardTypes DEF MakeNextMove
<1> QED
  BY <1>1, <1>4, <1>5 DEF BoardInv, kill

\* restore() takes back what the frame has made.
LEMMA RestoreKeepsBoard ==
  ASSUME StackInv, BoardInv,
         NullAnswered \/ VerifyNull \/ MoveSearched \/ QuietMoveSearched
  PROVE  BoardInv'
<1>1. /\ ~Idle /\ Top.function # "walk" /\ Restore /\ UNCHANGED kill
      /\ \/ Top.function = "null" /\ Top.at = "probe"
         \/ Top.function \in {"test", "child", "quiet"} /\ Top.at = "searched"
  BY DEF NullAnswered, VerifyNull, MoveSearched, QuietMoveSearched, At
<1>2. Shifts
  <2>1. CASE NullAnswered
    BY <1>1, <2>1, ReturnShifts DEF NullAnswered
  <2>2. CASE VerifyNull
    <3>1. Top.depth \in Int
      BY <1>1, TopStands DEF Frames
    <3>2. Top.depth - 1 \in Int
      BY <3>1
    <3> QED
      BY <1>1, <2>2, <3>2, CallShifts DEF VerifyNull, Points
  <2>3. CASE MoveSearched
    BY <1>1, <2>3, AnswerShifts, GotoShifts DEF MoveSearched, Points
  <2>4. CASE QuietMoveSearched
    BY <1>1, <2>4, ReturnShifts, GotoShifts DEF QuietMoveSearched, Points
  <2> QED
    BY <2>1, <2>2, <2>3, <2>4
<1>3. WalkOf(stack') = WalkOf(stack)
  BY <1>1, <1>2, ShiftKeepsWalk
<1>4. currentPly >= 1
  <2>1. currentPly = Entered + MovesOnBoard(Top) /\ Entered \in Nat
    BY <1>1, TopStands
  <2>2. MovesOnBoard(Top) = 1
    BY <1>1 DEF MovesOnBoard
  <2> QED
    BY <2>1, <2>2
<1>5. Holds(board', WalkOf(stack) + currentPly - 1)
  <2> DEFINE plies == WalkOf(stack) + currentPly
  <2>1. plies \in Nat /\ 1 \in 0 .. plies
    BY <1>4, BoardTypes
  <2>2. Holds(board, plies) /\ board' = Undone(1)
    BY <1>1 DEF BoardInv, Restore
  <2> HIDE DEF plies
  <2>3. Holds(board', plies - 1)
    BY <2>1, <2>2, HoldsLess
  <2>4. plies - 1 = WalkOf(stack) + currentPly - 1
    BY BoardTypes DEF plies
  <2> QED
    BY <2>3, <2>4
<1>6. WalkOf(stack) + currentPly - 1 = WalkOf(stack') + currentPly'
  BY <1>1, <1>3, BoardTypes DEF Restore
<1> QED
  BY <1>1, <1>5, <1>6 DEF BoardInv, kill

\* makeMove() makes the free move: nullTest() does not look whether it has.
LEMMA NullKeepsBoard ==
  ASSUME Room, StackInv, BoardInv, TryNull
  PROVE  BoardInv'
<1>1. ~Idle /\ Top.function = "child" /\ Top.at = "entry"
  BY DEF TryNull, At
<1>2. PICK p \in Positions :
        /\ ~AtHorizon(p)
        /\ Call(Append(Interior(p, "null"), Frame("null", "probe", InteriorDepth(p))),
                "child", InteriorDepth(p) - 1 - NullReduction)
  BY DEF TryNull
<1>3. PICK f \in Frames : /\ Interior(p, "null") = [stack EXCEPT ![Len(stack)] = f]
                          /\ f.function = "child"
  BY <1>1, <1>2, InteriorFrame
<1> DEFINE g == Frame("null", "probe", InteriorDepth(p))
           h == Frame("child", "entry", InteriorDepth(p) - 1 - NullReduction)
<1>4. g \in Frames /\ g.moves = 0 /\ h \in Frames /\ h.moves = 0
  <2>1. Top.depth \in Int /\ NullReduction \in Nat
    BY <1>1, ChildEntered, SearchAssumption
  <2>2. InteriorDepth(p) \in Int
    BY <2>1 DEF InteriorDepth
  <2>3. InteriorDepth(p) - 1 - NullReduction \in Int
    BY <2>1, <2>2
  <2> QED
    BY <2>2, <2>3, NewFrame
<1>5. stack' = Append(Append(WithTop(f), g), h)
  BY <1>2, <1>3 DEF Call, WithTop
<1> HIDE DEF g, h
<1>6. WalkOf(stack') = WalkOf(stack)
  <2>1. stack \in Seq(Frames) /\ stack # <<>>
    BY <1>1, TopStands DEF Idle
  <2>2. WithTop(f) \in Seq(Frames) /\ WalkOf(WithTop(f)) = WalkOf(stack)
    BY <1>1, <1>3, <2>1, WalkTurned DEF WithTop, Top
  <2>3. /\ Append(WithTop(f), g) \in Seq(Frames)
        /\ WalkOf(Append(WithTop(f), g)) = WalkOf(stack)
    BY <1>4, <2>2, WalkCalled, AppendProperties
  <2> QED
    BY <1>4, <1>5, <2>3, WalkCalled
<1>7. CanMake
  <2>1. WalkOf(stack) + currentPly < MaxDepth
    BY <1>1, <1>2, NoWalkBelow, BoardTypes DEF AtHorizon
  <2> QED
    BY <2>1, RoomForOne
<1>8. board' = Append(board, "null") /\ currentPly' = currentPly + 1 /\ UNCHANGED kill
  BY <1>7 DEF TryNull, Made
<1>9. Holds(board', WalkOf(stack) + currentPly + 1)
  BY <1>8, BoardTypes, HoldsMore DEF BoardInv, Kinds
<1>10. WalkOf(stack) + currentPly + 1 = WalkOf(stack') + currentPly'
  BY <1>6, <1>8, BoardTypes
<1> QED
  BY <1>8, <1>9, <1>10 DEF BoardInv, kill

\* The walk is the only frame while it moves.
LEMMA WalkAlone ==
  ASSUME StackInv, ~Idle, Top.function = "walk"
  PROVE  /\ Len(stack) = 1 /\ stack[1] = Top /\ WalkOf(stack) = Top.moves
         /\ currentPly = 0 /\ Top \in Frames /\ Top.moves \in Nat
<1>1. /\ Len(stack) \in Nat \ {0} /\ Top \in Frames /\ Fits(Top, Entered)
      /\ Stands(stack, Len(stack), Entered) /\ Entered \in Nat
      /\ currentPly = Entered + MovesOnBoard(Top)
  BY TopStands
<1>2. Len(stack) = 1 /\ stack[1] = Top
  BY <1>1 DEF Stands, Low, Top
<1>3. currentPly = 0 /\ Top.moves \in Nat
  BY <1>1 DEF Fits, MovesOnBoard, Frames
<1> QED
  BY <1>1, <1>2, <1>3 DEF WalkOf, Idle

LEMMA WalkMoveKeepsBoard ==
  ASSUME Room, StackInv, BoardInv, WalkMove
  PROVE  BoardInv'
<1>1. ~Idle /\ Top.function = "walk" /\ Top.at = "entry" /\ Top.moves < MaxDepth
  BY DEF WalkMove, At
<1>2. /\ Len(stack) = 1 /\ stack[1] = Top /\ WalkOf(stack) = Top.moves
      /\ currentPly = 0 /\ Top \in Frames /\ Top.moves \in Nat
      /\ Top.moves < MaxDepth
  BY <1>1, WalkAlone
<1>3. PICK check \in {0, 1} :
        stack' = WithTop([Top EXCEPT !.depth = Top.depth - 1 + check,
                                     !.moves = Top.moves + 1])
  BY Zenon DEF WalkMove
<1> DEFINE depth == Top.depth - 1 + check
           moves == Top.moves + 1
           f == [Top EXCEPT !.depth = depth, !.moves = moves]
<1>4. f \in Frames /\ f.function = "walk" /\ f.moves = moves
  <2>1. depth \in Int /\ moves \in Nat
    BY <1>2 DEF Frames
  <2> HIDE DEF depth, moves
  <2> QED
    BY <1>1, <1>2, <2>1 DEF Frames
<1>5. stack' = [stack EXCEPT ![1] = f]
  BY <1>2, <1>3 DEF WithTop
<1> HIDE DEF f
<1>6. WalkOf(stack') = Top.moves + 1
  <2>1. stack \in Seq(Frames) /\ 1 \in 1 .. Len(stack)
    BY <1>1, <1>2, TopStands
  <2>2. WalkOf(stack') = f.moves
    BY <1>2, <1>4, <1>5, <2>1, WalkReplaced
  <2> QED
    BY <1>4, <2>2 DEF moves
<1>7. CanMake
  <2>1. WalkOf(stack) + currentPly < MaxDepth
    BY <1>2, BoardTypes
  <2> QED
    BY <2>1, RoomForOne
<1>8. board' = Append(board, "move") /\ currentPly' = currentPly /\ UNCHANGED kill
  BY <1>7 DEF WalkMove, Made
<1>9. Holds(board', WalkOf(stack) + currentPly + 1)
  BY <1>8, BoardTypes, HoldsMore DEF BoardInv, Kinds
<1>10. WalkOf(stack) + currentPly + 1 = WalkOf(stack') + currentPly'
  BY <1>2, <1>6, <1>8, BoardTypes
<1> QED
  BY <1>8, <1>9, <1>10 DEF BoardInv, kill

LEMMA WalkBackKeepsBoard ==
  ASSUME StackInv, BoardInv, WalkBack
  PROVE  BoardInv'
<1>1. ~Idle /\ Top.function = "walk"
  BY DEF WalkBack, At
<1>2. /\ Len(stack) = 1 /\ WalkOf(stack) = Top.moves /\ currentPly = 0
      /\ Top.moves \in Nat
  BY <1>1, WalkAlone
<1>3. WalkOf(stack') = 0
  <2>1. stack \in Seq(Frames) /\ 0 \in 0 .. Len(stack)
    BY <1>1, <1>2, TopStands
  <2>2. SubSeq(stack, 1, 0) \in Seq(Frames) /\ Len(SubSeq(stack, 1, 0)) = 0
    BY <2>1, Truncated
  <2>3. stack' = SubSeq(stack, 1, 0)
    BY <1>2 DEF WalkBack, Return, Below
  <2> QED
    BY <2>2, <2>3, EmptySeq DEF WalkOf
<1>4. Holds(board', 0)
  <2>1. Top.moves \in 0 .. Top.moves /\ Top.moves - Top.moves = 0 /\ Top.moves + 0 = Top.moves
    BY <1>2
  <2>2. Holds(board, Top.moves) /\ board' = Undone(Top.moves)
    BY <1>2, <2>1 DEF BoardInv, WalkBack
  <2> QED
    BY <1>2, <2>1, <2>2, HoldsLess
<1>5. currentPly' = 0 /\ UNCHANGED kill
  BY <1>2 DEF WalkBack
<1> QED
  BY <1>3, <1>4, <1>5 DEF BoardInv, kill

\* The handler undoes what the search has made.
LEMMA ThrowKeepsBoard ==
  ASSUME StackInv, BoardInv, Throw
  PROVE  BoardInv'
<1>1. ~Idle /\ Cancel
  BY DEF Throw, At
<1>2. /\ stack' = <<>> /\ currentPly' = 0 /\ board' = Undone(currentPly)
      /\ stopRequested' = TRUE /\ deadlinePassed' = deadlinePassed
  BY <1>1 DEF Cancel, Unwind
<1>3. WalkOf(stack') = 0 /\ WalkOf(stack) = 0
  <2>1. Top.function # "walk"
    BY DEF Throw, At
  <2> QED
    BY <1>1, <1>2, <2>1, NoWalkBelow DEF WalkOf
<1>4. Holds(board', 0)
  <2>1. /\ currentPly \in Nat /\ currentPly \in 0 .. currentPly
        /\ currentPly - currentPly = 0 /\ 0 + currentPly = currentPly
    BY BoardTypes
  <2>2. Holds(board, currentPly)
    BY <1>3, <2>1 DEF BoardInv
  <2> QED
    BY <1>2, <2>1, <2>2, HoldsLess
<1> QED
  BY <1>2, <1>3, <1>4 DEF BoardInv

LEMMA BoardStep ==
  ASSUME Room, StackInv, BoardInv, [Next]_vars
  PROVE  BoardInv'
<1>1. CASE \/ \E depth \in TestDepths : BeginTest(depth)
           \/ \E depth \in WalkDepths : BeginWalk(depth)
           \/ BeginValue
  BY <1>1, BeginKeepsBoard
<1>2. CASE SearchStep
  BY <1>2, StandingKeepsBoard, MoveKeepsBoard, RestoreKeepsBoard, NullKeepsBoard,
     WalkMoveKeepsBoard, WalkBackKeepsBoard, ThrowKeepsBoard DEF SearchStep, Standing
<1>3. CASE RequestStop \/ DeadlinePasses \/ ClearStop
  BY <1>3 DEF RequestStop, DeadlinePasses, ClearStop, position, BoardInv
<1>4. CASE UNCHANGED vars
  BY <1>4 DEF vars, position, kill, BoardInv
<1> QED
  BY <1>1, <1>2, <1>3, <1>4 DEF Next

LEMMA RootHolds == Root \in Seq(Kinds) /\ Len(Root) = RootPlies /\ Holds(Root, 0)
<1>1. RootPlies \in Nat
  BY SearchAssumption
<1>2. \A i \in 1 .. RootPlies : Root[i] = "move"
  BY DEF Root
<1>3. Root \in Seq(Kinds) /\ Len(Root) = RootPlies
  BY <1>1 DEF Root, Kinds
<1> QED
  BY <1>1, <1>2, <1>3 DEF Holds

LEMMA BoardInit == Init => BoardInv
<1> SUFFICES ASSUME Init PROVE BoardInv
  OBVIOUS
<1>1. WalkOf(stack) + currentPly = 0
  BY DEF Init, WalkOf
<1>2. board = Root /\ stopRequested = FALSE /\ deadlinePassed = FALSE
  BY DEF Init
<1> QED
  BY <1>1, <1>2, RootHolds DEF BoardInv

LEMMA BoardInvariant ==
  ASSUME Room
  PROVE  Spec => [](StackInv /\ BoardInv)
<1>1. Init => StackInv /\ BoardInv
  BY StackInit, BoardInit
<1>2. StackInv /\ BoardInv /\ [Next]_vars => (StackInv /\ BoardInv)'
  BY StackStep, BoardStep
<1> QED
  BY <1>1, <1>2, PTL DEF Spec

\* PlyCountsMoves: while the undo history has room, the ply counter is the number of
\* half moves the search has on the board, none of a walk's, so the handler of a
\* cancellation, which sees no frame, undoes its own moves and no others.
THEOREM PlyAlwaysCounts ==
  ASSUME Room
  PROVE  Spec => []PlyCountsMoves
<1>1. StackInv /\ BoardInv => PlyCountsMoves
  <2> SUFFICES ASSUME StackInv, BoardInv PROVE PlyCountsMoves
    OBVIOUS
  <2>1. Walked = WalkOf(stack) /\ WalkOf(stack) \in Nat /\ currentPly \in Nat
    BY WalkedOf, BoardTypes
  <2>2. RootPlies \in Nat
    BY SearchAssumption
  <2> QED
    BY <2>1, <2>2 DEF BoardInv, Holds, PlyCountsMoves
<1> QED
  BY <1>1, BoardInvariant, PTL

\* RootRestored: while the undo history has room, whatever way a call of the search
\* ends, by an answer, a stop or the clock, the board is the root's again, and the ply
\* counter and both null-move flags are those of a new test.
THEOREM RootAlwaysRestored ==
  ASSUME Room
  PROVE  Spec => []RootRestored
<1>1. StackInv /\ BoardInv => RootRestored
  <2> SUFFICES ASSUME StackInv, BoardInv PROVE RootRestored
    OBVIOUS
  <2>1. ASSUME Idle PROVE board = Root /\ currentPly = 0
    <3>1. currentPly = 0 /\ WalkOf(stack) = 0
      BY <2>1, EmptySeq DEF Idle, WalkOf, StackInv, Sound, Measured
    <3>2. Holds(board, 0)
      BY <3>1 DEF BoardInv
    <3>3. /\ RootPlies \in Nat /\ board \in Seq(Kinds) /\ Len(board) = Len(Root)
          /\ \A i \in 1 .. Len(board) : board[i] = Root[i]
      BY <3>2, RootHolds, SearchAssumption DEF Holds
    <3> QED
      BY <3>1, <3>3, RootHolds, SeqEqual
  <2>2. ASSUME Idle PROVE verifyNullMove /\ ~nullVerification
    <3>1. stack = <<>> /\ Len(stack) = 0
      BY <2>2, EmptySeq DEF Idle
    <3> QED
      BY <3>1 DEF StackInv, NoneVerifies, VerificationRoot
  <2> QED
    BY <2>1, <2>2 DEF RootRestored
<1> QED
  BY <1>1, BoardInvariant, PTL

\* TypeOK: while the undo history has room, each variable keeps its type; the ply
\* counter, which every restore() lowers, is never negative.
THEOREM TypesKept ==
  ASSUME Room
  PROVE  Spec => []TypeOK
<1>1. StackInv /\ BoardInv => TypeOK
  <2> SUFFICES ASSUME StackInv, BoardInv PROVE TypeOK
    OBVIOUS
  <2>1. stack \in Seq(Frames) /\ currentPly \in Nat
    BY SoundTypes DEF StackInv
  <2> QED
    BY <2>1 DEF StackInv, BoardInv, Holds, Kinds, TypeOK
<1> QED
  BY <1>1, BoardInvariant, PTL
=============================================================================
