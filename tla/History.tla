------------------------------ MODULE History ------------------------------
(***************************************************************************)
(* The move ordering that one worker learns (src/src/history.cpp): a score *)
(* per move that grows with the depth of the cutoffs it caused, and two    *)
(* killer moves per ply.                                                   *)
(*                                                                         *)
(* A move stands for its from and to squares; MaxInt is the largest int.   *)
(***************************************************************************)
EXTENDS Integers, Sequences

CONSTANTS
  Moves, NoMove,
  MaxDepth,       \* kMaxDepth
  MaxInt,
  updateIncrements,  \* by depth: growing powers of a branch factor
  Depths, Plies,  \* what update() is called with
  MaxCutoffs      \* bound on the calls that are remembered

ASSUME HistoryAssumption ==
  /\ NoMove \notin Moves
  /\ MaxDepth \in Nat /\ MaxDepth > 1
  /\ MaxInt \in Nat /\ MaxInt > 0
  /\ Depths \subseteq Int /\ Plies \subseteq Int
  /\ MaxCutoffs \in Nat

\* The constructor caps every increment, so that half a score and an increment
\* fit into an int.
maximumIncrement == MaxInt \div 2
ASSUME IncrementsAssumption ==
  updateIncrements \in [1 .. MaxDepth - 1 -> 0 .. maximumIncrement]

VARIABLES
  scores, firstKillers, secondKillers,
  cutoffs   \* every call that counted since the last reset, oldest first

vars == <<scores, firstKillers, secondKillers, cutoffs>>

PlyIndices == 0 .. MaxDepth - 1
-----------------------------------------------------------------------------
\* The increments of the default branch factor.
increments[depth \in 1 .. MaxDepth - 1] ==
  IF depth = 1 THEN 1
  ELSE IF increments[depth - 1] > maximumIncrement \div 4 THEN maximumIncrement
  ELSE increments[depth - 1] * 4

\* min(depth, kMaxDepth - 1)
DepthIndex(depth) == IF depth < MaxDepth THEN depth ELSE MaxDepth - 1

Overflows(move, increment) == scores[move] > MaxInt - increment

\* Mutant: only the score at hand is halved.
HalvedAlone(move, increment) ==
  IF Overflows(move, increment)
  THEN [scores EXCEPT ![move] = @ \div 2] ELSE scores

\* halveScores(), where the increment would overflow.
Halved(move, increment) ==
  IF Overflows(move, increment)
  THEN [m \in Moves |-> scores[m] \div 2] ELSE scores

Rewarded(move, increment) ==
  [Halved(move, increment) EXCEPT ![move] = @ + increment]

KeepKiller(move, ply) ==
  IF move = firstKillers[ply] THEN UNCHANGED <<firstKillers, secondKillers>>
  ELSE /\ secondKillers' = [secondKillers EXCEPT ![ply] = firstKillers[ply]]
       /\ firstKillers' = [firstKillers EXCEPT ![ply] = move]

\* update() with a cutoff by a quiet move.
Update(move, depth, ply) ==
  /\ Len(cutoffs) < MaxCutoffs
  /\ depth >= 1 /\ ply \in PlyIndices
  /\ scores' = Rewarded(move, updateIncrements[DepthIndex(depth)])
  /\ KeepKiller(move, ply)
  /\ cutoffs' = Append(cutoffs, [move |-> move, ply |-> ply])

Reset ==
  /\ scores' = [m \in Moves |-> 0]
  /\ firstKillers' = [p \in PlyIndices |-> NoMove]
  /\ secondKillers' = [p \in PlyIndices |-> NoMove]
  /\ cutoffs' = <<>>

Init ==
  /\ scores = [m \in Moves |-> 0]
  /\ firstKillers = [p \in PlyIndices |-> NoMove]
  /\ secondKillers = [p \in PlyIndices |-> NoMove]
  /\ cutoffs = <<>>

Next ==
  \/ \E move \in Moves, depth \in Depths, ply \in Plies : Update(move, depth, ply)
  \/ Reset

Spec == Init /\ [][Next]_vars
-----------------------------------------------------------------------------
(***************************************************************************)
(* Properties.                                                             *)
(***************************************************************************)
\* Every score is an int: "score accumulation can be made safe by one global
\* halving".
TypeOK ==
  /\ scores \in [Moves -> 0 .. MaxInt]
  /\ firstKillers \in [PlyIndices -> Moves \union {NoMove}]
  /\ secondKillers \in [PlyIndices -> Moves \union {NoMove}]
  /\ cutoffs \in Seq([move : Moves, ply : PlyIndices])

\* "Rescale every move together to preserve relative ordering": only the move
\* that is rewarded overtakes others.
JustRewarded(move) == cutoffs' # <<>> /\ cutoffs'[Len(cutoffs')].move = move
KeepsOrder ==
  \A m, n \in Moves :
    scores[n] <= scores[m] /\ ~JustRewarded(n) => scores'[n] <= scores'[m]
OrderKept == [][KeepsOrder]_vars
=============================================================================
