-------------------------- MODULE MCBoundScheduler --------------------------
(***************************************************************************)
(* Instances of BoundScheduler for TLC.  The grain is 2, so thresholds are *)
(* odd and scores even.  Infty is out of reach of every threshold asked    *)
(* (ReachAssumption), as 100000 is in the code for 10000, a grain of 8 and *)
(* up to 2900 workers.                                                     *)
(***************************************************************************)
EXTENDS BoundScheduler, TLC

CONSTANTS w1, w2, w3, m1, m2, theOwner

\* m1 is a best move, worth the given scores, m2 is worth one grain less.
CloseMoves(scores) ==
  [d \in Depths |-> [m \in Moves |-> IF m = m1 THEN scores[d] ELSE scores[d] - GrainSize]]

\* From one depth to the next the score stays, falls to a loss or rises to a mate from
\* a value off the grain, or there is no score that the answers agree on.
AnyTable ==
  {CloseMoves(scores) : scores \in {<<0, 0>>, <<2, -2>>, <<1, MaxScore>>}}
    \union {Anything}

\* Negative and off the grain.
AnyGuess == {-3}

WorkerSymmetry == Permutations(Workers)
=============================================================================
