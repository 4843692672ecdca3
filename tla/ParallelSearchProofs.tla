------------------------ MODULE ParallelSearchProofs ------------------------
(***************************************************************************)
(* Theorems about a ParallelSearch (parallel_search.cpp), for every number *)
(* of workers, every maximum depth, grain and table of scores.             *)
(*                                                                         *)
(* First, of its scheduler: bounds never cross and enclose the score, no   *)
(* question is asked twice or lost, and what is reported is exact.  Then,  *)
(* of its life, in every way tasks may fail: nothing runs on when a search *)
(* is over, what it returns is what it reported last, and it keeps the     *)
(* promises of SearchService.                                              *)
(***************************************************************************)
EXTENDS ParallelSearch, WellFoundedInduction, FiniteSetTheorems, TLAPS

\* The natural numbers are well-founded.
LEMMA LeastNatural ==
  ASSUME NEW S \in SUBSET Nat, S # {}
  PROVE  \E x \in S : \A y \in S : x <= y
<1>1. PICK R : IsWellFoundedOn(R, Nat) /\ \A x, y \in Nat : <<y, x>> \in R <=> y < x
  <2>1. IsWellFoundedOn(OpToRel(<, Nat), Nat)
    BY Zenon, NatLessThanWellFounded
  <2>2. \A x, y \in Nat : <<y, x>> \in OpToRel(<, Nat) <=> y < x
    BY DEF OpToRel
  <2> QED
    BY Zenon, <2>1, <2>2
<1>2. \E x \in S : \A y \in S : ~ (<<y, x>> \in R)
  BY Zenon, <1>1, WFMin
<1>3. PICK x \in S : \A y \in S : ~ (<<y, x>> \in R)
  BY <1>2
<1>4. ASSUME NEW y \in S PROVE x <= y
  <2>1. x \in Nat /\ y \in Nat /\ ~(y < x)
    BY <1>1, <1>3
  <2> QED
    BY <2>1
<1> QED
  BY <1>3, <1>4

LEMMA GreatestInteger ==
  ASSUME NEW S \in SUBSET Int, S # {}, NEW limit \in Int, \A x \in S : x <= limit
  PROVE  \E x \in S : \A y \in S : y <= x
<1> DEFINE gaps == {limit - x : x \in S}
<1>0. \A x \in S : limit - x \in Nat
  OBVIOUS
<1>1. gaps \in SUBSET Nat /\ gaps # {}
  BY <1>0
<1>2. PICK g \in gaps : \A h \in gaps : g <= h
  BY <1>1, LeastNatural
<1>3. PICK x \in S : g = limit - x
  BY <1>2
<1>4. ASSUME NEW y \in S PROVE y <= x
  <2>1. limit - x <= limit - y
    BY <1>2, <1>3
  <2> QED
    BY <2>1
<1> QED
  BY <1>4

LEMMA LeastInteger ==
  ASSUME NEW S \in SUBSET Int, S # {}, NEW limit \in Int, \A x \in S : x >= limit
  PROVE  \E x \in S : \A y \in S : y >= x
<1> DEFINE gaps == {x - limit : x \in S}
<1>1. gaps \in SUBSET Nat /\ gaps # {}
  OBVIOUS
<1>2. PICK g \in gaps : \A h \in gaps : g <= h
  BY <1>1, LeastNatural
<1>3. PICK x \in S : g = x - limit
  BY <1>2
<1>4. ASSUME NEW y \in S PROVE y >= x
  <2>1. x - limit <= y - limit
    BY <1>2, <1>3
  <2> QED
    BY <2>1
<1> QED
  BY <1>4

USE ParametersAssumption DEF Depths, NoDepth

\* The bounds after a merge, as far as their type goes.
MergedBounds ==
  /\ lowerBounds' \in [0 .. MaximumDepth -> Int]
  /\ upperBounds' \in [0 .. MaximumDepth -> Int]
  /\ bestMoves' \in [Depths -> Moves \union {NoMove}]
-----------------------------------------------------------------------------
(***************************************************************************)
(* Type correctness.                                                       *)
(***************************************************************************)
LEMMA GuessInt ==
  ASSUME MergedBounds, NEW d \in Depths
  PROVE  Guess(d) \in Int
<1> DEFINE middle == TruncDiv(lowerBounds'[d - 1] + upperBounds'[d - 1], 2)
<1>1. lowerBounds'[d - 1] \in Int /\ upperBounds'[d - 1] \in Int
  BY DEF MergedBounds
<1>2. middle \in Int
  BY <1>1 DEF TruncDiv
<1>3. TruncDiv(middle, GrainSize) \in Int
  <2> HIDE DEF middle
  <2> QED BY <1>2 DEF TruncDiv
<1>4. \A q \in Int : q * GrainSize - GrainSize \div 2 \in Int
  OBVIOUS
<1> QED
  BY <1>3, <1>4 DEF Guess

LEMMA CandidatesInt ==
  ASSUME TypeOK, MergedBounds, NEW w \in Workers, NEW d \in Depths
  PROVE  Candidates(w, d) \subseteq Int
<1>1. InFlight(w, d) \subseteq Int
  BY DEF TypeOK, InFlight
<1>2. lowerBounds'[d] \in Int /\ upperBounds'[d] \in Int
  BY DEF MergedBounds
<1>3. Above(w, d) \subseteq Int
  BY <1>1, <1>2 DEF Above
<1>4. Below(w, d) \subseteq Int
  BY <1>1, <1>2 DEF Below
<1> QED
  BY <1>3, <1>4, GuessInt DEF Candidates

LEMMA ScanTypes ==
  ASSUME TypeOK, MergedBounds, NEW w \in Workers,
         NEW halted \in [Workers -> BOOLEAN], Scan(w, halted)
  PROVE  /\ stages' \in [Depths -> Stages]
         /\ completedDepth' \in 0 .. MaximumDepth
         /\ searchDone' \in BOOLEAN
         /\ depths' \in [Workers -> Depths \union {NoDepth}]
         /\ testValues' \in [Workers -> Int]
         /\ stopped' \in [Workers -> BOOLEAN]
         /\ pc' \in [Workers -> WorkerStates]
         /\ notifications' \in [Workers -> SUBSET Results]
<1>1. stages' \in [Depths -> Stages]
  <2>1. \A d \in Depths : ScannedStage(w, d) \in Stages
    BY DEF ScannedStage, Stages
  <2> QED
    BY <2>1 DEF Scan, TypeOK
<1>2. completedDepth' \in 0 .. MaximumDepth
  BY DEF Scan, DeepestCompleted, TypeOK, NewlyComplete, Visited
<1>3. notifications' \in [Workers -> SUBSET Results]
  <2>1. \A d \in Depths : Completed(d) \in Results
    BY DEF Completed, Results, MergedBounds
  <2>2. NewlyComplete(w) \subseteq Depths
    BY DEF NewlyComplete, Visited
  <2> QED
    BY <2>1, <2>2 DEF Scan, TypeOK
<1>4. CASE \E d \in Visited(w) : ClaimAt(w, d, halted) /\ UNCHANGED searchDone
  <2>1. PICK d \in Depths : ClaimAt(w, d, halted) /\ UNCHANGED searchDone
    BY <1>4 DEF Visited
  <2>2. testValues' \in [Workers -> Int]
    <3>1. PICK t \in Candidates(w, d) : testValues' = [testValues EXCEPT ![w] = t]
      BY <2>1 DEF ClaimAt
    <3> QED BY <3>1, CandidatesInt DEF TypeOK
  <2> QED
    BY <1>1, <1>2, <1>3, <2>1, <2>2 DEF ClaimAt, TypeOK, WorkerStates
<1>5. CASE searchDone' = TRUE /\ NoWork(w, [v \in Workers |-> TRUE])
  BY <1>1, <1>2, <1>3, <1>5 DEF NoWork, TypeOK, WorkerStates
<1>6. CASE NoWork(w, halted) /\ UNCHANGED searchDone
  BY <1>1, <1>2, <1>3, <1>6 DEF NoWork, TypeOK, WorkerStates
<1> QED
  BY <1>4, <1>5, <1>6 DEF Scan

LEMMA NextSearchTypes ==
  ASSUME TypeOK, MergedBounds, NEW w \in Workers,
         NEW halted \in [Workers -> BOOLEAN], NextSearch(w, halted)
  PROVE  TypeOK'
<1>1. CASE Scan(w, halted)
  BY <1>1, ScanTypes DEF NextSearch, TypeOK, MergedBounds
<1>2. CASE /\ notifications' = [notifications EXCEPT ![w] = {}]
           /\ NoWork(w, halted)
           /\ UNCHANGED progress
  BY <1>2 DEF NextSearch, NoWork, TypeOK, MergedBounds, progress, WorkerStates
<1> QED
  BY <1>1, <1>2 DEF NextSearch

LEMMA MergeTypes ==
  ASSUME TypeOK, NEW w \in Workers, MergeAnswer(w)
  PROVE  MergedBounds
BY DEF TypeOK, MergeAnswer, MergedBounds, bounds

LEMMA OutcomesTyped ==
  ASSUME NEW d, NEW t
  PROVE  ProbeOutcomes(d, t) \subseteq Moves \union {NoMove}
BY DEF ProbeOutcomes

\* What prepare() leaves, for any first guess and whatever was asked before, with no
\* worker running yet.
Fresh ==
  /\ \E guess \in -MaxScore .. MaxScore : /\ lowerBounds = Prepared(guess).lower
                                         /\ upperBounds = Prepared(guess).upper
  /\ stages = [d \in Depths |-> "waiting"]
  /\ bestMoves = [d \in Depths |-> NoMove]
  /\ completedDepth = 0 /\ searchDone = FALSE
  /\ depths = [w \in Workers |-> NoDepth]
  /\ testValues \in [Workers -> Int]
  /\ stopped = [w \in Workers |-> FALSE]
  /\ stopRequested = FALSE /\ expired = FALSE
  /\ requests = [r \in Requesters |-> "none"]
  /\ pc \in [Workers -> {"unspawned", "starting"}]
  /\ answers = [w \in Workers |-> NoMove]
  /\ notifications = [w \in Workers |-> {}] /\ reported = {}
  /\ values \in [Depths -> [Moves -> -MaxScore .. MaxScore]] \union {Anything}

LEMMA InitialIsFresh ==
  ASSUME NEW state \in {"unspawned", "starting"}, InitialState(state)
  PROVE  Fresh
<1>1. PICK guess \in InitialGuesses : /\ lowerBounds = Prepared(guess).lower
                                      /\ upperBounds = Prepared(guess).upper
  BY DEF InitialState
<1>2. guess \in -MaxScore .. MaxScore
  BY ReachAssumption
<1>3. values \in [Depths -> [Moves -> -MaxScore .. MaxScore]] \union {Anything}
  BY Zenon DEF InitialState
<1>4. testValues \in [Workers -> Int] /\ pc \in [Workers -> {"unspawned", "starting"}]
  BY DEF InitialState
<1> QED
  BY <1>1, <1>2, <1>3, <1>4 DEF InitialState, Fresh

LEMMA FreshInit == Init => Fresh
BY InitialIsFresh DEF Init

LEMMA FreshTypes == Fresh => TypeOK
<1> SUFFICES ASSUME Fresh PROVE TypeOK
  OBVIOUS
<1>1. PICK guess \in -MaxScore .. MaxScore : /\ lowerBounds = Prepared(guess).lower
                                             /\ upperBounds = Prepared(guess).upper
  BY DEF Fresh
<1>2. /\ lowerBounds \in [0 .. MaximumDepth -> Int]
      /\ upperBounds \in [0 .. MaximumDepth -> Int]
  BY <1>1 DEF Prepared
<1>3. notifications \in [Workers -> SUBSET Results] /\ reported \in SUBSET Results
  BY DEF Fresh
<1>4. /\ stages \in [Depths -> Stages]
      /\ bestMoves \in [Depths -> Moves \union {NoMove}]
      /\ depths \in [Workers -> Depths \union {NoDepth}]
      /\ completedDepth \in 0 .. MaximumDepth
  BY DEF Fresh, Stages
<1>5. searchDone \in BOOLEAN /\ stopRequested \in BOOLEAN /\ expired \in BOOLEAN
  BY DEF Fresh
<1>6. /\ testValues \in [Workers -> Int] /\ stopped \in [Workers -> BOOLEAN]
      /\ values \in [Depths -> [Moves -> -MaxScore .. MaxScore]] \union {Anything}
  BY DEF Fresh
<1>7. /\ requests \in [Requesters -> {"none", "locking", "done"}]
      /\ pc \in [Workers -> WorkerStates]
  BY DEF Fresh, WorkerStates
<1>8. answers \in [Workers -> Moves \union {NoMove}]
  BY DEF Fresh
<1> QED
  BY <1>2, <1>3, <1>4, <1>5, <1>6, <1>7, <1>8 DEF TypeOK

LEMMA TypeOKStep == TypeOK /\ [Next]_vars => TypeOK'
<1> SUFFICES ASSUME TypeOK, [Next]_vars PROVE TypeOK'
  OBVIOUS
<1>1. ASSUME NEW w \in Workers, StartWorker(w) PROVE TypeOK'
  <2>1. MergedBounds
    BY <1>1 DEF StartWorker, bounds, TypeOK, MergedBounds
  <2> QED
    BY <1>1, <2>1, NextSearchTypes DEF StartWorker, TypeOK
<1>2. ASSUME NEW w \in Workers, DeliverProgress(w) PROVE TypeOK'
  BY <1>2 DEF DeliverProgress, TypeOK, WorkerStates, bounds, progress
<1>3. ASSUME NEW w \in Workers, NEW answer \in Moves \union {NoMove},
             FinishProbe(w, answer)
      PROVE  TypeOK'
  BY <1>3 DEF FinishProbe, TypeOK, WorkerStates, bounds, progress
<1>4. ASSUME NEW w \in Workers, CompleteProbe(w) PROVE TypeOK'
  BY <1>3, <1>4, OutcomesTyped DEF CompleteProbe
<1>5. ASSUME NEW w \in Workers, CancelProbe(w) PROVE TypeOK'
  BY <1>3, <1>5 DEF CancelProbe
<1>6. ASSUME NEW w \in Workers, MergeAndContinue(w) PROVE TypeOK'
  <2> DEFINE halted == [v \in Workers |-> stopped[v] \/ Outlier(w, v)]
  <2>1. MergedBounds
    BY <1>6, MergeTypes DEF MergeAndContinue
  <2>2. halted \in [Workers -> BOOLEAN]
    BY DEF TypeOK, Outlier
  <2>3. NextSearch(w, halted)
    BY <1>6 DEF MergeAndContinue
  <2> QED
    BY <2>1, <2>2, <2>3, NextSearchTypes
<1>7. ASSUME NEW r \in Requesters, RequestStop(r) PROVE TypeOK'
  BY <1>7 DEF RequestStop, TypeOK, bounds, progress
<1>8. ASSUME NEW r \in Requesters, StopSearches(r) PROVE TypeOK'
  BY <1>8 DEF StopSearches, TypeOK, bounds
<1>9. CASE ClockExpires
  BY <1>9 DEF ClockExpires, TypeOK, bounds, progress
<1>10. CASE UNCHANGED vars
  BY <1>10 DEF vars, bounds, progress, TypeOK
<1> QED
  BY <1>1, <1>2, <1>4, <1>5, <1>6, <1>7, <1>8, <1>9, <1>10
  DEF Next, Worker, Terminated

\* The state of the scheduler always has the declared types: in particular
\* every threshold is an integer and every completed depth a requested one.
THEOREM TypeCorrect == Spec => []TypeOK
BY FreshInit, FreshTypes, TypeOKStep, PTL DEF Spec
-----------------------------------------------------------------------------
(***************************************************************************)
(* The bounds of a depth never meet.                                       *)
(***************************************************************************)
LEMMA MergeOrdered ==
  ASSUME TypeOK, BoundsOrdered, NEW w \in Workers, MergeAnswer(w)
  PROVE  BoundsOrdered'
<1> DEFINE e == depths[w]
<1>1. testValues[w] \in Int /\ \A d \in Depths : lowerBounds[d] \in Int /\ upperBounds[d] \in Int
  BY DEF TypeOK
<1>2. CASE Informative(w) /\ lowerBounds' = [lowerBounds EXCEPT ![e] = testValues[w]]
           /\ UNCHANGED upperBounds
  <2> SUFFICES ASSUME NEW d \in Depths PROVE lowerBounds'[d] < upperBounds'[d]
    BY DEF BoundsOrdered
  <2>1. CASE d = e
    BY <1>2, <2>1 DEF Informative, TypeOK
  <2>2. CASE d # e
    BY <1>2, <2>2 DEF BoundsOrdered, TypeOK
  <2> QED BY <2>1, <2>2
<1>3. CASE Informative(w) /\ upperBounds' = [upperBounds EXCEPT ![e] = testValues[w]]
           /\ UNCHANGED lowerBounds
  <2> SUFFICES ASSUME NEW d \in Depths PROVE lowerBounds'[d] < upperBounds'[d]
    BY DEF BoundsOrdered
  <2>1. CASE d = e
    BY <1>3, <2>1 DEF Informative, TypeOK
  <2>2. CASE d # e
    BY <1>3, <2>2 DEF BoundsOrdered, TypeOK
  <2> QED BY <2>1, <2>2
<1>4. CASE UNCHANGED bounds
  BY <1>4 DEF bounds, BoundsOrdered
<1> QED
  BY <1>2, <1>3, <1>4 DEF MergeAnswer

LEMMA BoundsOrderedStep == TypeOK /\ BoundsOrdered /\ [Next]_vars => BoundsOrdered'
<1> SUFFICES ASSUME TypeOK, BoundsOrdered, [Next]_vars PROVE BoundsOrdered'
  OBVIOUS
<1>1. CASE UNCHANGED bounds
  BY <1>1 DEF BoundsOrdered, bounds
<1>2. ASSUME NEW w \in Workers, MergeAndContinue(w) PROVE BoundsOrdered'
  BY <1>2, MergeOrdered DEF MergeAndContinue
<1> QED
  BY <1>1, <1>2 DEF Next, Worker, StartWorker, DeliverProgress, CompleteProbe,
     CancelProbe, FinishProbe, RequestStop, StopSearches, ClockExpires,
     Terminated, vars

\* However many probes are answered in whatever order, the lower bound of a
\* depth stays strictly below its upper bound.
THEOREM BoundsNeverCross == Spec => []BoundsOrdered
<1>1. Fresh => BoundsOrdered
  BY DEF Fresh, Prepared, BoundsOrdered
<1> QED
  BY <1>1, FreshInit, TypeCorrect, BoundsOrderedStep, PTL DEF Spec
-----------------------------------------------------------------------------
(***************************************************************************)
(* Once the search is over, every search is stopped, so no answer counts.  *)
(***************************************************************************)
DoneStopsAll == searchDone => \A w \in Workers : stopped[w]

LEMMA NextSearchDone ==
  ASSUME TypeOK, DoneStopsAll, NEW w \in Workers,
         NEW halted \in [Workers -> BOOLEAN],
         \A v \in Workers : stopped[v] => halted[v],
         NextSearch(w, halted)
  PROVE  DoneStopsAll'
<1>1. CASE Scan(w, halted)
  <2>1. ~searchDone
    BY <1>1 DEF Scan, SearchOver
  <2>2. CASE searchDone' = TRUE /\ NoWork(w, [v \in Workers |-> TRUE])
    BY <2>2 DEF NoWork, DoneStopsAll
  <2>3. CASE UNCHANGED searchDone
    BY <2>1, <2>3 DEF DoneStopsAll
  <2> QED
    BY <1>1, <2>2, <2>3 DEF Scan
<1>2. CASE NoWork(w, halted) /\ UNCHANGED progress
  BY <1>2 DEF NoWork, DoneStopsAll, progress
<1> QED
  BY <1>1, <1>2 DEF NextSearch

LEMMA DoneStopsAllStep == TypeOK /\ DoneStopsAll /\ [Next]_vars => DoneStopsAll'
<1> SUFFICES ASSUME TypeOK, DoneStopsAll, [Next]_vars PROVE DoneStopsAll'
  OBVIOUS
<1>1. ASSUME NEW w \in Workers, StartWorker(w) PROVE DoneStopsAll'
  BY <1>1, NextSearchDone DEF StartWorker, TypeOK
<1>2. ASSUME NEW w \in Workers, MergeAndContinue(w) PROVE DoneStopsAll'
  <2> DEFINE halted == [v \in Workers |-> stopped[v] \/ Outlier(w, v)]
  <2>1. halted \in [Workers -> BOOLEAN] /\ \A v \in Workers : stopped[v] => halted[v]
    BY DEF TypeOK, Outlier
  <2>2. NextSearch(w, halted)
    BY <1>2 DEF MergeAndContinue
  <2> QED
    BY <2>1, <2>2, NextSearchDone
<1>3. ASSUME NEW r \in Requesters, StopSearches(r) PROVE DoneStopsAll'
  BY <1>3 DEF StopSearches, DoneStopsAll
<1>4. CASE UNCHANGED <<searchDone, stopped>>
  BY <1>4 DEF DoneStopsAll
<1> QED
  BY <1>1, <1>2, <1>3, <1>4 DEF Next, Worker, DeliverProgress, CompleteProbe,
     CancelProbe, FinishProbe, RequestStop, ClockExpires, Terminated, vars,
     progress

LEMMA DoneFreezesBounds ==
  TypeOK /\ DoneStopsAll /\ [Next]_vars => [searchDone => UNCHANGED bounds]_vars
<1> SUFFICES ASSUME TypeOK, DoneStopsAll, [Next]_vars, searchDone
             PROVE  UNCHANGED bounds
  OBVIOUS
<1>1. ASSUME NEW w \in Workers, MergeAndContinue(w) PROVE UNCHANGED bounds
  BY <1>1 DEF MergeAndContinue, MergeAnswer, Informative, DoneStopsAll
<1> QED
  BY <1>1 DEF Next, Worker, StartWorker, DeliverProgress, CompleteProbe,
     CancelProbe, FinishProbe, RequestStop, StopSearches, ClockExpires,
     Terminated, vars

\* From the moment the search is declared over, whoever declared it, no late
\* answer changes a bound or a best move.
THEOREM DoneIsFinal == Spec => NothingMergedAfterDone
<1>1. Fresh => DoneStopsAll
  BY DEF Fresh, DoneStopsAll
<1>2. Spec => []DoneStopsAll
  BY <1>1, FreshInit, TypeCorrect, DoneStopsAllStep, PTL DEF Spec
<1> QED
  BY <1>2, TypeCorrect, DoneFreezesBounds, PTL DEF Spec, NothingMergedAfterDone
-----------------------------------------------------------------------------
(***************************************************************************)
(* With truthful probes the bounds of a depth enclose its score.           *)
(***************************************************************************)
\* An answer that is still allowed to count is one the probe can give.
AnswersTruthful ==
  \A w \in Workers : pc[w] = "answered" /\ ~stopped[w] =>
    depths[w] \in Depths /\ answers[w] \in ProbeOutcomes(depths[w], testValues[w])

\* Only a worker with a depth probes.
ProbesHaveDepth == \A w \in Workers : pc[w] = "probing" => depths[w] \in Depths

LEMMA NextSearchOthers ==
  ASSUME TypeOK, NEW w \in Workers, NEW halted \in [Workers -> BOOLEAN],
         \A v \in Workers : stopped[v] => halted[v],
         NextSearch(w, halted)
  PROVE  /\ pc'[w] \in {"probing", "notifying", "finished"}
         /\ pc'[w] = "probing" => depths'[w] \in Depths
         /\ UNCHANGED values
         /\ \A v \in Workers \ {w} :
              /\ pc'[v] = pc[v] /\ depths'[v] = depths[v]
              /\ testValues'[v] = testValues[v] /\ answers'[v] = answers[v]
              /\ stopped[v] => stopped'[v]
<1>1. ASSUME NEW d \in Depths, ClaimAt(w, d, halted)
      PROVE  /\ pc'[w] \in {"probing", "notifying"} /\ depths'[w] \in Depths
             /\ \A v \in Workers \ {w} :
                  /\ pc'[v] = pc[v] /\ depths'[v] = depths[v]
                  /\ testValues'[v] = testValues[v]
                  /\ stopped[v] => stopped'[v]
  BY <1>1 DEF ClaimAt, TypeOK
<1>2. ASSUME NEW all \in [Workers -> BOOLEAN], NoWork(w, all),
             \A v \in Workers : stopped[v] => all[v]
      PROVE  /\ pc'[w] \in {"notifying", "finished"}
             /\ \A v \in Workers \ {w} :
                  /\ pc'[v] = pc[v] /\ depths'[v] = depths[v]
                  /\ testValues'[v] = testValues[v]
                  /\ stopped[v] => stopped'[v]
  BY <1>2 DEF NoWork, TypeOK
<1>3. [v \in Workers |-> TRUE] \in [Workers -> BOOLEAN]
  OBVIOUS
<1>4. \A v \in Workers \ {w} : answers'[v] = answers[v]
  BY DEF NextSearch, TypeOK
<1>5. CASE Scan(w, halted)
  <2>1. CASE \E d \in Depths : ClaimAt(w, d, halted)
    BY <1>1, <1>4, <2>1 DEF NextSearch
  <2>2. CASE NoWork(w, [v \in Workers |-> TRUE])
    BY <1>2, <1>3, <1>4, <2>2 DEF NextSearch
  <2>3. CASE NoWork(w, halted)
    BY <1>2, <1>4, <2>3 DEF NextSearch
  <2> QED
    BY <1>5, <2>1, <2>2, <2>3 DEF Scan, Visited
<1>6. CASE NoWork(w, halted)
  BY <1>2, <1>4, <1>6 DEF NextSearch
<1> QED
  BY <1>5, <1>6 DEF NextSearch

TruthInv == ProbesHaveDepth /\ AnswersTruthful

LEMMA FreshTruth == Fresh => TruthInv
BY DEF Fresh, TruthInv, ProbesHaveDepth, AnswersTruthful

LEMMA NextSearchTruth ==
  ASSUME TypeOK, TruthInv, NEW w \in Workers,
         NEW halted \in [Workers -> BOOLEAN],
         \A v \in Workers : stopped[v] => halted[v],
         NextSearch(w, halted)
  PROVE  TruthInv'
<1>1. /\ pc'[w] \in {"probing", "notifying", "finished"}
      /\ pc'[w] = "probing" => depths'[w] \in Depths
      /\ UNCHANGED values
  BY NextSearchOthers
<1>2. \A v \in Workers \ {w} :
        /\ pc'[v] = pc[v] /\ depths'[v] = depths[v]
        /\ testValues'[v] = testValues[v] /\ answers'[v] = answers[v]
        /\ stopped[v] => stopped'[v]
  BY NextSearchOthers
<1>3. ProbesHaveDepth'
  BY <1>1, <1>2 DEF ProbesHaveDepth, TruthInv
<1>4. ASSUME NEW v \in Workers, pc'[v] = "answered", ~stopped'[v]
      PROVE  depths'[v] \in Depths /\ answers'[v] \in ProbeOutcomes(depths[v], testValues[v])'
  <2>1. v # w
    BY <1>1, <1>4
  <2>2. pc[v] = "answered" /\ ~stopped[v]
    BY <1>2, <1>4, <2>1 DEF TypeOK
  <2>3. depths[v] \in Depths /\ answers[v] \in ProbeOutcomes(depths[v], testValues[v])
    BY <2>2 DEF TruthInv, AnswersTruthful
  <2> QED
    BY <1>1, <1>2, <2>1, <2>3 DEF ProbeOutcomes, Stable
<1> QED
  BY <1>3, <1>4 DEF TruthInv, AnswersTruthful

LEMMA TruthStep == TypeOK /\ TruthInv /\ [Next]_vars => TruthInv'
<1> SUFFICES ASSUME TypeOK, TruthInv, [Next]_vars PROVE TruthInv'
  OBVIOUS
<1>1. ASSUME NEW w \in Workers, StartWorker(w) PROVE TruthInv'
  BY <1>1, NextSearchTruth DEF StartWorker, TypeOK
<1>2. ASSUME NEW w \in Workers, MergeAndContinue(w) PROVE TruthInv'
  <2> DEFINE halted == [v \in Workers |-> stopped[v] \/ Outlier(w, v)]
  <2>1. halted \in [Workers -> BOOLEAN] /\ \A v \in Workers : stopped[v] => halted[v]
    BY DEF TypeOK, Outlier
  <2>2. NextSearch(w, halted)
    BY <1>2 DEF MergeAndContinue
  <2> QED
    BY <2>1, <2>2, NextSearchTruth
<1>3. ASSUME NEW w \in Workers, NEW answer, pc[w] = "probing", FinishProbe(w, answer),
             stopped[w] \/ answer \in ProbeOutcomes(depths[w], testValues[w])
      PROVE  TruthInv'
  <2>1. UNCHANGED <<depths, testValues, stopped, values>>
    BY <1>3 DEF FinishProbe
  <2>2. \A v \in Workers : ProbeOutcomes(depths[v], testValues[v])'
                             = ProbeOutcomes(depths[v], testValues[v])
    BY <2>1 DEF ProbeOutcomes, Stable
  <2>3. \A v \in Workers \ {w} : pc'[v] = pc[v] /\ answers'[v] = answers[v]
    BY <1>3 DEF FinishProbe, TypeOK
  <2>4. pc'[w] = "answered" /\ answers'[w] = answer
    BY <1>3 DEF FinishProbe, TypeOK
  <2>5. depths[w] \in Depths
    BY <1>3 DEF TruthInv, ProbesHaveDepth
  <2> QED
    BY <1>3, <2>1, <2>2, <2>3, <2>4, <2>5 DEF TruthInv, ProbesHaveDepth, AnswersTruthful
<1>4. ASSUME NEW w \in Workers, DeliverProgress(w) PROVE TruthInv'
  <2>1. UNCHANGED <<depths, testValues, stopped, values, answers>>
    BY <1>4 DEF DeliverProgress
  <2>2. \A v \in Workers : ProbeOutcomes(depths[v], testValues[v])'
                             = ProbeOutcomes(depths[v], testValues[v])
    BY <2>1 DEF ProbeOutcomes, Stable
  <2>3. \A v \in Workers \ {w} : pc'[v] = pc[v]
    BY <1>4 DEF DeliverProgress, TypeOK
  <2>4. \/ pc'[w] = "finished"
        \/ pc'[w] = "probing" /\ depths[w] \in Depths
    BY <1>4 DEF DeliverProgress, TypeOK
  <2> QED
    BY <2>1, <2>2, <2>3, <2>4 DEF TruthInv, ProbesHaveDepth, AnswersTruthful
<1>5. ASSUME NEW r \in Requesters, StopSearches(r) PROVE TruthInv'
  BY <1>5 DEF StopSearches, TruthInv, ProbesHaveDepth, AnswersTruthful
<1>6. CASE UNCHANGED <<pc, depths, testValues, stopped, values, answers>>
  BY <1>6 DEF TruthInv, ProbesHaveDepth, AnswersTruthful, ProbeOutcomes, Stable
<1>7. ASSUME NEW w \in Workers, CompleteProbe(w) PROVE TruthInv'
  BY <1>3, <1>7 DEF CompleteProbe
<1>8. ASSUME NEW w \in Workers, CancelProbe(w) PROVE TruthInv'
  BY <1>3, <1>8 DEF CancelProbe
<1> QED
  BY <1>1, <1>2, <1>4, <1>5, <1>6, <1>7, <1>8 DEF Next, Worker, RequestStop,
     ClockExpires, Terminated, vars

LEMMA MergeEncloses ==
  ASSUME TypeOK, TruthInv, BoundsEncloseScore, Stable, UNCHANGED values,
         NEW w \in Workers, pc[w] = "answered", MergeAnswer(w)
  PROVE  BoundsEncloseScore'
<1> DEFINE e == depths[w]
           t == testValues[w]
<1>1. CASE Informative(w) /\ answers[w] # NoMove
  <2>1. /\ lowerBounds' = [lowerBounds EXCEPT ![e] = t]
        /\ bestMoves' = [bestMoves EXCEPT ![e] = answers[w]]
        /\ UNCHANGED upperBounds
    BY <1>1 DEF MergeAnswer, bounds
  <2>2. answers[w] \in Moves /\ values[e][answers[w]] > t /\ e \in Depths
    BY <1>1 DEF TruthInv, AnswersTruthful, ProbeOutcomes, Informative
  <2>3. lowerBounds'[e] = t /\ bestMoves'[e] = answers[w]
    BY <2>1, <2>2 DEF TypeOK
  <2>4. \A d \in Depths \ {e} :
          lowerBounds'[d] = lowerBounds[d] /\ bestMoves'[d] = bestMoves[d]
    BY <2>1 DEF TypeOK
  <2> QED
    BY <2>1, <2>2, <2>3, <2>4 DEF BoundsEncloseScore
<1>2. CASE Informative(w) /\ answers[w] = NoMove
  <2>1. upperBounds' = [upperBounds EXCEPT ![e] = t] /\ UNCHANGED <<lowerBounds, bestMoves>>
    BY <1>2 DEF MergeAnswer, bounds
  <2>2. e \in Depths /\ \A m \in Moves : ~(values[e][m] > t)
    BY <1>2 DEF TruthInv, AnswersTruthful, ProbeOutcomes, Informative
  <2>3. \A m \in Moves : values[e][m] \in Int /\ t \in Int
    BY <2>2, SMTT(30) DEF TypeOK, Stable
  <2>4. \A m \in Moves : values[e][m] <= t
    BY <2>2, <2>3
  <2>5. upperBounds'[e] = t /\ \A d \in Depths \ {e} : upperBounds'[d] = upperBounds[d]
    BY <2>1, <2>2 DEF TypeOK
  <2> QED
    BY <2>1, <2>4, <2>5 DEF BoundsEncloseScore
<1>3. CASE UNCHANGED bounds
  BY <1>3 DEF bounds, BoundsEncloseScore
<1> QED
  BY <1>1, <1>2, <1>3 DEF MergeAnswer

LEMMA EnclosesStep ==
  TypeOK /\ TruthInv /\ BoundsEncloseScore /\ [Next]_vars => BoundsEncloseScore'
<1> SUFFICES ASSUME TypeOK, TruthInv, BoundsEncloseScore, [Next]_vars
             PROVE  BoundsEncloseScore'
  OBVIOUS
<1>1. UNCHANGED values
  BY DEF Next, Worker, StartWorker, MergeAndContinue, NextSearch, DeliverProgress,
     CompleteProbe, CancelProbe, FinishProbe, RequestStop, StopSearches,
     ClockExpires, Terminated, vars
<1>2. CASE ~Stable
  BY <1>1, <1>2 DEF BoundsEncloseScore, Stable
<1>3. CASE UNCHANGED bounds
  BY <1>1, <1>3 DEF BoundsEncloseScore, Stable, bounds
<1>4. ASSUME NEW w \in Workers, MergeAndContinue(w), Stable PROVE BoundsEncloseScore'
  BY <1>1, <1>4, MergeEncloses DEF MergeAndContinue
<1> QED
  BY <1>2, <1>3, <1>4 DEF Next, Worker, StartWorker, DeliverProgress, CompleteProbe,
     CancelProbe, FinishProbe, RequestStop, StopSearches, ClockExpires,
     Terminated, vars

LEMMA FreshEncloses == Fresh => BoundsEncloseScore
<1> SUFFICES ASSUME Fresh, Stable, NEW d \in Depths
             PROVE  /\ \A m \in Moves : values[d][m] <= upperBounds[d]
                    /\ bestMoves[d] = NoMove /\ lowerBounds[d] = -Infty
  BY DEF BoundsEncloseScore
<1>1. values \in [Depths -> [Moves -> -MaxScore .. MaxScore]]
  BY DEF Fresh, Stable
<1>2. \A m \in Moves : values[d][m] \in -MaxScore .. MaxScore
  BY <1>1
<1>3. upperBounds[d] = Infty /\ lowerBounds[d] = -Infty /\ bestMoves[d] = NoMove
  BY DEF Fresh, Prepared
<1> QED
  BY <1>2, <1>3

\* When probes answer truthfully, the bounds of every depth always enclose the
\* score of the root and the move kept beats the lower bound, for any number
\* of workers, any order of answers and any cancellation.
THEOREM BoundsSound == Spec => []BoundsEncloseScore
<1>1. Spec => []TruthInv
  BY FreshInit, FreshTruth, TypeCorrect, TruthStep, PTL DEF Spec
<1> QED
  BY <1>1, FreshInit, FreshEncloses, TypeCorrect, EnclosesStep, PTL DEF Spec
-----------------------------------------------------------------------------
(***************************************************************************)
(* Every completed depth is reported once.                                 *)
(***************************************************************************)
\* What has been reported, or is about to be, is complete.
ReportsComplete ==
  /\ \A r \in reported : stages[r.depth] = "complete"
  /\ \A w \in Workers : \A r \in notifications[w] : stages[r.depth] = "complete"

\* A worker between two reports holds none.
HoldsOnlyWhenNotifying ==
  \A w \in Workers : notifications[w] # {} => pc[w] = "notifying"

ReportInv == ReportsComplete /\ HoldsOnlyWhenNotifying /\ ReportedOnce

LEMMA FreshReports == Fresh => ReportInv
BY DEF Fresh, ReportInv, ReportsComplete, HoldsOnlyWhenNotifying, ReportedOnce

LEMMA CompleteStays ==
  ASSUME TypeOK, NEW w \in Workers, NEW d \in Depths, stages[d] = "complete"
  PROVE  ScannedStage(w, d) = "complete"
BY DEF ScannedStage, HasThreshold

LEMMA NextSearchReports ==
  ASSUME TypeOK, MergedBounds, ReportInv, NEW w \in Workers,
         notifications[w] = {},
         NEW halted \in [Workers -> BOOLEAN], NextSearch(w, halted)
  PROVE  ReportInv'
<1> DEFINE batch == notifications'[w]
<1>1. UNCHANGED reported /\ \A v \in Workers \ {w} : notifications'[v] = notifications[v]
  BY DEF NextSearch, Scan, TypeOK
<1>2. /\ \A d \in Depths : stages[d] = "complete" => stages'[d] = "complete"
      /\ batch \subseteq Results
      /\ \A r \in batch : stages[r.depth] # "complete" /\ stages'[r.depth] = "complete"
      /\ \A r, q \in batch : r.depth = q.depth => r = q
  <2>1. CASE Scan(w, halted)
    <3>1. batch = {Completed(d) : d \in NewlyComplete(w)}
      BY <2>1 DEF Scan, TypeOK
    <3>2. \A d \in Depths : stages'[d] =
            IF d \in Visited(w) THEN ScannedStage(w, d) ELSE stages[d]
      BY <2>1 DEF Scan
    <3>3. \A d \in Depths : Completed(d).depth = d /\ Completed(d) \in Results
      BY DEF Completed, Results, MergedBounds
    <3>4. \A d \in NewlyComplete(w) : /\ d \in Depths /\ stages[d] # "complete"
                                      /\ stages'[d] = "complete"
      BY <3>2 DEF NewlyComplete, Visited
    <3> QED
      BY <3>1, <3>2, <3>3, <3>4, CompleteStays
  <2>2. CASE notifications' = [notifications EXCEPT ![w] = {}] /\ UNCHANGED progress
    BY <2>2 DEF TypeOK, progress
  <2> QED
    BY <2>1, <2>2 DEF NextSearch
<1>3. HoldsOnlyWhenNotifying'
  <2>1. \A v \in Workers \ {w} : pc'[v] = pc[v]
    BY DEF NextSearch, Scan, ClaimAt, NoWork, TypeOK
  <2>2. notifications'[w] # {} => pc'[w] = "notifying"
    BY DEF NextSearch, Scan, ClaimAt, NoWork, TypeOK
  <2> QED
    BY <1>1, <2>1, <2>2 DEF ReportInv, HoldsOnlyWhenNotifying
<1>4. \A r \in Results : r.depth \in Depths
  BY DEF Results
<1>5. reported \subseteq Results /\ \A v \in Workers : notifications[v] \subseteq Results
  BY DEF TypeOK
<1>6. ReportsComplete'
  BY <1>1, <1>2, <1>4, <1>5 DEF ReportInv, ReportsComplete
<1>7. ReportedOnce'
  <2>1. \A r \in batch : /\ \A q \in reported : q.depth # r.depth
                         /\ \A v \in Workers : \A q \in notifications[v] : q.depth # r.depth
    BY <1>2 DEF ReportInv, ReportsComplete
  <2>2. ASSUME NEW u \in Workers, NEW r \in notifications'[u]
        PROVE  /\ \A q \in reported' : q.depth # r.depth
               /\ \A v \in Workers : \A q \in notifications'[v] :
                    q.depth = r.depth => v = u /\ q = r
    <3>1. CASE u = w
      <4>1. r \in batch
        BY <3>1
      <4>2. \A q \in reported' : q.depth # r.depth
        BY <1>1, <2>1, <4>1
      <4>3. ASSUME NEW v \in Workers, NEW q \in notifications'[v], q.depth = r.depth
            PROVE  v = u /\ q = r
        <5>1. CASE v = w
          <6>1. q \in batch
            BY <4>3, <5>1
          <6> QED
            BY <1>2, <3>1, <4>1, <4>3, <5>1, <6>1
        <5>2. CASE v # w
          <6>1. q \in notifications[v]
            BY <1>1, <4>3, <5>2
          <6> QED
            BY <2>1, <4>1, <4>3, <6>1
        <5> QED
          BY <5>1, <5>2
      <4> QED
        BY <4>2, <4>3
    <3>2. CASE u # w
      <4>1. r \in notifications[u]
        BY <1>1, <2>2, <3>2
      <4>2. \A q \in reported : q.depth # r.depth
        BY <4>1 DEF ReportInv, ReportedOnce
      <4>3. ASSUME NEW v \in Workers, NEW q \in notifications'[v], q.depth = r.depth
            PROVE  v = u /\ q = r
        <5>1. v # w
          <6> SUFFICES ASSUME v = w PROVE FALSE
            OBVIOUS
          <6>1. q \in batch
            BY <4>3
          <6> QED
            BY <2>1, <4>1, <4>3, <6>1
        <5> QED
          BY <1>1, <4>1, <4>3, <5>1 DEF ReportInv, ReportedOnce
      <4> QED
        BY <1>1, <4>2, <4>3
    <3> QED
      BY <3>1, <3>2
  <2>3. \A r, q \in reported' : r.depth = q.depth => r = q
    BY <1>1 DEF ReportInv, ReportedOnce
  <2> QED
    BY <2>2, <2>3 DEF ReportedOnce
<1> QED
  BY <1>3, <1>6, <1>7 DEF ReportInv

LEMMA ReportStep == TypeOK /\ ReportInv /\ [Next]_vars => ReportInv'
<1> SUFFICES ASSUME TypeOK, ReportInv, [Next]_vars PROVE ReportInv'
  OBVIOUS
<1>1. ASSUME NEW w \in Workers, StartWorker(w) PROVE ReportInv'
  <2>1. notifications[w] = {}
    BY <1>1 DEF StartWorker, ReportInv, HoldsOnlyWhenNotifying
  <2>2. MergedBounds
    BY <1>1 DEF StartWorker, bounds, TypeOK, MergedBounds
  <2> QED
    BY <1>1, <2>1, <2>2, NextSearchReports DEF StartWorker, TypeOK
<1>2. ASSUME NEW w \in Workers, MergeAndContinue(w) PROVE ReportInv'
  <2> DEFINE halted == [v \in Workers |-> stopped[v] \/ Outlier(w, v)]
  <2>1. halted \in [Workers -> BOOLEAN]
    BY DEF TypeOK, Outlier
  <2>2. notifications[w] = {} /\ NextSearch(w, halted)
    BY <1>2 DEF MergeAndContinue, ReportInv, HoldsOnlyWhenNotifying
  <2> QED
    BY <1>2, <2>1, <2>2, MergeTypes, NextSearchReports DEF MergeAndContinue
<1>3. ASSUME NEW w \in Workers, DeliverProgress(w) PROVE ReportInv'
  <2>1. reported' = reported \union notifications[w] /\ UNCHANGED stages
    BY <1>3 DEF DeliverProgress, progress
  <2>2. /\ notifications'[w] = {}
        /\ \A v \in Workers \ {w} : notifications'[v] = notifications[v] /\ pc'[v] = pc[v]
    BY <1>3 DEF DeliverProgress, TypeOK
  <2>3. ReportsComplete' /\ HoldsOnlyWhenNotifying'
    BY <2>1, <2>2 DEF ReportInv, ReportsComplete, HoldsOnlyWhenNotifying
  <2>4. \A v \in Workers : v = w \/ notifications'[v] = notifications[v]
    BY <2>2
  <2>5. ReportedOnce'
    BY <2>1, <2>2, <2>4 DEF ReportInv, ReportedOnce
  <2> QED
    BY <2>3, <2>5 DEF ReportInv
<1>4. ASSUME NEW w \in Workers, NEW answer, pc[w] = "probing", FinishProbe(w, answer)
      PROVE  ReportInv'
  <2>1. UNCHANGED <<reported, notifications, stages>>
    BY <1>4 DEF FinishProbe, progress
  <2>2. notifications[w] = {} /\ \A v \in Workers \ {w} : pc'[v] = pc[v]
    BY <1>4 DEF FinishProbe, ReportInv, HoldsOnlyWhenNotifying, TypeOK
  <2>3. HoldsOnlyWhenNotifying'
    BY <2>1, <2>2 DEF ReportInv, HoldsOnlyWhenNotifying
  <2> QED
    BY <2>1, <2>3 DEF ReportInv, ReportsComplete, ReportedOnce
<1>5. CASE UNCHANGED <<pc, reported, notifications, stages>>
  BY <1>5 DEF ReportInv, ReportsComplete, HoldsOnlyWhenNotifying,
     ReportedOnce
<1> QED
  BY <1>1, <1>2, <1>3, <1>4, <1>5 DEF Next, Worker, CompleteProbe, CancelProbe,
     RequestStop, StopSearches, ClockExpires, Terminated, vars, progress

\* However many workers scan the depths, each completed depth reaches the
\* progress handler in one report.
THEOREM EachDepthReportedOnce == Spec => []ReportedOnce
<1>1. ReportInv => ReportedOnce
  BY DEF ReportInv
<1> QED
  BY <1>1, FreshInit, FreshReports, TypeCorrect, ReportStep, PTL DEF Spec
-----------------------------------------------------------------------------
(***************************************************************************)
(* The questions of a depth lie at least a grain apart.                    *)
(*                                                                         *)
(* Between the merge of an answer and the next claim of the same critical  *)
(* section the bounds are already primed and the worker's own question no  *)
(* longer counts, so the parts of the invariant take the bounds and the    *)
(* workers whose questions count (the crew) as parameters.                 *)
(***************************************************************************)
Others(w) == Workers \ {w}

Apart(x, y) == x + GrainSize <= y \/ y + GrainSize <= x

QuestionsApart(crew) ==
  \A u, v \in crew :
    u # v /\ depths[u] \in Depths /\ depths[u] = depths[v]
      => Apart(testValues[u], testValues[v])

\* A question inside the bounds of its depth leaves a grain on one side.
RoomInside(lower, upper, crew) ==
  \A v \in crew :
    depths[v] \in Depths /\ lower[depths[v]] < testValues[v]
                         /\ testValues[v] < upper[depths[v]]
      => \/ lower[depths[v]] + GrainSize <= testValues[v]
         \/ testValues[v] + GrainSize <= upper[depths[v]]

\* Nobody has asked at a waiting depth.
WaitingUntouched(lower, upper, crew) ==
  \A d \in Depths : stages[d] = "waiting" =>
    /\ lower[d] = -Infty /\ upper[d] = Infty
    /\ \A v \in crew : depths[v] # d

CompletePinned(lower, upper) ==
  \A d \in Depths : stages[d] = "complete" => upper[d] - lower[d] <= GrainSize

Spacing(lower, upper, crew) ==
  /\ QuestionsApart(crew)
  /\ RoomInside(lower, upper, crew)
  /\ WaitingUntouched(lower, upper, crew)
  /\ CompletePinned(lower, upper)

SpacingInv == Spacing(lowerBounds, upperBounds, Workers)

\* A threshold nextSearch hands out is a first guess, or just above or just below
\* everything that is known or asked, and inside the bounds.
LEMMA CandidateKinds ==
  ASSUME TypeOK, MergedBounds, NEW w \in Workers, NEW d \in Depths,
         HasThreshold(w, d), NEW t \in Candidates(w, d)
  PROVE  \/ stages[d] = "waiting" /\ t = Guess(d)
         \/ /\ stages[d] = "searching" /\ t < upperBounds'[d]
            /\ t - GrainSize \in InFlight(w, d) \union {lowerBounds'[d]}
            /\ \A z \in InFlight(w, d) \union {lowerBounds'[d]} : z + GrainSize <= t
            /\ CanLower(w, d) => \A low \in Below(w, d) :
                                   Abs(t - Guess(d)) <= Abs(low - Guess(d))
         \/ /\ stages[d] = "searching" /\ t > lowerBounds'[d]
            /\ t + GrainSize \in InFlight(w, d) \union {upperBounds'[d]}
            /\ \A z \in InFlight(w, d) \union {upperBounds'[d]} : t + GrainSize <= z
            /\ CanRaise(w, d) => \A high \in Above(w, d) :
                                   Abs(high - Guess(d)) > Abs(t - Guess(d))
<1>1. /\ InFlight(w, d) \subseteq Int
      /\ lowerBounds'[d] \in Int /\ upperBounds'[d] \in Int
  BY DEF TypeOK, InFlight, MergedBounds
<1>2. CASE stages[d] = "waiting"
  BY <1>2 DEF Candidates
<1>3. CASE stages[d] # "waiting" /\ t \in Above(w, d) /\ CanRaise(w, d)
           /\ (CanLower(w, d) => \A low \in Below(w, d) :
                                   Abs(t - Guess(d)) <= Abs(low - Guess(d)))
  <2> DEFINE known == InFlight(w, d) \union {lowerBounds'[d]}
  <2>1. PICK y \in known : t = y + GrainSize /\ \A z \in known : z <= y
    BY <1>3 DEF Above
  <2>2. PICK x \in known : (\A z \in known : z <= x) /\ x + GrainSize < upperBounds'[d]
    BY <1>3 DEF CanRaise, Above
  <2>3. x = y /\ y \in Int
    <3>1. x \in Int /\ y \in Int
      BY <1>1
    <3>2. x <= y /\ y <= x
      BY <2>1, <2>2
    <3> QED
      BY <3>1, <3>2
  <2>4. stages[d] = "searching"
    BY <1>3 DEF HasThreshold
  <2>5. t - GrainSize = y /\ t < upperBounds'[d]
    BY <2>1, <2>2, <2>3
  <2>6. \A z \in known : z \in Int /\ z + GrainSize <= t
    BY <1>1, <2>1, <2>3
  <2> QED
    BY <1>3, <2>1, <2>4, <2>5, <2>6
<1>4. CASE stages[d] # "waiting" /\ t \in Below(w, d) /\ CanLower(w, d)
           /\ (CanRaise(w, d) => \A high \in Above(w, d) :
                                   Abs(high - Guess(d)) > Abs(t - Guess(d)))
  <2> DEFINE known == InFlight(w, d) \union {upperBounds'[d]}
  <2>1. PICK y \in known : t = y - GrainSize /\ \A z \in known : z >= y
    BY <1>4 DEF Below
  <2>2. PICK x \in known : (\A z \in known : z >= x) /\ x - GrainSize > lowerBounds'[d]
    BY <1>4 DEF CanLower, Below
  <2>3. x = y /\ y \in Int
    <3>1. x \in Int /\ y \in Int
      BY <1>1
    <3>2. x <= y /\ y <= x
      BY <2>1, <2>2
    <3> QED
      BY <3>1, <3>2
  <2>4. stages[d] = "searching"
    BY <1>4 DEF HasThreshold
  <2>5. t + GrainSize = y /\ t > lowerBounds'[d]
    BY <2>1, <2>2, <2>3
  <2>6. \A z \in known : z \in Int /\ t + GrainSize <= z
    BY <1>1, <2>1, <2>3
  <2> QED
    BY <1>4, <2>1, <2>4, <2>5, <2>6
<1> QED
  BY <1>2, <1>3, <1>4 DEF Candidates

\* What a merge does to the bounds: at most one bound of the worker's depth moves,
\* to the worker's threshold, which lies between the two.
LEMMA MergeMoves ==
  ASSUME TypeOK, TruthInv, NEW w \in Workers, pc[w] = "answered", MergeAnswer(w)
  PROVE  \/ UNCHANGED bounds
         \/ /\ depths[w] \in Depths /\ ~stopped[w]
            /\ lowerBounds[depths[w]] < testValues[w]
            /\ testValues[w] < upperBounds[depths[w]]
            /\ answers[w] \in ProbeOutcomes(depths[w], testValues[w])
            /\ \A d \in 0 .. MaximumDepth : d # depths[w] =>
                 lowerBounds'[d] = lowerBounds[d] /\ upperBounds'[d] = upperBounds[d]
            /\ \A d \in Depths : d # depths[w] => bestMoves'[d] = bestMoves[d]
            /\ \/ /\ answers[w] # NoMove
                  /\ lowerBounds'[depths[w]] = testValues[w]
                  /\ upperBounds'[depths[w]] = upperBounds[depths[w]]
                  /\ bestMoves'[depths[w]] = answers[w]
               \/ /\ answers[w] = NoMove
                  /\ upperBounds'[depths[w]] = testValues[w]
                  /\ lowerBounds'[depths[w]] = lowerBounds[depths[w]]
                  /\ bestMoves'[depths[w]] = bestMoves[depths[w]]
<1>1. CASE ~Informative(w)
  BY <1>1 DEF MergeAnswer
<1>2. CASE Informative(w)
  <2>1. /\ depths[w] \in Depths /\ ~stopped[w]
        /\ answers[w] \in ProbeOutcomes(depths[w], testValues[w])
        /\ lowerBounds[depths[w]] < testValues[w]
        /\ testValues[w] < upperBounds[depths[w]]
    BY <1>2 DEF Informative, TruthInv, AnswersTruthful
  <2>2. CASE answers[w] # NoMove
    <3>1. /\ lowerBounds' = [lowerBounds EXCEPT ![depths[w]] = testValues[w]]
          /\ bestMoves' = [bestMoves EXCEPT ![depths[w]] = answers[w]]
          /\ UNCHANGED upperBounds
      BY <1>2, <2>2 DEF MergeAnswer
    <3> QED
      BY <2>1, <2>2, <3>1 DEF TypeOK
  <2>3. CASE answers[w] = NoMove
    <3>1. /\ upperBounds' = [upperBounds EXCEPT ![depths[w]] = testValues[w]]
          /\ UNCHANGED <<lowerBounds, bestMoves>>
      BY <1>2, <2>3 DEF MergeAnswer
    <3> QED
      BY <2>1, <2>3, <3>1 DEF TypeOK
  <2> QED
    BY <2>2, <2>3
<1> QED
  BY <1>1, <1>2

\* A complete depth has no room for a question, so no answer moves its bounds.
LEMMA CompleteNotMerged ==
  ASSUME TypeOK, TruthInv, SpacingInv, NEW w \in Workers, pc[w] = "answered",
         MergeAnswer(w), NEW d \in Depths, stages[d] = "complete"
  PROVE  /\ lowerBounds'[d] = lowerBounds[d] /\ upperBounds'[d] = upperBounds[d]
         /\ bestMoves'[d] = bestMoves[d]
<1>1. CASE UNCHANGED bounds
  BY <1>1 DEF bounds
<1>2. CASE depths[w] = d /\ lowerBounds[d] < testValues[w] /\ testValues[w] < upperBounds[d]
  <2>1. \/ lowerBounds[d] + GrainSize <= testValues[w]
        \/ testValues[w] + GrainSize <= upperBounds[d]
    BY <1>2 DEF SpacingInv, Spacing, RoomInside
  <2>2. upperBounds[d] - lowerBounds[d] <= GrainSize
    BY DEF SpacingInv, Spacing, CompletePinned
  <2>3. lowerBounds[d] \in Int /\ upperBounds[d] \in Int /\ testValues[w] \in Int
    BY DEF TypeOK
  <2> QED
    BY <1>2, <2>1, <2>2, <2>3
<1> QED
  BY <1>1, <1>2, MergeMoves

LEMMA MergeSpacing ==
  ASSUME TypeOK, TruthInv, SpacingInv, NEW w \in Workers, pc[w] = "answered",
         MergeAnswer(w)
  PROVE  Spacing(lowerBounds', upperBounds', Others(w))
<1> USE DEF Others
<1>1. QuestionsApart(Others(w))
  BY DEF SpacingInv, Spacing, QuestionsApart
<1>2. CompletePinned(lowerBounds', upperBounds')
  BY CompleteNotMerged DEF SpacingInv, Spacing, CompletePinned
<1>3. CASE UNCHANGED bounds
  BY <1>1, <1>2, <1>3
     DEF SpacingInv, Spacing, RoomInside, WaitingUntouched, bounds
<1>4. CASE ~UNCHANGED bounds
  <2> DEFINE e == depths[w]
             t == testValues[w]
  <2>1. /\ e \in Depths /\ lowerBounds[e] < t /\ t < upperBounds[e]
        /\ \A d \in Depths : d # e =>
             lowerBounds'[d] = lowerBounds[d] /\ upperBounds'[d] = upperBounds[d]
        /\ \/ lowerBounds'[e] = t /\ upperBounds'[e] = upperBounds[e]
           \/ upperBounds'[e] = t /\ lowerBounds'[e] = lowerBounds[e]
    BY <1>4, MergeMoves
  <2>2. stages[e] # "waiting"
    BY <2>1 DEF SpacingInv, Spacing, WaitingUntouched
  <2>3. WaitingUntouched(lowerBounds', upperBounds', Others(w))
    BY <2>1, <2>2 DEF SpacingInv, Spacing, WaitingUntouched
  <2>4. ASSUME NEW v \in Others(w), depths[v] \in Depths,
               lowerBounds'[depths[v]] < testValues[v],
               testValues[v] < upperBounds'[depths[v]]
        PROVE  \/ lowerBounds'[depths[v]] + GrainSize <= testValues[v]
               \/ testValues[v] + GrainSize <= upperBounds'[depths[v]]
    <3>1. CASE depths[v] # e
      BY <2>1, <2>4, <3>1 DEF SpacingInv, Spacing, RoomInside
    <3>2. CASE depths[v] = e
      <4>1. Apart(t, testValues[v])
        BY <2>1, <3>2 DEF SpacingInv, Spacing, QuestionsApart
      <4>2. t \in Int /\ testValues[v] \in Int
        BY DEF TypeOK
      <4>3. lowerBounds'[e] = t \/ upperBounds'[e] = t
        BY <2>1
      <4> QED
        BY <2>4, <3>2, <4>1, <4>2, <4>3 DEF Apart
    <3> QED
      BY <3>1, <3>2
  <2>5. RoomInside(lowerBounds', upperBounds', Others(w))
    BY <2>4 DEF RoomInside
  <2> QED
    BY <1>1, <1>2, <2>3, <2>5 DEF Spacing
<1> QED
  BY <1>3, <1>4

\* The stages a scan leaves.
LEMMA ScanStages ==
  ASSUME TypeOK, NEW w \in Workers, NEW halted, Scan(w, halted)
  PROVE  /\ \A d \in Depths : stages'[d] =
              IF d \in Visited(w) THEN ScannedStage(w, d) ELSE stages[d]
         /\ \A d \in Depths : stages'[d] = "waiting" => stages[d] = "waiting"
         /\ \A d \in Depths : stages'[d] = "complete" =>
              stages[d] = "complete" \/ Pinned(d)
<1>1. \A d \in Depths : stages'[d] =
        IF d \in Visited(w) THEN ScannedStage(w, d) ELSE stages[d]
  BY DEF Scan
<1> QED
  BY <1>1 DEF ScannedStage

LEMMA ClaimSpacing ==
  ASSUME TypeOK, MergedBounds, NEW w \in Workers,
         Spacing(lowerBounds', upperBounds', Others(w)),
         NEW halted \in [Workers -> BOOLEAN], NextSearch(w, halted)
  PROVE  SpacingInv'
<1> USE DEF Others
<1>1. \A d \in Depths : lowerBounds'[d] \in Int /\ upperBounds'[d] \in Int
  BY DEF MergedBounds
<1>2. CASE UNCHANGED stages /\ NoWork(w, halted)
  <2>1. depths' = [depths EXCEPT ![w] = NoDepth] /\ UNCHANGED testValues
    BY <1>2 DEF NoWork
  <2>2. \A v \in Workers : v # w => depths'[v] = depths[v]
    BY <2>1 DEF TypeOK
  <2>3. depths'[w] \notin Depths
    BY <2>1 DEF TypeOK
  <2> QED
    BY <1>2, <2>1, <2>2, <2>3 DEF SpacingInv, Spacing, QuestionsApart, RoomInside,
       WaitingUntouched, CompletePinned
<1>3. CASE Scan(w, halted)
  <2>1. CompletePinned(lowerBounds, upperBounds)'
    BY <1>3, ScanStages DEF Spacing, CompletePinned, Pinned
  <2>2. CASE \E all : NoWork(w, all)
    <3>1. depths' = [depths EXCEPT ![w] = NoDepth] /\ UNCHANGED testValues
      BY <2>2 DEF NoWork
    <3>2. \A v \in Workers : v # w => depths'[v] = depths[v]
      BY <3>1 DEF TypeOK
    <3>3. depths'[w] \notin Depths
      BY <3>1 DEF TypeOK
    <3>4. WaitingUntouched(lowerBounds, upperBounds, Workers)'
      BY <1>3, <3>2, <3>3, ScanStages DEF Spacing, WaitingUntouched
    <3> QED
      BY <2>1, <3>1, <3>2, <3>3, <3>4 DEF SpacingInv, Spacing, QuestionsApart, RoomInside
  <2>3. ASSUME NEW d \in Visited(w), HasThreshold(w, d), ClaimAt(w, d, halted)
        PROVE  SpacingInv'
    <3>0. d \in Depths
      BY DEF Visited
    <3>1. PICK t \in Candidates(w, d) : testValues' = [testValues EXCEPT ![w] = t]
      BY <2>3 DEF ClaimAt
    <3>2. t \in Int
      BY <3>0, CandidatesInt
    <3>3. /\ depths'[w] = d /\ testValues'[w] = t
          /\ \A v \in Others(w) : depths'[v] = depths[v] /\ testValues'[v] = testValues[v]
      BY <2>3, <3>1, <3>0 DEF ClaimAt, TypeOK
    <3>4. stages'[d] = "searching"
      BY <1>3, <2>3, <3>0, ScanStages DEF ScannedStage
    <3>5. \A v \in Others(w) : depths[v] = d => testValues[v] \in InFlight(w, d)
      BY DEF InFlight
    <3>6. \A v \in Others(w) : testValues[v] \in Int
      BY DEF TypeOK
    <3>7. \A v \in Others(w) : depths[v] = d => Apart(t, testValues[v])
      BY <2>3, <3>0, <3>2, <3>5, <3>6, CandidateKinds
         DEF Apart, Spacing, WaitingUntouched
    <3>8. lowerBounds'[d] + GrainSize <= t \/ t + GrainSize <= upperBounds'[d]
      <4>1. CASE stages[d] = "waiting"
        BY <3>0, <3>2, <4>1 DEF Spacing, WaitingUntouched
      <4>2. CASE stages[d] # "waiting"
        BY <2>3, <3>0, <4>2, CandidateKinds
      <4> QED
        BY <4>1, <4>2
    <3>9. QuestionsApart(Workers)'
      <4> SUFFICES ASSUME NEW u \in Workers, NEW v \in Workers, u # v,
                          depths'[u] \in Depths, depths'[u] = depths'[v]
                   PROVE  Apart(testValues'[u], testValues'[v])
        BY DEF QuestionsApart, Apart
      <4>1. CASE u = w
        BY <3>3, <3>7, <4>1
      <4>2. CASE v = w
        BY <3>2, <3>3, <3>6, <3>7, <4>2 DEF Apart
      <4>3. CASE u # w /\ v # w
        BY <3>3, <4>3 DEF Spacing, QuestionsApart
      <4> QED
        BY <4>1, <4>2, <4>3
    <3>10. RoomInside(lowerBounds, upperBounds, Workers)'
      BY <3>3, <3>8 DEF Spacing, RoomInside
    <3>11. WaitingUntouched(lowerBounds, upperBounds, Workers)'
      BY <1>3, <3>3, <3>4, ScanStages DEF Spacing, WaitingUntouched
    <3> QED
      BY <2>1, <3>9, <3>10, <3>11 DEF SpacingInv, Spacing
  <2> QED
    BY <1>3, <2>2, <2>3 DEF Scan
<1> QED
  BY <1>2, <1>3 DEF NextSearch, progress

LEMMA FreshSpacing == Fresh => SpacingInv
BY DEF Fresh, Prepared, SpacingInv, Spacing, QuestionsApart, RoomInside,
   WaitingUntouched, CompletePinned

LEMMA SpacingStep == TypeOK /\ TruthInv /\ SpacingInv /\ [Next]_vars => SpacingInv'
<1> SUFFICES ASSUME TypeOK, TruthInv, SpacingInv, [Next]_vars PROVE SpacingInv'
  OBVIOUS
<1>1. ASSUME NEW w \in Workers, StartWorker(w) PROVE SpacingInv'
  <2>1. MergedBounds
    BY <1>1 DEF StartWorker, bounds, TypeOK, MergedBounds
  <2>2. Spacing(lowerBounds', upperBounds', Others(w))
    BY <1>1 DEF StartWorker, bounds, SpacingInv, Spacing, QuestionsApart, RoomInside,
       WaitingUntouched, CompletePinned, Others
  <2>3. stopped \in [Workers -> BOOLEAN] /\ NextSearch(w, stopped)
    BY <1>1 DEF StartWorker, TypeOK
  <2> QED
    BY <2>1, <2>2, <2>3, ClaimSpacing
<1>2. ASSUME NEW w \in Workers, MergeAndContinue(w) PROVE SpacingInv'
  <2> DEFINE halted == [v \in Workers |-> stopped[v] \/ Outlier(w, v)]
  <2>1. halted \in [Workers -> BOOLEAN]
    BY DEF TypeOK, Outlier
  <2>2. pc[w] = "answered" /\ MergeAnswer(w) /\ NextSearch(w, halted)
    BY <1>2 DEF MergeAndContinue
  <2>3. Spacing(lowerBounds', upperBounds', Others(w))
    BY <2>2, MergeSpacing
  <2> QED
    BY <2>1, <2>2, <2>3, MergeTypes, ClaimSpacing
<1>3. CASE UNCHANGED <<lowerBounds, upperBounds, stages, depths, testValues>>
  BY <1>3 DEF SpacingInv, Spacing, QuestionsApart, RoomInside, WaitingUntouched,
     CompletePinned
<1> QED
  BY <1>1, <1>2, <1>3 DEF Next, Worker, DeliverProgress, CompleteProbe, CancelProbe,
     FinishProbe, RequestStop, StopSearches, ClockExpires, Terminated, vars, bounds,
     progress

LEMMA Spaced == Spec => [](TypeOK /\ TruthInv /\ SpacingInv)
BY FreshInit, FreshTruth, FreshSpacing, TypeCorrect, TruthStep, SpacingStep, PTL DEF Spec

\* Questions a grain apart are not the same question.
LEMMA ApartMeansDistinct == TypeOK /\ SpacingInv => NoQuestionAskedTwice
<1> SUFFICES ASSUME TypeOK, SpacingInv, NEW v \in Workers, NEW w \in Workers, v # w,
                    depths[v] # NoDepth, depths[v] = depths[w]
             PROVE  testValues[v] # testValues[w]
  BY DEF NoQuestionAskedTwice
<1>1. depths[v] \in Depths /\ testValues[v] \in Int
  BY DEF TypeOK
<1> QED
  BY <1>1 DEF SpacingInv, Spacing, QuestionsApart, Apart

\* No two workers probe the same threshold of the same depth, for any number of
\* workers and any order of their critical sections; cancelled probes count too.
THEOREM NeverAskedTwice == Spec => []NoQuestionAskedTwice
BY ApartMeansDistinct, Spaced, PTL

LEMMA CompleteUntouched ==
  ASSUME TypeOK, TruthInv, SpacingInv, [Next]_vars, NEW d \in Depths,
         stages[d] = "complete"
  PROVE  /\ stages'[d] = "complete"
         /\ lowerBounds'[d] = lowerBounds[d] /\ upperBounds'[d] = upperBounds[d]
         /\ bestMoves'[d] = bestMoves[d]
<1>1. ASSUME NEW w \in Workers, NEW halted, NextSearch(w, halted)
      PROVE  stages'[d] = "complete"
  BY <1>1, ScanStages, CompleteStays DEF NextSearch, progress
<1>2. ASSUME NEW w \in Workers, StartWorker(w) PROVE stages'[d] = "complete" /\ UNCHANGED bounds
  BY <1>1, <1>2 DEF StartWorker
<1>3. ASSUME NEW w \in Workers, MergeAndContinue(w)
      PROVE  /\ stages'[d] = "complete"
             /\ lowerBounds'[d] = lowerBounds[d] /\ upperBounds'[d] = upperBounds[d]
             /\ bestMoves'[d] = bestMoves[d]
  BY <1>1, <1>3, CompleteNotMerged DEF MergeAndContinue
<1>4. CASE UNCHANGED <<bounds, stages>>
  BY <1>4 DEF bounds
<1> QED
  BY <1>2, <1>3, <1>4 DEF Next, Worker, DeliverProgress, CompleteProbe, CancelProbe,
     FinishProbe, RequestStop, StopSearches, ClockExpires, Terminated, vars, bounds,
     progress

\* Once a depth is complete no late answer of a probe still running at it moves its
\* bounds or its move, and no later scan reopens it.
THEOREM CompletedIsFinal == Spec => CompletedDepthIsFinal
<1>1. TypeOK /\ TruthInv /\ SpacingInv /\ [Next]_vars =>
        [\A d \in Depths : stages[d] = "complete" =>
           /\ stages'[d] = "complete"
           /\ lowerBounds'[d] = lowerBounds[d] /\ upperBounds'[d] = upperBounds[d]
           /\ bestMoves'[d] = bestMoves[d]]_vars
  BY CompleteUntouched
<1> QED
  BY <1>1, Spaced, PTL DEF Spec, CompletedDepthIsFinal
-----------------------------------------------------------------------------
(***************************************************************************)
(* The thresholds form a lattice: whole grains apart, half a grain off the *)
(* multiples.                                                              *)
(***************************************************************************)
\* The k-th threshold: half a grain below the k-th multiple of the grain.
Point(k) == k * GrainSize - GrainSize \div 2

LEMMA PointInt == \A k \in Int : Point(k) \in Int
BY DEF Point

LEMMA LatticePoints ==
  /\ \A k \in Int : OnLattice(Point(k))
  /\ \A t \in Int : OnLattice(t) => \E k \in Int : t = Point(k)
<1>1. ASSUME NEW k \in Int PROVE OnLattice(Point(k))
  <2>1. Point(k) + GrainSize \div 2 = k * GrainSize
    BY DEF Point
  <2>2. (k * GrainSize) % GrainSize = 0
    OBVIOUS
  <2> QED
    BY <2>1, <2>2 DEF OnLattice
<1>2. ASSUME NEW t \in Int, OnLattice(t) PROVE \E k \in Int : t = Point(k)
  <2> DEFINE k == (t + GrainSize \div 2) \div GrainSize
  <2>1. k \in Int /\ GrainSize * k = t + GrainSize \div 2
    BY <1>2 DEF OnLattice
  <2>2. t = Point(k)
    BY <2>1 DEF Point
  <2> QED
    BY <2>1, <2>2
<1> QED
  BY <1>1, <1>2

LEMMA PointOrder ==
  ASSUME NEW j \in Int, NEW k \in Int
  PROVE  /\ Point(k + 1) = Point(k) + GrainSize
         /\ Point(k - 1) = Point(k) - GrainSize
         /\ j < k => Point(j) + GrainSize <= Point(k)
<1>1. Point(k + 1) = Point(k) + GrainSize /\ Point(k - 1) = Point(k) - GrainSize
  BY DEF Point
<1>2. ASSUME j < k PROVE Point(j) + GrainSize <= Point(k)
  <2>1. PICK n \in Nat : k = j + 1 + n
    <3>1. k - j - 1 \in Nat /\ k = j + 1 + (k - j - 1)
      BY <1>2
    <3> QED BY <3>1
  <2>2. n * GrainSize >= 0
    OBVIOUS
  <2>3. k * GrainSize = j * GrainSize + GrainSize + n * GrainSize
    BY <2>1
  <2> QED
    BY <2>2, <2>3 DEF Point
<1> QED
  BY <1>1, <1>2

LEMMA LatticeSteps ==
  ASSUME NEW t \in Int, OnLattice(t)
  PROVE  OnLattice(t + GrainSize) /\ OnLattice(t - GrainSize)
<1>1. PICK k \in Int : t = Point(k)
  BY LatticePoints
<1>2. t + GrainSize = Point(k + 1) /\ t - GrainSize = Point(k - 1)
  BY <1>1, PointOrder
<1> QED
  BY <1>2, LatticePoints

LEMMA LatticeApart ==
  ASSUME NEW t \in Int, NEW u \in Int, OnLattice(t), OnLattice(u), t < u
  PROVE  t + GrainSize <= u
<1>1. PICK j \in Int : t = Point(j)
  BY LatticePoints
<1>2. PICK k \in Int : u = Point(k)
  BY LatticePoints
<1>3. ASSUME k < j PROVE FALSE
  <2>1. Point(k) + GrainSize <= Point(j)
    BY <1>3, PointOrder
  <2> QED
    BY <1>1, <1>2, <2>1
<1>4. j < k
  BY <1>1, <1>2, <1>3
<1>5. Point(j) + GrainSize <= Point(k)
  BY <1>4, PointOrder
<1> QED
  BY <1>1, <1>2, <1>5

\* Distinct thresholds need distinct workers: an interval whose thresholds are
\* all asked is no wider than the workers are many.
LEMMA Pigeons ==
  ASSUME TypeOK, IsFiniteSet(Workers), NEW a \in Int, NEW b \in Int, NEW d,
         \A t \in a + 1 .. b - 1 : OnLattice(t) =>
            \E v \in Workers : depths[v] = d /\ testValues[v] = t
  PROVE  b <= a + (Cardinality(Workers) + 1) * GrainSize
<1> DEFINE count == Cardinality(Workers)
           first == (a + GrainSize \div 2) \div GrainSize + 1
           wide == b > a + (count + 1) * GrainSize
<1>1. count \in Nat
  BY FS_CardinalityType
<1> HIDE DEF count
<1>2. first \in Int /\ a < Point(first) /\ Point(first) <= a + GrainSize
  <2> DEFINE q == (a + GrainSize \div 2) \div GrainSize
             r == (a + GrainSize \div 2) % GrainSize
  <2>1. q \in Int /\ r \in 0 .. GrainSize - 1 /\ a + GrainSize \div 2 = GrainSize * q + r
    OBVIOUS
  <2> HIDE DEF q, r
  <2>2. Point(q + 1) = GrainSize * q + GrainSize - GrainSize \div 2
    BY <2>1 DEF Point
  <2> QED
    BY <2>1, <2>2 DEF q
<1> HIDE DEF first
<1>3. ASSUME wide, NEW i \in 0 .. count
      PROVE  /\ Point(first + i) \in a + 1 .. b - 1
             /\ OnLattice(Point(first + i))
  <2>1. Point(first + i) = Point(first) + i * GrainSize
    BY <1>2 DEF Point
  <2>2. i * GrainSize \in Int /\ 0 <= i * GrainSize
    OBVIOUS
  <2>3. i * GrainSize <= count * GrainSize
    <3>1. count * GrainSize - i * GrainSize = (count - i) * GrainSize
      BY <1>1
    <3>2. count - i \in Nat /\ (count - i) * GrainSize >= 0
      BY <1>1
    <3> QED
      BY <1>1, <3>1, <3>2
  <2>4. (count + 1) * GrainSize = count * GrainSize + GrainSize /\ count * GrainSize \in Int
    BY <1>1
  <2>5. first + i \in Int
    BY <1>2
  <2>6. Point(first + i) \in Int /\ OnLattice(Point(first + i))
    BY <2>5, PointInt, LatticePoints
  <2>7. a < Point(first) + i * GrainSize /\ Point(first) + i * GrainSize < b
    <3> DEFINE p == i * GrainSize
               c == count * GrainSize
               s == (count + 1) * GrainSize
    <3>1. p \in Int /\ 0 <= p /\ p <= c /\ s = c + GrainSize /\ c \in Int /\ b > a + s
      BY <1>3, <2>2, <2>3, <2>4
    <3>2. Point(first) \in Int
      BY <1>2, PointInt
    <3> HIDE DEF p, c, s
    <3> SUFFICES a < Point(first) + p /\ Point(first) + p < b
      BY DEF p
    <3> QED
      BY <1>2, <3>1, <3>2
  <2> QED
    BY <2>1, <2>6, <2>7
<1>4. ASSUME wide PROVE FALSE
  <2> DEFINE f == [i \in 0 .. count |->
                    CHOOSE v \in Workers : testValues[v] = Point(first + i)]
  <2>1. \A i \in 0 .. count : f[i] \in Workers /\ testValues[f[i]] = Point(first + i)
    BY <1>3, <1>4
  <2>2. \A i, j \in 0 .. count : f[i] = f[j] => i = j
    <3> SUFFICES ASSUME NEW i \in 0 .. count, NEW j \in 0 .. count, f[i] = f[j], i < j
                 PROVE  FALSE
      BY <1>1
    <3>1. Point(first + i) = Point(first + j)
      BY <2>1
    <3>2. Point(first + i) + GrainSize <= Point(first + j)
      BY <1>1, <1>2, PointOrder
    <3> QED
      BY <1>1, <1>2, <3>1, <3>2, PointInt
  <2>3. f \in Injection(0 .. count, Workers)
    <3> HIDE DEF f
    <3>1. f \in [0 .. count -> Workers]
      BY <2>1 DEF f
    <3> QED
      BY <2>2, <3>1 DEF Injection, IsInjective
  <2>4. Cardinality(0 .. count) <= Cardinality(Workers)
    BY <2>3, FS_Injection
  <2>5. Cardinality(0 .. count) = count + 1
    BY <1>1, FS_Interval
  <2> QED
    BY <1>1, <2>4, <2>5 DEF count
<1>5. a + (count + 1) * GrainSize \in Int
  BY <1>1
<1> QED
  BY <1>4, <1>5 DEF count
-----------------------------------------------------------------------------
(***************************************************************************)
(* No question is lost.                                                    *)
(*                                                                         *)
(* Open thresholds of a depth that hands out no more are all in the hands  *)
(* of workers. What makes this inductive is how the questions in flight    *)
(* lie between the bounds: without gaps, so that a depth with no neighbour *)
(* left to ask has no open threshold left to ask either, and never so far  *)
(* from zero that a question meets an infinite bound.                      *)
(*                                                                         *)
(* As above, the parts take bounds, workers and stop flags as parameters,  *)
(* for the state in the middle of a critical section.                      *)
(***************************************************************************)
AsksAt(crew, d) == {v \in crew : depths[v] = d}
Open(lower, upper, d) == {t \in lower[d] + 1 .. upper[d] - 1 : OnLattice(t)}

\* The stages in which a depth hands out no threshold.
Resting == {"finalSearching", "complete"}

\* Entry 0 carries the initial guess.
RootBounds(lower, upper) ==
  \E g \in -MaxScore .. MaxScore :
    lower[0] = g - GrainSize \div 2 /\ upper[0] = g + GrainSize \div 2

\* A bound is infinite or a threshold; answers keep it on its side of the scores.
BoundsOnLattice(lower, upper) ==
  \A d \in Depths :
    /\ \/ lower[d] = -Infty
       \/ OnLattice(lower[d]) /\ -Infty < lower[d] /\ lower[d] <= MaxScore
    /\ \/ upper[d] = Infty
       \/ OnLattice(upper[d]) /\ upper[d] < Infty /\ -MaxScore <= upper[d]

QuestionsOnLattice(crew) ==
  \A v \in crew : depths[v] \in Depths =>
    OnLattice(testValues[v]) /\ -Infty < testValues[v] /\ testValues[v] < Infty

\* Only questions the bounds have made redundant are cancelled.
CancelledOutside(lower, upper, crew, halted) ==
  \A v \in crew : depths[v] \in Depths /\ halted[v] =>
    testValues[v] <= lower[depths[v]] \/ testValues[v] >= upper[depths[v]]

\* Something is known or asked at a depth that was begun.
Begun(lower, upper, crew) ==
  \A d \in Depths : stages[d] # "waiting" =>
    lower[d] # -Infty \/ upper[d] # Infty \/ AsksAt(crew, d) # {}

\* A depth is begun only when all above it hand out no more thresholds.
InOrder ==
  \A c, d \in Depths : c < d /\ stages[d] # "waiting" => stages[c] \in Resting

\* An open threshold is asked, or on one side of all questions asked.
Gapless(lower, upper, crew) ==
  \A d \in Depths : \A t \in Open(lower, upper, d) :
    \/ \E v \in AsksAt(crew, d) : testValues[v] = t
    \/ \A v \in AsksAt(crew, d) : testValues[v] < t
    \/ \A v \in AsksAt(crew, d) : testValues[v] > t

\* A bound or a question out of reach stands at the end of a chain of questions that
\* begins within reach.  A chain has at most as many links as there are workers.
Chained(lower, upper, crew) ==
  \A d \in Depths :
    /\ \A t \in {testValues[v] : v \in AsksAt(crew, d)} \union {upper[d]} :
         t <= upper[d] /\ t < Infty =>
           \A x \in Reach + 1 .. t - 1 :
             OnLattice(x) => \E v \in AsksAt(crew, d) : testValues[v] = x
    /\ \A t \in {testValues[v] : v \in AsksAt(crew, d)} \union {lower[d]} :
         t >= lower[d] /\ t > -Infty =>
           \A x \in t + 1 .. -Reach - 1 :
             OnLattice(x) => \E v \in AsksAt(crew, d) : testValues[v] = x

AllAsked(lower, upper, crew, halted) ==
  \A d \in Depths : stages[d] \in Resting =>
    /\ lower[d] # -Infty /\ upper[d] # Infty
    /\ \A t \in Open(lower, upper, d) :
         \E v \in AsksAt(crew, d) : ~halted[v] /\ testValues[v] = t

Lattice(lower, upper, crew, halted) ==
  /\ RootBounds(lower, upper)
  /\ BoundsOnLattice(lower, upper)
  /\ QuestionsOnLattice(crew)
  /\ CancelledOutside(lower, upper, crew, halted)
  /\ Begun(lower, upper, crew)
  /\ InOrder
  /\ Gapless(lower, upper, crew)
  /\ Chained(lower, upper, crew)
  /\ AllAsked(lower, upper, crew, halted)

LatticeInv == ~searchDone => Lattice(lowerBounds, upperBounds, Workers, stopped)

\* As many grains as there are workers, and one.
Crowd == (Cardinality(Workers) + 1) * GrainSize

LEMMA ReachFacts ==
  /\ Crowd \in Nat /\ Crowd >= GrainSize
  /\ Reach \in Int /\ Reach = MaxScore + Crowd + GrainSize + GrainSize
  /\ Infty > 3 * Reach + 2 * GrainSize
<1>1. Cardinality(Workers) \in Nat
  BY ReachAssumption, FS_CardinalityType
<1>2. \A n \in Nat : /\ (n + 1) * GrainSize \in Nat /\ (n + 1) * GrainSize >= GrainSize
                     /\ (n + 3) * GrainSize = (n + 1) * GrainSize + GrainSize + GrainSize
  <2> TAKE n \in Nat
  <2>1. (n + 1) * GrainSize = n * GrainSize + GrainSize
    OBVIOUS
  <2>2. (n + 3) * GrainSize = n * GrainSize + GrainSize + GrainSize + GrainSize
    OBVIOUS
  <2>3. n * GrainSize \in Nat
    OBVIOUS
  <2> QED
    BY <2>1, <2>2, <2>3
<1>3. Crowd \in Nat /\ Crowd >= GrainSize
  BY <1>1, <1>2 DEF Crowd
<1>4. Reach = MaxScore + Crowd + GrainSize + GrainSize
  BY <1>1, <1>2, <1>3 DEF Crowd, Reach
<1> QED
  BY <1>3, <1>4, ReachAssumption

LEMMA Crowded ==
  ASSUME TypeOK, NEW a \in Int, NEW b \in Int, NEW d, NEW crew \in SUBSET Workers,
         \A t \in a + 1 .. b - 1 : OnLattice(t) =>
            \E v \in AsksAt(crew, d) : testValues[v] = t
  PROVE  b <= a + Crowd
<1>1. \A t \in a + 1 .. b - 1 : OnLattice(t) =>
        \E v \in Workers : depths[v] = d /\ testValues[v] = t
  BY DEF AsksAt
<1> QED
  BY <1>1, Pigeons, ReachAssumption DEF Crowd

\* Truncated division rounds toward zero.
LEMMA Rounding ==
  ASSUME NEW m \in Int, NEW limit \in Nat, -limit <= m, m <= limit
  PROVE  /\ TruncDiv(m, GrainSize) \in Int
         /\ -limit <= TruncDiv(m, GrainSize) * GrainSize
         /\ TruncDiv(m, GrainSize) * GrainSize <= limit
<1>1. \A n \in Nat : /\ n \div GrainSize \in Nat
                     /\ (n \div GrainSize) * GrainSize <= n
                     /\ 0 <= (n \div GrainSize) * GrainSize
  <2> TAKE n \in Nat
  <2> DEFINE q == n \div GrainSize
             r == n % GrainSize
  <2>1. q \in Int /\ r \in 0 .. GrainSize - 1 /\ n = GrainSize * q + r
    OBVIOUS
  <2> HIDE DEF q, r
  <2>2. ASSUME q < 0 PROVE FALSE
    <3>1. -q - 1 \in Nat /\ GrainSize * (-q - 1) >= 0
      BY <2>1, <2>2
    <3>2. GrainSize * (-q - 1) = -(GrainSize * q) - GrainSize
      BY <2>1
    <3> QED
      BY <2>1, <3>1, <3>2
  <2>3. q \in Nat
    BY <2>1, <2>2
  <2>4. GrainSize * q = q * GrainSize /\ 0 <= q * GrainSize
    BY <2>3
  <2> QED
    BY <2>1, <2>3, <2>4 DEF q
<1>2. CASE m >= 0
  BY <1>1, <1>2 DEF TruncDiv
<1>3. CASE m < 0
  <2>1. -m \in Nat
    BY <1>3
  <2>2. (-((-m) \div GrainSize)) * GrainSize = -(((-m) \div GrainSize) * GrainSize)
    BY <1>1, <2>1
  <2> QED
    BY <1>1, <1>3, <2>1, <2>2 DEF TruncDiv
<1> QED
  BY <1>2, <1>3

\* A first guess lies on the lattice, within reach of bounds that are close together.
LEMMA GuessWithinReach ==
  ASSUME MergedBounds, NEW d \in Depths,
         lowerBounds'[d - 1] <= MaxScore, upperBounds'[d - 1] >= -MaxScore,
         upperBounds'[d - 1] <= lowerBounds'[d - 1] + Crowd,
         lowerBounds'[d - 1] <= upperBounds'[d - 1]
  PROVE  /\ Guess(d) \in Int /\ OnLattice(Guess(d))
         /\ -Reach <= Guess(d) /\ Guess(d) <= Reach
<1> DEFINE middle == TruncDiv(lowerBounds'[d - 1] + upperBounds'[d - 1], 2)
           limit == MaxScore + Crowd
           q == TruncDiv(middle, GrainSize)
<1>1. lowerBounds'[d - 1] \in Int /\ upperBounds'[d - 1] \in Int
  BY DEF MergedBounds
<1>2. limit \in Nat
  BY ReachFacts
<1>3. middle \in Int /\ -limit <= middle /\ middle <= limit
  <2> DEFINE sum == lowerBounds'[d - 1] + upperBounds'[d - 1]
  <2>1. Crowd \in Nat
    BY ReachFacts
  <2>2. sum \in Int /\ -(limit + limit) <= sum /\ sum <= limit + limit
    BY <1>1, <2>1
  <2> HIDE DEF sum, limit
  <2>3. TruncDiv(sum, 2) \in Int /\ -limit <= TruncDiv(sum, 2) /\ TruncDiv(sum, 2) <= limit
    BY <1>2, <2>2 DEF TruncDiv
  <2> QED
    BY <2>3 DEF sum
<1> HIDE DEF middle, limit
<1>4. q \in Int /\ -limit <= q * GrainSize /\ q * GrainSize <= limit
  BY <1>2, <1>3, Rounding
<1>5. Guess(d) = Point(q)
  BY DEF Guess, Point, middle
<1> HIDE DEF q
<1>6. Point(q) \in Int /\ OnLattice(Point(q))
  BY <1>4, PointInt, LatticePoints
<1>7. GrainSize \div 2 \in 0 .. GrainSize
  OBVIOUS
<1>8. -limit - GrainSize <= Point(q) /\ Point(q) <= limit
  BY <1>2, <1>4, <1>7 DEF Point
<1> QED
  BY <1>2, <1>5, <1>6, <1>8, ReachFacts DEF limit

\* What a merge does to the intervals: they only narrow, to lattice thresholds, and
\* the question just answered is no longer inside.
LEMMA MergeNarrows ==
  ASSUME TypeOK, TruthInv, BoundsOrdered, NEW w \in Workers, pc[w] = "answered",
         MergeAnswer(w), Lattice(lowerBounds, upperBounds, Workers, stopped)
  PROVE  /\ \A d \in Depths : lowerBounds[d] <= lowerBounds'[d] /\ upperBounds'[d] <= upperBounds[d]
         /\ lowerBounds'[0] = lowerBounds[0] /\ upperBounds'[0] = upperBounds[0]
         /\ \A d \in Depths :
              /\ lowerBounds'[d] = lowerBounds[d] \/ (d = depths[w] /\ lowerBounds'[d] = testValues[w])
              /\ upperBounds'[d] = upperBounds[d] \/ (d = depths[w] /\ upperBounds'[d] = testValues[w])
         /\ depths[w] \in Depths => \/ testValues[w] <= lowerBounds'[depths[w]]
                                    \/ testValues[w] >= upperBounds'[depths[w]]
         /\ BoundsOnLattice(lowerBounds', upperBounds')
<1> DEFINE e == depths[w]
           t == testValues[w]
<1>1. /\ t \in Int
      /\ \A d \in Depths : lowerBounds[d] \in Int /\ upperBounds[d] \in Int
  BY DEF TypeOK
<1>2. CASE UNCHANGED bounds
  <2>1. e \in Depths => t <= lowerBounds[e] \/ t >= upperBounds[e]
    <3>1. SUFFICES ASSUME e \in Depths, lowerBounds[e] < t, t < upperBounds[e]
                   PROVE  FALSE
      BY <1>1
    <3>2. ~stopped[w]
      BY <1>1, <3>1 DEF Lattice, CancelledOutside
    <3>3. Informative(w)
      BY <3>1, <3>2 DEF Informative
    <3>4. lowerBounds'[e] = t \/ upperBounds'[e] = t
      BY <3>1, <3>3 DEF MergeAnswer, TypeOK
    <3> QED
      BY <1>1, <1>2, <3>1, <3>4 DEF bounds
  <2>2. lowerBounds' = lowerBounds /\ upperBounds' = upperBounds
    BY <1>2 DEF bounds
  <2>3. BoundsOnLattice(lowerBounds', upperBounds')
    BY <2>2 DEF Lattice, BoundsOnLattice
  <2>4. \A d \in Depths : lowerBounds[d] <= lowerBounds'[d] /\ upperBounds'[d] <= upperBounds[d]
    BY <1>1, <2>2
  <2> QED
    BY <2>1, <2>2, <2>3, <2>4
<1>3. CASE ~UNCHANGED bounds
  <2>1. /\ e \in Depths /\ lowerBounds[e] < t /\ t < upperBounds[e]
        /\ answers[w] \in ProbeOutcomes(e, t)
        /\ \A d \in 0 .. MaximumDepth : d # e =>
             lowerBounds'[d] = lowerBounds[d] /\ upperBounds'[d] = upperBounds[d]
        /\ \/ /\ answers[w] # NoMove /\ lowerBounds'[e] = t /\ upperBounds'[e] = upperBounds[e]
           \/ /\ answers[w] = NoMove /\ upperBounds'[e] = t /\ lowerBounds'[e] = lowerBounds[e]
    BY <1>3, MergeMoves
  <2>2. Stable => \A m \in Moves : values[e][m] \in -MaxScore .. MaxScore
    <3>1. Stable => values \in [Depths -> [Moves -> -MaxScore .. MaxScore]]
      BY Zenon DEF TypeOK, Stable
    <3> QED
      BY <2>1, <3>1
  <2>3. answers[w] # NoMove => t <= MaxScore
    <3>1. SUFFICES ASSUME t > MaxScore, answers[w] # NoMove PROVE FALSE
      BY <1>1
    <3>2. CASE Stable
      <4>1. \A m \in Moves : ~(values[e][m] > t)
        BY <1>1, <2>2, <3>1, <3>2
      <4> QED
        BY <2>1, <3>1, <3>2, <4>1 DEF ProbeOutcomes
    <3>3. CASE ~Stable
      BY <2>1, <3>1, <3>3 DEF ProbeOutcomes
    <3> QED
      BY <3>2, <3>3
  <2>4. answers[w] = NoMove => -MaxScore <= t
    <3>1. SUFFICES ASSUME t < -MaxScore, answers[w] = NoMove PROVE FALSE
      BY <1>1
    <3>2. CASE Stable
      <4>1. \A m \in Moves : values[e][m] > t
        BY <1>1, <2>2, <3>1, <3>2
      <4> QED
        BY <2>1, <3>1, <3>2, <4>1, ReachAssumption DEF ProbeOutcomes
    <3>3. CASE ~Stable
      <4>1. ~(t > MaxScore)
        BY <1>1, <3>1
      <4> QED
        BY <2>1, <3>1, <3>3, <4>1 DEF ProbeOutcomes
    <3> QED
      BY <3>2, <3>3
  <2>5. OnLattice(t) /\ -Infty < t /\ t < Infty
    BY <2>1 DEF Lattice, QuestionsOnLattice
  <2>6. BoundsOnLattice(lowerBounds', upperBounds')
    <3> SUFFICES ASSUME NEW d \in Depths
                 PROVE  /\ \/ lowerBounds'[d] = -Infty
                           \/ OnLattice(lowerBounds'[d]) /\ -Infty < lowerBounds'[d] /\ lowerBounds'[d] <= MaxScore
                        /\ \/ upperBounds'[d] = Infty
                           \/ OnLattice(upperBounds'[d]) /\ upperBounds'[d] < Infty /\ -MaxScore <= upperBounds'[d]
      BY DEF BoundsOnLattice
    <3>1. CASE d # e
      <4>1. lowerBounds'[d] = lowerBounds[d] /\ upperBounds'[d] = upperBounds[d]
        BY <2>1, <3>1
      <4>2. BoundsOnLattice(lowerBounds, upperBounds)
        BY DEF Lattice
      <4> QED
        BY <4>1, <4>2 DEF BoundsOnLattice
    <3>2. CASE d = e
      <4>1. /\ \/ lowerBounds[e] = -Infty
               \/ OnLattice(lowerBounds[e]) /\ -Infty < lowerBounds[e] /\ lowerBounds[e] <= MaxScore
            /\ \/ upperBounds[e] = Infty
               \/ OnLattice(upperBounds[e]) /\ upperBounds[e] < Infty /\ -MaxScore <= upperBounds[e]
        BY <2>1 DEF Lattice, BoundsOnLattice
      <4>2. CASE answers[w] # NoMove /\ lowerBounds'[e] = t /\ upperBounds'[e] = upperBounds[e]
        BY <2>3, <2>5, <3>2, <4>1, <4>2
      <4>3. CASE answers[w] = NoMove /\ upperBounds'[e] = t /\ lowerBounds'[e] = lowerBounds[e]
        BY <2>4, <2>5, <3>2, <4>1, <4>3
      <4> QED
        BY <2>1, <4>2, <4>3
    <3> QED
      BY <3>1, <3>2
  <2>7. ASSUME NEW d \in Depths
        PROVE  /\ lowerBounds[d] <= lowerBounds'[d] /\ upperBounds'[d] <= upperBounds[d]
               /\ lowerBounds'[d] = lowerBounds[d] \/ (d = e /\ lowerBounds'[d] = t)
               /\ upperBounds'[d] = upperBounds[d] \/ (d = e /\ upperBounds'[d] = t)
    BY <1>1, <2>1
  <2>8. 0 # e /\ lowerBounds'[0] = lowerBounds[0] /\ upperBounds'[0] = upperBounds[0]
    BY <2>1
  <2>9. t <= lowerBounds'[e] \/ t >= upperBounds'[e]
    BY <1>1, <2>1
  <2> QED
    BY <2>6, <2>7, <2>8, <2>9
<1> QED
  BY <1>2, <1>3

LEMMA MergeLattice ==
  ASSUME TypeOK, TruthInv, BoundsOrdered, NEW w \in Workers, pc[w] = "answered",
         MergeAnswer(w), Lattice(lowerBounds, upperBounds, Workers, stopped),
         NEW halted, \A v \in Workers : halted[v] = (stopped[v] \/ Outlier(w, v))
  PROVE  Lattice(lowerBounds', upperBounds', Others(w), halted)
<1> DEFINE e == depths[w]
           t == testValues[w]
           low(d) == lowerBounds'[d]
           high(d) == upperBounds'[d]
<1>1. /\ t \in Int
      /\ \A d \in Depths : /\ lowerBounds[d] \in Int /\ upperBounds[d] \in Int
                           /\ lowerBounds'[d] \in Int /\ upperBounds'[d] \in Int
      /\ \A v \in Workers : testValues[v] \in Int
  <2>1. MergedBounds
    BY MergeTypes
  <2>2. \A d \in Depths : lowerBounds'[d] \in Int /\ upperBounds'[d] \in Int
    BY <2>1 DEF MergedBounds
  <2>3. \A d \in Depths : lowerBounds[d] \in Int /\ upperBounds[d] \in Int
    BY DEF TypeOK
  <2>4. \A v \in Workers : testValues[v] \in Int
    BY DEF TypeOK
  <2> QED
    BY <2>2, <2>3, <2>4
<1>2. /\ \A d \in Depths : lowerBounds[d] <= lowerBounds'[d] /\ upperBounds'[d] <= upperBounds[d]
      /\ lowerBounds'[0] = lowerBounds[0] /\ upperBounds'[0] = upperBounds[0]
      /\ \A d \in Depths :
           /\ lowerBounds'[d] = lowerBounds[d] \/ (d = depths[w] /\ lowerBounds'[d] = testValues[w])
           /\ upperBounds'[d] = upperBounds[d] \/ (d = depths[w] /\ upperBounds'[d] = testValues[w])
      /\ e \in Depths => t <= lowerBounds'[e] \/ t >= upperBounds'[e]
      /\ BoundsOnLattice(lowerBounds', upperBounds')
  BY MergeNarrows
<1>3. /\ RootBounds(lowerBounds', upperBounds')
      /\ QuestionsOnLattice(Others(w)) /\ InOrder
  BY <1>2 DEF Lattice, RootBounds, QuestionsOnLattice, Others
<1>4. CancelledOutside(lowerBounds', upperBounds', Others(w), halted)
  <2> SUFFICES ASSUME NEW v \in Others(w), depths[v] \in Depths, halted[v]
               PROVE  \/ testValues[v] <= lowerBounds'[depths[v]]
                      \/ testValues[v] >= upperBounds'[depths[v]]
    BY DEF CancelledOutside
  <2>1. CASE stopped[v]
    <3>1. testValues[v] <= lowerBounds[depths[v]] \/ testValues[v] >= upperBounds[depths[v]]
      BY <2>1 DEF Lattice, CancelledOutside, Others
    <3> QED
      BY <1>1, <1>2, <3>1 DEF Others
  <2>2. CASE Outlier(w, v)
    BY <2>2 DEF Outlier
  <2> QED
    BY <2>1, <2>2 DEF Others
<1>5. Begun(lowerBounds', upperBounds', Others(w))
  <2> SUFFICES ASSUME NEW d \in Depths, stages[d] # "waiting",
                      lowerBounds'[d] = -Infty, upperBounds'[d] = Infty
               PROVE  AsksAt(Others(w), d) # {}
    BY DEF Begun
  <2>1. lowerBounds[d] = -Infty /\ upperBounds[d] = Infty
    BY <1>1, <1>2 DEF Lattice, BoundsOnLattice
  <2>2. PICK v \in AsksAt(Workers, d) : TRUE
    BY <2>1 DEF Lattice, Begun
  <2>3. v # w
    <3> SUFFICES ASSUME v = w PROVE FALSE
      OBVIOUS
    <3>1. e = d /\ -Infty < t /\ t < Infty
      BY <2>2 DEF AsksAt, Lattice, QuestionsOnLattice
    <3> QED
      BY <1>1, <1>2, <3>1
  <2> QED
    BY <2>2, <2>3 DEF AsksAt, Others
<1>6. ASSUME NEW d \in Depths, NEW x \in Open(lowerBounds', upperBounds', d)
      PROVE  /\ x \in Open(lowerBounds, upperBounds, d)
             /\ ~(e = d /\ t = x)
  <2>1. d \in Depths /\ x \in Int /\ lowerBounds'[d] < x /\ x < upperBounds'[d]
    BY <1>1, <1>6 DEF Open
  <2>2. lowerBounds[d] < x /\ x < upperBounds[d] /\ ~(e = d /\ t = x)
    BY <1>1, <1>2, <2>1
  <2> QED
    BY <1>1, <1>6, <2>1, <2>2, SMTT(30) DEF Open
<1>7. Gapless(lowerBounds', upperBounds', Others(w))
  <2> SUFFICES ASSUME NEW d \in Depths, NEW x \in Open(lowerBounds', upperBounds', d)
               PROVE  \/ \E v \in AsksAt(Others(w), d) : testValues[v] = x
                      \/ \A v \in AsksAt(Others(w), d) : testValues[v] < x
                      \/ \A v \in AsksAt(Others(w), d) : testValues[v] > x
    BY DEF Gapless
  <2>1. \/ \E v \in AsksAt(Workers, d) : testValues[v] = x
        \/ \A v \in AsksAt(Workers, d) : testValues[v] < x
        \/ \A v \in AsksAt(Workers, d) : testValues[v] > x
    BY <1>6 DEF Lattice, Gapless
  <2> QED
    BY <1>6, <2>1 DEF AsksAt, Others
<1>8. AllAsked(lowerBounds', upperBounds', Others(w), halted)
  <2> SUFFICES ASSUME NEW d \in Depths, stages[d] \in Resting
               PROVE  /\ lowerBounds'[d] # -Infty /\ upperBounds'[d] # Infty
                      /\ \A x \in Open(lowerBounds', upperBounds', d) :
                           \E v \in AsksAt(Others(w), d) : ~halted[v] /\ testValues[v] = x
    BY DEF AllAsked
  <2>1. lowerBounds'[d] # -Infty /\ upperBounds'[d] # Infty
    <3>1. lowerBounds[d] # -Infty /\ upperBounds[d] # Infty
      BY DEF Lattice, AllAsked
    <3> QED
      BY <1>1, <1>2, <3>1 DEF Lattice, BoundsOnLattice
  <2>2. ASSUME NEW x \in Open(lowerBounds', upperBounds', d)
        PROVE  \E v \in AsksAt(Others(w), d) : ~halted[v] /\ testValues[v] = x
    <3>1. PICK v \in AsksAt(Workers, d) : ~stopped[v] /\ testValues[v] = x
      BY <1>6, <2>2 DEF Lattice, AllAsked
    <3>2. v # w
      BY <1>6, <2>2, <3>1 DEF AsksAt
    <3>3. ~Outlier(w, v)
      BY <1>1, <2>2, <3>1 DEF Outlier, AsksAt, Open
    <3> QED
      BY <3>1, <3>2, <3>3 DEF AsksAt, Others
  <2> QED
    BY <2>1, <2>2
<1>9. Chained(lowerBounds', upperBounds', Others(w))
  <2> SUFFICES ASSUME NEW d \in Depths
               PROVE  /\ \A y \in {testValues[v] : v \in AsksAt(Others(w), d)} \union {high(d)} :
                           y <= high(d) /\ y < Infty =>
                             \A x \in Reach + 1 .. y - 1 :
                               OnLattice(x) => \E v \in AsksAt(Others(w), d) : testValues[v] = x
                      /\ \A y \in {testValues[v] : v \in AsksAt(Others(w), d)} \union {low(d)} :
                           y >= low(d) /\ y > -Infty =>
                             \A x \in y + 1 .. -Reach - 1 :
                               OnLattice(x) => \E v \in AsksAt(Others(w), d) : testValues[v] = x
    BY DEF Chained
  <2>0. Reach \in Int /\ Reach >= MaxScore
    BY ReachFacts
  <2>1. ASSUME NEW y \in {testValues[v] : v \in AsksAt(Others(w), d)} \union {high(d)},
               y <= high(d), y < Infty, NEW x \in Reach + 1 .. y - 1, OnLattice(x)
        PROVE  \E v \in AsksAt(Others(w), d) : testValues[v] = x
    <3>1. y \in {testValues[v] : v \in AsksAt(Workers, d)} \union {upperBounds[d]}
      BY <1>2, <2>1 DEF AsksAt, Others
    <3>2. y \in Int /\ y <= upperBounds[d]
      BY <1>1, <1>2, <2>1, <3>1 DEF AsksAt
    <3>3. PICK v \in AsksAt(Workers, d) : testValues[v] = x
      BY <2>1, <3>1, <3>2 DEF Lattice, Chained
    <3>4. v # w
      <4> SUFFICES ASSUME v = w PROVE FALSE
        OBVIOUS
      <4>1. e = d /\ t = x
        BY <3>3 DEF AsksAt
      <4>2. x < high(d) /\ x > MaxScore
        BY <1>1, <2>0, <2>1, <3>2
      <4>3. x <= low(d)
        BY <1>1, <1>2, <4>1, <4>2
      <4>4. low(d) = -Infty \/ low(d) <= MaxScore
        BY <1>2 DEF BoundsOnLattice
      <4> QED
        BY <1>1, <2>1, <4>2, <4>3, <4>4
    <3> QED
      BY <3>3, <3>4 DEF AsksAt, Others
  <2>2. ASSUME NEW y \in {testValues[v] : v \in AsksAt(Others(w), d)} \union {low(d)},
               y >= low(d), y > -Infty, NEW x \in y + 1 .. -Reach - 1, OnLattice(x)
        PROVE  \E v \in AsksAt(Others(w), d) : testValues[v] = x
    <3>1. y \in {testValues[v] : v \in AsksAt(Workers, d)} \union {lowerBounds[d]}
      BY <1>2, <2>2 DEF AsksAt, Others
    <3>2. y \in Int /\ y >= lowerBounds[d]
      BY <1>1, <1>2, <2>2, <3>1 DEF AsksAt
    <3>3. PICK v \in AsksAt(Workers, d) : testValues[v] = x
      BY <2>2, <3>1, <3>2 DEF Lattice, Chained
    <3>4. v # w
      <4> SUFFICES ASSUME v = w PROVE FALSE
        OBVIOUS
      <4>1. e = d /\ t = x
        BY <3>3 DEF AsksAt
      <4>2. x > low(d) /\ x < -MaxScore
        BY <1>1, <2>0, <2>2, <3>2
      <4>3. x >= high(d)
        BY <1>1, <1>2, <4>1, <4>2
      <4>4. high(d) = Infty \/ high(d) >= -MaxScore
        BY <1>2 DEF BoundsOnLattice
      <4> QED
        BY <1>1, <2>2, <4>2, <4>3, <4>4
    <3> QED
      BY <3>3, <3>4 DEF AsksAt, Others
  <2> QED
    BY <2>1, <2>2
<1> QED
  BY <1>2, <1>3, <1>4, <1>5, <1>7, <1>8, <1>9 DEF Lattice

LEMMA InFlightAsked ==
  ASSUME NEW w \in Workers, NEW d
  PROVE  InFlight(w, d) = {testValues[v] : v \in AsksAt(Others(w), d)}
BY DEF InFlight, AsksAt, Others

\* Questions in flight are on the lattice and finite.
LEMMA AskedOnLattice ==
  ASSUME TypeOK, NEW crew \in SUBSET Workers, QuestionsOnLattice(crew), NEW d \in Depths,
         NEW v \in AsksAt(crew, d)
  PROVE  /\ testValues[v] \in Int /\ OnLattice(testValues[v])
         /\ -Infty < testValues[v] /\ testValues[v] < Infty
BY DEF TypeOK, QuestionsOnLattice, AsksAt

\* A depth that has no threshold to offer has finite bounds, and every threshold
\* between them is in the hands of a worker whose answer will count.
LEMMA Exhausted ==
  ASSUME TypeOK, MergedBounds, NEW w \in Workers, NEW halted,
         Lattice(lowerBounds', upperBounds', Others(w), halted),
         NEW d \in Depths, stages[d] = "searching", ~HasThreshold(w, d)
  PROVE  /\ lowerBounds'[d] # -Infty /\ upperBounds'[d] # Infty
         /\ \A t \in Open(lowerBounds', upperBounds', d) :
              \E v \in AsksAt(Others(w), d) : ~halted[v] /\ testValues[v] = t
<1> DEFINE low == lowerBounds'[d]
           high == upperBounds'[d]
           asked == InFlight(w, d)
<1>1. low \in Int /\ high \in Int /\ Others(w) \in SUBSET Workers
  BY DEF MergedBounds, Others
<1>2. asked = {testValues[v] : v \in AsksAt(Others(w), d)}
  BY InFlightAsked
<1>3. \A z \in asked : z \in Int /\ OnLattice(z) /\ -Infty < z /\ z < Infty
  BY <1>1, <1>2, AskedOnLattice DEF Lattice
<1>4. /\ low = -Infty \/ (OnLattice(low) /\ -Infty < low /\ low <= MaxScore)
      /\ high = Infty \/ (OnLattice(high) /\ high < Infty /\ -MaxScore <= high)
  BY DEF Lattice, BoundsOnLattice
<1>5. Reach \in Int /\ Crowd \in Nat /\ Reach = MaxScore + Crowd + GrainSize + GrainSize
      /\ Infty > 3 * Reach + 2 * GrainSize
  BY ReachFacts
<1> HIDE DEF asked, low, high
<1>6. PICK top \in asked \union {low} : \A z \in asked \union {low} : z <= top
  <2> DEFINE known == asked \union {low}
  <2>1. known \in SUBSET Int /\ known # {}
    BY <1>1, <1>3
  <2>2. \A z \in known : z <= Infty
    BY <1>1, <1>3, <1>4
  <2> HIDE DEF known
  <2>3. \E top \in known : \A z \in known : z <= top
    <3>1. Infty \in Int
      OBVIOUS
    <3> QED
      BY <2>1, <2>2, <3>1, GreatestInteger
  <2> QED
    BY <2>3 DEF known
<1>7. PICK bottom \in asked \union {high} : \A z \in asked \union {high} : z >= bottom
  <2> DEFINE known == asked \union {high}
  <2>1. known \in SUBSET Int /\ known # {}
    BY <1>1, <1>3
  <2>2. \A z \in known : z >= -Infty
    BY <1>1, <1>3, <1>4
  <2> HIDE DEF known
  <2>3. \E bottom \in known : \A z \in known : z >= bottom
    <3>1. -Infty \in Int
      OBVIOUS
    <3> QED
      BY <2>1, <2>2, <3>1, LeastInteger
  <2> QED
    BY <2>3 DEF known
<1>8. top + GrainSize >= high
  <2>1. top + GrainSize \in Above(w, d)
    BY <1>6 DEF Above, asked, low
  <2>2. top \in Int
    BY <1>1, <1>3
  <2> QED
    BY <1>1, <2>1, <2>2 DEF HasThreshold, CanRaise, high
<1>9. bottom - GrainSize <= low
  <2>1. bottom - GrainSize \in Below(w, d)
    BY <1>7 DEF Below, asked, high
  <2>2. bottom \in Int
    BY <1>1, <1>3
  <2> QED
    BY <1>1, <2>1, <2>2 DEF HasThreshold, CanLower, low
<1>10. top \in Int /\ bottom \in Int
  BY <1>1, <1>3
<1>11. ASSUME low = -Infty PROVE FALSE
  <2>1. bottom <= -Infty + GrainSize
    BY <1>9, <1>10, <1>11
  <2>2. bottom \in asked
    BY <1>4, <1>5, <2>1, <1>10
  <2>3. bottom > -Infty
    BY <1>3, <2>2
  <2>4. bottom >= low
    BY <1>1, <1>10, <1>11, <2>3
  <2>5. PICK floor \in Int : floor = -Reach
    BY <1>5
  <2>6. \A x \in bottom + 1 .. floor - 1 :
          OnLattice(x) => \E v \in AsksAt(Others(w), d) : testValues[v] = x
    <3>1. Chained(lowerBounds', upperBounds', Others(w))
      BY DEF Lattice
    <3>2. bottom \in {testValues[v] : v \in AsksAt(Others(w), d)} \union {lowerBounds'[d]}
      BY <1>2, <2>2
    <3>3. bottom >= lowerBounds'[d] /\ bottom > -Infty
      BY <2>3, <2>4 DEF low
    <3> QED
      BY <2>5, <3>1, <3>2, <3>3 DEF Chained
  <2>7. floor <= bottom + Crowd
    BY <1>1, <1>10, <2>6, Crowded
  <2> QED
    BY <1>5, <1>10, <2>1, <2>5, <2>7
<1>12. ASSUME high = Infty PROVE FALSE
  <2>1. top >= Infty - GrainSize
    BY <1>8, <1>10, <1>12
  <2>2. top \in asked
    BY <1>4, <1>5, <2>1, <1>10
  <2>3. top < Infty
    BY <1>3, <2>2
  <2>4. \A x \in Reach + 1 .. top - 1 :
          OnLattice(x) => \E v \in AsksAt(Others(w), d) : testValues[v] = x
    <3>1. Chained(lowerBounds', upperBounds', Others(w))
      BY DEF Lattice
    <3>2. top \in {testValues[v] : v \in AsksAt(Others(w), d)} \union {upperBounds'[d]}
      BY <1>2, <2>2
    <3>3. top <= upperBounds'[d] /\ top < Infty
      BY <1>10, <1>12, <2>3 DEF high
    <3> QED
      BY <3>1, <3>2, <3>3 DEF Chained
  <2>5. top <= Reach + Crowd
    BY <1>1, <1>5, <1>10, <2>4, Crowded
  <2> QED
    BY <1>5, <1>10, <2>1, <2>5
<1>13. ASSUME NEW t \in Open(lowerBounds', upperBounds', d)
       PROVE  \E v \in AsksAt(Others(w), d) : ~halted[v] /\ testValues[v] = t
  <2>1. t \in Int /\ OnLattice(t) /\ low < t /\ t < high
    BY <1>1, <1>13 DEF Open, low, high
  <2>2. CASE \E v \in AsksAt(Others(w), d) : testValues[v] = t
    <3>1. PICK v \in AsksAt(Others(w), d) : testValues[v] = t
      BY <2>2
    <3>2. ~halted[v]
      BY <1>1, <2>1, <3>1 DEF Lattice, CancelledOutside, AsksAt, low, high
    <3> QED
      BY <3>1, <3>2
  <2>3. CASE \A v \in AsksAt(Others(w), d) : testValues[v] < t
    <3>1. top < t /\ OnLattice(top)
      BY <1>2, <1>3, <1>4, <1>11, <2>1, <2>3
    <3>2. top + GrainSize <= t
      BY <1>10, <2>1, <3>1, LatticeApart
    <3> QED
      BY <1>1, <1>8, <1>10, <2>1, <3>2
  <2>4. CASE \A v \in AsksAt(Others(w), d) : testValues[v] > t
    <3>1. t < bottom /\ OnLattice(bottom)
      BY <1>2, <1>3, <1>4, <1>12, <2>1, <2>4
    <3>2. t + GrainSize <= bottom
      BY <1>10, <2>1, <3>1, LatticeApart
    <3> QED
      BY <1>1, <1>9, <1>10, <2>1, <3>2
  <2> QED
    BY <1>13, <2>2, <2>3, <2>4 DEF Lattice, Gapless
<1> QED
  BY <1>11, <1>12, <1>13 DEF low, high

\* What a depth that is passed over leaves behind.
LEMMA PassedOver ==
  ASSUME TypeOK, MergedBounds, NEW w \in Workers, NEW halted,
         Lattice(lowerBounds', upperBounds', Others(w), halted),
         NEW d \in Depths, ~HasThreshold(w, d)
  PROVE  /\ ScannedStage(w, d) \in Resting
         /\ lowerBounds'[d] # -Infty /\ upperBounds'[d] # Infty
         /\ \A t \in Open(lowerBounds', upperBounds', d) :
              \E v \in AsksAt(Others(w), d) : ~halted[v] /\ testValues[v] = t
<1>1. ScannedStage(w, d) \in Resting
  BY DEF ScannedStage, Resting
<1>2. stages[d] \in {"searching", "finalSearching", "complete"}
  BY DEF TypeOK, Stages, HasThreshold
<1>3. CASE stages[d] = "searching"
  BY <1>1, <1>3, Exhausted
<1>4. CASE stages[d] \in Resting
  BY <1>1, <1>4 DEF Lattice, AllAsked
<1> QED
  BY <1>2, <1>3, <1>4 DEF Resting

\* The guess at a depth the scan reaches.
LEMMA VisitedGuess ==
  ASSUME TypeOK, MergedBounds, BoundsOrdered', NEW w \in Workers, NEW halted,
         Lattice(lowerBounds', upperBounds', Others(w), halted),
         NEW d \in Visited(w)
  PROVE  /\ Guess(d) \in Int /\ OnLattice(Guess(d))
         /\ -Reach <= Guess(d) /\ Guess(d) <= Reach
<1>1. d \in Depths /\ (d > 1 => d - 1 \in Depths /\ ~HasThreshold(w, d - 1))
  BY DEF Visited
<1>2. CASE d = 1
  <2>1. PICK g \in -MaxScore .. MaxScore :
          lowerBounds'[0] = g - GrainSize \div 2 /\ upperBounds'[0] = g + GrainSize \div 2
    BY DEF Lattice, RootBounds
  <2>2. /\ lowerBounds'[0] <= MaxScore /\ upperBounds'[0] >= -MaxScore
        /\ lowerBounds'[0] <= upperBounds'[0]
        /\ upperBounds'[0] <= lowerBounds'[0] + GrainSize
    BY <2>1
  <2>3. lowerBounds'[0] \in Int /\ upperBounds'[0] \in Int
    BY <2>1
  <2>4. upperBounds'[0] <= lowerBounds'[0] + Crowd
    BY <2>2, <2>3, ReachFacts
  <2> QED
    BY <1>1, <1>2, <2>2, <2>4, GuessWithinReach
<1>3. CASE d > 1
  <2> DEFINE c == d - 1
             low == lowerBounds'[c]
             high == upperBounds'[c]
  <2>1. c \in Depths /\ ~HasThreshold(w, c)
    BY <1>1, <1>3
  <2>2. low \in Int /\ high \in Int /\ low < high /\ Others(w) \in SUBSET Workers
    BY <2>1 DEF MergedBounds, BoundsOrdered, Others
  <2>3. /\ low # -Infty /\ high # Infty
        /\ \A t \in Open(lowerBounds', upperBounds', c) :
             \E v \in AsksAt(Others(w), c) : ~halted[v] /\ testValues[v] = t
    BY <2>1, PassedOver
  <2>4. high <= low + Crowd
    <3>1. \A t \in low + 1 .. high - 1 : OnLattice(t) =>
            \E v \in AsksAt(Others(w), c) : testValues[v] = t
      BY <2>3 DEF Open
    <3> QED
      BY <2>2, <3>1, Crowded
  <2>5. low <= MaxScore /\ high >= -MaxScore
    BY <2>1, <2>3 DEF Lattice, BoundsOnLattice
  <2>6. low <= high
    BY <2>2
  <2> QED
    BY <1>1, <2>4, <2>5, <2>6, GuessWithinReach
<1> QED
  BY <1>1, <1>2, <1>3

LEMMA AbsBounds ==
  ASSUME NEW x \in Int
  PROVE  /\ \A limit \in Int : -limit <= x /\ x <= limit => Abs(x) <= limit
         /\ x <= Abs(x) /\ -x <= Abs(x) /\ Abs(x) \in Int
BY DEF Abs

\* The thresholds a worker may be handed: a first guess at an untouched depth, or
\* the neighbour of a finite bound or question.  A step from an infinite bound
\* is never taken: the other side is always closer to the guess.
LEMMA ClaimKinds ==
  ASSUME TypeOK, MergedBounds, BoundsOrdered', NEW w \in Workers, NEW halted,
         Lattice(lowerBounds', upperBounds', Others(w), halted),
         Spacing(lowerBounds', upperBounds', Others(w)),
         NEW d \in Visited(w), HasThreshold(w, d), NEW t \in Candidates(w, d)
  PROVE  /\ t \in Int /\ OnLattice(t) /\ -Infty < t /\ t < Infty
         /\ \/ /\ AsksAt(Others(w), d) = {}
               /\ -Reach <= t /\ t <= Reach
            \/ /\ t < upperBounds'[d] /\ t - GrainSize # -Infty
               /\ t - GrainSize \in InFlight(w, d) \union {lowerBounds'[d]}
               /\ \A z \in InFlight(w, d) \union {lowerBounds'[d]} : z + GrainSize <= t
            \/ /\ t > lowerBounds'[d] /\ t + GrainSize # Infty
               /\ t + GrainSize \in InFlight(w, d) \union {upperBounds'[d]}
               /\ \A z \in InFlight(w, d) \union {upperBounds'[d]} : t + GrainSize <= z
<1> DEFINE low == lowerBounds'[d]
           high == upperBounds'[d]
           asked == InFlight(w, d)
           guess == Guess(d)
<1>0. d \in Depths
  BY DEF Visited
<1>1. low \in Int /\ high \in Int /\ low < high /\ Others(w) \in SUBSET Workers
  BY <1>0 DEF MergedBounds, BoundsOrdered, Others
<1>2. asked = {testValues[v] : v \in AsksAt(Others(w), d)}
  BY InFlightAsked
<1>3. \A z \in asked : z \in Int /\ OnLattice(z) /\ -Infty < z /\ z < Infty
  BY <1>0, <1>1, <1>2, AskedOnLattice DEF Lattice
<1>4. /\ low = -Infty \/ (OnLattice(low) /\ -Infty < low /\ low <= MaxScore)
      /\ high = Infty \/ (OnLattice(high) /\ high < Infty /\ -MaxScore <= high)
  BY <1>0 DEF Lattice, BoundsOnLattice
<1>5. Reach \in Int /\ Crowd \in Nat /\ Reach = MaxScore + Crowd + GrainSize + GrainSize
      /\ Infty > 3 * Reach + 2 * GrainSize
  BY ReachFacts
<1>6. guess \in Int /\ OnLattice(guess) /\ -Reach <= guess /\ guess <= Reach
  BY VisitedGuess
<1>7. t \in Int
  BY <1>0, CandidatesInt
<1>8. CASE stages[d] = "waiting" /\ t = guess
  <2>1. AsksAt(Others(w), d) = {}
    BY <1>0, <1>8 DEF Spacing, WaitingUntouched, AsksAt
  <2> QED
    BY <1>5, <1>6, <1>8, <2>1
<1>9. CASE /\ stages[d] = "searching" /\ t < high
           /\ t - GrainSize \in asked \union {low}
           /\ \A z \in asked \union {low} : z + GrainSize <= t
           /\ CanLower(w, d) => \A x \in Below(w, d) : Abs(t - guess) <= Abs(x - guess)
  <2>1. ASSUME t - GrainSize = -Infty PROVE FALSE
    <3>1. low = -Infty /\ \A z \in asked : FALSE
      BY <1>1, <1>3, <1>4, <1>7, <1>9, <2>1
    <3>2. AsksAt(Others(w), d) = {} /\ asked = {}
      <4>1. asked = {}
        BY <3>1
      <4>2. \A v \in AsksAt(Others(w), d) : testValues[v] \in asked
        BY <1>2
      <4> QED
        BY <4>1, <4>2
    <3>3. high # Infty
      BY <1>0, <1>9, <3>1, <3>2 DEF Lattice, Begun
    <3>4. high - GrainSize <= Reach
      <4>1. SUFFICES ASSUME high - GrainSize > Reach PROVE FALSE
        BY <1>1, <1>5
      <4>2. high - GrainSize \in Reach + 1 .. high - 1 /\ OnLattice(high - GrainSize)
        <5>1. high - GrainSize \in Reach + 1 .. high - 1
          BY <1>1, <1>5, <4>1
        <5> QED
          BY <1>1, <1>4, <3>3, <5>1, LatticeSteps
      <4>3. high <= high /\ high < Infty
        BY <1>1, <1>4, <3>3
      <4>4. \E v \in AsksAt(Others(w), d) : testValues[v] = high - GrainSize
        BY <1>0, <4>2, <4>3 DEF Lattice, Chained
      <4> QED
        BY <3>2, <4>4
    <3>5. high - GrainSize \in Below(w, d)
      BY <1>1, <3>2 DEF Below
    <3>6. high - GrainSize > low
      BY <1>1, <1>4, <1>5, <3>1, <3>3
    <3>7. CanLower(w, d)
      BY <3>5, <3>6 DEF CanLower
    <3>8. Abs(t - guess) <= Abs((high - GrainSize) - guess)
      BY <1>9, <3>5, <3>7
    <3> HIDE DEF high, guess
    <3>9. Abs((high - GrainSize) - guess) <= Reach + Reach
      <4>1. /\ -(Reach + Reach) <= (high - GrainSize) - guess
            /\ (high - GrainSize) - guess <= Reach + Reach
        BY <1>1, <1>4, <1>5, <1>6, <3>3, <3>4
      <4> QED
        BY <1>1, <1>5, <1>6, <4>1, AbsBounds
    <3>10. -(t - guess) <= Abs(t - guess) /\ Abs(t - guess) \in Int
      <4>1. t - guess \in Int
        BY <1>6, <1>7
      <4> QED
        BY <4>1, AbsBounds
    <3>11. Abs((high - GrainSize) - guess) \in Int
      BY <1>1, <1>6, AbsBounds
    <3> QED
      BY <1>5, <1>6, <1>7, <2>1, <3>8, <3>9, <3>10, <3>11
  <2>2. OnLattice(t - GrainSize) /\ t - GrainSize > -Infty
    BY <1>1, <1>3, <1>4, <1>9, <2>1
  <2>3. OnLattice(t)
    <3>1. t - GrainSize + GrainSize = t /\ t - GrainSize \in Int
      BY <1>7
    <3> QED
      BY <2>2, <3>1, LatticeSteps
  <2> QED
    BY <1>1, <1>4, <1>7, <1>9, <2>1, <2>2, <2>3
<1>10. CASE /\ stages[d] = "searching" /\ t > low
            /\ t + GrainSize \in asked \union {high}
            /\ \A z \in asked \union {high} : t + GrainSize <= z
            /\ CanRaise(w, d) => \A x \in Above(w, d) : Abs(x - guess) > Abs(t - guess)
  <2>1. ASSUME t + GrainSize = Infty PROVE FALSE
    <3>1. high = Infty /\ \A z \in asked : FALSE
      BY <1>1, <1>3, <1>4, <1>7, <1>10, <2>1
    <3>2. AsksAt(Others(w), d) = {} /\ asked = {}
      <4>1. asked = {}
        BY <3>1
      <4>2. \A v \in AsksAt(Others(w), d) : testValues[v] \in asked
        BY <1>2
      <4> QED
        BY <4>1, <4>2
    <3>3. low # -Infty
      BY <1>0, <1>10, <3>1, <3>2 DEF Lattice, Begun
    <3>4. low + GrainSize >= -Reach
      <4>1. SUFFICES ASSUME low + GrainSize < -Reach PROVE FALSE
        BY <1>1, <1>5
      <4>2. low + GrainSize \in low + 1 .. -Reach - 1 /\ OnLattice(low + GrainSize)
        <5>1. low + GrainSize \in low + 1 .. -Reach - 1
          BY <1>1, <1>5, <4>1
        <5> QED
          BY <1>1, <1>4, <3>3, <5>1, LatticeSteps
      <4>3. low >= low /\ low > -Infty
        BY <1>1, <1>4, <3>3
      <4>4. \E v \in AsksAt(Others(w), d) : testValues[v] = low + GrainSize
        BY <1>0, <4>2, <4>3 DEF Lattice, Chained
      <4> QED
        BY <3>2, <4>4
    <3>5. low + GrainSize \in Above(w, d)
      BY <1>1, <3>2 DEF Above
    <3>6. low + GrainSize < high
      BY <1>1, <1>4, <1>5, <3>1, <3>3
    <3>7. CanRaise(w, d)
      BY <3>5, <3>6 DEF CanRaise
    <3>8. Abs((low + GrainSize) - guess) > Abs(t - guess)
      <4>1. \A x \in Above(w, d) : Abs(x - guess) > Abs(t - guess)
        BY <1>10, <3>7
      <4> HIDE DEF guess, low
      <4> QED
        BY <3>5, <4>1
    <3> HIDE DEF low, guess
    <3>9. Abs((low + GrainSize) - guess) <= Reach + Reach
      <4>1. /\ -(Reach + Reach) <= (low + GrainSize) - guess
            /\ (low + GrainSize) - guess <= Reach + Reach
        BY <1>1, <1>4, <1>5, <1>6, <3>3, <3>4
      <4> QED
        BY <1>1, <1>5, <1>6, <4>1, AbsBounds
    <3>10. t - guess <= Abs(t - guess) /\ Abs(t - guess) \in Int
      <4>1. t - guess \in Int
        BY <1>6, <1>7
      <4> QED
        BY <4>1, AbsBounds
    <3>11. Abs((low + GrainSize) - guess) \in Int
      BY <1>1, <1>6, AbsBounds
    <3> QED
      BY <1>5, <1>6, <1>7, <2>1, <3>8, <3>9, <3>10, <3>11
  <2>2. OnLattice(t + GrainSize) /\ t + GrainSize < Infty
    BY <1>1, <1>3, <1>4, <1>10, <2>1
  <2>3. OnLattice(t)
    <3>1. PICK y \in Int : y = t + GrainSize
      BY <1>7
    <3>2. OnLattice(y - GrainSize) /\ y - GrainSize = t
      BY <1>7, <2>2, <3>1, LatticeSteps
    <3> QED
      BY <3>2
  <2> QED
    BY <1>1, <1>4, <1>7, <1>10, <2>1, <2>2, <2>3
<1> HIDE DEF low, high, asked, guess
<1> QED
  BY <1>0, <1>8, <1>9, <1>10, CandidateKinds DEF low, high, asked, guess

\* A neighbour of what is known or asked leaves no gap.
LEMMA ClaimGapless ==
  ASSUME TypeOK, MergedBounds, BoundsOrdered', NEW w \in Workers, NEW halted,
         Lattice(lowerBounds', upperBounds', Others(w), halted),
         Spacing(lowerBounds', upperBounds', Others(w)),
         NEW d \in Visited(w), HasThreshold(w, d), NEW t \in Candidates(w, d),
         NEW x \in Open(lowerBounds', upperBounds', d)
  PROVE  \/ x = t \/ \E v \in AsksAt(Others(w), d) : testValues[v] = x
         \/ t < x /\ \A v \in AsksAt(Others(w), d) : testValues[v] < x
         \/ t > x /\ \A v \in AsksAt(Others(w), d) : testValues[v] > x
<1> DEFINE low == lowerBounds'[d]
           high == upperBounds'[d]
           crew == AsksAt(Others(w), d)
<1>0. d \in Depths
  BY DEF Visited
<1>1. low \in Int /\ high \in Int
  BY <1>0 DEF MergedBounds
<1>2. x \in Int /\ OnLattice(x) /\ low < x /\ x < high
  BY <1>1 DEF Open
<1>3. t \in Int /\ OnLattice(t)
  BY ClaimKinds
<1>4. \A v \in crew : testValues[v] \in Int /\ testValues[v] \in InFlight(w, d)
  BY InFlightAsked DEF TypeOK, AsksAt, Others
<1>5. CASE crew = {}
  BY <1>2, <1>3, <1>5
<1>6. CASE /\ t - GrainSize \in InFlight(w, d) \union {low}
           /\ \A z \in InFlight(w, d) \union {low} : z + GrainSize <= t
  <2>1. CASE \A v \in crew : testValues[v] < x
    <3>1. t - GrainSize < x
      BY <1>2, <1>6, <2>1, InFlightAsked
    <3>2. t <= x
      <4>1. SUFFICES ASSUME x < t PROVE FALSE
        BY <1>2, <1>3
      <4>2. x + GrainSize <= t
        BY <1>2, <1>3, <4>1, LatticeApart
      <4> QED
        BY <1>2, <1>3, <3>1, <4>2
    <3> QED
      BY <1>2, <1>3, <2>1, <3>2
  <2>2. CASE \A v \in crew : testValues[v] > x
    <3>1. CASE crew = {}
      BY <1>5, <3>1
    <3>2. ASSUME NEW v \in crew PROVE t > x
      BY <1>2, <1>3, <1>4, <1>6, <2>2
    <3> QED
      BY <2>2, <3>1, <3>2
  <2> QED
    BY <1>0, <2>1, <2>2 DEF Lattice, Gapless
<1>7. CASE /\ t + GrainSize \in InFlight(w, d) \union {high}
           /\ \A z \in InFlight(w, d) \union {high} : t + GrainSize <= z
  <2>1. CASE \A v \in crew : testValues[v] > x
    <3>1. t + GrainSize > x
      BY <1>2, <1>7, <2>1, InFlightAsked
    <3>2. t >= x
      <4>1. SUFFICES ASSUME t < x PROVE FALSE
        BY <1>2, <1>3
      <4>2. t + GrainSize <= x
        BY <1>2, <1>3, <4>1, LatticeApart
      <4> QED
        BY <1>2, <1>3, <3>1, <4>2
    <3> QED
      BY <1>2, <1>3, <2>1, <3>2
  <2>2. CASE \A v \in crew : testValues[v] < x
    <3>1. CASE crew = {}
      BY <1>5, <3>1
    <3>2. ASSUME NEW v \in crew PROVE t < x
      BY <1>2, <1>3, <1>4, <1>7, <2>2
    <3> QED
      BY <2>2, <3>1, <3>2
  <2> QED
    BY <1>0, <2>1, <2>2 DEF Lattice, Gapless
<1> QED
  BY <1>5, <1>6, <1>7, ClaimKinds

\* Nor does it leave the chain of questions that leads back within reach of zero.
LEMMA ClaimChained ==
  ASSUME TypeOK, MergedBounds, BoundsOrdered', NEW w \in Workers, NEW halted,
         Lattice(lowerBounds', upperBounds', Others(w), halted),
         Spacing(lowerBounds', upperBounds', Others(w)),
         NEW d \in Visited(w), HasThreshold(w, d), NEW t \in Candidates(w, d),
         NEW x \in Int, OnLattice(x)
  PROVE  /\ t <= upperBounds'[d] /\ Reach < x /\ x < t =>
              \E v \in AsksAt(Others(w), d) : testValues[v] = x
         /\ t >= lowerBounds'[d] /\ t < x /\ x < -Reach =>
              \E v \in AsksAt(Others(w), d) : testValues[v] = x
<1> DEFINE low == lowerBounds'[d]
           high == upperBounds'[d]
           crew == AsksAt(Others(w), d)
<1>0. d \in Depths
  BY DEF Visited
<1>1. low \in Int /\ high \in Int /\ low < high
  BY <1>0 DEF MergedBounds, BoundsOrdered
<1>2. t \in Int /\ OnLattice(t) /\ -Infty < t /\ t < Infty
  BY ClaimKinds
<1>3. InFlight(w, d) = {testValues[v] : v \in crew}
  BY InFlightAsked
<1>4. \A z \in InFlight(w, d) : z \in Int /\ -Infty < z /\ z < Infty
  <2>1. Others(w) \in SUBSET Workers
    BY DEF Others
  <2> QED
    BY <1>0, <1>3, <2>1, AskedOnLattice DEF Lattice
<1>5. /\ low = -Infty \/ (-Infty < low /\ low <= MaxScore)
      /\ high = Infty \/ (high < Infty /\ -MaxScore <= high)
  BY <1>0 DEF Lattice, BoundsOnLattice
<1>6. Reach \in Int /\ MaxScore <= Reach /\ Reach < Infty
  BY ReachFacts
<1>7. \A y \in InFlight(w, d) \union {high} :
        y <= high /\ y < Infty /\ Reach < x /\ x < y => \E v \in crew : testValues[v] = x
  <2> SUFFICES ASSUME NEW y \in InFlight(w, d) \union {high},
                      y <= high, y < Infty, Reach < x, x < y
               PROVE  \E v \in crew : testValues[v] = x
    OBVIOUS
  <2>1. x \in Reach + 1 .. y - 1
    BY <1>1, <1>4, <1>6
  <2> QED
    BY <1>0, <1>3, <2>1 DEF Lattice, Chained
<1>8. \A y \in InFlight(w, d) \union {low} :
        y >= low /\ y > -Infty /\ x < -Reach /\ y < x => \E v \in crew : testValues[v] = x
  <2> SUFFICES ASSUME NEW y \in InFlight(w, d) \union {low},
                      y >= low, y > -Infty, x < -Reach, y < x
               PROVE  \E v \in crew : testValues[v] = x
    OBVIOUS
  <2>1. x \in y + 1 .. -Reach - 1
    BY <1>1, <1>4, <1>6
  <2> QED
    BY <1>0, <1>3, <2>1 DEF Lattice, Chained
<1>9. CASE -Reach <= t /\ t <= Reach
  BY <1>2, <1>6, <1>9
<1>10. CASE /\ t < high /\ t - GrainSize # -Infty
            /\ t - GrainSize \in InFlight(w, d) \union {low}
            /\ \A z \in InFlight(w, d) \union {low} : z + GrainSize <= t
  <2> DEFINE y == t - GrainSize
  <2>1. y \in Int /\ y < t /\ y < high /\ y > -Infty
    BY <1>1, <1>2, <1>4, <1>5, <1>10
  <2>2. ASSUME Reach < x, x < t PROVE \E v \in crew : testValues[v] = x
    <3>1. x + GrainSize <= t
      BY <1>2, <2>2, LatticeApart
    <3>2. y \in InFlight(w, d)
      BY <1>1, <1>2, <1>5, <1>6, <1>10, <2>2, <3>1
    <3>3. CASE x = y
      BY <1>3, <3>2, <3>3
    <3>4. CASE x < y
      BY <1>1, <1>4, <1>7, <2>1, <2>2, <3>2, <3>4
    <3> QED
      BY <1>2, <3>1, <3>3, <3>4
  <2>3. ASSUME t < x, x < -Reach PROVE \E v \in crew : testValues[v] = x
    <3>1. \A z \in InFlight(w, d) \union {low} : z + GrainSize <= t
      BY <1>10
    <3>2. y >= low
      <4>1. low + GrainSize <= t
        BY <1>10
      <4> QED
        BY <1>1, <1>2, <4>1
    <3>3. \E v \in crew : testValues[v] = t
      <4>1. t < -Reach
        BY <1>2, <1>6, <2>3
      <4>2. t \in y + 1 .. -Reach - 1
        BY <1>2, <1>6, <4>1
      <4> QED
        BY <1>0, <1>2, <1>3, <1>10, <2>1, <3>2, <4>2 DEF Lattice, Chained
    <3>4. t \in InFlight(w, d)
      BY <1>3, <3>3
    <3>5. t + GrainSize <= t
      BY <3>1, <3>4
    <3> QED
      BY <1>2, <3>5
  <2> QED
    BY <2>2, <2>3
<1>11. CASE /\ t > low /\ t + GrainSize # Infty
            /\ t + GrainSize \in InFlight(w, d) \union {high}
            /\ \A z \in InFlight(w, d) \union {high} : t + GrainSize <= z
  <2> DEFINE y == t + GrainSize
  <2>1. y \in Int /\ t < y /\ low < y /\ y < Infty
    BY <1>1, <1>2, <1>4, <1>5, <1>11
  <2>2. ASSUME t < x, x < -Reach PROVE \E v \in crew : testValues[v] = x
    <3>1. t + GrainSize <= x
      BY <1>2, <2>2, LatticeApart
    <3>2. y \in InFlight(w, d)
      BY <1>1, <1>2, <1>5, <1>6, <1>11, <2>2, <3>1
    <3>3. CASE x = y
      BY <1>3, <3>2, <3>3
    <3>4. CASE y < x
      BY <1>1, <1>4, <1>8, <2>1, <2>2, <3>2, <3>4
    <3> QED
      BY <1>2, <3>1, <3>3, <3>4
  <2>3. ASSUME Reach < x, x < t PROVE \E v \in crew : testValues[v] = x
    <3>1. \A z \in InFlight(w, d) \union {high} : t + GrainSize <= z
      BY <1>11
    <3>2. y <= high
      BY <1>11
    <3>3. \E v \in crew : testValues[v] = t
      <4>1. t > Reach
        BY <1>2, <1>6, <2>3
      <4>2. t \in Reach + 1 .. y - 1
        BY <1>2, <1>6, <4>1
      <4> QED
        BY <1>0, <1>2, <1>3, <1>11, <2>1, <3>2, <4>2 DEF Lattice, Chained
    <3>4. t \in InFlight(w, d)
      BY <1>3, <3>3
    <3>5. t + GrainSize <= t
      BY <3>1, <3>4
    <3> QED
      BY <1>2, <3>5
  <2> QED
    BY <2>2, <2>3
<1> QED
  BY <1>9, <1>10, <1>11, ClaimKinds

\* The stages a scan leaves keep the order of the depths and the open thresholds asked.
LEMMA ScanSettles ==
  ASSUME TypeOK, MergedBounds, NEW w \in Workers, NEW halted,
         Lattice(lowerBounds', upperBounds', Others(w), halted), Scan(w, halted)
  PROVE  /\ InOrder'
         /\ \A d \in Depths : stages'[d] \in Resting =>
              /\ lowerBounds'[d] # -Infty /\ upperBounds'[d] # Infty
              /\ \A t \in Open(lowerBounds', upperBounds', d) :
                   \E v \in AsksAt(Others(w), d) : ~halted[v] /\ testValues[v] = t
         /\ \A d \in Depths : stages'[d] # "waiting" =>
              stages[d] # "waiting" \/ (d \in Visited(w) /\ HasThreshold(w, d))
<1>1. \A d \in Depths : stages'[d] =
        IF d \in Visited(w) THEN ScannedStage(w, d) ELSE stages[d]
  BY ScanStages
<1>2. \A d \in Depths : stages[d] \in Resting => stages'[d] \in Resting
  BY <1>1 DEF ScannedStage, HasThreshold, Resting
<1>3. InOrder'
  <2> SUFFICES ASSUME NEW c \in Depths, NEW d \in Depths, c < d, stages'[d] # "waiting"
               PROVE  stages'[c] \in Resting
    BY DEF InOrder
  <2>1. CASE stages[d] # "waiting"
    BY <1>2, <2>1 DEF Lattice, InOrder
  <2>2. CASE stages[d] = "waiting"
    <3>1. d \in Visited(w)
      BY <1>1, <2>2
    <3>2. c \in Visited(w) /\ ~HasThreshold(w, c)
      BY <3>1 DEF Visited
    <3> QED
      BY <1>1, <3>2, PassedOver
  <2> QED
    BY <2>1, <2>2
<1>4. ASSUME NEW d \in Depths, stages'[d] \in Resting
      PROVE  /\ lowerBounds'[d] # -Infty /\ upperBounds'[d] # Infty
             /\ \A t \in Open(lowerBounds', upperBounds', d) :
                  \E v \in AsksAt(Others(w), d) : ~halted[v] /\ testValues[v] = t
  <2>1. CASE stages[d] \in Resting
    BY <1>4, <2>1 DEF Lattice, AllAsked
  <2>2. CASE stages[d] \notin Resting
    <3>1. ScannedStage(w, d) \in Resting
      BY <1>1, <1>4, <2>2
    <3>2. ~HasThreshold(w, d)
      BY <3>1 DEF ScannedStage, Resting
    <3> QED
      BY <3>2, PassedOver
  <2> QED
    BY <2>1, <2>2
<1>5. \A d \in Depths : stages'[d] # "waiting" =>
        stages[d] # "waiting" \/ (d \in Visited(w) /\ HasThreshold(w, d))
  BY <1>1 DEF HasThreshold
<1> QED
  BY <1>3, <1>4, <1>5

\* A worker that leaves without work takes nothing from the lattice.
LEMMA LeaveLattice ==
  ASSUME TypeOK, MergedBounds, NEW w \in Workers, NEW halted \in [Workers -> BOOLEAN],
         Lattice(lowerBounds', upperBounds', Others(w), halted), NoWork(w, halted),
         UNCHANGED stages \/ (Scan(w, halted) /\ \A d \in Visited(w) : ~HasThreshold(w, d))
  PROVE  Lattice(lowerBounds, upperBounds, Workers, stopped)'
<1>1. /\ depths' = [depths EXCEPT ![w] = NoDepth] /\ testValues' = testValues
      /\ stopped' = halted
  BY DEF NoWork
<1>2. /\ \A v \in Workers : v # w => depths'[v] = depths[v]
      /\ depths'[w] \notin Depths
  BY <1>1 DEF TypeOK
<1>3. ASSUME NEW d \in Depths PROVE AsksAt(Workers, d)' = AsksAt(Others(w), d)
  BY <1>2 DEF AsksAt, Others
<1>4. /\ RootBounds(lowerBounds, upperBounds)' /\ BoundsOnLattice(lowerBounds, upperBounds)'
      /\ Gapless(lowerBounds, upperBounds, Workers)'
      /\ Chained(lowerBounds, upperBounds, Workers)'
  <2>1. RootBounds(lowerBounds, upperBounds)' /\ BoundsOnLattice(lowerBounds, upperBounds)'
    BY DEF Lattice, RootBounds, BoundsOnLattice
  <2>2. Gapless(lowerBounds, upperBounds, Workers)'
    BY <1>1, <1>3 DEF Lattice, Gapless, Open
  <2>3. Chained(lowerBounds, upperBounds, Workers)'
    BY <1>1, <1>3 DEF Lattice, Chained
  <2> QED
    BY <2>1, <2>2, <2>3
<1>5. /\ QuestionsOnLattice(Workers)'
      /\ CancelledOutside(lowerBounds, upperBounds, Workers, stopped)'
  BY <1>1, <1>2 DEF Lattice, QuestionsOnLattice, CancelledOutside, Others
<1>6. CASE UNCHANGED stages
  BY <1>1, <1>3, <1>4, <1>5, <1>6 DEF Lattice, InOrder, Begun, AllAsked, Open
<1>7. CASE Scan(w, halted) /\ \A d \in Visited(w) : ~HasThreshold(w, d)
  <2>1. InOrder'
    BY <1>7, ScanSettles
  <2>2. Begun(lowerBounds, upperBounds, Workers)'
    BY <1>3, <1>7, ScanSettles DEF Lattice, Begun
  <2>3. AllAsked(lowerBounds, upperBounds, Workers, stopped)'
    BY <1>1, <1>3, <1>7, ScanSettles DEF AllAsked, Open
  <2> QED
    BY <1>4, <1>5, <2>1, <2>2, <2>3 DEF Lattice
<1> QED
  BY <1>6, <1>7

LEMMA ClaimLattice ==
  ASSUME TypeOK, MergedBounds, BoundsOrdered', NEW w \in Workers,
         NEW halted \in [Workers -> BOOLEAN],
         Lattice(lowerBounds', upperBounds', Others(w), halted),
         Spacing(lowerBounds', upperBounds', Others(w)), Scan(w, halted),
         NEW d \in Visited(w), HasThreshold(w, d), ClaimAt(w, d, halted)
  PROVE  Lattice(lowerBounds, upperBounds, Workers, stopped)'
<1>0. d \in Depths
  BY DEF Visited
<1>1. PICK t \in Candidates(w, d) : testValues' = [testValues EXCEPT ![w] = t]
  BY DEF ClaimAt
<1>2. /\ depths'[w] = d /\ testValues'[w] = t /\ stopped'[w] = FALSE
      /\ \A v \in Others(w) : /\ depths'[v] = depths[v] /\ testValues'[v] = testValues[v]
                              /\ stopped'[v] = halted[v]
  BY <1>0, <1>1 DEF ClaimAt, TypeOK, Others
<1>3. t \in Int /\ OnLattice(t) /\ -Infty < t /\ t < Infty
  BY ClaimKinds
<1>4. /\ AsksAt(Workers, d)' = AsksAt(Others(w), d) \union {w}
      /\ \A c \in Depths : c # d => AsksAt(Workers, c)' = AsksAt(Others(w), c)
  BY <1>2 DEF AsksAt, Others
<1>5. \A c : \A v \in AsksAt(Others(w), c) : v \in Others(w) /\ testValues'[v] = testValues[v]
                                             /\ stopped'[v] = halted[v]
  BY <1>2 DEF AsksAt
<1>6. \A c \in Depths : \A y \in {testValues'[v] : v \in AsksAt(Workers, c)'} :
         y \in {testValues[v] : v \in AsksAt(Others(w), c)} \/ (c = d /\ y = t)
  <2> SUFFICES ASSUME NEW c \in Depths, NEW v \in AsksAt(Workers, c)'
               PROVE  v \in AsksAt(Others(w), c) \/ (c = d /\ v = w)
    BY <1>2, <1>5
  <2> QED
    BY <1>4
<1>7. RootBounds(lowerBounds, upperBounds)' /\ BoundsOnLattice(lowerBounds, upperBounds)'
  BY DEF Lattice, RootBounds, BoundsOnLattice
<1>8. QuestionsOnLattice(Workers)'
  <2> SUFFICES ASSUME NEW v \in Workers, depths'[v] \in Depths
               PROVE  (OnLattice(testValues[v]) /\ -Infty < testValues[v] /\ testValues[v] < Infty)'
    BY DEF QuestionsOnLattice
  <2>1. CASE v = w
    BY <1>2, <1>3, <2>1 DEF OnLattice
  <2>2. CASE v # w
    BY <1>2, <2>2 DEF Lattice, QuestionsOnLattice, Others, OnLattice
  <2> QED
    BY <2>1, <2>2
<1>9. CancelledOutside(lowerBounds, upperBounds, Workers, stopped)'
  BY <1>2 DEF Lattice, CancelledOutside, Others
<1>10. InOrder'
  BY ScanSettles
<1>11. Begun(lowerBounds, upperBounds, Workers)'
  <2> SUFFICES ASSUME NEW c \in Depths, stages'[c] # "waiting",
                      lowerBounds'[c] = -Infty, upperBounds'[c] = Infty
               PROVE  AsksAt(Workers, c)' # {}
    BY DEF Begun
  <2>1. CASE c = d
    BY <1>4, <2>1
  <2>2. CASE c # d
    <3>1. ~(c \in Visited(w) /\ HasThreshold(w, c))
      BY <1>0, <2>2 DEF Visited
    <3>2. stages[c] # "waiting"
      BY <3>1, ScanSettles
    <3> QED
      BY <1>4, <2>2, <3>2 DEF Lattice, Begun
  <2> QED
    BY <2>1, <2>2
<1>12. Gapless(lowerBounds, upperBounds, Workers)'
  <2> SUFFICES ASSUME NEW c \in Depths, NEW x \in Open(lowerBounds', upperBounds', c)
               PROVE  \/ \E v \in AsksAt(Workers, c)' : testValues'[v] = x
                      \/ \A v \in AsksAt(Workers, c)' : testValues'[v] < x
                      \/ \A v \in AsksAt(Workers, c)' : testValues'[v] > x
    BY DEF Gapless, Open, OnLattice
  <2>1. CASE c = d
    <3>1. \/ x = t \/ \E v \in AsksAt(Others(w), d) : testValues[v] = x
          \/ t < x /\ \A v \in AsksAt(Others(w), d) : testValues[v] < x
          \/ t > x /\ \A v \in AsksAt(Others(w), d) : testValues[v] > x
      BY <2>1, ClaimGapless
    <3> QED
      BY <1>2, <1>4, <1>5, <2>1, <3>1
  <2>2. CASE c # d
    BY <1>4, <1>5, <2>2 DEF Lattice, Gapless
  <2> QED
    BY <2>1, <2>2
<1>13. Chained(lowerBounds, upperBounds, Workers)'
  <2> SUFFICES ASSUME NEW c \in Depths
               PROVE  /\ \A y \in {testValues'[v] : v \in AsksAt(Workers, c)'} \union {upperBounds'[c]} :
                           y <= upperBounds'[c] /\ y < Infty =>
                             \A x \in Reach + 1 .. y - 1 :
                               OnLattice(x) => \E v \in AsksAt(Workers, c)' : testValues'[v] = x
                      /\ \A y \in {testValues'[v] : v \in AsksAt(Workers, c)'} \union {lowerBounds'[c]} :
                           y >= lowerBounds'[c] /\ y > -Infty =>
                             \A x \in y + 1 .. -Reach - 1 :
                               OnLattice(x) => \E v \in AsksAt(Workers, c)' : testValues'[v] = x
    BY DEF Chained, OnLattice
  <2>0. Reach \in Int
    BY ReachFacts
  <2>1. ASSUME NEW x, \E v \in AsksAt(Others(w), c) : testValues[v] = x
        PROVE  \E v \in AsksAt(Workers, c)' : testValues'[v] = x
    BY <1>4, <1>5, <2>1
  <2>2. ASSUME NEW y \in {testValues'[v] : v \in AsksAt(Workers, c)'} \union {upperBounds'[c]},
               y <= upperBounds'[c], y < Infty, NEW x \in Reach + 1 .. y - 1, OnLattice(x)
        PROVE  \E v \in AsksAt(Others(w), c) : testValues[v] = x
    <3>0. \/ y \in {testValues[v] : v \in AsksAt(Others(w), c)} \union {upperBounds'[c]}
          \/ c = d /\ y = t
      BY <1>6, <2>2
    <3>1. CASE y \in {testValues[v] : v \in AsksAt(Others(w), c)} \union {upperBounds'[c]}
      BY <2>2, <3>1 DEF Lattice, Chained
    <3>2. CASE c = d /\ y = t
      <4>1. x \in Int /\ Reach < x /\ x < t
        BY <1>3, <2>0, <2>2, <3>2
      <4> QED
        BY <2>2, <3>2, <4>1, ClaimChained
    <3> QED
      BY <3>0, <3>1, <3>2
  <2>3. ASSUME NEW y \in {testValues'[v] : v \in AsksAt(Workers, c)'} \union {lowerBounds'[c]},
               y >= lowerBounds'[c], y > -Infty, NEW x \in y + 1 .. -Reach - 1, OnLattice(x)
        PROVE  \E v \in AsksAt(Others(w), c) : testValues[v] = x
    <3>0. \/ y \in {testValues[v] : v \in AsksAt(Others(w), c)} \union {lowerBounds'[c]}
          \/ c = d /\ y = t
      BY <1>6, <2>3
    <3>1. CASE y \in {testValues[v] : v \in AsksAt(Others(w), c)} \union {lowerBounds'[c]}
      BY <2>3, <3>1 DEF Lattice, Chained
    <3>2. CASE c = d /\ y = t
      <4>1. x \in Int /\ t < x /\ x < -Reach
        BY <1>3, <2>0, <2>3, <3>2
      <4> QED
        BY <2>3, <3>2, <4>1, ClaimChained
    <3> QED
      BY <3>0, <3>1, <3>2
  <2> QED
    BY <2>1, <2>2, <2>3
<1>14. AllAsked(lowerBounds, upperBounds, Workers, stopped)'
  <2> SUFFICES ASSUME NEW c \in Depths, stages'[c] \in Resting
               PROVE  /\ lowerBounds'[c] # -Infty /\ upperBounds'[c] # Infty
                      /\ \A x \in Open(lowerBounds', upperBounds', c) :
                           \E v \in AsksAt(Workers, c)' : ~stopped'[v] /\ testValues'[v] = x
    BY DEF AllAsked, Open, OnLattice, Resting
  <2>1. /\ lowerBounds'[c] # -Infty /\ upperBounds'[c] # Infty
        /\ \A x \in Open(lowerBounds', upperBounds', c) :
             \E v \in AsksAt(Others(w), c) : ~halted[v] /\ testValues[v] = x
    BY ScanSettles
  <2> QED
    BY <1>4, <1>5, <2>1
<1> QED
  BY <1>7, <1>8, <1>9, <1>10, <1>11, <1>12, <1>13, <1>14 DEF Lattice

LEMMA NextSearchLattice ==
  ASSUME TypeOK, MergedBounds, BoundsOrdered', NEW w \in Workers,
         NEW halted \in [Workers -> BOOLEAN],
         Lattice(lowerBounds', upperBounds', Others(w), halted),
         Spacing(lowerBounds', upperBounds', Others(w)), NextSearch(w, halted),
         ~searchDone'
  PROVE  Lattice(lowerBounds, upperBounds, Workers, stopped)'
<1>1. CASE UNCHANGED stages /\ NoWork(w, halted)
  BY <1>1, LeaveLattice
<1>2. CASE /\ Scan(w, halted) /\ NoWork(w, halted)
           /\ \A d \in Visited(w) : ~HasThreshold(w, d) /\ ~Decides(w, d)
  BY <1>2, LeaveLattice
<1>3. ASSUME Scan(w, halted), NEW d \in Visited(w), HasThreshold(w, d), ClaimAt(w, d, halted)
      PROVE  Lattice(lowerBounds, upperBounds, Workers, stopped)'
  BY <1>3, ClaimLattice
<1>4. CASE Scan(w, halted)
  BY <1>2, <1>3, <1>4 DEF Scan
<1> QED
  BY <1>1, <1>4 DEF NextSearch, progress

\* A worker that has not begun asks nothing.
IdleAsksNothing ==
  \A w \in Workers : pc[w] \in {"unspawned", "starting"} => depths[w] = NoDepth

LEMMA IdleStep == TypeOK /\ IdleAsksNothing /\ [Next]_vars => IdleAsksNothing'
<1> SUFFICES ASSUME TypeOK, IdleAsksNothing, [Next]_vars PROVE IdleAsksNothing'
  OBVIOUS
<1>1. ASSUME NEW w \in Workers, NEW halted, NextSearch(w, halted) PROVE IdleAsksNothing'
  <2>1. ASSUME NEW d, ClaimAt(w, d, halted) PROVE IdleAsksNothing'
    BY <2>1 DEF ClaimAt, IdleAsksNothing, TypeOK
  <2>2. ASSUME NEW all, NoWork(w, all) PROVE IdleAsksNothing'
    BY <2>2 DEF NoWork, IdleAsksNothing, TypeOK
  <2> QED
    BY <1>1, <2>1, <2>2 DEF NextSearch, Scan
<1>2. ASSUME NEW w \in Workers, StartWorker(w) PROVE IdleAsksNothing'
  BY <1>1, <1>2 DEF StartWorker
<1>3. ASSUME NEW w \in Workers, MergeAndContinue(w) PROVE IdleAsksNothing'
  BY <1>1, <1>3 DEF MergeAndContinue
<1>4. ASSUME NEW w \in Workers, DeliverProgress(w) PROVE IdleAsksNothing'
  BY <1>4 DEF DeliverProgress, IdleAsksNothing, TypeOK
<1>5. ASSUME NEW w \in Workers, NEW answer, FinishProbe(w, answer) PROVE IdleAsksNothing'
  BY <1>5 DEF FinishProbe, IdleAsksNothing, TypeOK
<1>6. CASE UNCHANGED <<pc, depths>>
  BY <1>6 DEF IdleAsksNothing
<1> QED
  BY <1>2, <1>3, <1>4, <1>5, <1>6 DEF Next, Worker, CompleteProbe, CancelProbe,
     RequestStop, StopSearches, ClockExpires, Terminated, vars

LEMMA FreshLattice == Fresh => LatticeInv
<1> SUFFICES ASSUME Fresh PROVE Lattice(lowerBounds, upperBounds, Workers, stopped)
  BY DEF LatticeInv
<1>1. PICK guess \in -MaxScore .. MaxScore : /\ lowerBounds = Prepared(guess).lower
                                             /\ upperBounds = Prepared(guess).upper
  BY DEF Fresh
<1>2. /\ lowerBounds[0] = guess - GrainSize \div 2 /\ upperBounds[0] = guess + GrainSize \div 2
      /\ \A d \in Depths : lowerBounds[d] = -Infty /\ upperBounds[d] = Infty
  BY <1>1 DEF Prepared
<1>3. /\ \A d \in Depths : stages[d] = "waiting"
      /\ \A w \in Workers : depths[w] = NoDepth
  BY DEF Fresh
<1>4. \A d \in Depths : AsksAt(Workers, d) = {}
  BY <1>3 DEF AsksAt
<1>6. RootBounds(lowerBounds, upperBounds)
  BY <1>2 DEF RootBounds
<1>7. /\ BoundsOnLattice(lowerBounds, upperBounds) /\ QuestionsOnLattice(Workers)
      /\ CancelledOutside(lowerBounds, upperBounds, Workers, stopped)
      /\ Begun(lowerBounds, upperBounds, Workers) /\ InOrder
      /\ AllAsked(lowerBounds, upperBounds, Workers, stopped)
  BY <1>2, <1>3 DEF BoundsOnLattice, QuestionsOnLattice, CancelledOutside, Begun, InOrder,
     AllAsked, Resting
<1>8. Gapless(lowerBounds, upperBounds, Workers)
  BY <1>4 DEF Gapless
<1>9. Chained(lowerBounds, upperBounds, Workers)
  BY <1>2, <1>4 DEF Chained
<1> QED
  BY <1>6, <1>7, <1>8, <1>9 DEF Lattice

SchedulerInv ==
  /\ TypeOK /\ TruthInv /\ BoundsOrdered /\ DoneStopsAll
  /\ SpacingInv /\ IdleAsksNothing /\ LatticeInv

\* The state between the merge and the scan of one critical section: the worker's own
\* question no longer counts, and the bounds are the new ones.
Midway(w, halted) ==
  /\ MergedBounds /\ BoundsOrdered'
  /\ halted \in [Workers -> BOOLEAN]
  /\ Spacing(lowerBounds', upperBounds', Others(w))
  /\ Lattice(lowerBounds', upperBounds', Others(w), halted)
  /\ NextSearch(w, halted)

LEMMA StartMidway ==
  ASSUME SchedulerInv, NEW w \in Workers, StartWorker(w), ~searchDone
  PROVE  Midway(w, stopped)
<1> USE DEF SchedulerInv
<1>1. /\ lowerBounds' = lowerBounds /\ upperBounds' = upperBounds
      /\ NextSearch(w, stopped) /\ depths[w] = NoDepth
  BY DEF StartWorker, bounds, IdleAsksNothing
<1>2. MergedBounds
  BY DEF StartWorker, bounds, TypeOK, MergedBounds
<1>3. Spacing(lowerBounds', upperBounds', Others(w))
  BY <1>1 DEF SpacingInv, Spacing, QuestionsApart, RoomInside, WaitingUntouched,
     CompletePinned, Others
<1>4. \A d \in Depths : AsksAt(Others(w), d) = AsksAt(Workers, d)
  BY <1>1 DEF AsksAt, Others
<1>5. Lattice(lowerBounds', upperBounds', Others(w), stopped)
  <2>1. Lattice(lowerBounds', upperBounds', Workers, stopped)
    BY <1>1 DEF LatticeInv
  <2>2. /\ QuestionsOnLattice(Others(w))
        /\ CancelledOutside(lowerBounds', upperBounds', Others(w), stopped)
    BY <2>1 DEF Lattice, QuestionsOnLattice, CancelledOutside, Others
  <2>3. /\ Begun(lowerBounds', upperBounds', Others(w))
        /\ Gapless(lowerBounds', upperBounds', Others(w))
        /\ Chained(lowerBounds', upperBounds', Others(w))
        /\ AllAsked(lowerBounds', upperBounds', Others(w), stopped)
    BY <1>4, <2>1 DEF Lattice, Begun, Gapless, Chained, AllAsked
  <2> QED
    BY <2>1, <2>2, <2>3 DEF Lattice
<1>6. BoundsOrdered'
  BY <1>1 DEF BoundsOrdered
<1> QED
  BY <1>1, <1>2, <1>3, <1>5, <1>6 DEF Midway, TypeOK

LEMMA MergeMidway ==
  ASSUME SchedulerInv, NEW w \in Workers, MergeAndContinue(w), ~searchDone
  PROVE  Midway(w, [v \in Workers |-> stopped[v] \/ Outlier(w, v)])
<1> USE DEF SchedulerInv
<1> DEFINE halted == [v \in Workers |-> stopped[v] \/ Outlier(w, v)]
<1>1. pc[w] = "answered" /\ MergeAnswer(w) /\ NextSearch(w, halted)
  BY DEF MergeAndContinue
<1>2. MergedBounds /\ BoundsOrdered' /\ Spacing(lowerBounds', upperBounds', Others(w))
  BY <1>1, MergeTypes, MergeOrdered, MergeSpacing
<1>3. halted \in [Workers -> BOOLEAN]
  BY DEF TypeOK, Outlier
<1>4. \A v \in Workers : halted[v] = (stopped[v] \/ Outlier(w, v))
  OBVIOUS
<1> HIDE DEF halted
<1>5. Lattice(lowerBounds', upperBounds', Others(w), halted)
  BY <1>1, <1>4, MergeLattice DEF LatticeInv
<1> QED
  BY <1>1, <1>2, <1>3, <1>5 DEF Midway, halted

LEMMA LatticeStep == SchedulerInv /\ [Next]_vars => LatticeInv'
<1> SUFFICES ASSUME SchedulerInv, [Next]_vars, ~searchDone'
             PROVE  Lattice(lowerBounds, upperBounds, Workers, stopped)'
  BY DEF LatticeInv
<1> USE DEF SchedulerInv
<1>1. ASSUME NEW w \in Workers, NEW halted, Midway(w, halted)
      PROVE  Lattice(lowerBounds, upperBounds, Workers, stopped)'
  BY <1>1, NextSearchLattice DEF Midway
<1>2. ASSUME NEW halted, NEW w \in Workers, NextSearch(w, halted) PROVE ~searchDone
  BY <1>2 DEF NextSearch, Scan, progress, SearchOver
<1>3. ASSUME NEW w \in Workers, StartWorker(w)
      PROVE  Lattice(lowerBounds, upperBounds, Workers, stopped)'
  BY <1>1, <1>2, <1>3, StartMidway DEF StartWorker
<1>4. ASSUME NEW w \in Workers, MergeAndContinue(w)
      PROVE  Lattice(lowerBounds, upperBounds, Workers, stopped)'
  BY <1>1, <1>2, <1>4, MergeMidway DEF MergeAndContinue
<1>5. CASE UNCHANGED <<lowerBounds, upperBounds, stages, depths, testValues, stopped, searchDone>>
  <2>1. Lattice(lowerBounds, upperBounds, Workers, stopped)
    BY <1>5 DEF LatticeInv
  <2> QED
    BY <1>5, <2>1 DEF Lattice, RootBounds, BoundsOnLattice, QuestionsOnLattice,
       CancelledOutside, Begun, InOrder, Gapless, Chained, AllAsked, AsksAt, Open, OnLattice
<1>6. ~\E r \in Requesters : StopSearches(r)
  BY DEF StopSearches
<1> QED
  BY <1>3, <1>4, <1>5, <1>6 DEF Next, Worker, DeliverProgress, CompleteProbe, CancelProbe,
     FinishProbe, RequestStop, ClockExpires, Terminated, vars, bounds, progress

LEMMA FreshScheduler == Fresh => SchedulerInv
<1>1. Fresh => DoneStopsAll /\ IdleAsksNothing /\ BoundsOrdered
  BY DEF Fresh, DoneStopsAll, IdleAsksNothing, BoundsOrdered, Prepared
<1> QED
  BY <1>1, FreshTypes, FreshTruth, FreshSpacing, FreshLattice DEF SchedulerInv

LEMMA SchedulerStep == SchedulerInv /\ [Next]_vars => SchedulerInv'
BY TypeOKStep, TruthStep, BoundsOrderedStep, DoneStopsAllStep, SpacingStep, IdleStep,
   LatticeStep DEF SchedulerInv

LEMMA SchedulerInductive == Spec => []SchedulerInv
BY FreshInit, FreshScheduler, SchedulerStep, PTL DEF Spec

\* Where every open threshold is asked, none is lost.
LEMMA AllAskedMeansNoneLost == SchedulerInv => NoQuestionLost
<1> SUFFICES ASSUME SchedulerInv, ~searchDone, NEW d \in Depths,
                    stages[d] = "finalSearching", NEW t \in OpenThresholds(d)
             PROVE  \E w \in Workers : Asking(w, d) /\ testValues[w] = t
  BY DEF NoQuestionLost
<1>1. t \in Open(lowerBounds, upperBounds, d)
  BY DEF Open, OpenThresholds
<1>2. PICK w \in AsksAt(Workers, d) : ~stopped[w] /\ testValues[w] = t
  BY <1>1 DEF SchedulerInv, LatticeInv, Lattice, AllAsked, Resting
<1> QED
  BY <1>2 DEF AsksAt, Asking

\* However the answers come in, a depth stops handing out thresholds only when every
\* threshold its bounds leave open is being asked by a worker that is not cancelled.
THEOREM NothingLeftUnasked == Spec => []NoQuestionLost
BY AllAskedMeansNoneLost, SchedulerInductive, PTL
-----------------------------------------------------------------------------
(***************************************************************************)
(* A search that nobody stops completes its last depth.                    *)
(***************************************************************************)
Left(w) == depths[w] = NoDepth /\ pc[w] \in {"notifying", "finished"}
Final(d) == d = MaximumDepth \/ Abs(lowerBounds[d]) >= MinCheckmateValue

StopRequestedFirst == \A r \in Requesters : requests[r] # "none" => stopRequested
CompletedCounted == \A d \in Depths : stages[d] = "complete" => d <= completedDepth
DoneMeansDecided ==
  searchDone /\ ~stopRequested => \E d \in Depths : stages[d] = "complete" /\ Final(d)
UnfinishedWork ==
  ~searchDone /\ ~stopRequested /\ ~expired =>
    /\ \A d \in Depths : stages[d] = "finalSearching" => upperBounds[d] - lowerBounds[d] > GrainSize
    /\ \A d \in Depths : ~(stages[d] = "complete" /\ Final(d))
    /\ (\E w \in Workers : Left(w)) => stages[MaximumDepth] \in Resting

EndInv ==
  StopRequestedFirst /\ CompletedCounted /\ DoneMeansDecided /\ UnfinishedWork

\* A scan that finds no threshold and no decision has seen every depth.
LEMMA SeesEveryDepth ==
  ASSUME NEW w, \A d \in Visited(w) : ~HasThreshold(w, d) /\ ~Decides(w, d)
  PROVE  Visited(w) = Depths
<1> DEFINE ends == {d \in Depths : HasThreshold(w, d) \/ Decides(w, d)}
<1>1. ASSUME ends # {} PROVE FALSE
  <2>1. ends \in SUBSET Nat
    OBVIOUS
  <2>2. \E d \in ends : \A e \in ends : d <= e
    <3> HIDE DEF ends
    <3> QED
      BY <1>1, <2>1, LeastNatural
  <2>3. PICK d \in ends : \A e \in ends : d <= e
    BY <2>2
  <2>4. d \in Visited(w)
    BY <2>3 DEF Visited
  <2> QED
    BY <2>3, <2>4
<1> QED
  BY <1>1 DEF Visited

LEMMA NextSearchEnds ==
  ASSUME SchedulerInv, EndInv, NEW w \in Workers, NEW halted, ~searchDone,
         Midway(w, halted),
         \A d \in Depths : stages[d] = "complete" =>
           stages'[d] = "complete" /\ lowerBounds'[d] = lowerBounds[d]
  PROVE  EndInv'
<1> USE DEF SchedulerInv
<1>1. UNCHANGED <<stopRequested, requests, expired>>
  BY DEF Midway, NextSearch
<1>2. StopRequestedFirst'
  BY <1>1 DEF EndInv, StopRequestedFirst
<1>3. CASE SearchOver /\ UNCHANGED progress
  <2>1. UNCHANGED <<stages, completedDepth, searchDone>>
    BY <1>3 DEF progress
  <2>2. stopRequested \/ expired
    BY <1>3 DEF SearchOver
  <2> QED
    BY <1>1, <1>2, <2>1, <2>2 DEF EndInv, CompletedCounted, DoneMeansDecided, UnfinishedWork
<1>4. CASE Scan(w, halted)
  <2>1. \A d \in Depths : stages'[d] =
          IF d \in Visited(w) THEN ScannedStage(w, d) ELSE stages[d]
    BY <1>4, ScanStages
  <2>2. /\ completedDepth \in Int /\ completedDepth' \in Int
        /\ completedDepth <= completedDepth'
        /\ \A d \in NewlyComplete(w) : d <= completedDepth'
    <3> DEFINE reached == NewlyComplete(w) \union {completedDepth}
    <3>1. NewlyComplete(w) \subseteq Int
      BY DEF NewlyComplete, Visited
    <3>2. completedDepth \in Int
      BY DEF TypeOK
    <3>3. completedDepth' \in {d \in reached : \A e \in reached : e <= d}
      BY <1>4 DEF Scan, DeepestCompleted
    <3>4. completedDepth' \in reached /\ \A e \in reached : e <= completedDepth'
      BY <3>3
    <3> QED
      BY <3>1, <3>2, <3>4
  <2>3. CompletedCounted'
    <3> SUFFICES ASSUME NEW d \in Depths, stages'[d] = "complete" PROVE d <= completedDepth'
      BY DEF CompletedCounted
    <3>1. CASE stages[d] = "complete"
      BY <2>2, <3>1 DEF EndInv, CompletedCounted
    <3>2. CASE stages[d] # "complete"
      <4>1. d \in NewlyComplete(w)
        BY <2>1, <3>2 DEF NewlyComplete
      <4> QED
        BY <2>2, <4>1
    <3> QED
      BY <3>1, <3>2
  <2>4. DoneMeansDecided'
    <3> SUFFICES ASSUME searchDone' PROVE \E d \in Depths : stages'[d] = "complete" /\ Final(d)'
      BY DEF DoneMeansDecided, Final, Abs
    <3>1. PICK d \in Visited(w) : Decides(w, d)
      BY <1>4 DEF Scan
    <3>2. d \in Depths /\ stages'[d] = "complete" /\ Final(d)'
      BY <2>1, <3>1 DEF Visited, Decides, Final, Abs
    <3> QED
      BY <3>2
  <2>5. UnfinishedWork'
    <3> SUFFICES ASSUME ~searchDone', ~stopRequested', ~expired'
                 PROVE  /\ \A d \in Depths : stages'[d] = "finalSearching" =>
                             upperBounds'[d] - lowerBounds'[d] > GrainSize
                        /\ \A d \in Depths : ~(stages'[d] = "complete" /\ Final(d)')
                        /\ (\E v \in Workers : Left(v)') => stages'[MaximumDepth] \in Resting
      BY DEF UnfinishedWork, Final, Abs, Left, Resting
    <3>0. /\ \A d \in Depths : ~(stages[d] = "complete" /\ Final(d))
          /\ (\E v \in Workers : Left(v)) => stages[MaximumDepth] \in Resting
      BY <1>1 DEF EndInv, UnfinishedWork
    <3>1. \A d \in Visited(w) : stages'[d] = "finalSearching" =>
            upperBounds'[d] - lowerBounds'[d] > GrainSize
      <4> SUFFICES ASSUME NEW d \in Visited(w), stages'[d] = "finalSearching"
                   PROVE  upperBounds'[d] - lowerBounds'[d] > GrainSize
        OBVIOUS
      <4>1. d \in Depths
        BY DEF Visited
      <4>2. ~Pinned(d)
        BY <2>1, <4>1 DEF ScannedStage
      <4> QED
        BY <4>1, <4>2 DEF Pinned, Midway, MergedBounds
    <3>2. CASE NoWork(w, halted) /\ \A d \in Visited(w) : ~HasThreshold(w, d) /\ ~Decides(w, d)
      <4>1. Visited(w) = Depths
        BY <3>2, SeesEveryDepth
      <4>2. \A d \in Depths : ~(stages'[d] = "complete" /\ Final(d)')
        BY <2>1, <3>2, <4>1 DEF Decides, Final, Abs
      <4>3. stages'[MaximumDepth] \in Resting
        BY <2>1, <3>2, <4>1 DEF ScannedStage, Resting
      <4> QED
        BY <3>1, <4>1, <4>2, <4>3
    <3>3. ASSUME NEW c \in Visited(w), HasThreshold(w, c), ClaimAt(w, c, halted)
          PROVE  /\ \A d \in Depths : stages'[d] = "finalSearching" =>
                      upperBounds'[d] - lowerBounds'[d] > GrainSize
                 /\ \A d \in Depths : ~(stages'[d] = "complete" /\ Final(d)')
                 /\ (\E v \in Workers : Left(v)') => stages'[MaximumDepth] \in Resting
      <4>1. c \in Depths /\ stages[c] # "complete" /\ stages[c] # "finalSearching"
        BY <3>3 DEF Visited, HasThreshold
      <4>2. \A d \in Depths : d <= c => d \in Visited(w)
        BY <3>3, <4>1 DEF Visited
      <4>3. \A d \in Depths : c < d => d \notin Visited(w) /\ stages'[d] = "waiting"
        <5> SUFFICES ASSUME NEW d \in Depths, c < d
                     PROVE  d \notin Visited(w) /\ stages'[d] = "waiting"
          OBVIOUS
        <5>1. d \notin Visited(w)
          BY <3>3, <4>1 DEF Visited
        <5>2. stages[d] = "waiting"
          BY <4>1 DEF Midway, Lattice, InOrder, Resting
        <5> QED
          BY <2>1, <5>1, <5>2
      <4>4. \A d \in Depths : stages'[d] # "waiting" => d \in Visited(w)
        BY <4>1, <4>2, <4>3
      <4>5. ASSUME NEW d \in Depths, stages'[d] = "complete", Final(d)' PROVE FALSE
        <5>1. Decides(w, d) /\ d \in Visited(w)
          BY <2>1, <4>4, <4>5 DEF Decides, Final, Abs
        <5>2. d # c
          BY <2>1, <3>3, <4>1, <4>5, <5>1 DEF ScannedStage
        <5>3. d < c
          BY <4>1, <4>3, <5>1, <5>2
        <5> QED
          BY <3>3, <4>1, <5>1, <5>3 DEF Visited
      <4>6. ASSUME NEW v \in Workers, Left(v)' PROVE stages'[MaximumDepth] \in Resting
        <5>1. v # w
          BY <3>3, <4>1, <4>6 DEF ClaimAt, Left, TypeOK
        <5>2. Left(v)
          BY <3>3, <4>6, <5>1 DEF ClaimAt, Left, TypeOK
        <5> QED
          BY <2>1, <3>0, <5>2 DEF Resting, ScannedStage, HasThreshold
      <4> QED
        BY <3>1, <4>4, <4>5, <4>6
    <3> QED
      BY <1>4, <3>2, <3>3 DEF Scan
  <2> QED
    BY <1>2, <2>3, <2>4, <2>5 DEF EndInv
<1> QED
  BY <1>3, <1>4 DEF Midway, NextSearch

LEMMA DoneStays ==
  ASSUME searchDone, [Next]_vars
  PROVE  searchDone' /\ (stopRequested => stopRequested') /\ UNCHANGED <<stages, completedDepth>>
<1>1. ASSUME NEW w, NEW halted, NextSearch(w, halted)
      PROVE  UNCHANGED progress /\ UNCHANGED stopRequested
  BY <1>1 DEF NextSearch, Scan, SearchOver
<1>2. ASSUME NEW w, StartWorker(w) PROVE UNCHANGED progress /\ UNCHANGED stopRequested
  BY <1>1, <1>2 DEF StartWorker
<1>3. ASSUME NEW w, MergeAndContinue(w) PROVE UNCHANGED progress /\ UNCHANGED stopRequested
  BY <1>1, <1>3 DEF MergeAndContinue
<1>4. CASE UNCHANGED progress /\ UNCHANGED stopRequested
  BY <1>4 DEF progress
<1>5. ASSUME NEW r, RequestStop(r) PROVE UNCHANGED progress /\ stopRequested'
  BY <1>5 DEF RequestStop
<1>6. ASSUME NEW r, StopSearches(r)
      PROVE  searchDone' /\ UNCHANGED <<stages, completedDepth, stopRequested>>
  BY <1>6 DEF StopSearches
<1> QED
  BY <1>2, <1>3, <1>4, <1>5, <1>6 DEF Next, Worker, DeliverProgress, CompleteProbe, CancelProbe,
     FinishProbe, ClockExpires, Terminated, vars, progress

LEMMA RequestsStep ==
  TypeOK /\ StopRequestedFirst /\ [Next]_vars => StopRequestedFirst'
<1> SUFFICES ASSUME TypeOK, StopRequestedFirst, [Next]_vars PROVE StopRequestedFirst'
  OBVIOUS
<1>1. CASE UNCHANGED <<requests, stopRequested>>
  BY <1>1 DEF StopRequestedFirst
<1>2. ASSUME NEW r \in Requesters, StopSearches(r) PROVE StopRequestedFirst'
  BY <1>2 DEF StopSearches, StopRequestedFirst, TypeOK
<1>3. ASSUME NEW r \in Requesters, RequestStop(r) PROVE StopRequestedFirst'
  BY <1>3 DEF RequestStop, StopRequestedFirst
<1> QED
  BY <1>1, <1>2, <1>3 DEF Next, Worker, StartWorker, MergeAndContinue, NextSearch,
     DeliverProgress, CompleteProbe, CancelProbe, FinishProbe, ClockExpires, Terminated, vars

LEMMA EndStep == SchedulerInv /\ EndInv /\ [Next]_vars => EndInv'
<1> SUFFICES ASSUME SchedulerInv, EndInv, [Next]_vars PROVE EndInv'
  OBVIOUS
<1> USE DEF SchedulerInv
<1>1. \A d \in Depths : stages[d] = "complete" =>
        stages'[d] = "complete" /\ lowerBounds'[d] = lowerBounds[d]
  BY CompleteUntouched
<1>2. CASE searchDone
  <2>1. searchDone' /\ (stopRequested => stopRequested') /\ UNCHANGED <<stages, completedDepth>>
    BY <1>2, DoneStays
  <2>3. StopRequestedFirst'
    BY RequestsStep DEF EndInv
  <2>4. CompletedCounted'
    BY <2>1 DEF EndInv, CompletedCounted
  <2>5. DoneMeansDecided'
    BY <1>1, <1>2, <2>1 DEF EndInv, DoneMeansDecided, Final, Abs
  <2> QED
    BY <2>1, <2>3, <2>4, <2>5 DEF EndInv, UnfinishedWork
<1>3. ASSUME NEW w \in Workers, StartWorker(w), ~searchDone PROVE EndInv'
  BY <1>1, <1>3, StartMidway, NextSearchEnds
<1>4. ASSUME NEW w \in Workers, MergeAndContinue(w), ~searchDone PROVE EndInv'
  BY <1>1, <1>4, MergeMidway, NextSearchEnds DEF TypeOK
<1>5. CASE UNCHANGED <<lowerBounds, upperBounds, progress>>
           /\ (stopRequested => stopRequested') /\ (expired => expired')
           /\ \A w \in Workers : Left(w)' => Left(w)
  <2>1. UNCHANGED <<lowerBounds, upperBounds, stages, completedDepth, searchDone>>
    BY <1>5 DEF progress
  <2>2. StopRequestedFirst'
    BY RequestsStep DEF EndInv
  <2>3. CompletedCounted' /\ DoneMeansDecided' /\ UnfinishedWork'
    BY <1>5, <2>1 DEF EndInv, CompletedCounted, DoneMeansDecided, UnfinishedWork, Final, Abs, Left, Resting
  <2> QED
    BY <2>2, <2>3 DEF EndInv
<1>6. ASSUME NEW r \in Requesters, StopSearches(r) PROVE EndInv'
  <2>1. stopRequested /\ stopRequested'
    BY <1>6 DEF EndInv, StopRequestedFirst, StopSearches
  <2>2. StopRequestedFirst'
    BY RequestsStep DEF EndInv
  <2>3. CompletedCounted' /\ DoneMeansDecided' /\ UnfinishedWork'
    BY <1>6, <2>1 DEF EndInv, CompletedCounted, DoneMeansDecided, UnfinishedWork, StopSearches
  <2> QED
    BY <2>2, <2>3 DEF EndInv
<1>7. ASSUME NEW w \in Workers, DeliverProgress(w) PROVE EndInv'
  <2>1. \A v \in Workers : Left(v)' => Left(v)
    BY <1>7 DEF DeliverProgress, Left, TypeOK
  <2> QED
    BY <1>5, <1>7, <2>1 DEF DeliverProgress, bounds
<1>8. ASSUME NEW w \in Workers, NEW answer, FinishProbe(w, answer) PROVE EndInv'
  <2>1. \A v \in Workers : Left(v)' => Left(v)
    BY <1>8 DEF FinishProbe, Left, TypeOK
  <2> QED
    BY <1>5, <1>8, <2>1 DEF FinishProbe, bounds
<1>9. CASE UNCHANGED <<bounds, progress, depths, pc>>
           /\ (stopRequested => stopRequested') /\ (expired => expired')
  BY <1>5, <1>9 DEF bounds, Left
<1> QED
  BY <1>2, <1>3, <1>4, <1>6, <1>7, <1>8, <1>9 DEF Next, Worker, CompleteProbe, CancelProbe,
     RequestStop, ClockExpires, Terminated, vars

LEMMA FreshEnds == Fresh => EndInv
BY DEF Fresh, EndInv, StopRequestedFirst, CompletedCounted, DoneMeansDecided,
   UnfinishedWork, Left

LEMMA EndInvariant == Spec => [](SchedulerInv /\ EndInv)
BY FreshInit, FreshScheduler, FreshEnds, SchedulerStep, EndStep, PTL DEF Spec

\* A worker that has left asks nothing, unless it threw.
GoneAsksNothing(w) == pc[w] = "finished" => depths[w] = NoDepth

LEMMA GoneStep ==
  ASSUME TypeOK, NEW w \in Workers, GoneAsksNothing(w), [Next]_vars
  PROVE  GoneAsksNothing(w)'
<1>1. ASSUME NEW v \in Workers, NEW halted, NextSearch(v, halted) PROVE GoneAsksNothing(w)'
  <2>1. ASSUME NEW d, ClaimAt(v, d, halted) PROVE GoneAsksNothing(w)'
    BY <2>1 DEF ClaimAt, GoneAsksNothing, TypeOK
  <2>2. ASSUME NEW all, NoWork(v, all) PROVE GoneAsksNothing(w)'
    BY <2>2 DEF NoWork, GoneAsksNothing, TypeOK
  <2> QED
    BY <1>1, <2>1, <2>2 DEF NextSearch, Scan
<1>2. ASSUME NEW v \in Workers, StartWorker(v) PROVE GoneAsksNothing(w)'
  BY <1>1, <1>2 DEF StartWorker
<1>3. ASSUME NEW v \in Workers, MergeAndContinue(v) PROVE GoneAsksNothing(w)'
  BY <1>1, <1>3 DEF MergeAndContinue
<1>4. ASSUME NEW v \in Workers, DeliverProgress(v) PROVE GoneAsksNothing(w)'
  BY <1>4 DEF DeliverProgress, GoneAsksNothing, TypeOK
<1>5. ASSUME NEW v \in Workers, NEW answer, FinishProbe(v, answer) PROVE GoneAsksNothing(w)'
  BY <1>5 DEF FinishProbe, GoneAsksNothing, TypeOK
<1>6. CASE UNCHANGED <<pc, depths>>
  BY <1>6 DEF GoneAsksNothing
<1> QED
  BY <1>2, <1>3, <1>4, <1>5, <1>6 DEF Next, Worker, CompleteProbe, CancelProbe,
     RequestStop, StopSearches, ClockExpires, Terminated, vars

\* Workers that all left, with nobody asking for a stop, leave no question behind.
LEMMA LastOneDecides ==
  ASSUME SchedulerInv, EndInv, AllFinished, \A w \in Workers : GoneAsksNothing(w),
         ~stopRequested, ~expired
  PROVE  /\ completedDepth > 0
         /\ \/ completedDepth = MaximumDepth
            \/ \E d \in 1 .. completedDepth :
                 stages[d] = "complete" /\ Abs(lowerBounds[d]) >= MinCheckmateValue
<1> SUFFICES \E d \in Depths : stages[d] = "complete" /\ Final(d)
  <2>1. ASSUME NEW d \in Depths, stages[d] = "complete", Final(d)
        PROVE  /\ completedDepth > 0
               /\ \/ completedDepth = MaximumDepth
                  \/ \E e \in 1 .. completedDepth :
                       stages[e] = "complete" /\ Abs(lowerBounds[e]) >= MinCheckmateValue
    <3>1. d <= completedDepth /\ completedDepth \in 0 .. MaximumDepth
      BY <2>1 DEF EndInv, CompletedCounted, SchedulerInv, TypeOK
    <3>2. d \in 1 .. completedDepth /\ completedDepth > 0
      BY <3>1
    <3>3. CASE d = MaximumDepth
      BY <3>1, <3>2, <3>3
    <3> QED
      BY <2>1, <3>2, <3>3 DEF Final
  <2> QED
    BY <2>1
<1> USE DEF SchedulerInv
<1>1. CASE searchDone
  BY <1>1 DEF EndInv, DoneMeansDecided
<1>2. ASSUME ~searchDone PROVE FALSE
  <2>1. \A w \in Workers : depths[w] = NoDepth /\ Left(w)
    BY DEF AllFinished, GoneAsksNothing, Left
  <2>2. MaximumDepth \in Depths /\ Final(MaximumDepth)
    BY DEF Final
  <2>3. stages[MaximumDepth] = "finalSearching"
    BY <1>2, <2>1, <2>2, ReachAssumption DEF EndInv, UnfinishedWork, Resting
  <2> DEFINE low == lowerBounds[MaximumDepth]
             high == upperBounds[MaximumDepth]
  <2>4. low \in Int /\ high \in Int /\ high - low > GrainSize
    BY <1>2, <2>2, <2>3 DEF EndInv, UnfinishedWork, TypeOK
  <2>5. AllAsked(lowerBounds, upperBounds, Workers, stopped)
        /\ BoundsOnLattice(lowerBounds, upperBounds)
    BY <1>2 DEF LatticeInv, Lattice
  <2>6. OnLattice(low)
    BY <2>2, <2>3, <2>5 DEF AllAsked, BoundsOnLattice, Resting
  <2>7. OnLattice(low + GrainSize)
    BY <2>4, <2>6, LatticeSteps
  <2>8. low + GrainSize \in Open(lowerBounds, upperBounds, MaximumDepth)
    BY <2>4, <2>7 DEF Open
  <2>9. PICK v \in AsksAt(Workers, MaximumDepth) : ~stopped[v] /\ testValues[v] = low + GrainSize
    BY <2>2, <2>3, <2>5, <2>8 DEF AllAsked, Resting
  <2> QED
    BY <2>1, <2>2, <2>9 DEF AsksAt
<1> QED
  BY <1>1, <1>2

\* A search that ran to its end without being stopped and without running out of time
\* has completed its last depth or a depth whose score announces a mate.
THEOREM UnstoppedCompletes == Spec => []UnstoppedSearchCompletes
<1> DEFINE Gone == \A w \in Workers : GoneAsksNothing(w)
<1>1. Init => Gone
  BY DEF Init, InitialState, GoneAsksNothing
<1>2. SchedulerInv /\ Gone /\ [Next]_vars => Gone'
  BY GoneStep DEF SchedulerInv
<1>3. SchedulerInv /\ EndInv /\ Gone => UnstoppedSearchCompletes
  BY LastOneDecides DEF UnstoppedSearchCompletes
<1> HIDE DEF Gone
<1> QED
  BY <1>1, <1>2, <1>3, EndInvariant, PTL DEF Spec
-----------------------------------------------------------------------------
(***************************************************************************)
(* What is reported is what the root is worth.                             *)
(***************************************************************************)
\* The bounds of a completed depth enclose a single threshold interval.
CompleteExact ==
  \A d \in Depths : stages[d] = "complete" =>
    /\ lowerBounds[d] # -Infty /\ OnLattice(lowerBounds[d])
    /\ upperBounds[d] = lowerBounds[d] + GrainSize

Matches(r) ==
  /\ stages[r.depth] = "complete"
  /\ r.score = lowerBounds[r.depth] + GrainSize \div 2
  /\ r.move = bestMoves[r.depth]

\* A result keeps agreeing with the depth it reports.
ResultsMatch ==
  /\ \A r \in reported : Matches(r)
  /\ \A w \in Workers : \A r \in notifications[w] : Matches(r)

Settled == \A d \in Depths : stages[d] = "complete" =>
             /\ stages'[d] = "complete"
             /\ lowerBounds'[d] = lowerBounds[d] /\ upperBounds'[d] = upperBounds[d]
             /\ bestMoves'[d] = bestMoves[d]

LEMMA FreshExact == Fresh => CompleteExact /\ ResultsMatch
BY DEF Fresh, CompleteExact, ResultsMatch

LEMMA NextSearchExact ==
  ASSUME SchedulerInv, CompleteExact, Settled, NEW w \in Workers, NEW halted,
         Midway(w, halted)
  PROVE  CompleteExact'
<1> USE DEF SchedulerInv
<1> SUFFICES ASSUME NEW d \in Depths, stages'[d] = "complete"
             PROVE  /\ lowerBounds'[d] # -Infty /\ OnLattice(lowerBounds'[d])
                    /\ upperBounds'[d] = lowerBounds'[d] + GrainSize
  BY DEF CompleteExact, OnLattice
<1>1. CASE stages[d] = "complete"
  BY <1>1 DEF Settled, CompleteExact
<1>2. CASE stages[d] # "complete"
  <2>1. Scan(w, halted)
    BY <1>2 DEF Midway, NextSearch, progress
  <2>2. d \in Visited(w) /\ ScannedStage(w, d) = "complete"
    BY <1>2, <2>1, ScanStages
  <2>3. ~HasThreshold(w, d) /\ Pinned(d)
    BY <1>2, <2>2 DEF ScannedStage
  <2>4. lowerBounds'[d] # -Infty /\ upperBounds'[d] # Infty
    BY <2>3, PassedOver DEF Midway
  <2>5. OnLattice(lowerBounds'[d]) /\ OnLattice(upperBounds'[d])
    BY <2>4 DEF Midway, Lattice, BoundsOnLattice
  <2>6. lowerBounds'[d] \in Int /\ upperBounds'[d] \in Int /\ lowerBounds'[d] < upperBounds'[d]
    BY DEF Midway, MergedBounds, BoundsOrdered
  <2>7. lowerBounds'[d] + GrainSize <= upperBounds'[d]
    BY <2>5, <2>6, LatticeApart
  <2>8. upperBounds'[d] - lowerBounds'[d] <= GrainSize /\ GrainSize \in Int
    BY <2>3 DEF Pinned
  <2>9. upperBounds'[d] = lowerBounds'[d] + GrainSize
    <3>1. \A x, y, z \in Int : x + z <= y /\ y - x <= z => y = x + z
      OBVIOUS
    <3> QED
      BY <2>6, <2>7, <2>8, <3>1
  <2> QED
    BY <2>4, <2>5, <2>9
<1> QED
  BY <1>1, <1>2

LEMMA ExactStep == SchedulerInv /\ CompleteExact /\ [Next]_vars => CompleteExact'
<1> SUFFICES ASSUME SchedulerInv, CompleteExact, [Next]_vars PROVE CompleteExact'
  OBVIOUS
<1> USE DEF SchedulerInv
<1>1. Settled
  BY CompleteUntouched DEF Settled
<1>2. CASE UNCHANGED stages
  BY <1>1, <1>2 DEF Settled, CompleteExact
<1>3. CASE searchDone
  BY <1>2, <1>3, DoneStays
<1>4. ASSUME NEW w \in Workers, StartWorker(w), ~searchDone PROVE CompleteExact'
  BY <1>1, <1>4, StartMidway, NextSearchExact
<1>5. ASSUME NEW w \in Workers, MergeAndContinue(w), ~searchDone PROVE CompleteExact'
  BY <1>1, <1>5, MergeMidway, NextSearchExact
<1> QED
  BY <1>2, <1>3, <1>4, <1>5 DEF Next, Worker, DeliverProgress, CompleteProbe, CancelProbe,
     FinishProbe, RequestStop, StopSearches, ClockExpires, Terminated, vars, progress

LEMMA MatchStep ==
  SchedulerInv /\ ReportInv /\ ResultsMatch /\ [Next]_vars => ResultsMatch'
<1> SUFFICES ASSUME SchedulerInv, ReportInv, ResultsMatch, [Next]_vars PROVE ResultsMatch'
  OBVIOUS
<1> USE DEF SchedulerInv
<1>1. Settled
  BY CompleteUntouched DEF Settled
<1>2. /\ reported \subseteq Results /\ \A w \in Workers : notifications[w] \subseteq Results
      /\ \A r \in Results : r.depth \in Depths
  BY DEF TypeOK, Results
<1>3. \A r \in Results : Matches(r) => Matches(r)'
  BY <1>1, <1>2 DEF Settled, Matches
<1>4. ASSUME NEW w \in Workers, NEW halted, NextSearch(w, halted), MergedBounds
      PROVE  ResultsMatch'
  <2>1. UNCHANGED reported /\ \A v \in Workers \ {w} : notifications'[v] = notifications[v]
    BY <1>4 DEF NextSearch, Scan, TypeOK
  <2>2. \A r \in notifications'[w] : Matches(r)'
    <3>1. CASE Scan(w, halted)
      <4>1. notifications'[w] = {Completed(d) : d \in NewlyComplete(w)}
        BY <3>1 DEF Scan, TypeOK
      <4>2. ASSUME NEW d \in NewlyComplete(w), NEW r, r = Completed(d) PROVE Matches(r)'
        <5>1. d \in Depths /\ d \in Visited(w) /\ ScannedStage(w, d) = "complete"
          BY <4>2 DEF NewlyComplete, Visited
        <5>2. stages'[d] = "complete"
          BY <3>1, <5>1, ScanStages
        <5>3. /\ r.depth = d /\ r.move = bestMoves'[d]
              /\ r.score = lowerBounds'[d] + GrainSize \div 2
          BY <4>2 DEF Completed
        <5> QED
          BY <5>2, <5>3 DEF Matches
      <4> QED
        BY <4>1, <4>2
    <3>2. CASE notifications' = [notifications EXCEPT ![w] = {}]
      BY <3>2 DEF TypeOK
    <3> QED
      BY <1>4, <3>1, <3>2 DEF NextSearch
  <2>3. ASSUME NEW v \in Workers, NEW r \in notifications'[v] PROVE Matches(r)'
    <3>1. CASE v = w
      BY <2>2, <3>1
    <3>2. CASE v # w
      BY <1>2, <1>3, <2>1, <2>3, <3>2 DEF ResultsMatch
    <3> QED
      BY <3>1, <3>2
  <2> QED
    BY <1>2, <1>3, <2>1, <2>3 DEF ResultsMatch
<1>5. ASSUME NEW w \in Workers, StartWorker(w) PROVE ResultsMatch'
  BY <1>4, <1>5 DEF StartWorker, MergedBounds, bounds, TypeOK
<1>6. ASSUME NEW w \in Workers, MergeAndContinue(w) PROVE ResultsMatch'
  BY <1>4, <1>6, MergeTypes DEF MergeAndContinue
<1>7. ASSUME NEW w \in Workers, DeliverProgress(w) PROVE ResultsMatch'
  <2>1. reported' = reported \union notifications[w]
    BY <1>7 DEF DeliverProgress
  <2>2. \A v \in Workers : notifications'[v] \subseteq notifications[v]
    BY <1>7 DEF DeliverProgress, TypeOK
  <2>3. \A r \in reported' : Matches(r)'
    BY <1>2, <1>3, <2>1 DEF ResultsMatch
  <2>4. \A v \in Workers : \A r \in notifications'[v] : Matches(r)'
    BY <1>2, <1>3, <2>2 DEF ResultsMatch
  <2> QED
    BY <2>3, <2>4 DEF ResultsMatch
<1>8. CASE UNCHANGED <<reported, notifications>>
  BY <1>2, <1>3, <1>8 DEF ResultsMatch
<1> QED
  BY <1>5, <1>6, <1>7, <1>8 DEF Next, Worker, CompleteProbe, CancelProbe,
     FinishProbe, RequestStop, StopSearches, ClockExpires, Terminated, vars

\* Multiples of the grain between two adjacent thresholds: only the one in the middle.
LEMMA OneScoreBetween ==
  ASSUME NEW low \in Int, OnLattice(low), NEW v \in Int, v % GrainSize = 0,
         v <= low + GrainSize
  PROVE  /\ v <= low + GrainSize \div 2
         /\ v > low => v = low + GrainSize \div 2
<1> DEFINE half == GrainSize \div 2
<1>1. half \in Int /\ 0 < half /\ half < GrainSize
  OBVIOUS
<1>2. low + half \in Int /\ (low + half) % GrainSize = 0
  BY <1>1 DEF OnLattice
<1> HIDE DEF half
<1> DEFINE a == v - half
<1>3. a \in Int /\ OnLattice(a) /\ OnLattice(low)
  BY <1>1 DEF OnLattice, half
<1>4. a < low => a + GrainSize <= low
  BY <1>3, LatticeApart
<1>5. a > low => low + GrainSize <= a
  BY <1>3, LatticeApart
<1> QED
  BY <1>1, <1>4, <1>5 DEF half

\* Every result, reported or about to be, carries a move worth more than the threshold
\* below its score, no move is worth more than the one above it, and where the moves
\* are worth multiples of the grain its score is what the best of them is worth.
THEOREM ReportsAreExact == Spec => []ResultsExact
<1>1. ASSUME TypeOK, CompleteExact, ResultsMatch, BoundsEncloseScore PROVE ResultsExact
  <2> USE <1>1
  <2> SUFFICES ASSUME Stable,
                      NEW r \in reported \union UNION {notifications[w] : w \in Workers}
               PROVE  ReportedTruly(r)
    BY DEF ResultsExact
  <2>1. r \in Results /\ Matches(r)
    BY DEF TypeOK, ResultsMatch
  <2> DEFINE d == r.depth
             worth == values[d]
             low == lowerBounds[d]
             half == GrainSize \div 2
  <2>2. d \in Depths /\ low \in Int /\ half \in Int
    BY <2>1 DEF Results, TypeOK
  <2>3. worth \in [Moves -> -MaxScore .. MaxScore]
    BY <2>2 DEF TypeOK, Stable
  <2>4. /\ low # -Infty /\ OnLattice(low) /\ upperBounds[d] = low + GrainSize
        /\ r.score = low + half /\ r.move = bestMoves[d]
    BY <2>1, <2>2 DEF Matches, CompleteExact
  <2>5. /\ \A m \in Moves : worth[m] <= low + GrainSize
        /\ r.move \in Moves /\ worth[r.move] > low
    BY <2>2, <2>4 DEF BoundsEncloseScore
  <2>6. ASSUME \A m \in Moves : worth[m] % GrainSize = 0
        PROVE  r.score = BestValue(d) /\ worth[r.move] = BestValue(d)
    <3>1. worth[r.move] = r.score /\ \A m \in Moves : worth[m] <= r.score
      <4>1. ASSUME NEW m \in Moves
            PROVE worth[m] <= low + half /\ (worth[m] > low => worth[m] = low + half)
        <5>1. /\ worth[m] \in Int /\ worth[m] % GrainSize = 0
              /\ worth[m] <= low + GrainSize
          BY <2>3, <2>5, <2>6
        <5> HIDE DEF worth
        <5> QED
          BY <2>2, <2>4, <5>1, OneScoreBetween
      <4> HIDE DEF worth
      <4> QED
        BY <2>4, <2>5, <4>1
    <3> DEFINE all == {worth[m] : m \in Moves}
    <3>2. r.score \in all /\ \A m \in Moves : worth[m] <= r.score
      BY <2>5, <3>1
    <3>3. \A v \in all : (\A m \in Moves : worth[m] <= v) => v = r.score
      BY <2>3, <2>5, <3>1
    <3>4. BestValue(d) = CHOOSE v \in all : \A m \in Moves : worth[m] <= v
      BY DEF BestValue
    <3> HIDE DEF all
    <3>5. BestValue(d) = r.score
      BY <3>2, <3>3, <3>4
    <3> QED
      BY <3>1, <3>5
  <2>7. /\ worth[r.move] > r.score - half
        /\ \A m \in Moves : worth[m] <= r.score - half + GrainSize
    BY <2>2, <2>3, <2>4, <2>5
  <2> QED
    BY <2>5, <2>6, <2>7 DEF ReportedTruly
<1>2. SchedulerInv => TypeOK
  BY DEF SchedulerInv
<1> QED
  BY <1>1, <1>2, FreshInit, FreshExact, FreshReports, SchedulerInductive, ExactStep, ReportStep,
     MatchStep, BoundsSound, PTL DEF Spec
-----------------------------------------------------------------------------
(***************************************************************************)
(* The owner, its future and the coordinator.                              *)
(***************************************************************************)
Phases == {"none", "setup", "spawning", "joining", "stopping", "awaitingTimer",
           "unwinding", "unwindStopping", "waiting", "returned"}

\* A search runs, or its result waits, exactly where the owner can take it.
SessionInv ==
  /\ owner \in Calls \union {"inRun", "stopping", "joining"}
  /\ resume \in Calls
  /\ pending \in {"invalid", "running", "ready"}
  /\ active \in BOOLEAN /\ error \in BOOLEAN
  /\ coordinator \in Phases
  /\ coordinator # "none" <=> owner = "inRun" \/ pending = "running"
  /\ owner \in {"inRun", "starting", "configuring", "destroyed"} => pending = "invalid"
  /\ owner \in {"stopping", "joining"} => pending # "invalid"
  /\ active <=> coordinator \notin {"none", "returned"}

LEMMA SessionInit == LifeInit => SessionInv
BY DEF LifeInit, SessionInv, Calls, Phases

LEMMA OwnerKeepsSession == SessionInv /\ Owner => SessionInv'
<1> SUFFICES ASSUME SessionInv, Owner PROVE SessionInv'
  OBVIOUS
<1> USE DEF SessionInv, Calls, Phases
<1>1. ASSUME NEW guess, Run(guess) PROVE SessionInv'
  BY <1>1 DEF Run, Begin
<1>2. CASE RunReturns
  BY <1>2 DEF RunReturns
<1>3. CASE Start
  BY <1>3 DEF Start, Begin
<1>4. CASE CallFinish
  BY <1>4 DEF CallFinish
<1>5. CASE StopReachesFuture
  BY <1>5 DEF StopReachesFuture
<1>6. CASE GetResult
  BY <1>6 DEF GetResult
<1>7. ASSUME NEW after \in Calls, CallStop(after) PROVE SessionInv'
  BY <1>7 DEF CallStop
<1>8. ASSUME NEW p, SetPreference(p) PROVE SessionInv'
  BY <1>8 DEF SetPreference
<1>9. CASE ResetMemory
  BY <1>9 DEF ResetMemory
<1> QED
  BY <1>1, <1>2, <1>3, <1>4, <1>5, <1>6, <1>7, <1>8, <1>9 DEF Owner

LEMMA CoordinatorKeepsSession ==
  ASSUME SessionInv, Coordinator,
         requests[TheCoordinator] = "done" => coordinator \in {"stopping", "unwindStopping"}
  PROVE  SessionInv'
<1> USE DEF SessionInv, Calls, Phases
<1>1. CASE Setup
  BY <1>1 DEF Setup, Return
<1>2. ASSUME NEW w, SpawnWorker(w) PROVE SessionInv'
  BY <1>2 DEF SpawnWorker
<1>3. ASSUME NEW w, JoinWorker(w) PROVE SessionInv'
  BY <1>3 DEF JoinWorker
<1>4. CASE SpawnFails
  BY <1>4 DEF SpawnFails
<1>5. CASE CoordinatorResumes
  BY <1>5 DEF CoordinatorResumes
<1>6. CASE StopTimer
  BY <1>6 DEF StopTimer
<1>7. CASE Conclude
  <2>1. UNCHANGED <<owner, resume, pending, error>>
    BY <1>7 DEF Conclude
  <2>2. CASE Return(Selected)
    BY <1>7, <2>1, <2>2 DEF Conclude, Return
  <2>3. CASE coordinator' = "unwinding" /\ UNCHANGED active
    BY <1>7, <2>1, <2>3 DEF Conclude
  <2> QED
    BY <1>7, <2>2, <2>3 DEF Conclude
<1>8. CASE Unwind
  BY <1>8 DEF Unwind
<1>9. CASE Rethrow
  BY <1>9 DEF Rethrow, Return
<1>10. CASE FutureReady
  BY <1>10 DEF FutureReady
<1> QED
  BY <1>1, <1>2, <1>3, <1>4, <1>5, <1>6, <1>7, <1>8, <1>9, <1>10 DEF Coordinator
-----------------------------------------------------------------------------
(***************************************************************************)
(* What the scheduler keeps, every search of a lifetime keeps: prepare()   *)
(* begins anew, and a task that is spawned, throws or ends touches nothing *)
(* that is shared.                                                         *)
(***************************************************************************)
SearchInv == SchedulerInv /\ EndInv /\ ReportInv /\ CompleteExact /\ ResultsMatch

LEMMA FreshSearch == Fresh => SearchInv
BY FreshScheduler, FreshEnds, FreshReports, FreshExact DEF SearchInv

LEMMA SearchStep == SearchInv /\ [Next]_vars => SearchInv'
<1> SUFFICES ASSUME SearchInv, [Next]_vars PROVE SearchInv'
  OBVIOUS
<1>1. TypeOK
  BY DEF SearchInv, SchedulerInv
<1>2. SchedulerInv'
  BY SchedulerStep DEF SearchInv
<1>3. EndInv'
  BY EndStep DEF SearchInv
<1>4. ReportInv'
  BY <1>1, ReportStep DEF SearchInv
<1>5. CompleteExact' /\ ResultsMatch'
  BY ExactStep, MatchStep DEF SearchInv
<1> QED
  BY <1>2, <1>3, <1>4, <1>5 DEF SearchInv

LEMMA PrepareIsFresh ==
  ASSUME TypeOK, NEW guess \in -MaxScore .. MaxScore, Prepare(guess)
  PROVE  Fresh'
<1>1. /\ testValues' \in [Workers -> Int]
      /\ values' \in [Depths -> [Moves -> -MaxScore .. MaxScore]] \union {Anything}
  BY DEF TypeOK, Prepare
<1>2. pc' \in [Workers -> {"unspawned", "starting"}]
  BY DEF Prepare
<1>3. Prepared(guess)' = Prepared(guess)
  BY DEF Prepared
<1> QED
  BY <1>1, <1>2, <1>3 DEF Prepare, Fresh, Prepared

LEMMA PreparedSearch ==
  ASSUME TypeOK, NEW guess \in -MaxScore .. MaxScore, Prepare(guess)
  PROVE  SearchInv'
<1>1. (Fresh => SearchInv)'
  BY FreshSearch, PTL
<1> QED
  BY <1>1, PrepareIsFresh

\* A step of a task outside the scheduler: what it knows stays, and nobody takes up
\* a question.
TaskOnly ==
  /\ UNCHANGED <<bounds, progress, depths, testValues, stopped, stopRequested, expired,
                 answers, values>>
  /\ requests' \in [Requesters -> {"none", "locking", "done"}]
  /\ \A r \in Requesters : requests'[r] # "none" => requests[r] # "none"
  /\ pc' \in [Workers -> WorkerStates]
  /\ \A w \in Workers :
       \/ pc'[w] = pc[w]
       \/ pc[w] = "unspawned" /\ pc'[w] = "starting"
       \/ pc'[w] = "failing"
       \/ pc'[w] = "finished" /\ stopRequested
  /\ reported \subseteq reported'
  /\ \A w \in Workers : notifications'[w] \subseteq notifications[w]
  /\ \A w \in Workers : notifications'[w] # {} => pc'[w] = pc[w]
  /\ notifications' \in [Workers -> SUBSET Results]

LEMMA TaskKeepsScheduler ==
  ASSUME SchedulerInv, TaskOnly, reported' \in SUBSET Results
  PROVE  SchedulerInv'
<1>1. UNCHANGED <<lowerBounds, upperBounds, bestMoves, stages, completedDepth, searchDone,
                  depths, testValues, stopped, stopRequested, expired, answers, values>>
  BY DEF TaskOnly, bounds, progress
<1>2. TypeOK'
  BY <1>1 DEF SchedulerInv, TypeOK, TaskOnly
<1>3. TruthInv'
  <2>1. \A w \in Workers : pc'[w] \in {"probing", "answered"} => pc[w] = pc'[w]
    BY DEF TaskOnly
  <2>2. \A d, t : ProbeOutcomes(d, t)' = ProbeOutcomes(d, t)
    BY <1>1 DEF ProbeOutcomes, Stable
  <2> QED
    BY <1>1, <2>1, <2>2 DEF SchedulerInv, TruthInv, ProbesHaveDepth, AnswersTruthful
<1>4. BoundsOrdered' /\ DoneStopsAll'
  BY <1>1 DEF SchedulerInv, BoundsOrdered, DoneStopsAll
<1>5. SpacingInv'
  BY <1>1 DEF SchedulerInv, SpacingInv, Spacing, QuestionsApart, RoomInside, WaitingUntouched,
     CompletePinned
<1>6. IdleAsksNothing'
  BY <1>1 DEF SchedulerInv, IdleAsksNothing, TaskOnly
<1>7. LatticeInv'
  <2> SUFFICES ASSUME ~searchDone PROVE Lattice(lowerBounds, upperBounds, Workers, stopped)'
    BY <1>1 DEF LatticeInv
  <2>1. Lattice(lowerBounds, upperBounds, Workers, stopped)
    BY DEF SchedulerInv, LatticeInv
  <2> QED
    BY <1>1, <2>1 DEF Lattice, RootBounds, BoundsOnLattice, QuestionsOnLattice,
       CancelledOutside, Begun, InOrder, Gapless, Chained, AllAsked, AsksAt, Open, OnLattice
<1> QED
  BY <1>2, <1>3, <1>4, <1>5, <1>6, <1>7 DEF SchedulerInv

LEMMA TaskKeepsEnds ==
  ASSUME TypeOK, EndInv, TaskOnly
  PROVE  EndInv'
<1>1. UNCHANGED <<lowerBounds, upperBounds, stages, completedDepth, searchDone, depths,
                  stopRequested, expired>>
  BY DEF TaskOnly, bounds, progress
<1>2. StopRequestedFirst'
  BY <1>1 DEF EndInv, StopRequestedFirst, TaskOnly
<1>3. CompletedCounted' /\ DoneMeansDecided'
  BY <1>1 DEF EndInv, CompletedCounted, DoneMeansDecided, Final, Abs
<1>4. UnfinishedWork'
  <2> SUFFICES ASSUME ~stopRequested PROVE UnfinishedWork'
    BY <1>1 DEF UnfinishedWork
  <2>1. \A w \in Workers : Left(w)' => Left(w)
    BY <1>1 DEF Left, TaskOnly
  <2> QED
    BY <1>1, <2>1 DEF EndInv, UnfinishedWork, Final, Abs, Left, Resting
<1> QED
  BY <1>2, <1>3, <1>4 DEF EndInv

LEMMA TaskKeepsReports ==
  ASSUME TypeOK, ReportInv, CompleteExact, ResultsMatch, TaskOnly,
         NEW w \in Workers,
         reported' \subseteq reported \union notifications[w],
         reported' = reported \/ notifications'[w] = {}
  PROVE  ReportInv' /\ CompleteExact' /\ ResultsMatch'
<1>1. UNCHANGED <<lowerBounds, upperBounds, bestMoves, stages>>
  BY DEF TaskOnly, bounds, progress
<1>2. \A v \in Workers : notifications'[v] \subseteq notifications[v]
  BY DEF TaskOnly
<1>3. ReportsComplete'
  BY <1>1, <1>2 DEF ReportInv, ReportsComplete
<1>4. HoldsOnlyWhenNotifying'
  BY <1>2 DEF ReportInv, HoldsOnlyWhenNotifying, TaskOnly
<1>5. ReportedOnce'
  <2>1. \A r, q \in reported' : r.depth = q.depth => r = q
    BY DEF ReportInv, ReportedOnce
  <2>2. ASSUME NEW v \in Workers, NEW r \in notifications'[v]
        PROVE  \A q \in reported' : q.depth # r.depth
    <3>1. r \in notifications[v]
      BY <1>2, <2>2
    <3>2. \A q \in reported : q.depth # r.depth
      BY <3>1 DEF ReportInv, ReportedOnce
    <3>3. CASE notifications'[w] = {}
      BY <2>2, <3>1, <3>2, <3>3 DEF ReportInv, ReportedOnce
    <3> QED
      BY <3>2, <3>3
  <2>3. \A v \in Workers : \A r \in notifications'[v] :
          \A u \in Workers : \A q \in notifications'[u] :
            q.depth = r.depth => u = v /\ q = r
    BY <1>2 DEF ReportInv, ReportedOnce
  <2> QED
    BY <2>1, <2>2, <2>3 DEF ReportedOnce
<1>6. CompleteExact'
  BY <1>1 DEF CompleteExact, OnLattice
<1>7. ResultsMatch'
  BY <1>1, <1>2 DEF ResultsMatch, Matches
<1> QED
  BY <1>3, <1>4, <1>5, <1>6, <1>7 DEF ReportInv

LEMMA TaskStep ==
  ASSUME SearchInv, TaskOnly, NEW w \in Workers,
         reported' \subseteq reported \union notifications[w],
         reported' = reported \/ notifications'[w] = {}
  PROVE  SearchInv'
<1>1. TypeOK
  BY DEF SearchInv, SchedulerInv
<1>2. reported' \in SUBSET Results
  BY <1>1 DEF TypeOK
<1> QED
  BY <1>1, <1>2, TaskKeepsScheduler, TaskKeepsEnds, TaskKeepsReports DEF SearchInv

LEMMA SpawnIsTaskOnly ==
  ASSUME TypeOK, ReportInv, NEW w \in Workers, SpawnWorker(w)
  PROVE  TaskOnly /\ UNCHANGED <<reported, notifications>>
<1>1. /\ UNCHANGED <<bounds, progress, depths, testValues, stopped, stopRequested, expired,
                     answers, values, requests, reported, notifications>>
      /\ pc[w] = "unspawned" /\ pc' = [pc EXCEPT ![w] = "starting"]
  BY DEF SpawnWorker
<1>2. /\ pc' \in [Workers -> WorkerStates] /\ pc'[w] = "starting"
      /\ \A v \in Workers \ {w} : pc'[v] = pc[v]
  BY <1>1 DEF TypeOK, WorkerStates
<1>3. notifications[w] = {}
  BY <1>1 DEF ReportInv, HoldsOnlyWhenNotifying
<1> QED
  BY <1>1, <1>2, <1>3 DEF TaskOnly, TypeOK

LEMMA ResumeIsTaskOnly ==
  ASSUME TypeOK, CoordinatorResumes
  PROVE  TaskOnly /\ UNCHANGED <<reported, notifications>>
BY DEF CoordinatorResumes, TaskOnly, TypeOK, WorkerStates

LEMMA EndIsTaskOnly ==
  ASSUME TypeOK, EndInv, ReportInv, NEW w \in Workers, WorkerEnds(w)
  PROVE  TaskOnly /\ UNCHANGED <<reported, notifications>>
<1>1. w \in Requesters
  BY LifecycleAssumption
<1>2. stopRequested
  BY <1>1 DEF WorkerEnds, EndInv, StopRequestedFirst
<1>3. /\ UNCHANGED <<bounds, progress, depths, testValues, stopped, stopRequested, expired,
                     answers, values, requests, reported, notifications>>
      /\ pc[w] = "failing" /\ pc' = [pc EXCEPT ![w] = "finished"]
  BY DEF WorkerEnds
<1>4. /\ pc' \in [Workers -> WorkerStates] /\ pc'[w] = "finished"
      /\ \A v \in Workers \ {w} : pc'[v] = pc[v]
  BY <1>3 DEF TypeOK, WorkerStates
<1>5. notifications[w] = {}
  BY <1>3 DEF ReportInv, HoldsOnlyWhenNotifying
<1> QED
  BY <1>2, <1>3, <1>4, <1>5 DEF TaskOnly, TypeOK

LEMMA ThrowIsTaskOnly ==
  ASSUME TypeOK, ReportInv, NEW w \in Workers, WorkerThrows(w)
  PROVE  /\ TaskOnly
         /\ reported' \subseteq reported \union notifications[w]
         /\ notifications'[w] = {}
<1>1. /\ UNCHANGED <<bounds, progress, depths, testValues, stopped, stopRequested, expired,
                     answers, values, requests>>
      /\ pc' = [pc EXCEPT ![w] = "failing"]
  BY DEF WorkerThrows
<1>2. /\ reported \subseteq reported' /\ reported' \subseteq reported \union notifications[w]
      /\ notifications' = [notifications EXCEPT ![w] = {}]
  <2>1. CASE pc[w] = "probing" /\ UNCHANGED <<reported, notifications>>
    <3>1. notifications[w] = {}
      BY <2>1 DEF ReportInv, HoldsOnlyWhenNotifying
    <3>2. notifications = [notifications EXCEPT ![w] = {}]
      BY <3>1 DEF TypeOK
    <3> QED
      BY <2>1, <3>2
  <2>2. CASE pc[w] = "notifying"
    BY <2>2 DEF WorkerThrows
  <2> QED
    BY <2>1, <2>2 DEF WorkerThrows
<1>3. /\ pc' \in [Workers -> WorkerStates] /\ pc'[w] = "failing"
      /\ \A v \in Workers \ {w} : pc'[v] = pc[v] /\ notifications'[v] = notifications[v]
      /\ notifications'[w] = {} /\ notifications' \in [Workers -> SUBSET Results]
  BY <1>1, <1>2 DEF TypeOK, WorkerStates
<1>4. requests' \in [Requesters -> {"none", "locking", "done"}]
  BY <1>1 DEF TypeOK
<1> QED
  BY <1>1, <1>2, <1>3, <1>4 DEF TaskOnly

\* The steps of a lifetime, as the scheduler sees them.
LEMMA LifeSteps ==
  ASSUME [LifeNext]_allVars
  PROVE  \/ [Next]_vars /\ UNCHANGED failed
         \/ \E guess \in -MaxScore .. MaxScore : Prepare(guess)
         \/ \E w \in Workers : SpawnWorker(w) \/ WorkerThrows(w) \/ WorkerEnds(w)
         \/ CoordinatorResumes
<1>1. TheOwner \in Requesters /\ TheTimer \in Requesters /\ TheCoordinator \in Requesters
      /\ Workers \subseteq Requesters
  BY LifecycleAssumption
<1>2. CASE UNCHANGED <<scheduler, failed>>
  BY <1>2 DEF scheduler
<1>3. ASSUME NEW r \in Requesters, RequestStop(r) \/ StopSearches(r) PROVE [Next]_vars
  BY <1>3 DEF Next
<1>4. 0 \in -MaxScore .. MaxScore /\ InitialGuesses \subseteq -MaxScore .. MaxScore
  BY ParametersAssumption, ReachAssumption
<1>5. CASE Owner
  <2>1. ASSUME NEW guess \in InitialGuesses, Run(guess)
        PROVE  \E g \in -MaxScore .. MaxScore : Prepare(g)
    BY <1>4, <2>1 DEF Run, Begin
  <2>2. CASE Start
    BY <1>4, <2>2 DEF Start, Begin
  <2>3. ASSUME NEW after \in Calls, CallStop(after) PROVE [Next]_vars
    BY <1>1, <1>3, <2>3 DEF CallStop, scheduler
  <2> QED
    BY <1>2, <1>5, <2>1, <2>2, <2>3 DEF Owner, RunReturns, CallStop, CallFinish,
       StopReachesFuture, GetResult, SetPreference, ResetMemory
<1>6. CASE Coordinator
  <2>1. ASSUME NEW w \in Workers, JoinWorker(w) PROVE [Next]_vars
    BY <1>1, <1>3, <2>1 DEF JoinWorker, scheduler
  <2>2. CASE Unwind
    BY <1>1, <1>3, <2>2 DEF Unwind
  <2> QED
    BY <1>2, <1>6, <2>1, <2>2 DEF Coordinator, Setup, JoinWorker, SpawnFails, StopTimer,
       Conclude, Unwind, Rethrow, FutureReady
<1>7. CASE Timer
  BY <1>1, <1>2, <1>3, <1>7 DEF Timer, TimerStops, TimerEnds, life
<1>8. ASSUME NEW w \in Workers, WorkerTask(w) \/ WorkerThrows(w)
      PROVE  ([Next]_vars /\ UNCHANGED failed) \/ WorkerThrows(w) \/ WorkerEnds(w)
  <2>1. WorkerSearches(w) => [Next]_vars
    BY DEF WorkerSearches, Next
  <2> QED
    BY <1>1, <1>3, <1>8, <2>1 DEF WorkerTask, WorkerSearches, WorkerCancelsSiblings, life
<1>9. ASSUME NEW r \in Requesters, StopUnderLock(r) PROVE [Next]_vars /\ UNCHANGED failed
  BY <1>3, <1>9 DEF StopUnderLock, life
<1>10. DeadlinePasses => [Next]_vars /\ UNCHANGED failed
  BY DEF DeadlinePasses, Next, life
<1>11. CASE UNCHANGED allVars
  BY <1>11 DEF allVars, life
<1> QED
  BY <1>5, <1>6, <1>7, <1>8, <1>9, <1>10, <1>11 DEF LifeNext, Destroyed

LEMMA SearchLifeStep == SearchInv /\ [LifeNext]_allVars => SearchInv'
<1> SUFFICES ASSUME SearchInv, [LifeNext]_allVars PROVE SearchInv'
  OBVIOUS
<1>1. TypeOK /\ EndInv /\ ReportInv
  BY DEF SearchInv, SchedulerInv
<1>2. CASE [Next]_vars
  BY <1>2, SearchStep
<1>3. ASSUME NEW guess \in -MaxScore .. MaxScore, Prepare(guess) PROVE SearchInv'
  BY <1>1, <1>3, PreparedSearch
<1>4. ASSUME NEW w \in Workers, SpawnWorker(w) \/ WorkerEnds(w) PROVE SearchInv'
  BY <1>1, <1>4, SpawnIsTaskOnly, EndIsTaskOnly, TaskStep
<1>5. ASSUME NEW w \in Workers, WorkerThrows(w) PROVE SearchInv'
  BY <1>1, <1>5, ThrowIsTaskOnly, TaskStep
<1>6. CASE CoordinatorResumes
  <2>1. PICK w : w \in Workers
    BY ReachAssumption
  <2> QED
    BY <1>1, <1>6, <2>1, ResumeIsTaskOnly, TaskStep
<1> QED
  BY <1>2, <1>3, <1>4, <1>5, <1>6, LifeSteps

LEMMA SearchLifeInit == LifeInit => SearchInv
BY InitialIsFresh, FreshSearch DEF LifeInit

\* Search after search, stopped, failed or not, the scheduler keeps what it promises in
\* one: prepare() leaves nothing behind that an earlier search began, and no task that
\* throws breaks what its siblings rely on.
THEOREM EverySearchSchedules ==
  LifeSpec => [](BoundsOrdered /\ NoQuestionAskedTwice /\ NoQuestionLost /\ ReportedOnce)
<1>1. SearchInv => BoundsOrdered /\ NoQuestionAskedTwice /\ NoQuestionLost /\ ReportedOnce
  BY ApartMeansDistinct, AllAskedMeansNoneLost DEF SearchInv, SchedulerInv, ReportInv
<1> QED
  BY <1>1, SearchLifeInit, SearchLifeStep, PTL DEF LifeSpec
-----------------------------------------------------------------------------
(***************************************************************************)
(* The tasks of a search and their requests to stop.                       *)
(***************************************************************************)
Failing == {"stopping", "unwinding", "unwindStopping", "waiting"}

\* A stop is requested by a task that has not ended.
RequestsInv ==
  /\ \A w \in Workers : requests[w] = "locking" => pc[w] = "failing"
  /\ requests[TheTimer] = "locking" => timer = "running"
  /\ requests[TheCoordinator] # "none" <=> coordinator \in {"stopping", "unwindStopping"}

\* What the coordinator has seen of its tasks, and when it may hold an exception.
JoinInv ==
  /\ joined \subseteq Workers /\ failed \subseteq Workers
  /\ coordinator # "none" =>
       /\ \A w \in joined \union failed : pc[w] = "finished"
       /\ ~error => joined \intersect failed = {}
  /\ coordinator = "awaitingTimer" => joined = Workers
  /\ coordinator \in Failing => error
  /\ coordinator = "setup" => ~error /\ failed = {}

TaskInv ==
  /\ RequestsInv /\ JoinInv
  /\ coordinator \in {"none", "setup", "returned"} => Quiet

LEMMA TaskInit == LifeInit => TaskInv
<1> SUFFICES ASSUME LifeInit PROVE TaskInv
  OBVIOUS
<1>1. /\ \A r \in Requesters : requests[r] = "none"
      /\ \A w \in Workers : pc[w] = "unspawned"
      /\ coordinator = "none" /\ joined = {} /\ failed = {} /\ timer = "none"
  BY DEF LifeInit, InitialState
<1> QED
  BY <1>1, LifecycleAssumption DEF TaskInv, RequestsInv, JoinInv, Quiet, Running, Failing

\* A new search has no tasks yet.
LEMMA BeginTasks ==
  ASSUME NEW guess, Begin(guess)
  PROVE  TaskInv'
<1>1. /\ \A r \in Requesters : requests'[r] = "none"
      /\ \A w \in Workers : pc'[w] = "unspawned"
      /\ coordinator' = "setup" /\ joined' = {} /\ failed' = {} /\ timer' = "none"
      /\ error' = FALSE
  BY DEF Begin, Prepare
<1> QED
  BY <1>1, LifecycleAssumption DEF TaskInv, RequestsInv, JoinInv, Quiet, Running, Failing

\* Requests other than the owner's do not move when it calls stop().
LEMMA OwnerKeepsTasks ==
  ASSUME TypeOK, SessionInv, TaskInv, Owner
  PROVE  TaskInv'
<1> USE DEF SessionInv
<1>1. ASSUME NEW guess, Run(guess) PROVE TaskInv'
  BY <1>1, BeginTasks DEF Run
<1>2. CASE Start
  <2>1. ASSUME Prepare(0), UNCHANGED <<coordinator, joined, failed, error, timer>> PROVE TaskInv'
    <3>1. coordinator = "none"
      BY <1>2 DEF Start
    <3>2. /\ \A r \in Requesters : requests'[r] = "none"
          /\ \A w \in Workers : pc'[w] = "unspawned"
      BY <2>1 DEF Prepare
    <3>3. timer # "running" /\ joined \subseteq Workers /\ failed \subseteq Workers
      BY <3>1 DEF TaskInv, JoinInv, Quiet
    <3> QED
      BY <2>1, <3>1, <3>2, <3>3, LifecycleAssumption
      DEF TaskInv, RequestsInv, JoinInv, Quiet, Running, Failing
  <2> QED
    BY <1>2, <2>1, BeginTasks DEF Start
<1>3. ASSUME NEW after \in Calls, CallStop(after) PROVE TaskInv'
  <2>1. UNCHANGED <<pc, coordinator, joined, failed, error, timer>>
    BY <1>3 DEF CallStop, scheduler, vars, RequestStop
  <2>2. \A r \in Requesters \ {TheOwner} : requests'[r] = requests[r]
    BY <1>3 DEF CallStop, scheduler, vars, RequestStop, TypeOK
  <2> QED
    BY <2>1, <2>2, LifecycleAssumption DEF TaskInv, RequestsInv, JoinInv, Quiet, Running, Failing
<1>4. CASE RunReturns
  <2>1. /\ coordinator = "returned" /\ coordinator' = "none"
        /\ UNCHANGED <<requests, pc, joined, failed, error, timer>>
    BY <1>4 DEF RunReturns, scheduler, vars
  <2> QED
    BY <2>1 DEF TaskInv, RequestsInv, JoinInv, Quiet, Running, Failing
<1>5. CASE UNCHANGED <<requests, pc, coordinator, joined, failed, error, timer>>
  BY <1>5 DEF TaskInv, RequestsInv, JoinInv, Quiet, Running, Failing
<1> QED
  BY <1>1, <1>2, <1>3, <1>4, <1>5 DEF Owner, CallFinish, StopReachesFuture, GetResult,
     SetPreference, ResetMemory, scheduler, vars

LEMMA CoordinatorKeepsTasks ==
  ASSUME TypeOK, SessionInv, TaskInv, Coordinator
  PROVE  TaskInv'
<1> USE DEF SessionInv, TaskInv, Phases
<1>0. TheCoordinator \in Requesters /\ TheTimer \in Requesters /\ Workers \subseteq Requesters
      /\ TheCoordinator \notin Workers /\ TheTimer \notin Workers /\ TheTimer # TheCoordinator
  BY LifecycleAssumption
<1>1. CASE Setup
  <2>1. /\ coordinator = "setup" /\ coordinator' \in {"returned", "spawning"}
        /\ UNCHANGED <<requests, pc, joined, failed, error>>
        /\ coordinator' = "returned" => timer' = timer
        /\ timer' \in {timer, "running", "none"}
    BY <1>1 DEF Setup, Return, scheduler, vars
  <2>2. ~(requests[TheTimer] = "locking")
    BY <1>0, <2>1, LifecycleAssumption DEF Quiet
  <2> QED
    BY <1>0, <2>1, <2>2 DEF RequestsInv, JoinInv, Quiet, Running, Failing
<1>2. ASSUME NEW w \in Workers, SpawnWorker(w) PROVE TaskInv'
  <2>1. /\ coordinator = "spawning" /\ coordinator' \in {"spawning", "joining"}
        /\ pc[w] = "unspawned" /\ UNCHANGED <<requests, joined, failed, error, timer>>
        /\ \A v \in Workers \ {w} : pc'[v] = pc[v]
    BY <1>2 DEF SpawnWorker, TypeOK
  <2>2. w \notin joined \union failed /\ requests[w] # "locking"
    BY <2>1 DEF JoinInv, RequestsInv
  <2>3. \A v \in joined \union failed : pc'[v] = "finished"
    BY <2>1, <2>2 DEF JoinInv
  <2>4. \A v \in Workers : requests'[v] = "locking" => pc'[v] = "failing"
    BY <2>1, <2>2 DEF RequestsInv
  <2>5. RequestsInv' /\ JoinInv'
    BY <2>1, <2>3, <2>4 DEF JoinInv, RequestsInv, Failing
  <2> QED
    BY <2>1, <2>5
<1>3. ASSUME NEW w \in Workers, JoinWorker(w) PROVE TaskInv'
  <2>1. /\ coordinator = "joining" /\ pc[w] = "finished" /\ joined' = joined \union {w}
        /\ UNCHANGED <<pc, failed, timer>>
    BY <1>3 DEF JoinWorker, scheduler, vars, RequestStop
  <2>2. CASE w \in failed /\ RequestStop(TheCoordinator) /\ error' = TRUE /\ coordinator' = "stopping"
    <3>1. requests'[TheCoordinator] = "locking"
          /\ \A r \in Requesters \ {TheCoordinator} : requests'[r] = requests[r]
      BY <1>0, <2>2 DEF RequestStop, TypeOK
    <3> QED
      BY <1>0, <2>1, <2>2, <3>1 DEF RequestsInv, JoinInv, Quiet, Running, Failing
  <2>3. CASE w \notin failed /\ UNCHANGED <<requests, error, coordinator>>
    BY <2>1, <2>3 DEF RequestsInv, JoinInv, Quiet, Running, Failing
  <2> QED
    BY <1>3, <2>2, <2>3 DEF JoinWorker, scheduler, vars
<1>4. CASE SpawnFails
  <2>1. /\ coordinator = "spawning" /\ coordinator' = "unwinding" /\ error' = TRUE
        /\ UNCHANGED <<requests, pc, joined, failed, timer>>
    BY <1>4 DEF SpawnFails, scheduler, vars
  <2> QED
    BY <2>1 DEF RequestsInv, JoinInv, Failing
<1>5. CASE CoordinatorResumes
  <2>1. /\ coordinator \in {"stopping", "unwindStopping"}
        /\ requests'[TheCoordinator] = "none"
        /\ \A r \in Requesters \ {TheCoordinator} : requests'[r] = requests[r]
        /\ UNCHANGED <<pc, joined, failed, error, timer>>
        /\ coordinator' \in {"joining", "waiting"}
    BY <1>0, <1>5 DEF CoordinatorResumes, RequestsInv, TypeOK
  <2> QED
    BY <1>0, <2>1 DEF RequestsInv, JoinInv, Failing
<1>6. CASE StopTimer
  <2>1. /\ coordinator = "joining" /\ joined = Workers /\ coordinator' = "awaitingTimer"
        /\ UNCHANGED <<requests, pc, joined, failed, error, timer>>
    BY <1>6 DEF StopTimer, scheduler, vars
  <2> QED
    BY <2>1 DEF RequestsInv, JoinInv, Failing
<1>7. CASE Conclude
  <2>1. /\ coordinator = "awaitingTimer" /\ timer # "running"
        /\ UNCHANGED <<requests, pc, joined, failed, error, timer>>
        /\ coordinator' \in {"unwinding", "returned"}
        /\ coordinator' = "unwinding" => error
    BY <1>7 DEF Conclude, Return, scheduler, vars
  <2>2. \A w \in Workers : pc[w] = "finished"
    BY <2>1 DEF JoinInv
  <2>3. Quiet
    BY <2>1, <2>2, LifecycleAssumption DEF Quiet, Running, RequestsInv
  <2> QED
    BY <2>1, <2>3 DEF RequestsInv, JoinInv, Quiet, Running, Failing
<1>8. CASE Unwind
  <2>1. /\ coordinator = "unwinding" /\ coordinator' = "unwindStopping"
        /\ UNCHANGED <<pc, joined, failed, error, timer>>
        /\ requests'[TheCoordinator] = "locking"
        /\ \A r \in Requesters \ {TheCoordinator} : requests'[r] = requests[r]
    BY <1>0, <1>8 DEF Unwind, RequestStop, TypeOK
  <2> QED
    BY <1>0, <2>1 DEF RequestsInv, JoinInv, Failing
<1>9. CASE Rethrow
  <2>1. /\ coordinator = "waiting" /\ timer # "running" /\ coordinator' = "returned"
        /\ \A w \in Workers : ~Running(w)
        /\ UNCHANGED <<requests, pc, joined, failed, error, timer>>
    BY <1>9 DEF Rethrow, Return, scheduler, vars
  <2>2. Quiet
    BY <2>1, LifecycleAssumption DEF Quiet, Running, RequestsInv
  <2> QED
    BY <2>1, <2>2 DEF RequestsInv, JoinInv, Quiet, Running, Failing
<1>10. CASE FutureReady
  <2>1. /\ coordinator = "returned" /\ coordinator' = "none"
        /\ UNCHANGED <<requests, pc, joined, failed, error, timer>>
    BY <1>10 DEF FutureReady, scheduler, vars
  <2> QED
    BY <2>1 DEF RequestsInv, JoinInv, Quiet, Running, Failing
<1> QED
  BY <1>1, <1>2, <1>3, <1>4, <1>5, <1>6, <1>7, <1>8, <1>9, <1>10 DEF Coordinator

\* A worker's step through the scheduler.
LEMMA WorkerMoves ==
  ASSUME TypeOK, NEW w \in Workers, Worker(w)
  PROVE  /\ pc[w] \in {"starting", "notifying", "probing", "answered"}
         /\ pc'[w] \in {"probing", "notifying", "answered", "finished"}
         /\ \A v \in Workers \ {w} : pc'[v] = pc[v]
         /\ UNCHANGED <<requests, stopRequested, expired>>
<1>1. ASSUME NEW halted, NextSearch(w, halted)
      PROVE  /\ pc'[w] \in {"probing", "notifying", "finished"}
             /\ \A v \in Workers \ {w} : pc'[v] = pc[v]
             /\ UNCHANGED <<requests, stopRequested, expired>>
  <2>1. ASSUME NEW d, ClaimAt(w, d, halted)
        PROVE  /\ pc'[w] \in {"probing", "notifying"}
               /\ \A v \in Workers \ {w} : pc'[v] = pc[v]
    BY <2>1 DEF ClaimAt, TypeOK
  <2>2. ASSUME NEW all, NoWork(w, all)
        PROVE  /\ pc'[w] \in {"notifying", "finished"}
               /\ \A v \in Workers \ {w} : pc'[v] = pc[v]
    BY <2>2 DEF NoWork, TypeOK
  <2> QED
    BY <1>1, <2>1, <2>2 DEF NextSearch, Scan
<1>2. CASE StartWorker(w)
  BY <1>1, <1>2 DEF StartWorker
<1>3. CASE MergeAndContinue(w)
  BY <1>1, <1>3 DEF MergeAndContinue
<1>4. CASE DeliverProgress(w)
  BY <1>4 DEF DeliverProgress, TypeOK
<1>5. ASSUME NEW found, pc[w] = "probing", FinishProbe(w, found)
      PROVE  /\ pc'[w] = "answered" /\ \A v \in Workers \ {w} : pc'[v] = pc[v]
             /\ UNCHANGED <<requests, stopRequested, expired>>
  BY <1>5 DEF FinishProbe, TypeOK
<1> QED
  BY <1>2, <1>3, <1>4, <1>5 DEF Worker, CompleteProbe, CancelProbe

LEMMA TasksKeepTasks ==
  ASSUME TypeOK, SessionInv, TaskInv,
         \/ Timer \/ DeadlinePasses
         \/ \E w \in Workers : WorkerTask(w) \/ WorkerThrows(w)
         \/ \E r \in Requesters : StopUnderLock(r)
         \/ UNCHANGED allVars
  PROVE  TaskInv'
<1> USE DEF SessionInv, TaskInv, Phases
<1>0. /\ TheTimer \in Requesters /\ Workers \subseteq Requesters
      /\ TheOwner # TheTimer /\ TheTimer # TheCoordinator
      /\ TheTimer \notin Workers /\ TheCoordinator \notin Workers /\ TheOwner \notin Workers
  BY LifecycleAssumption
\* A step of a worker that runs, which then has requested nothing.
<1>1. ASSUME NEW w \in Workers, pc[w] \in {"starting", "notifying", "probing", "answered"},
             \A v \in Workers \ {w} : pc'[v] = pc[v],
             UNCHANGED <<requests, coordinator, joined, failed, error, timer>>
      PROVE  TaskInv'
  <2>1. coordinator \notin {"none", "setup", "returned"}
    BY <1>1 DEF Quiet, Running
  <2>2. w \notin joined \union failed /\ requests[w] # "locking"
    BY <1>1, <2>1 DEF JoinInv, RequestsInv
  <2>3. \A v \in joined \union failed : pc'[v] = "finished"
    BY <1>1, <2>1, <2>2 DEF JoinInv
  <2>4. \A v \in Workers : requests'[v] = "locking" => pc'[v] = "failing"
    BY <1>1, <2>2 DEF RequestsInv
  <2>5. RequestsInv' /\ JoinInv'
    BY <1>1, <2>3, <2>4 DEF JoinInv, RequestsInv, Failing
  <2> QED
    BY <1>1, <2>1, <2>5
<1>2. ASSUME NEW w \in Workers, WorkerSearches(w) PROVE TaskInv'
  BY <1>1, <1>2, WorkerMoves DEF WorkerSearches
<1>3. ASSUME NEW w \in Workers, WorkerThrows(w) PROVE TaskInv'
  <2>1. /\ pc[w] \in {"probing", "notifying"} /\ \A v \in Workers \ {w} : pc'[v] = pc[v]
        /\ UNCHANGED <<requests, coordinator, joined, failed, error, timer>>
    BY <1>3 DEF WorkerThrows, life, TypeOK
  <2> QED
    BY <1>1, <2>1
\* A request of a task that runs.
<1>4. ASSUME NEW r \in Workers \union {TheTimer}, RequestStop(r), UNCHANGED life,
             r \in Workers => pc[r] = "failing",
             r = TheTimer => timer = "running"
      PROVE  TaskInv'
  <2>1. /\ requests'[r] = "locking" /\ \A q \in Requesters \ {r} : requests'[q] = requests[q]
        /\ UNCHANGED <<pc, coordinator, joined, failed, error, timer>>
    BY <1>0, <1>4 DEF RequestStop, TypeOK, life
  <2>2. coordinator \notin {"none", "setup", "returned"}
    BY <1>0, <1>4 DEF Quiet, Running
  <2>3. RequestsInv'
    BY <1>0, <1>4, <2>1, LifecycleAssumption DEF RequestsInv
  <2> QED
    BY <2>1, <2>2, <2>3 DEF JoinInv, Failing
<1>5. ASSUME NEW w \in Workers, WorkerCancelsSiblings(w) PROVE TaskInv'
  BY <1>0, <1>4, <1>5 DEF WorkerCancelsSiblings
<1>6. ASSUME NEW w \in Workers, WorkerEnds(w) PROVE TaskInv'
  <2>1. /\ pc[w] = "failing" /\ pc'[w] = "finished" /\ requests[w] = "done"
        /\ \A v \in Workers \ {w} : pc'[v] = pc[v]
        /\ failed' = failed \union {w}
        /\ UNCHANGED <<requests, coordinator, joined, error, timer>>
    BY <1>6 DEF WorkerEnds, TypeOK
  <2>2. coordinator \notin {"none", "setup", "returned"}
    BY <2>1 DEF Quiet, Running
  <2>3. w \notin joined
    BY <2>1, <2>2 DEF JoinInv
  <2>4. \A v \in joined' \union failed' : pc'[v] = "finished"
    BY <2>1, <2>2, <2>3 DEF JoinInv
  <2>5. RequestsInv'
    BY <2>1 DEF RequestsInv
  <2>6. JoinInv'
    BY <2>1, <2>2, <2>3, <2>4 DEF JoinInv, Failing
  <2> QED
    BY <2>1, <2>2, <2>5, <2>6
<1>7. CASE TimerStops
  BY <1>0, <1>4, <1>7 DEF TimerStops
<1>8. CASE TimerEnds
  <2>1. /\ timer = "running" /\ timer' = "done" /\ requests[TheTimer] # "locking"
        /\ UNCHANGED <<requests, pc, coordinator, joined, failed, error>>
    BY <1>8 DEF TimerEnds, scheduler, vars
  <2>2. coordinator \notin {"none", "setup", "returned"}
    BY <2>1 DEF Quiet
  <2> QED
    BY <2>1, <2>2 DEF RequestsInv, JoinInv, Failing
<1>9. ASSUME NEW r \in Requesters, StopUnderLock(r) PROVE TaskInv'
  <2>1. /\ requests[r] = "locking" /\ requests'[r] = "done"
        /\ \A q \in Requesters \ {r} : requests'[q] = requests[q]
        /\ UNCHANGED <<pc, coordinator, joined, failed, error, timer>>
    BY <1>9 DEF StopUnderLock, StopSearches, TypeOK, life
  <2>2. \A q \in Requesters : /\ requests'[q] = "locking" => requests[q] = "locking"
                              /\ requests'[q] # "none" <=> requests[q] # "none"
    BY <2>1
  <2>3. TheCoordinator \in Requesters
    BY LifecycleAssumption
  <2> QED
    BY <1>0, <2>1, <2>2, <2>3 DEF RequestsInv, JoinInv, Quiet, Running, Failing
<1>10. CASE UNCHANGED <<requests, pc, coordinator, joined, failed, error, timer>>
  BY <1>10 DEF RequestsInv, JoinInv, Quiet, Running, Failing
<1>11. DeadlinePasses => UNCHANGED <<requests, pc, coordinator, joined, failed, error, timer>>
  BY DEF DeadlinePasses, ClockExpires, life
<1>12. UNCHANGED allVars => UNCHANGED <<requests, pc, coordinator, joined, failed, error, timer>>
  BY DEF allVars, vars, life
<1> QED
  BY <1>2, <1>3, <1>5, <1>6, <1>7, <1>8, <1>9, <1>10, <1>11, <1>12 DEF Timer, WorkerTask

LEMMA SessionStep ==
  ASSUME SessionInv, TaskInv, [LifeNext]_allVars
  PROVE  SessionInv'
<1>1. CASE Owner
  BY <1>1, OwnerKeepsSession
<1>2. CASE Coordinator
  BY <1>2, CoordinatorKeepsSession DEF TaskInv, RequestsInv
<1>3. CASE UNCHANGED <<owner, resume, pending, active, error, coordinator>>
  BY <1>3 DEF SessionInv
<1>4. Timer \/ DeadlinePasses \/ Destroyed
        => UNCHANGED <<owner, resume, pending, active, error, coordinator>>
  BY DEF Timer, TimerStops, TimerEnds, DeadlinePasses, Destroyed, life, allVars
<1>5. ASSUME NEW w \in Workers, WorkerTask(w) \/ WorkerThrows(w)
      PROVE  UNCHANGED <<owner, resume, pending, active, error, coordinator>>
  BY <1>5 DEF WorkerTask, WorkerThrows, WorkerSearches, WorkerCancelsSiblings, WorkerEnds, life
<1>6. ASSUME NEW r \in Requesters, StopUnderLock(r)
      PROVE  UNCHANGED <<owner, resume, pending, active, error, coordinator>>
  BY <1>6 DEF StopUnderLock, life
<1>7. UNCHANGED allVars => UNCHANGED <<owner, resume, pending, active, error, coordinator>>
  BY DEF allVars, life
<1> QED
  BY <1>1, <1>2, <1>3, <1>4, <1>5, <1>6, <1>7 DEF LifeNext

LEMMA TaskInvStep ==
  ASSUME TypeOK, SessionInv, TaskInv, [LifeNext]_allVars
  PROVE  TaskInv'
BY OwnerKeepsTasks, CoordinatorKeepsTasks, TasksKeepTasks DEF LifeNext, Destroyed

LifeInv == SearchInv /\ SessionInv /\ TaskInv

LEMMA LifeInvStep == LifeInv /\ [LifeNext]_allVars => LifeInv'
<1> SUFFICES ASSUME LifeInv, [LifeNext]_allVars PROVE LifeInv'
  OBVIOUS
<1>1. TypeOK
  BY DEF LifeInv, SearchInv, SchedulerInv
<1> QED
  BY <1>1, SearchLifeStep, SessionStep, TaskInvStep DEF LifeInv

LEMMA LifeInvariant == LifeSpec => []LifeInv
<1>1. LifeInit => LifeInv
  BY SearchLifeInit, SessionInit, TaskInit DEF LifeInv
<1> QED
  BY <1>1, LifeInvStep, PTL DEF LifeSpec

\* Whatever task fails, cannot be spawned or is told to stop, and however the owner's
\* calls fall between them: once a search is no longer active, its result is ready, or
\* a call has stopped it to go on, none of its tasks is left: runImpl joins whatever it
\* launched before it clears `active' (parallel_search.cpp:215, 254).
THEOREM NothingRunsOn == LifeSpec => []InactiveMeansQuiet
<1>1. LifeInv => InactiveMeansQuiet
  <2> SUFFICES ASSUME LifeInv,
                      ~active \/ pending = "ready"
                        \/ owner \in {"starting", "configuring", "destroyed"}
               PROVE  Quiet
    BY DEF InactiveMeansQuiet
  <2>1. coordinator \in {"none", "returned"}
    BY DEF LifeInv, SessionInv, Phases
  <2> QED
    BY <2>1 DEF LifeInv, TaskInv
<1> QED
  BY <1>1, LifeInvariant, PTL

\* The table never holds bounds of another draw preference: a setter changes it only
\* once no probe is left that could store one.
THEOREM TableMatchesPreference == LifeSpec => []CachedBoundsMatchPreference
<1>1. LifeInit => CachedBoundsMatchPreference
  BY DEF LifeInit, CachedBoundsMatchPreference
<1>2. LifeInv /\ CachedBoundsMatchPreference /\ [LifeNext]_allVars => CachedBoundsMatchPreference'
  <2> SUFFICES ASSUME LifeInv, CachedBoundsMatchPreference, [LifeNext]_allVars
               PROVE  CachedBoundsMatchPreference'
    OBVIOUS
  <2>1. CASE UNCHANGED <<preference, cachedFor>>
    BY <2>1 DEF CachedBoundsMatchPreference
  <2>2. ASSUME NEW p, SetPreference(p) PROVE CachedBoundsMatchPreference'
    <3>1. coordinator = "none"
      BY <2>2 DEF SetPreference, LifeInv, SessionInv
    <3>2. \A w \in Workers : pc[w] # "probing"
      BY <3>1 DEF LifeInv, TaskInv, Quiet, Running
    <3> QED
      BY <2>2, <3>2 DEF SetPreference, CachedBoundsMatchPreference
  <2>3. CASE ResetMemory
    BY <2>3 DEF ResetMemory, CachedBoundsMatchPreference
  <2>4. ASSUME NEW w \in Workers, WorkerSearches(w) PROVE CachedBoundsMatchPreference'
    BY <2>4 DEF WorkerSearches, CachedBoundsMatchPreference
  <2>5. ASSUME Owner, ~ResetMemory, ~\E p \in Preferences : SetPreference(p)
        PROVE  UNCHANGED <<preference, cachedFor>>
    BY <2>5 DEF Owner, Run, Begin, RunReturns, Start, CallFinish, StopReachesFuture, GetResult,
       CallStop
  <2>6. CASE Coordinator
    BY <2>1, <2>6 DEF Coordinator, Setup, SpawnWorker, JoinWorker, SpawnFails, CoordinatorResumes,
       StopTimer, Conclude, Unwind, Rethrow, FutureReady
  <2>7. CASE Timer \/ DeadlinePasses \/ Destroyed \/ UNCHANGED allVars
    BY <2>1, <2>7 DEF Timer, TimerStops, TimerEnds, DeadlinePasses, Destroyed, life, allVars
  <2>8. ASSUME NEW w \in Workers, WorkerCancelsSiblings(w) \/ WorkerEnds(w) \/ WorkerThrows(w)
        PROVE  UNCHANGED <<preference, cachedFor>>
    BY <2>8 DEF WorkerCancelsSiblings, WorkerEnds, WorkerThrows, life
  <2>9. ASSUME NEW r \in Requesters, StopUnderLock(r) PROVE UNCHANGED <<preference, cachedFor>>
    BY <2>9 DEF StopUnderLock, life
  <2> QED
    BY <2>1, <2>2, <2>3, <2>4, <2>5, <2>6, <2>7, <2>8, <2>9 DEF LifeNext, WorkerTask
<1> QED
  BY <1>1, <1>2, LifeInvariant, PTL DEF LifeSpec
-----------------------------------------------------------------------------
(***************************************************************************)
(* What a search returns is what it reported last.                         *)
(***************************************************************************)
\* A task of this search has thrown.
Thrown == \E w \in Workers : w \in failed \/ pc[w] = "failing"

Delivered(d) ==
  \/ \E r \in reported : r.depth = d
  \/ \E w \in Workers : \E r \in notifications[w] : r.depth = d

\* Every raised bound has a move, the completed depth is complete, its result is on
\* its way unless a task threw, and who has left without throwing asks nothing.
DeliveryInv ==
  /\ \A d \in Depths : lowerBounds[d] # -Infty => bestMoves[d] \in Moves
  /\ completedDepth > 0 => stages[completedDepth] = "complete"
  /\ \A d \in Depths : stages[d] = "complete" => Thrown \/ Delivered(d)
  /\ \A w \in Workers \ failed : GoneAsksNothing(w)

LEMMA FreshDelivery == Fresh => DeliveryInv
<1> SUFFICES ASSUME Fresh PROVE DeliveryInv
  OBVIOUS
<1>1. \A d \in Depths : lowerBounds[d] = -Infty /\ stages[d] = "waiting"
  <2>1. PICK guess \in -MaxScore .. MaxScore : lowerBounds = Prepared(guess).lower
    BY DEF Fresh
  <2>2. \A d \in Depths : d \in 0 .. MaximumDepth /\ d # 0
    BY ParametersAssumption DEF Depths
  <2>3. \A d \in Depths : lowerBounds[d] = -Infty
    BY <2>1, <2>2 DEF Prepared
  <2> QED
    BY <2>3 DEF Fresh
<1>2. completedDepth = 0 /\ \A w \in Workers : pc[w] # "finished"
  BY DEF Fresh
<1> QED
  BY <1>1, <1>2 DEF DeliveryInv, GoneAsksNothing

LEMMA NextSearchDelivers ==
  ASSUME SearchInv, DeliveryInv, NEW w \in Workers, NEW halted, NextSearch(w, halted),
         notifications[w] = {}, MergedBounds,
         UNCHANGED failed, \A v \in Workers : pc[v] = "failing" => pc'[v] = "failing"
  PROVE  /\ completedDepth' > 0 => stages'[completedDepth'] = "complete"
         /\ \A d \in Depths : stages'[d] = "complete" => Thrown' \/ Delivered(d)'
<1> USE DEF SearchInv, SchedulerInv
<1>1. Thrown => Thrown'
  BY DEF Thrown
<1>2. UNCHANGED reported /\ \A v \in Workers \ {w} : notifications'[v] = notifications[v]
  BY DEF NextSearch, Scan, TypeOK
<1>3. \A d \in Depths : Delivered(d) => Delivered(d)'
  BY <1>2 DEF Delivered
<1>4. CASE UNCHANGED progress
  BY <1>1, <1>3, <1>4 DEF progress, DeliveryInv
<1>5. CASE Scan(w, halted)
  <2>1. \A d \in Depths : stages'[d] =
          IF d \in Visited(w) THEN ScannedStage(w, d) ELSE stages[d]
    BY <1>5, ScanStages
  <2>2. notifications'[w] = {Completed(d) : d \in NewlyComplete(w)}
    BY <1>5 DEF Scan, TypeOK
  <2>3. \A d \in NewlyComplete(w) : d \in Depths /\ stages'[d] = "complete"
    BY <2>1 DEF NewlyComplete, Visited
  <2>4. completedDepth' \in NewlyComplete(w) \union {completedDepth}
    BY <1>5 DEF Scan, DeepestCompleted
  <2>5. \A d \in Depths : stages[d] = "complete" => stages'[d] = "complete"
    BY <2>1, CompleteStays
  <2>6. completedDepth' > 0 => stages'[completedDepth'] = "complete"
    <3>1. CASE completedDepth' \in NewlyComplete(w)
      BY <2>3, <3>1
    <3>2. CASE completedDepth' = completedDepth
      <4>1. completedDepth > 0 => completedDepth \in Depths
        BY ParametersAssumption DEF TypeOK, Depths
      <4> QED
        BY <2>5, <3>2, <4>1 DEF DeliveryInv
    <3> QED
      BY <2>4, <3>1, <3>2
  <2>7. ASSUME NEW d \in Depths, stages'[d] = "complete" PROVE Thrown' \/ Delivered(d)'
    <3>1. CASE stages[d] = "complete"
      BY <1>1, <1>3, <3>1 DEF DeliveryInv
    <3>2. CASE stages[d] # "complete"
      <4>1. d \in NewlyComplete(w)
        BY <2>1, <2>7, <3>2 DEF NewlyComplete
      <4>2. Completed(d) \in notifications'[w] /\ Completed(d).depth = d
        BY <2>2, <4>1 DEF Completed
      <4> QED
        BY <4>2 DEF Delivered
    <3> QED
      BY <3>1, <3>2
  <2> QED
    BY <2>6, <2>7
<1> QED
  BY <1>4, <1>5 DEF NextSearch

LEMMA DeliveryStep ==
  ASSUME SearchInv, DeliveryInv, [Next]_vars, UNCHANGED failed
  PROVE  DeliveryInv'
<1> USE DEF SearchInv, SchedulerInv
<1>1. \A w \in Workers \ failed' : GoneAsksNothing(w)'
  BY GoneStep DEF DeliveryInv
<1>2. ASSUME NEW w \in Workers, Worker(w), NEW v \in Workers, pc[v] = "failing"
      PROVE  pc'[v] = "failing"
  <2>1. v # w
    BY <1>2, WorkerMoves
  <2> QED
    BY <1>2, <2>1, WorkerMoves
<1>3. ASSUME NEW w \in Workers, StartWorker(w) PROVE DeliveryInv'
  <2>1. notifications[w] = {} /\ NextSearch(w, stopped) /\ UNCHANGED bounds
    BY <1>3 DEF StartWorker, ReportInv, HoldsOnlyWhenNotifying
  <2>2. MergedBounds /\ Worker(w)
    BY <1>3, <2>1 DEF MergedBounds, bounds, TypeOK, Worker
  <2>3. \A d \in Depths : lowerBounds'[d] # -Infty => bestMoves'[d] \in Moves
    BY <2>1 DEF bounds, DeliveryInv
  <2>4. \A v \in Workers : pc[v] = "failing" => pc'[v] = "failing"
    BY <1>2, <2>2
  <2> QED
    BY <1>1, <2>1, <2>2, <2>3, <2>4, NextSearchDelivers DEF DeliveryInv
<1>4. ASSUME NEW w \in Workers, MergeAndContinue(w) PROVE DeliveryInv'
  <2> DEFINE halted == [v \in Workers |-> stopped[v] \/ Outlier(w, v)]
  <2>1. /\ notifications[w] = {} /\ NextSearch(w, halted) /\ MergeAnswer(w)
        /\ Worker(w)
    BY <1>4 DEF MergeAndContinue, ReportInv, HoldsOnlyWhenNotifying, Worker
  <2>2. MergedBounds
    BY <2>1, MergeTypes
  <2>3. ASSUME NEW d \in Depths, lowerBounds'[d] # -Infty PROVE bestMoves'[d] \in Moves
    <3>1. \/ lowerBounds'[d] = lowerBounds[d] /\ bestMoves'[d] = bestMoves[d]
          \/ answers[w] # NoMove /\ bestMoves'[d] = answers[w]
      <4>1. lowerBounds \in [0 .. MaximumDepth -> Int] /\ bestMoves \in [Depths -> Moves \union {NoMove}]
        BY DEF TypeOK
      <4>2. CASE UNCHANGED <<lowerBounds, bestMoves>>
        BY <4>2
      <4>3. CASE /\ answers[w] # NoMove
                 /\ lowerBounds' = [lowerBounds EXCEPT ![depths[w]] = testValues[w]]
                 /\ bestMoves' = [bestMoves EXCEPT ![depths[w]] = answers[w]]
        <5>1. d \in 0 .. MaximumDepth
          BY ParametersAssumption DEF Depths
        <5>2. CASE d = depths[w]
          BY <4>1, <4>3, <5>2
        <5>3. CASE d # depths[w]
          BY <4>1, <4>3, <5>1, <5>3
        <5> QED
          BY <5>2, <5>3
      <4>4. UNCHANGED bounds => UNCHANGED <<lowerBounds, bestMoves>>
        BY DEF bounds
      <4> QED
        BY <2>1, <4>2, <4>3, <4>4 DEF MergeAnswer
    <3>2. answers[w] # NoMove => answers[w] \in Moves
      BY DEF TypeOK
    <3> QED
      BY <2>3, <3>1, <3>2 DEF DeliveryInv
  <2>4. \A v \in Workers : pc[v] = "failing" => pc'[v] = "failing"
    BY <1>2, <2>1
  <2> HIDE DEF halted
  <2> QED
    BY <1>1, <2>1, <2>2, <2>3, <2>4, NextSearchDelivers DEF DeliveryInv
<1>5. ASSUME UNCHANGED <<bounds, progress>>, Thrown => Thrown',
             \A d \in Depths : Delivered(d) => Delivered(d)'
      PROVE  DeliveryInv'
  BY <1>1, <1>5 DEF DeliveryInv, bounds, progress
<1>6. ASSUME NEW w \in Workers, DeliverProgress(w) PROVE DeliveryInv'
  <2>1. /\ UNCHANGED <<bounds, progress>> /\ Worker(w)
        /\ reported' = reported \union notifications[w]
        /\ \A v \in Workers \ {w} : notifications'[v] = notifications[v]
    BY <1>6 DEF DeliverProgress, Worker, TypeOK
  <2>2. Thrown => Thrown'
    BY <1>2, <2>1 DEF Thrown
  <2>3. \A d \in Depths : Delivered(d) => Delivered(d)'
    BY <2>1 DEF Delivered
  <2> QED
    BY <1>5, <2>1, <2>2, <2>3
<1>7. ASSUME NEW w \in Workers, CompleteProbe(w) \/ CancelProbe(w) PROVE DeliveryInv'
  <2>1. UNCHANGED <<bounds, progress, reported, notifications>> /\ Worker(w)
    BY <1>7 DEF CompleteProbe, CancelProbe, FinishProbe, Worker
  <2>2. Thrown => Thrown'
    BY <1>2, <2>1 DEF Thrown
  <2> QED
    BY <1>5, <2>1, <2>2 DEF Delivered
<1>8. ASSUME NEW r \in Requesters, StopSearches(r) PROVE DeliveryInv'
  <2>1. UNCHANGED <<bounds, stages, completedDepth, pc, reported, notifications>>
    BY <1>8 DEF StopSearches
  <2> QED
    BY <1>1, <2>1 DEF DeliveryInv, bounds, Thrown, Delivered
<1>9. CASE UNCHANGED <<bounds, progress, pc, reported, notifications>>
  BY <1>5, <1>9 DEF Thrown, Delivered
<1> QED
  BY <1>3, <1>4, <1>6, <1>7, <1>8, <1>9 DEF Next, Worker, RequestStop, ClockExpires, Terminated,
     vars

LEMMA PreparedDelivery ==
  ASSUME TypeOK, NEW guess \in -MaxScore .. MaxScore, Prepare(guess)
  PROVE  DeliveryInv'
<1>1. (Fresh => DeliveryInv)'
  BY FreshDelivery, PTL
<1> QED
  BY <1>1, PrepareIsFresh

LEMMA DeliveryLifeStep ==
  ASSUME SearchInv, DeliveryInv, [LifeNext]_allVars
  PROVE  DeliveryInv'
<1>1. TypeOK
  BY DEF SearchInv, SchedulerInv
<1>2. ASSUME UNCHANGED <<bounds, progress, depths, notifications, reported>>,
             Thrown => Thrown', failed \subseteq failed',
             \A w \in Workers \ failed' : pc'[w] = "finished" => pc[w] = "finished"
      PROVE  DeliveryInv'
  BY <1>2 DEF DeliveryInv, Delivered, bounds, progress, GoneAsksNothing
<1>3. ASSUME NEW w \in Workers, SpawnWorker(w) PROVE DeliveryInv'
  <2>1. /\ pc[w] = "unspawned" /\ pc'[w] = "starting"
        /\ \A v \in Workers \ {w} : pc'[v] = pc[v]
        /\ UNCHANGED <<bounds, progress, depths, notifications, reported, failed>>
    BY <1>1, <1>3 DEF SpawnWorker, TypeOK
  <2> QED
    BY <1>2, <2>1 DEF Thrown
<1>4. ASSUME NEW w \in Workers, WorkerThrows(w) PROVE DeliveryInv'
  <2>1. /\ pc'[w] = "failing" /\ \A v \in Workers \ {w} : pc'[v] = pc[v]
        /\ UNCHANGED <<bounds, progress, depths, failed>>
    BY <1>1, <1>4 DEF WorkerThrows, TypeOK, life
  <2>2. Thrown'
    BY <2>1 DEF Thrown
  <2> QED
    BY <2>1, <2>2 DEF DeliveryInv, bounds, progress, GoneAsksNothing
<1>5. ASSUME NEW w \in Workers, WorkerEnds(w) PROVE DeliveryInv'
  <2>1. /\ failed' = failed \union {w} /\ \A v \in Workers \ {w} : pc'[v] = pc[v]
        /\ UNCHANGED <<bounds, progress, depths, notifications, reported>>
    BY <1>1, <1>5 DEF WorkerEnds, TypeOK
  <2>2. Thrown'
    BY <2>1 DEF Thrown
  <2> QED
    BY <1>2, <2>1, <2>2
<1>6. CASE CoordinatorResumes
  BY <1>2, <1>6 DEF CoordinatorResumes, Thrown
<1>7. CASE [Next]_vars /\ UNCHANGED failed
  BY <1>7, DeliveryStep
<1>8. ASSUME NEW guess \in -MaxScore .. MaxScore, Prepare(guess) PROVE DeliveryInv'
  BY <1>1, <1>8, PreparedDelivery
<1> QED
  BY <1>3, <1>4, <1>5, <1>6, <1>7, <1>8, LifeSteps

LEMMA DeliveryForLife == LifeSpec => [](LifeInv /\ DeliveryInv)
<1>1. LifeInit => DeliveryInv
  BY InitialIsFresh, FreshDelivery DEF LifeInit
<1>2. LifeInv /\ DeliveryInv /\ [LifeNext]_allVars => DeliveryInv'
  BY DeliveryLifeStep DEF LifeInv
<1> QED
  BY <1>1, <1>2, LifeInvariant, PTL DEF LifeSpec

Ready == coordinator = "returned" \/ pending = "ready"

\* While a result waits nothing is reported, and only a search that concludes, and not
\* one that finds nothing to do or rethrows, returns a searched move.
LEMMA ReadyStays ==
  ASSUME LifeInv, [LifeNext]_allVars, Ready', outcome'.kind = "move", ~(Conclude /\ ~error)
  PROVE  Ready /\ UNCHANGED <<outcome, reported>>
<1> USE DEF Ready
<1>1. TypeOK /\ SessionInv /\ (Ready => \A w \in Workers : ~Running(w))
  BY DEF LifeInv, SearchInv, SchedulerInv, SessionInv, TaskInv, Quiet
<1>2. CASE Owner
  <2>1. ASSUME NEW guess, Run(guess) PROVE FALSE
    BY <1>1, <2>1 DEF Run, Begin
  <2>2. CASE RunReturns
    BY <1>1, <2>2 DEF RunReturns, SessionInv
  <2>3. CASE Start
    BY <1>1, <2>3 DEF Start, Begin, SessionInv
  <2>4. ASSUME NEW after \in Calls, CallStop(after)
        PROVE  UNCHANGED <<coordinator, pending, outcome, reported>>
    BY <2>4 DEF CallStop, RequestStop, scheduler, vars
  <2>5. ASSUME NEW p, SetPreference(p)
        PROVE  UNCHANGED <<coordinator, pending, outcome, reported>>
    BY <2>5 DEF SetPreference, scheduler, vars
  <2>6. ResetMemory \/ CallFinish \/ StopReachesFuture
           => UNCHANGED <<coordinator, pending, outcome, reported>>
    BY DEF ResetMemory, CallFinish, StopReachesFuture, scheduler, vars
  <2>7. GetResult => pending' = "invalid" /\ UNCHANGED <<coordinator, outcome, reported>>
    BY DEF GetResult, scheduler, vars
  <2> QED
    BY <1>2, <2>1, <2>2, <2>3, <2>4, <2>5, <2>6, <2>7 DEF Owner
<1>3. CASE Coordinator
  <2>1. CASE Setup
    <3>1. pending' # "ready" /\ coordinator' = "returned"
      BY <1>1, <2>1 DEF Setup, Return, SessionInv
    <3>2. outcome' \in {NoOutcome, [NoOutcome EXCEPT !.kind = "book", !.move = Fallback]}
      BY <2>1, <3>1 DEF Setup, Return
    <3>3. NoOutcome.kind = "nothing"
          /\ [NoOutcome EXCEPT !.kind = "book", !.move = Fallback].kind = "book"
      BY DEF NoOutcome
    <3> QED
      BY <3>2, <3>3
  <2>2. CASE FutureReady
    BY <2>2 DEF FutureReady, scheduler, vars
  <2>3. CASE Rethrow
    BY <2>3 DEF Rethrow, Return, NoOutcome
  <2>4. ASSUME UNCHANGED pending, coordinator \notin {"none", "returned"}, coordinator' # "returned"
        PROVE  FALSE
    BY <1>1, <2>4 DEF SessionInv
  <2>5. ASSUME NEW w \in Workers, SpawnWorker(w) \/ JoinWorker(w) PROVE FALSE
    BY <2>4, <2>5 DEF SpawnWorker, JoinWorker
  <2>6. CASE CoordinatorResumes
    <3>1. coordinator \in {"stopping", "unwindStopping"}
      BY <2>6, LifecycleAssumption DEF CoordinatorResumes, LifeInv, TaskInv, RequestsInv
    <3> QED
      BY <2>4, <2>6, <3>1 DEF CoordinatorResumes
  <2>7. SpawnFails \/ StopTimer \/ Unwind \/ (Conclude /\ error) => FALSE
    BY <2>4 DEF SpawnFails, StopTimer, Unwind, Conclude
  <2> QED
    BY <1>3, <2>1, <2>2, <2>3, <2>5, <2>6, <2>7 DEF Coordinator
<1>4. ASSUME UNCHANGED <<coordinator, pending, outcome>>, Ready => UNCHANGED reported
      PROVE  Ready /\ UNCHANGED <<outcome, reported>>
  BY <1>4
<1>5. CASE Timer \/ DeadlinePasses \/ Destroyed \/ UNCHANGED allVars
  BY <1>4, <1>5 DEF Timer, TimerStops, TimerEnds, DeadlinePasses, ClockExpires, Destroyed,
     RequestStop, life, allVars, scheduler, vars
<1>6. ASSUME NEW w \in Workers, WorkerTask(w) \/ WorkerThrows(w)
      PROVE  Ready /\ UNCHANGED <<outcome, reported>>
  <2>1. Running(w)
    BY <1>1, <1>6, WorkerMoves DEF WorkerTask, WorkerSearches, WorkerThrows, WorkerCancelsSiblings,
       WorkerEnds, Running
  <2>2. UNCHANGED <<coordinator, pending, outcome>>
    BY <1>6 DEF WorkerTask, WorkerSearches, WorkerThrows, WorkerCancelsSiblings, WorkerEnds, life
  <2> QED
    BY <1>1, <1>4, <2>1, <2>2
<1>7. ASSUME NEW r \in Requesters, StopUnderLock(r)
      PROVE  Ready /\ UNCHANGED <<outcome, reported>>
  BY <1>4, <1>7 DEF StopUnderLock, StopSearches, life
<1> QED
  BY <1>2, <1>3, <1>5, <1>6, <1>7 DEF LifeNext

\* Workers that have all left without a failure have handed every report over, and
\* the deepest one is what the completed depth holds.
LEMMA AllDelivered ==
  ASSUME LifeInv, DeliveryInv, failed = {}, AllFinished
  PROVE  DeepestReportStands
<1> USE DEF LifeInv, SearchInv, SchedulerInv
<1>1. \A w \in Workers : pc[w] = "finished"
  BY DEF AllFinished
<1>2. ~Thrown /\ \A w \in Workers : notifications[w] = {}
  BY <1>1 DEF Thrown, ReportInv, HoldsOnlyWhenNotifying
<1>3. \A r \in reported : r.depth \in Depths /\ stages[r.depth] = "complete"
  BY DEF ReportInv, ReportsComplete, TypeOK, Results
<1>4. \A r \in reported : r.depth <= completedDepth
  BY <1>3 DEF EndInv, CompletedCounted
<1>5. ASSUME completedDepth > 0
      PROVE  [depth |-> completedDepth, move |-> bestMoves[completedDepth],
              score |-> lowerBounds[completedDepth] + GrainSize \div 2] \in reported
  <2>1. completedDepth \in Depths /\ stages[completedDepth] = "complete"
    BY <1>5, ParametersAssumption DEF TypeOK, Depths, DeliveryInv
  <2>2. PICK r \in reported : r.depth = completedDepth
    BY <1>2, <2>1 DEF DeliveryInv, Delivered
  <2>3. /\ r.score = lowerBounds[completedDepth] + GrainSize \div 2
        /\ r.move = bestMoves[completedDepth]
    BY <2>2 DEF ResultsMatch, Matches
  <2>4. r = [depth |-> r.depth, move |-> r.move, score |-> r.score]
    BY DEF TypeOK, Results
  <2> QED
    BY <2>2, <2>3, <2>4
<1> QED
  BY <1>4, <1>5 DEF DeepestReportStands

\* A search that concludes has handed over the result it returns.
LEMMA ConcludeAgrees ==
  ASSUME LifeInv, DeliveryInv, Conclude, ~error
  PROVE  /\ \A r \in reported' : r.depth <= outcome'.depth
         /\ outcome'.depth > 0 =>
              [depth |-> outcome'.depth, move |-> outcome'.move, score |-> outcome'.score]
                \in reported'
<1> USE DEF LifeInv, SearchInv, SchedulerInv
<1>1. outcome' = Selected /\ reported' = reported /\ coordinator = "awaitingTimer"
  BY DEF Conclude, Return, scheduler, vars
<1>2. failed = {} /\ AllFinished
  BY <1>1 DEF TaskInv, JoinInv, AllFinished
<1>3. DeepestReportStands
  BY <1>2, AllDelivered
<1>4. Selected.depth = completedDepth
  BY DEF Selected, TypeOK
<1>5. \A r \in reported : r.depth <= completedDepth
  BY <1>2, <1>3 DEF DeepestReportStands
<1>6. ASSUME completedDepth > 0
      PROVE  [depth |-> Selected.depth, move |-> Selected.move, score |-> Selected.score]
               \in reported
  <2>1. completedDepth \in Depths /\ stages[completedDepth] = "complete"
    BY <1>6, ParametersAssumption DEF TypeOK, Depths, DeliveryInv
  <2>2. bestMoves[completedDepth] \in Moves /\ NoMove \notin Moves
    BY <2>1, ParametersAssumption DEF CompleteExact, DeliveryInv
  <2>3. /\ Selected.depth = completedDepth
        /\ Selected.move = bestMoves[completedDepth]
        /\ Selected.score = lowerBounds[completedDepth] + GrainSize \div 2
    BY <1>6, <2>2 DEF Selected
  <2> QED
    BY <1>2, <1>3, <1>6, <2>3 DEF DeepestReportStands
<1> QED
  BY <1>1, <1>4, <1>5, <1>6

\* What a search returns is what its handler was last told: the deepest report, with
\* its move and its score, whichever worker delivered it and in whatever order; and so
\* it stands as soon as the workers of a search in which none failed have all left.
THEOREM OutcomeIsReported ==
  LifeSpec => [](OutcomeAgreesWithReports /\ (failed = {} => DeepestReportStands))
<1>0. Status = "ready" <=> Ready
  BY DEF Status, Ready
<1>1. LifeInit => OutcomeAgreesWithReports
  BY <1>0 DEF LifeInit, OutcomeAgreesWithReports, Ready
<1>2. LifeInv /\ DeliveryInv /\ OutcomeAgreesWithReports /\ [LifeNext]_allVars
        => OutcomeAgreesWithReports'
  <2> SUFFICES ASSUME LifeInv, DeliveryInv, OutcomeAgreesWithReports, [LifeNext]_allVars,
                      Ready', outcome'.kind = "move"
               PROVE  OutcomeAgreesWithReports'
    BY DEF OutcomeAgreesWithReports, Status, Ready
  <2>1. CASE Conclude /\ ~error
    BY <2>1, ConcludeAgrees DEF OutcomeAgreesWithReports
  <2>2. CASE ~(Conclude /\ ~error)
    BY <1>0, <2>2, ReadyStays DEF OutcomeAgreesWithReports
  <2> QED
    BY <2>1, <2>2
<1>3. LifeInv /\ DeliveryInv => (failed = {} => DeepestReportStands)
  BY AllDelivered DEF DeepestReportStands
<1> QED
  BY <1>1, <1>2, <1>3, DeliveryForLife, PTL DEF LifeSpec
-----------------------------------------------------------------------------
(***************************************************************************)
(* The lifecycle implements SearchService: every step is one of its steps, *)
(* or none.                                                                *)
(***************************************************************************)
Asked == Status # "idle" /\ (stopRequested \/ expired)
Broken == Status # "idle" /\ (error \/ failed # {})

LEMMA StatusMeans ==
  /\ Status = "ready" <=> Ready
  /\ Status = "idle" <=> ~Ready /\ coordinator = "none"
  /\ Status = "searching" <=> ~Ready /\ coordinator # "none"
  /\ Status # "ready" => ServiceResult = "none"
BY DEF Status, Ready, ServiceResult

\* A step that touches neither the phase of the search nor what its end depends on.
LEMMA ServiceStutters ==
  ASSUME Status' = Status, Broken' = Broken,
         Status # "idle" => UNCHANGED <<stopRequested, expired>>,
         Status = "ready" => UNCHANGED <<outcome, completedDepth, stages, lowerBounds>>
  PROVE  UNCHANGED Service!serviceVars
<1>1. Asked' = Asked
  BY DEF Asked
<1>2. ServiceResult' = ServiceResult
  <2>1. CASE Status = "ready"
    BY <2>1 DEF ServiceResult, FullResult, Abs
  <2>2. CASE Status # "ready"
    BY <2>2 DEF ServiceResult
  <2> QED
    BY <2>1, <2>2
<1> QED
  BY <1>1, <1>2 DEF Service!serviceVars, Asked, Broken

LEMMA ServiceAsks ==
  ASSUME Status' = Status, Status # "idle", Broken' = Broken, stopRequested' \/ expired',
         UNCHANGED <<outcome, completedDepth, stages, lowerBounds>>
  PROVE  Service!AskStop
<1>1. ServiceResult' = ServiceResult
  BY DEF ServiceResult, FullResult, Abs
<1> QED
  BY <1>1 DEF Service!AskStop, Broken

LEMMA ServiceBegins ==
  ASSUME SessionInv, NEW guess, Begin(guess), coordinator = "none", pending = "invalid",
         pending' # "ready"
  PROVE  Service!Begin
<1>1. Status = "idle" /\ Status' = "searching"
  BY DEF Status, Begin
<1>2. ~(stopRequested' \/ expired') /\ ~(error' \/ failed' # {})
  BY DEF Begin, Prepare
<1> QED
  BY <1>1, <1>2 DEF Service!Begin, ServiceResult

LEMMA ServiceTakes ==
  ASSUME Status = "ready", Status' = "idle"
  PROVE  Service!Take
BY DEF Service!Take, ServiceResult

LEMMA OwnerServes ==
  ASSUME SessionInv, Owner
  PROVE  [Service!Next]_Service!serviceVars
<1> USE DEF SessionInv
<1>1. ASSUME NEW guess, Run(guess) PROVE Service!Begin
  <2>1. coordinator = "none" /\ pending = "invalid" /\ pending' = pending
    BY <1>1 DEF Run
  <2> QED
    BY <1>1, <2>1, ServiceBegins DEF Run
<1>2. CASE RunReturns
  <2>1. Status = "ready" /\ Status' = "idle"
    BY <1>2 DEF RunReturns, Status
  <2> QED
    BY <2>1, ServiceTakes DEF Service!Next
<1>3. CASE Start
  <2>1. coordinator = "none" /\ pending = "invalid"
    BY <1>3 DEF Start
  <2>2. CASE Begin(0) /\ pending' = "running"
    BY <2>1, <2>2, ServiceBegins DEF Service!Next
  <2>3. CASE UNCHANGED <<coordinator, pending>>
    <3>1. Status = "idle" /\ Status' = "idle"
      BY <2>1, <2>3 DEF Status
    <3> QED
      BY <3>1, ServiceStutters DEF Broken
  <2> QED
    BY <1>3, <2>2, <2>3 DEF Start
<1>4. ASSUME UNCHANGED <<coordinator, pending, error, failed, stopRequested, expired,
                         outcome, completedDepth, stages, lowerBounds>>
      PROVE  UNCHANGED Service!serviceVars
  <2>1. Status' = Status
    BY <1>4 DEF Status
  <2> QED
    BY <1>4, <2>1, ServiceStutters DEF Broken
<1>5. ASSUME NEW after \in Calls, CallStop(after)
      PROVE  Service!AskStop \/ UNCHANGED Service!serviceVars
  <2>1. CASE UNCHANGED scheduler
    BY <1>4, <1>5, <2>1 DEF CallStop, scheduler, vars, bounds, progress
  <2>2. CASE pending # "invalid" /\ RequestStop(TheOwner)
    <3>1. Status' = Status /\ Status # "idle" /\ Broken' = Broken
      BY <1>5, <2>2 DEF CallStop, Status, Broken
    <3> QED
      BY <1>5, <2>2, <3>1, ServiceAsks DEF CallStop, RequestStop, bounds, progress
  <2> QED
    BY <1>5, <2>1, <2>2 DEF CallStop
<1>6. CASE GetResult
  <2>1. Status = "ready" /\ Status' = "idle"
    BY <1>6 DEF GetResult, Status
  <2> QED
    BY <2>1, ServiceTakes DEF Service!Next
<1>7. ASSUME NEW p, SetPreference(p) PROVE UNCHANGED Service!serviceVars
  BY <1>4, <1>7 DEF SetPreference, scheduler, vars, bounds, progress
<1>8. ResetMemory \/ CallFinish \/ StopReachesFuture => UNCHANGED Service!serviceVars
  BY <1>4 DEF ResetMemory, CallFinish, StopReachesFuture, scheduler, vars, bounds, progress
<1> QED
  BY <1>1, <1>2, <1>3, <1>5, <1>6, <1>7, <1>8 DEF Owner, Service!Next

LEMMA CoordinatorServes ==
  ASSUME LifeInv, DeliveryInv, Coordinator
  PROVE  [Service!Next]_Service!serviceVars
<1> USE DEF LifeInv, SessionInv
<1>1. TypeOK /\ SchedulerInv /\ EndInv /\ RequestsInv /\ JoinInv
  BY DEF SearchInv, SchedulerInv, TaskInv
<1>2. coordinator \notin {"none", "returned"} => Status = "searching"
  BY DEF Status
<1>3. ASSUME coordinator \notin {"none", "returned"}, coordinator' \notin {"none", "returned"},
             Broken' = Broken, UNCHANGED <<pending, stopRequested, expired>>
      PROVE  UNCHANGED Service!serviceVars
  <2>1. Status = "searching" /\ Status' = Status
    BY <1>3 DEF Status
  <2> QED
    BY <1>3, <2>1, ServiceStutters
<1>4. ASSUME coordinator \notin {"none", "returned"}, coordinator' \notin {"none", "returned"},
             RequestStop(TheCoordinator), Broken' = Broken, UNCHANGED <<pending, outcome>>
      PROVE  Service!AskStop
  <2>1. Status = "searching" /\ Status' = Status
    BY <1>4 DEF Status
  <2> QED
    BY <1>4, <2>1, ServiceAsks DEF RequestStop, bounds, progress
<1>5. CASE Setup
  <2>1. CASE coordinator' = "returned"
    <3>1. ~Broken /\ Status = "searching" /\ Status' = "ready"
      BY <1>1, <1>5, <2>1 DEF Setup, JoinInv, Status, Broken
    <3>2. outcome' \in {NoOutcome, [NoOutcome EXCEPT !.kind = "book", !.move = Fallback]}
      BY <1>5, <2>1 DEF Setup, Return
    <3>3. NoOutcome.kind = "nothing"
          /\ [NoOutcome EXCEPT !.kind = "book", !.move = Fallback].kind = "book"
      BY DEF NoOutcome
    <3>4. ServiceResult' \in {"nothing", "book"}
      BY <3>1, <3>2, <3>3 DEF ServiceResult
    <3>5. Asked' = Asked /\ Broken' = Broken
      BY <1>5, <3>1 DEF Setup, Asked, Broken, scheduler, vars
    <3> QED
      BY <3>1, <3>4, <3>5
      DEF Service!Next, Service!Conclude, Service!Promised, Asked, Broken
  <2>2. CASE coordinator' = "spawning"
    <3>1. coordinator = "setup" /\ UNCHANGED <<pending, error, failed, stopRequested, expired>>
      BY <1>5 DEF Setup, scheduler, vars
    <3>2. Broken' = Broken
      BY <2>2, <3>1 DEF Broken, Status
    <3> QED
      BY <1>3, <2>2, <3>1, <3>2
  <2> QED
    BY <1>5, <2>1, <2>2 DEF Setup, Return
<1>6. ASSUME NEW w \in Workers, SpawnWorker(w) PROVE UNCHANGED Service!serviceVars
  <2>1. /\ coordinator = "spawning" /\ coordinator' \in {"spawning", "joining"}
        /\ UNCHANGED <<pending, error, failed, stopRequested, expired>>
    BY <1>6 DEF SpawnWorker
  <2>2. Broken' = Broken
    BY <2>1 DEF Broken, Status
  <2> QED
    BY <1>3, <2>1, <2>2
<1>7. ASSUME NEW w \in Workers, JoinWorker(w)
      PROVE  Service!AskStop \/ UNCHANGED Service!serviceVars
  <2>1. coordinator = "joining" /\ UNCHANGED <<pending, failed, outcome>>
    BY <1>7 DEF JoinWorker
  <2>2. CASE /\ w \in failed /\ RequestStop(TheCoordinator)
             /\ error' = TRUE /\ coordinator' = "stopping"
    <3>1. Broken' = Broken
      BY <2>1, <2>2 DEF Broken, Status
    <3> QED
      BY <1>4, <2>1, <2>2, <3>1
  <2>3. CASE UNCHANGED <<scheduler, error, coordinator>>
    <3>1. Broken' = Broken
      BY <2>1, <2>3 DEF Broken, Status
    <3> QED
      BY <1>3, <2>1, <2>3, <3>1 DEF scheduler, vars
  <2> QED
    BY <1>7, <2>2, <2>3 DEF JoinWorker
<1>8. CASE SpawnFails
  <2>1. /\ Status = "searching" /\ Status' = "searching" /\ Broken'
        /\ UNCHANGED <<stopRequested, expired>>
    BY <1>8 DEF SpawnFails, Status, Broken, scheduler, vars
  <2>2. ServiceResult' = ServiceResult /\ Asked' = Asked
    BY <2>1 DEF ServiceResult, Asked
  <2> QED
    BY <2>1, <2>2 DEF Service!Next, Service!Break, Asked, Broken
<1>9. CASE CoordinatorResumes
  <2>1. /\ coordinator \in {"stopping", "unwindStopping"}
        /\ coordinator' \in {"joining", "waiting"}
        /\ UNCHANGED <<pending, error, failed, stopRequested, expired>>
    BY <1>1, <1>9 DEF CoordinatorResumes, RequestsInv
  <2>2. Broken' = Broken
    BY <2>1 DEF Broken, Status
  <2> QED
    BY <1>3, <2>1, <2>2
<1>10. CASE StopTimer
  <2>1. /\ coordinator = "joining" /\ coordinator' = "awaitingTimer"
        /\ UNCHANGED <<pending, error, failed, stopRequested, expired>>
    BY <1>10 DEF StopTimer, scheduler, vars
  <2>2. Broken' = Broken
    BY <2>1 DEF Broken, Status
  <2> QED
    BY <1>3, <2>1, <2>2
<1>11. CASE Conclude
  <2>1. /\ coordinator = "awaitingTimer"
        /\ UNCHANGED <<pending, error, failed, stopRequested, expired,
                       completedDepth, stages, lowerBounds>>
    BY <1>11 DEF Conclude, scheduler, vars, bounds, progress
  <2>2. CASE error
    <3>1. coordinator' = "unwinding"
      BY <1>11, <2>2 DEF Conclude
    <3>2. Broken' = Broken
      BY <2>1, <3>1 DEF Broken, Status
    <3> QED
      BY <1>3, <2>1, <3>1, <3>2
  <2>3. CASE ~error
    <3>1. outcome' = Selected /\ coordinator' = "returned"
      BY <1>11, <2>3 DEF Conclude, Return
    <3>2. Status = "searching" /\ Status' = "ready"
      BY <2>1, <3>1 DEF Status
    <3>3. failed = {} /\ AllFinished
      BY <1>1, <2>1, <2>3 DEF JoinInv, AllFinished
    <3>4. outcome'.kind = "move"
      BY <3>1 DEF Selected
    <3>5. ServiceResult' = IF FullResult THEN "full" ELSE "partial"
      BY <2>1, <3>2, <3>4 DEF ServiceResult, FullResult, Abs
    <3>6. ~(stopRequested \/ expired) => FullResult
      BY <1>1, <3>3, LastOneDecides DEF FullResult, DeliveryInv
    <3>7. ~Broken /\ ~Broken' /\ Asked' = Asked
          /\ (Asked <=> stopRequested \/ expired)
      BY <2>1, <2>3, <3>2, <3>3 DEF Broken, Asked
    <3> QED
      BY <3>2, <3>5, <3>6, <3>7
      DEF Service!Next, Service!Conclude, Service!Promised, Asked, Broken
  <2> QED
    BY <2>2, <2>3
<1>12. CASE Unwind
  <2>1. /\ coordinator = "unwinding" /\ coordinator' = "unwindStopping"
        /\ RequestStop(TheCoordinator) /\ UNCHANGED <<pending, error, failed, outcome>>
    BY <1>12 DEF Unwind
  <2>2. Broken' = Broken
    BY <2>1 DEF Broken, Status
  <2> QED
    BY <1>4, <2>1, <2>2 DEF Service!Next
<1>13. CASE Rethrow
  <2>1. /\ coordinator = "waiting" /\ coordinator' = "returned" /\ error
        /\ outcome' = [NoOutcome EXCEPT !.kind = "error"]
        /\ UNCHANGED <<pending, error, failed, stopRequested, expired>>
    BY <1>1, <1>13 DEF Rethrow, Return, JoinInv, Failing, scheduler, vars
  <2>2. Status = "searching" /\ Status' = "ready" /\ Broken /\ Broken' /\ Asked' = Asked
    BY <2>1 DEF Status, Broken, Asked
  <2>3. outcome'.kind = "error"
    BY <2>1 DEF NoOutcome
  <2>4. ServiceResult' = "error"
    BY <2>2, <2>3 DEF ServiceResult
  <2> QED
    BY <2>2, <2>4 DEF Service!Next, Service!Conclude, Service!Promised, Asked, Broken
<1>14. CASE FutureReady
  <2>1. /\ coordinator = "returned" /\ pending' = "ready"
        /\ UNCHANGED <<error, failed, stopRequested, expired, outcome, completedDepth,
                       stages, lowerBounds>>
    BY <1>14 DEF FutureReady, scheduler, vars, bounds, progress
  <2>2. Status' = Status
    BY <2>1 DEF Status
  <2> QED
    BY <2>1, <2>2, ServiceStutters DEF Broken
<1> QED
  BY <1>5, <1>6, <1>7, <1>8, <1>9, <1>10, <1>11, <1>12, <1>13, <1>14
  DEF Coordinator, Service!Next

LEMMA TasksServe ==
  ASSUME LifeInv,
         \/ Timer \/ DeadlinePasses
         \/ \E w \in Workers : WorkerTask(w) \/ WorkerThrows(w)
         \/ \E r \in Requesters : StopUnderLock(r)
         \/ UNCHANGED allVars
  PROVE  [Service!Next]_Service!serviceVars
<1> USE DEF LifeInv, SessionInv
<1>1. TypeOK
  BY DEF SearchInv, SchedulerInv
<1>2. ~Quiet => Status = "searching"
  BY DEF TaskInv, Status
<1>3. ASSUME UNCHANGED <<coordinator, pending>>
      PROVE  Status' = Status
  BY <1>3 DEF Status
<1>4. ASSUME UNCHANGED <<coordinator, pending, error, failed, stopRequested, expired>>,
             Status # "searching" => UNCHANGED <<outcome, completedDepth, stages, lowerBounds>>
      PROVE  UNCHANGED Service!serviceVars
  BY <1>3, <1>4, ServiceStutters DEF Broken
<1>5. ASSUME NEW r, RequestStop(r), UNCHANGED life, Status # "idle" PROVE Service!AskStop
  BY <1>3, <1>5, ServiceAsks DEF RequestStop, life, bounds, progress, Broken
<1>6. CASE Timer
  <2>1. Status = "searching"
    BY <1>2, <1>6 DEF Timer, TimerStops, TimerEnds, Quiet
  <2>2. TimerEnds => UNCHANGED Service!serviceVars
    BY <1>4, <2>1 DEF TimerEnds, scheduler, vars
  <2> QED
    BY <1>5, <1>6, <2>1, <2>2 DEF Timer, TimerStops, Service!Next
<1>7. CASE DeadlinePasses
  <2>1. Status # "idle"
    BY <1>7 DEF DeadlinePasses, Status
  <2> QED
    BY <1>3, <1>7, <2>1, ServiceAsks
    DEF DeadlinePasses, ClockExpires, life, bounds, progress, Broken, Service!Next
<1>8. ASSUME NEW w \in Workers, WorkerTask(w) \/ WorkerThrows(w)
      PROVE  [Service!Next]_Service!serviceVars
  <2>1. Status = "searching"
    <3>1. Running(w)
      BY <1>1, <1>8, WorkerMoves DEF WorkerTask, WorkerSearches, WorkerThrows,
         WorkerCancelsSiblings, WorkerEnds, Running
    <3> QED
      BY <1>2, <3>1 DEF Quiet
  <2>2. WorkerSearches(w) => UNCHANGED Service!serviceVars
    BY <1>1, <1>4, <2>1, WorkerMoves DEF WorkerSearches
  <2>3. WorkerThrows(w) => UNCHANGED Service!serviceVars
    BY <1>4, <2>1 DEF WorkerThrows, life
  <2>4. WorkerCancelsSiblings(w) => Service!AskStop
    BY <1>5, <2>1 DEF WorkerCancelsSiblings
  <2>5. CASE WorkerEnds(w)
    <3>1. UNCHANGED <<coordinator, pending, stopRequested, expired>> /\ failed' = failed \union {w}
      BY <2>5 DEF WorkerEnds
    <3>2. Status' = "searching" /\ Broken' /\ Asked' = Asked
      BY <1>3, <2>1, <3>1 DEF Broken, Asked
    <3>3. ServiceResult' = ServiceResult
      BY <2>1, <3>2 DEF ServiceResult
    <3> QED
      BY <2>1, <3>2, <3>3 DEF Service!Next, Service!Break, Asked, Broken
  <2> QED
    BY <1>8, <2>2, <2>3, <2>4, <2>5 DEF WorkerTask, Service!Next
<1>9. ASSUME NEW r \in Requesters, StopUnderLock(r) PROVE UNCHANGED Service!serviceVars
  BY <1>4, <1>9 DEF StopUnderLock, StopSearches, life, bounds
<1>10. CASE UNCHANGED allVars
  BY <1>4, <1>10 DEF allVars, vars, life, bounds, progress
<1> QED
  BY <1>6, <1>7, <1>8, <1>9, <1>10

\* Every search ends in one result, which the owner takes before it can begin another:
\* an exception if and only if a task threw or could not be spawned, and less than a
\* full result only if a stop was requested or the deadline passed.
THEOREM LifecycleServes == LifeSpec => Service!Init /\ [][Service!Next]_(Service!serviceVars)
<1>1. LifeInit => Service!Init
  BY DEF LifeInit, Service!Init, ServiceResult, Status
<1>2. LifeInv /\ DeliveryInv /\ [LifeNext]_allVars => [Service!Next]_(Service!serviceVars)
  BY OwnerServes, CoordinatorServes, TasksServe DEF LifeNext, Destroyed, LifeInv
<1> QED
  BY <1>1, <1>2, DeliveryForLife, PTL DEF LifeSpec
=============================================================================
