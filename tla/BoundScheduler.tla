--------------------------- MODULE BoundScheduler ---------------------------
(***************************************************************************)
(* The bound-splitting root scheduler of src/src/parallel_search.cpp: the  *)
(* state that ParallelSearch guards with its scheduling mutex and the      *)
(* worker tasks that share it.                                             *)
(*                                                                         *)
(* A worker asks Search::test whether the score of the root position at    *)
(* some depth exceeds a threshold.  Thresholds lie between consecutive     *)
(* multiples of the score grain.  The answers narrow lowerBounds and       *)
(* upperBounds of that depth until they are adjacent; a deeper iteration   *)
(* may start while probes of a shallower one are still running.            *)
(*                                                                         *)
(* One critical section of ParallelSearch::worker (merge the answer,       *)
(* removeOutliers, nextSearch, clearStop) is one action: everything it     *)
(* reads and writes is guarded by the mutex, but for stopRequested and the *)
(* clock, which it reads once.  A probe runs outside the mutex and ends in *)
(* an action of its own.                                                   *)
(*                                                                         *)
(* Left out: node counts.  A move stands for itself; NoMove is the empty   *)
(* Move.  The search below the root is external here: `values' is what the *)
(* root moves are worth.                                                   *)
(***************************************************************************)
EXTENDS Integers, FiniteSets

CONSTANTS
  Workers,            \* worker indices, 0 .. workerCount - 1 in the code
  Requesters,         \* tasks that may call requestStop()
  TheTimer,           \* the requester that waits for the deadline
  Moves, NoMove,      \* the legal root moves; the empty move
  MaximumDepth,       \* depth argument of prepare()
  GrainSize,          \* kDefaultGrainSize
  Infty,              \* kInfty
  MinCheckmateValue,  \* kMinCheckmateValue
  MaxScore,           \* no position is worth more than this in magnitude
  InitialGuesses,     \* initialGuess arguments of prepare()
  ScoreTables,        \* candidates for what each root move is worth per depth
  Anything,           \* in place of a table: probes do not answer by one
  Timed               \* seconds > 0.0

Depths == 1 .. MaximumDepth
NoDepth == -1
Abs(x) == IF x < 0 THEN -x ELSE x

ASSUME ParametersAssumption ==
  /\ MaximumDepth \in Nat \ {0}
  /\ GrainSize \in Nat /\ GrainSize >= 2
  /\ Infty \in Nat /\ Infty > GrainSize
  /\ MinCheckmateValue \in Nat
  /\ MaxScore \in Nat
  /\ InitialGuesses \subseteq {g \in Int : Abs(g) <= Infty - GrainSize}
  /\ MaxScore < Infty
  /\ ScoreTables \subseteq [Depths -> [Moves -> -MaxScore .. MaxScore]] \union {Anything}
  /\ Timed \in BOOLEAN
  /\ NoMove \notin Moves

\* No first guess is farther from zero: the depth above has been narrowed to as
\* many open thresholds as there are workers before a depth is first probed.
Reach == MaxScore + (Cardinality(Workers) + 3) * GrainSize

\* The constructor refuses zero workers, a search without a legal move is not
\* prepared, and prepare() is given 0 or the score of an earlier search.
ASSUME ReachAssumption ==
  /\ IsFiniteSet(Workers) /\ Workers # {}
  /\ Moves # {}
  /\ InitialGuesses \subseteq -MaxScore .. MaxScore
  /\ Infty > 3 * Reach + 2 * GrainSize

VARIABLES
  lowerBounds, upperBounds,  \* per depth; entry 0 carries the initial guess
  stages,                    \* per depth
  bestMoves,                 \* per depth: the move that raised lowerBounds
  completedDepth, searchDone,
  depths, testValues,        \* per worker: the probe in flight
  stopped,                   \* per worker: Search::stopRequested
  stopRequested,             \* ParallelSearch::stopRequested
  requests,                  \* per requester: where it is in requestStop()
  expired,                   \* has the clock passed the deadline?
  pc,                        \* per worker task
  answers,                   \* per worker: what Search::test returned
  notifications,             \* per worker: results to hand to the handler
  reported,                  \* results the progress handler has received
  values                     \* per depth, what each root move is worth; or Anything

bounds == <<lowerBounds, upperBounds, bestMoves>>
progress == <<stages, completedDepth, searchDone>>
vars == <<bounds, progress, depths, testValues, stopped, stopRequested,
          requests, expired, pc, answers, notifications, reported, values>>
-----------------------------------------------------------------------------
(***************************************************************************)
(* Thresholds.                                                             *)
(***************************************************************************)

\* C++ integer division truncates toward zero.
TruncDiv(a, b) == IF a >= 0 THEN a \div b ELSE -((-a) \div b)

\* The threshold just below the estimate of depth d, from depth d - 1.
Guess(d) ==
  LET middle == TruncDiv(lowerBounds'[d - 1] + upperBounds'[d - 1], 2)
  IN TruncDiv(middle, GrainSize) * GrainSize - GrainSize \div 2

\* Mutant: blind to what the other workers are asking.
InFlightUnseen(w, d) == {}

\* What the other workers are asking at depth d.
InFlight(w, d) == {testValues[v] : v \in {u \in Workers \ {w} : depths[u] = d}}

\* The next threshold above, and below, everything known or asked.
Above(w, d) ==
  LET known == InFlight(w, d) \union {lowerBounds'[d]}
  IN {x + GrainSize : x \in {y \in known : \A z \in known : z <= y}}
Below(w, d) ==
  LET known == InFlight(w, d) \union {upperBounds'[d]}
  IN {x - GrainSize : x \in {y \in known : \A z \in known : z >= y}}

CanRaise(w, d) == \E high \in Above(w, d) : high < upperBounds'[d]
CanLower(w, d) == \E low \in Below(w, d) : low > lowerBounds'[d]

\* The thresholds nextSearch may hand to w at depth d: exactly one of them.
Candidates(w, d) ==
  IF stages[d] = "waiting" THEN {Guess(d)}
  ELSE {high \in Above(w, d) :
          /\ CanRaise(w, d)
          /\ CanLower(w, d) => \A low \in Below(w, d) :
                                 Abs(high - Guess(d)) <= Abs(low - Guess(d))}
       \union
       {low \in Below(w, d) :
          /\ CanLower(w, d)
          /\ CanRaise(w, d) => \A high \in Above(w, d) :
                                 Abs(high - Guess(d)) > Abs(low - Guess(d))}

HasThreshold(w, d) ==
  \/ stages[d] = "waiting"
  \/ stages[d] = "searching" /\ (CanRaise(w, d) \/ CanLower(w, d))
-----------------------------------------------------------------------------
(***************************************************************************)
(* nextSearch: the scan over depths stops at the first depth that offers a *)
(* threshold or that decides the search.  Primed bounds are the bounds     *)
(* after the worker merged its answer.                                     *)
(***************************************************************************)
\* Mutant: an interval with an open threshold counts as pinned.
PinnedTooWide(d) == upperBounds'[d] - lowerBounds'[d] <= 2 * GrainSize

Pinned(d) == upperBounds'[d] - lowerBounds'[d] <= GrainSize

ScannedStage(w, d) ==
  IF HasThreshold(w, d) THEN "searching"
  ELSE IF stages[d] = "complete" \/ Pinned(d) THEN "complete"
  ELSE "finalSearching"

Decides(w, d) ==
  /\ ScannedStage(w, d) = "complete"
  /\ d = MaximumDepth \/ Abs(lowerBounds'[d]) >= MinCheckmateValue

Visited(w) ==
  {d \in Depths : \A e \in 1 .. d - 1 : ~HasThreshold(w, e) /\ ~Decides(w, e)}

\* Mutant: depths completed earlier are reported again.
NewlyCompleteAgain(w) ==
  {d \in Visited(w) : ScannedStage(w, d) = "complete"}

NewlyComplete(w) ==
  {d \in Visited(w) : stages[d] # "complete" /\ ScannedStage(w, d) = "complete"}

\* Mutant: completed depths are counted, as if they completed in order.
CountCompleted(w) == {completedDepth + Cardinality(NewlyComplete(w))}

\* The deepest completed depth, as the set of it alone.
DeepestCompleted(w) ==
  LET reached == NewlyComplete(w) \union {completedDepth}
  IN {d \in reached : \A e \in reached : e <= d}

Completed(d) == [depth |-> d, move |-> bestMoves'[d],
                 score |-> lowerBounds'[d] + GrainSize \div 2]

SearchOver == searchDone \/ stopRequested \/ (Timed /\ expired)

\* The worker leaves without work; `halted' are the searches stopped so far.
NoWork(w, halted) ==
  /\ depths' = [depths EXCEPT ![w] = NoDepth]
  /\ stopped' = halted
  /\ pc' = [pc EXCEPT ![w] =
              IF notifications'[w] = {} THEN "finished" ELSE "notifying"]
  /\ UNCHANGED testValues

\* Mutant: the worker's stop flag survives into its next probe.
ClaimAtUncleared(w, d, halted) ==
  /\ \E t \in Candidates(w, d) : testValues' = [testValues EXCEPT ![w] = t]
  /\ depths' = [depths EXCEPT ![w] = d]
  /\ stopped' = halted
  /\ pc' = [pc EXCEPT ![w] =
              IF notifications'[w] = {} THEN "probing" ELSE "notifying"]

ClaimAt(w, d, halted) ==
  /\ \E t \in Candidates(w, d) : testValues' = [testValues EXCEPT ![w] = t]
  /\ depths' = [depths EXCEPT ![w] = d]
  /\ stopped' = [halted EXCEPT ![w] = FALSE]
  /\ pc' = [pc EXCEPT ![w] =
              IF notifications'[w] = {} THEN "probing" ELSE "notifying"]

Scan(w, halted) ==
  /\ ~SearchOver
  /\ stages' = [d \in Depths |->
                  IF d \in Visited(w) THEN ScannedStage(w, d) ELSE stages[d]]
  /\ completedDepth' \in DeepestCompleted(w)
  /\ notifications' = [notifications EXCEPT ![w] =
                         {Completed(d) : d \in NewlyComplete(w)}]
  /\ \/ \E d \in Visited(w) :
          /\ HasThreshold(w, d)
          /\ ClaimAt(w, d, halted)
          /\ UNCHANGED searchDone
     \/ /\ \E d \in Visited(w) : Decides(w, d)
        /\ searchDone' = TRUE
        /\ NoWork(w, [v \in Workers |-> TRUE])
     \/ /\ \A d \in Visited(w) : ~HasThreshold(w, d) /\ ~Decides(w, d)
        /\ NoWork(w, halted)
        /\ UNCHANGED searchDone

NextSearch(w, halted) ==
  /\ \/ Scan(w, halted)
     \/ /\ SearchOver
        /\ notifications' = [notifications EXCEPT ![w] = {}]
        /\ NoWork(w, halted)
        /\ UNCHANGED progress
  /\ answers' = [answers EXCEPT ![w] = NoMove]
  /\ UNCHANGED <<stopRequested, requests, expired, reported, values>>
-----------------------------------------------------------------------------
(***************************************************************************)
(* Worker tasks.                                                           *)
(***************************************************************************)

\* The first pass of a worker through the scheduler: nothing to merge.
StartWorker(w) ==
  /\ pc[w] = "starting"
  /\ UNCHANGED bounds
  /\ NextSearch(w, stopped)

\* Mutant: an answer counts although its probe was cancelled.
InformativeWhenStopped(w) ==
  /\ testValues[w] < upperBounds[depths[w]]
  /\ testValues[w] > lowerBounds[depths[w]]

\* Only a finished answer strictly inside the remaining interval counts.
Informative(w) ==
  /\ ~stopped[w]
  /\ testValues[w] < upperBounds[depths[w]]
  /\ testValues[w] > lowerBounds[depths[w]]

\* Mutant: the first move that raised the bound is kept.
MergeAnswerKeepsMove(w) ==
  LET d == depths[w] IN
  \/ /\ Informative(w) /\ answers[w] # NoMove
     /\ lowerBounds' = [lowerBounds EXCEPT ![d] = testValues[w]]
     /\ bestMoves' = [bestMoves EXCEPT ![d] = IF @ = NoMove THEN answers[w] ELSE @]
     /\ UNCHANGED upperBounds
  \/ /\ Informative(w) /\ answers[w] = NoMove
     /\ upperBounds' = [upperBounds EXCEPT ![d] = testValues[w]]
     /\ UNCHANGED <<lowerBounds, bestMoves>>
  \/ ~Informative(w) /\ UNCHANGED bounds

MergeAnswer(w) ==
  LET d == depths[w] IN
  \/ /\ Informative(w) /\ answers[w] # NoMove
     /\ lowerBounds' = [lowerBounds EXCEPT ![d] = testValues[w]]
     /\ bestMoves' = [bestMoves EXCEPT ![d] = answers[w]]
     /\ UNCHANGED upperBounds
  \/ /\ Informative(w) /\ answers[w] = NoMove
     /\ upperBounds' = [upperBounds EXCEPT ![d] = testValues[w]]
     /\ UNCHANGED <<lowerBounds, bestMoves>>
  \/ ~Informative(w) /\ UNCHANGED bounds

\* Mutant: every other probe of the depth is cancelled.
OutlierEverywhere(w, v) == v # w /\ depths[v] = depths[w]

\* removeOutliers: questions the merged bounds have made redundant.
Outlier(w, v) ==
  /\ v # w
  /\ depths[v] = depths[w]
  /\ \/ testValues[v] >= upperBounds'[depths[w]]
     \/ testValues[v] <= lowerBounds'[depths[w]]

MergeAndContinue(w) ==
  /\ pc[w] = "answered"
  /\ MergeAnswer(w)
  /\ NextSearch(w, [v \in Workers |-> stopped[v] \/ Outlier(w, v)])

\* Hand the results to the progress handler, outside the scheduling mutex.
DeliverProgress(w) ==
  /\ pc[w] = "notifying"
  /\ reported' = reported \union notifications[w]
  /\ notifications' = [notifications EXCEPT ![w] = {}]
  /\ pc' = [pc EXCEPT ![w] = IF depths[w] = NoDepth THEN "finished" ELSE "probing"]
  /\ UNCHANGED <<bounds, progress, depths, testValues, stopped, stopRequested,
                 requests, expired, answers, values>>

\* The table, in which bounds of different searches meet, may make the answers of
\* two probes contradict each other; a search is Stable when it does not.
Stable == values # Anything

\* Search::test ran to its end: a winning move, or NoMove for `false'.
\* (A bound in the table can end the root's test with the move of another bound,
\* memory.cpp:152 and 166: with Stable the root is taken to search by itself.)
ProbeOutcomes(d, t) ==
  IF Stable
  THEN LET winners == {m \in Moves : values[d][m] > t}
       IN IF winners = {} THEN {NoMove} ELSE winners
  ELSE IF t > MaxScore THEN {NoMove}
  ELSE IF t < -MaxScore THEN Moves
  ELSE Moves \union {NoMove}

FinishProbe(w, outcome) ==
  /\ pc' = [pc EXCEPT ![w] = "answered"]
  /\ answers' = [answers EXCEPT ![w] = outcome]
  /\ UNCHANGED <<bounds, progress, depths, testValues, stopped, stopRequested,
                 requests, expired, notifications, reported, values>>

CompleteProbe(w) ==
  /\ pc[w] = "probing"
  /\ \E outcome \in ProbeOutcomes(depths[w], testValues[w]) : FinishProbe(w, outcome)

\* checkKill saw the stop flag: SearchCancelled makes Search::test false.
CancelProbe(w) ==
  /\ pc[w] = "probing" /\ stopped[w]
  /\ FinishProbe(w, NoMove)
-----------------------------------------------------------------------------
(***************************************************************************)
(* requestStop(): the atomic store first, the rest under the mutex.        *)
(***************************************************************************)
RequestStop(r) ==
  /\ requests[r] = "none"
  /\ r = TheTimer => Timed /\ expired
  /\ stopRequested' = TRUE
  /\ requests' = [requests EXCEPT ![r] = "locking"]
  /\ UNCHANGED <<bounds, progress, depths, testValues, stopped, expired, pc,
                 answers, notifications, reported, values>>

\* Mutant: the scheduler is told, the running searches are not.
StopSearchesUnheard(r) ==
  /\ requests[r] = "locking"
  /\ searchDone' = TRUE
  /\ requests' = [requests EXCEPT ![r] = "done"]
  /\ UNCHANGED <<bounds, stages, completedDepth, depths, testValues, stopped,
                 stopRequested, expired, pc, answers, notifications, reported,
                 values>>

StopSearches(r) ==
  /\ requests[r] = "locking"
  /\ searchDone' = TRUE
  /\ stopped' = [w \in Workers |-> TRUE]
  /\ requests' = [requests EXCEPT ![r] = "done"]
  /\ UNCHANGED <<bounds, stages, completedDepth, depths, testValues,
                 stopRequested, expired, pc, answers, notifications, reported,
                 values>>

ClockExpires ==
  /\ Timed /\ ~expired
  /\ expired' = TRUE
  /\ UNCHANGED <<bounds, progress, depths, testValues, stopped, stopRequested,
                 requests, pc, answers, notifications, reported, values>>
-----------------------------------------------------------------------------
(***************************************************************************)
(* The specification.                                                      *)
(***************************************************************************)
\* The state prepare() leaves, for one argument initialGuess.
Prepared(guess) ==
  [lower |-> [d \in 0 .. MaximumDepth |->
                IF d = 0 THEN guess - GrainSize \div 2 ELSE -Infty],
   upper |-> [d \in 0 .. MaximumDepth |->
                IF d = 0 THEN guess + GrainSize \div 2 ELSE Infty]]

InitialState(workerState) ==
  /\ \E guess \in InitialGuesses : /\ lowerBounds = Prepared(guess).lower
                                   /\ upperBounds = Prepared(guess).upper
  /\ stages = [d \in Depths |-> "waiting"]
  /\ bestMoves = [d \in Depths |-> NoMove]
  /\ completedDepth = 0 /\ searchDone = FALSE
  /\ depths = [w \in Workers |-> NoDepth]
  /\ testValues = [w \in Workers |-> 0]
  /\ stopped = [w \in Workers |-> FALSE]
  /\ stopRequested = FALSE /\ expired = FALSE
  /\ requests = [r \in Requesters |-> "none"]
  /\ pc = [w \in Workers |-> workerState]
  /\ answers = [w \in Workers |-> NoMove]
  /\ notifications = [w \in Workers |-> {}]
  /\ reported = {}
  /\ values \in ScoreTables

Init == InitialState("starting")

AllFinished == \A w \in Workers : pc[w] = "finished"

\* The search is over; nothing of it is left to run.
Terminated ==
  AllFinished /\ (\A r \in Requesters : requests[r] # "locking") /\ UNCHANGED vars

Worker(w) ==
  \/ StartWorker(w) \/ DeliverProgress(w)
  \/ CompleteProbe(w) \/ CancelProbe(w)
  \/ MergeAndContinue(w)

Next ==
  \/ \E w \in Workers : Worker(w)
  \/ \E r \in Requesters : RequestStop(r) \/ StopSearches(r)
  \/ ClockExpires
  \/ Terminated

Spec == Init /\ [][Next]_vars

\* Search::test returns, the mutex is granted, requestStop() runs on.
Fairness ==
  /\ \A w \in Workers : WF_vars(Worker(w))
  /\ \A r \in Requesters : WF_vars(StopSearches(r))

FairSpec == Spec /\ Fairness
-----------------------------------------------------------------------------
(***************************************************************************)
(* Properties.                                                             *)
(***************************************************************************)
Stages == {"waiting", "searching", "finalSearching", "complete"}
Results == [depth : Depths, move : Moves \union {NoMove}, score : Int]

\* Where a worker's task may be, before it is spawned and after it threw included.
WorkerStates ==
  {"unspawned", "starting", "notifying", "probing", "answered", "failing", "finished"}

\* The types of the scheduler's state.
TypeOK ==
  /\ lowerBounds \in [0 .. MaximumDepth -> Int]
  /\ upperBounds \in [0 .. MaximumDepth -> Int]
  /\ stages \in [Depths -> Stages]
  /\ bestMoves \in [Depths -> Moves \union {NoMove}]
  /\ completedDepth \in 0 .. MaximumDepth
  /\ searchDone \in BOOLEAN /\ stopRequested \in BOOLEAN /\ expired \in BOOLEAN
  /\ depths \in [Workers -> Depths \union {NoDepth}]
  /\ testValues \in [Workers -> Int]
  /\ stopped \in [Workers -> BOOLEAN]
  /\ requests \in [Requesters -> {"none", "locking", "done"}]
  /\ pc \in [Workers -> WorkerStates]
  /\ answers \in [Workers -> Moves \union {NoMove}]
  /\ notifications \in [Workers -> SUBSET Results]
  /\ reported \in SUBSET Results
  /\ values \in [Depths -> [Moves -> -MaxScore .. MaxScore]] \union {Anything}

\* A worker whose probe of depth d is still to be merged and not cancelled.
Asking(w, d) == depths[w] = d /\ ~stopped[w]

OnLattice(t) == (t + GrainSize \div 2) % GrainSize = 0
OpenThresholds(d) ==
  {t \in lowerBounds[d] + 1 .. upperBounds[d] - 1 : OnLattice(t)}

\* Answers of concurrent probes, merged in any order, never make the bounds of
\* a depth meet or cross: a late answer the other bound has overtaken is dropped.
BoundsOrdered == \A d \in Depths : lowerBounds[d] < upperBounds[d]

\* Two workers never ask the same question: nextSearch looks just beyond the
\* thresholds in flight, cancelled ones included.
NoQuestionAskedTwice ==
  \A v, w \in Workers :
    v # w /\ depths[v] # NoDepth /\ depths[v] = depths[w]
      => testValues[v] # testValues[w]

\* When a depth stops handing out thresholds, every threshold its bounds leave
\* open is in the hands of a worker whose answer will count.  Otherwise the
\* depth could never be completed: nobody would ask the missing question.
NoQuestionLost ==
  ~searchDone =>
    \A d \in Depths : stages[d] = "finalSearching" =>
      \A t \in OpenThresholds(d) :
        \E w \in Workers : Asking(w, d) /\ testValues[w] = t

\* A search that nobody stopped and that ran to the end has completed its last
\* depth, or found a mate: no worker was left behind with a depth unresolved.
UnstoppedSearchCompletes ==
  (AllFinished /\ ~stopRequested /\ ~expired)
  => /\ completedDepth > 0
     /\ \/ completedDepth = MaximumDepth
        \/ \E d \in 1 .. completedDepth :
             stages[d] = "complete" /\ Abs(lowerBounds[d]) >= MinCheckmateValue

\* With probes that answer truthfully, the bounds of every depth enclose what
\* the root is worth, whatever the order of the answers and whoever is
\* cancelled, and the move kept with the lower bound is worth more than it.
BoundsEncloseScore ==
  Stable =>
    \A d \in Depths :
      /\ \A m \in Moves : values[d][m] <= upperBounds[d]
      /\ \/ bestMoves[d] = NoMove /\ lowerBounds[d] = -Infty
         \/ bestMoves[d] \in Moves /\ values[d][bestMoves[d]] > lowerBounds[d]

\* What the best root move is worth at depth d.
BestValue(d) == CHOOSE v \in {values[d][m] : m \in Moves} :
                  \A m \in Moves : values[d][m] <= v

\* A result names a move worth more than the threshold below its score, no move is
\* worth more than the threshold above it, and the score is exact if the moves are
\* worth whole grains.
ReportedTruly(result) ==
  LET worth == values[result.depth]
      below == result.score - GrainSize \div 2
  IN /\ result.move \in Moves
     /\ worth[result.move] > below
     /\ \A m \in Moves : worth[m] <= below + GrainSize
     /\ (\A m \in Moves : worth[m] % GrainSize = 0) =>
          /\ result.score = BestValue(result.depth)
          /\ worth[result.move] = BestValue(result.depth)

\* "Adjacent threshold bounds enclose exactly one quantized score": the result
\* of a completed depth names a best move and its score, to the grain.
ResultsExact ==
  Stable =>
    \A result \in reported \union UNION {notifications[w] : w \in Workers} :
      ReportedTruly(result)

\* Each completed depth is reported by one worker, once, although every worker
\* scans every depth.
ReportedOnce ==
  /\ \A r, q \in reported : r.depth = q.depth => r = q
  /\ \A w \in Workers : \A r \in notifications[w] :
       /\ \A q \in reported : q.depth # r.depth
       /\ \A v \in Workers : \A q \in notifications[v] :
            q.depth = r.depth => v = w /\ q = r

\* What runImpl selects when the workers have ended agrees with what the handler
\* was told: the move and score of the deepest report, although a deeper depth may
\* be completed before a shallower one and reports are delivered out of order.
DeepestReportStands ==
  AllFinished =>
    /\ \A r \in reported : r.depth <= completedDepth
    /\ completedDepth > 0 =>
         [depth |-> completedDepth, move |-> bestMoves[completedDepth],
          score |-> lowerBounds[completedDepth] + GrainSize \div 2] \in reported

\* A completed depth is final: no late answer moves its bounds or its move, so
\* what was reported stays true.
CompletedDepthIsFinal ==
  [][\A d \in Depths : stages[d] = "complete" =>
       /\ stages'[d] = "complete"
       /\ lowerBounds'[d] = lowerBounds[d] /\ upperBounds'[d] = upperBounds[d]
       /\ bestMoves'[d] = bestMoves[d]]_vars

\* Once the search is over no answer counts, also not one that was under way
\* or one whose worker had just cleared its stop flag.
NothingMergedAfterDone == [][searchDone => UNCHANGED bounds]_vars
=============================================================================
