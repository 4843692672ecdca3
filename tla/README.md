# MorphyChess in TLA+

Specifications of the parts of MorphyChess in which tasks, exceptions and
long sequences of calls meet, with TLC instances that check them and TLAPS
proofs for every size. Paths below are relative to the repository.

## 1. The program

MorphyChess is an XBoard engine. One *protocol task* reads commands and owns
the game. It runs searches in the background through `ParallelSearch`, whose
coordinator spawns worker tasks. Each worker owns a `Search` with a board of
its own and answers one question at a time: *is the score of the root at this
depth above this threshold?* The scheduler turns the answers into bounds.

| component | state it keeps | operations | interacts with |
|---|---|---|---|
| bound scheduler (`src/parallel_search.cpp:272-399`) | bounds, stage and best move per depth; the probe in flight per worker; done flags | `nextSearch`, merge, `removeOutliers`, `requestStop` | workers through one mutex; each `Search` through its stop flag; the progress handler |
| lifecycle (`src/parallel_search.cpp:14-265`) | the pending future, `active`, the timer | `run`, `start`, `finish`, `stop`, setters, destructor, `runImpl` | protocol task, coordinator, timer, workers; table, book |
| search (`src/search.cpp`, `src/search_quiescent.cpp`) | its board, `currentPly`, two null-move flags, stop flag | `test`, `testChild`, `nullTest`, quiescence, walk along the variation | node, table, history, evaluator; cancelled by flag and exception |
| node (`src/node.cpp`) | stage of move generation, queue | `doNextMove`, `restore` | search's board, history |
| table (`src/memory.cpp`) | four stores of bounds, striped locks | `read`, `write`, `reset`, touch maintenance | all workers |
| session (`src/xboard.cpp`) | board, mode flags, running search mode, clocks | commands, `pollSearch` | lifecycle, book |
| book (`src/book.cpp`) | entries, file name, `dirty` | `open`, `digest`, `findMove`, `learning`, `save` | file system, session |
| learning (`src/learning.cpp`) | leaves of the game, weights | `triggerLearning` | evaluator, table, two files |
| seek bot (`src/seek_bot.cpp`) | two flags and a future | `start`, `stop` | its task |
| board (`src/board.cpp`, `src/see.cpp`, `src/egtb.cpp`) | squares, hashes, undo history | `makeMove`, `undoMove`, generators, draw rules, tests of foreign moves, move texts, exchange evaluation, end-game index | everything |
| evaluator (`src/static_evaluator.cpp`) | its parameters | `configure`, `evaluate`, `test` | search, learning |
| PGN reader (`src/pgn.cpp`) | a text, a cursor, the last game | `load`, `next` | board, book |
| history, rating | tables, or none | pure or nearly pure | |

The behaviours that are hard: probes answered out of order while several
depths are open; cancellation by atomic flags that their own worker clears; a
stop, a deadline, an exception and a normal end racing each other; exceptions
that leave a recursive search with moves on its board; results and reports
delivered later than they were computed; files replaced while the program may
die. `PROJECT.json` lists each as a hazard at its line.

What makes each component correct: the scheduler loses no question, asks none
twice, encloses the true score and reports each depth once; the lifecycle
gives every search exactly one result and lets no task outlive it; a search
gives its board back unchanged however it ends; a table never answers with a
bound nobody proved for that position; a session applies a result only to the
position it was computed for; a file is at all times one that was completely
written; a board's redundant copies of the position agree and an undo restores
all of them; the node picker hands out every move once; the evaluator's
shortcut gives the answer the whole evaluation would give; what the engine
writes of a move it reads as that move; a game file is read as the games it
holds, or refused.

## 2. Modules

| module | models | role |
|---|---|---|
| `BoundScheduler` | scheduler, workers, `requestStop`, clock | core; proved about |
| `ParallelSearch` | lifecycle around the scheduler (EXTENDS it) | composition; proved about |
| `ParallelSearchProofs` | | theorems of `BoundScheduler` and `ParallelSearch` |
| `SearchService` | what the owner of a `ParallelSearch` may rely on | abstract specification |
| `Search` | one `Search` as a stack machine | component; proved about |
| `SearchProofs` | | theorems of `Search` |
| `Node` | one node's staged move picker | component; proved about |
| `Board` | squares, piece sets, keys, flags, undo history | component; proved about |
| `Legality` | generators' lists, `moveIsCapture`, `isPseudoLegalMove`, mate (EXTENDS `Board`) | operators; proved about |
| `Exchange` | static exchange evaluation (EXTENDS `Legality`) | operators and their reference; proved about |
| `MoveTexts` | `moveToStr`, `makeTextMove` (EXTENDS `Legality`) | operators; proved about |
| `StaticEvaluator` | material, terms, the shortcut of `test` (EXTENDS `Board`) | operators; proved about |
| `EndgameIndex` | index of a placement of three men | operators; proved about |
| `PositionProofs` | | theorems of `Board`, `Legality` and `MoveTexts` |
| `EvaluationProofs` | | theorems of `StaticEvaluator`, `Exchange` and `EndgameIndex` (EXTENDS `PositionProofs`) |
| `Pgn` | reader of game files | component |
| `History` | scores and killer moves of one worker | component; proved about |
| `OrderingProofs` | | theorems of `Node` and `History` |
| `MemoryTable` | the table under its striped locks, slot by slot | component; proved about |
| `MemoryTableProofs` | | theorems of `MemoryTable` |
| `Xboard` | the session's commands and polls, on searches as the service promises them | component; proved about |
| `BookFile` | one book file shared by engines that may die | component; proved about |
| `Learning` | weights on disk and in memory, failures, crashes | component; proved about |
| `FileProofs` | | theorems of `BookFile` and `Learning` |
| `SeekBot` | the owner's calls and the seek task | component; proved about |
| `SessionProofs` | | theorems of `Xboard` and `SeekBot` |
| `MC...` | instances of the above for TLC | |

A `TypeOK` that no run lists documents the shapes of a module's variables and
holds on the instance of its run.

### BoundScheduler

The variables carry the names of `ParallelSearch`'s members. One critical
section of `worker()` is one action: `StartWorker` (first pass) or
`MergeAndContinue` (merge the answer, `removeOutliers`, `nextSearch`,
`clearStop`); only `stopRequested` and the clock are read without the mutex,
and each pass reads them once. `CompleteProbe` and `CancelProbe` end
`Search::test`, `DeliverProgress` calls the handler after the mutex is
released. `requestStop()` is two actions because other tasks may run between
its atomic store (`RequestStop`) and its critical section (`StopSearches`).
The loop of `nextSearch` is written as the set of depths it visits; primed
bounds are the bounds after the merge of the same critical section.

`values` is a ghost: what each root move is worth. A probe that runs to its end
answers by it, with a move that wins, unless it is `Anything`: then a probe may
answer whatever scores within `MaxScore` allow, and the properties that speak of
a true score do not apply. The real table can also
end the root's probe with a bound and hand it the move stored with another
bound (`src/memory.cpp:152`, `:166`); what `ResultsExact` says of the best
move is relative to a root answered by its own search.

### ParallelSearch and SearchService

The owner's blocking calls are split where they wait. `runImpl` is the
`coordinator`; the timer is `timer`; a worker may end in an exception
(`WorkerThrows`). `prepare()` is part of `Begin`. A setter changes the
draw preference after its `stop()`: a probe could store a bound only under the
old one. `SearchService` has one
status, one result per search and the two reasons a result may be less than
complete; `ImplementsService` maps the lifecycle's state to it.

### Search

A state is the board's list of half moves (a real move or a null move), the
ply counter, the flags and the stack of frames. What positions, the table and
the evaluator say is a choice. An exception of `checkKill` drops the frames
down to `test()` in one step, as no frame has cleanup code. The code between two
reads of the stop flag is one step. `reconstructPrincipalVariation` is a frame
that walks (`WalkMove`, `WalkBack`) on the same board. Its call of
`serialTestDriver` (`src/search.cpp:63`) is left out, as it is never reached: it
wants an entry without a move, and `MemoryTable::read` reports none as found
(`src/memory.cpp:176`), at which the walk ends (`src/search.cpp:52`).

### Node

A position is a split of its moves into what the three generators yield, with
the legal ones, the sign of each capture, the table's move and two killers as
choices of `Init`. A step goes from one `case` label of `doNextMove` to the
next or once through `tryAgain`. The order inside a stage is open.

### Board

The state has every member of `Board`: squares, sets per piece, counts,
occupancy, position and pawn key, flags with the undo history, fifty-move
clock and castled flags. `Loaded` is what `loadFen` builds of a position with its side,
castling rights, en-passant pawn and clock, and `Acceptable` what it asks of them.
`MakeMove` takes any move of the generators,
`MakeNullMove` is how the search passes, `UndoMove` takes back. `Applied`
follows `makeMove` to its test of the king and `Made` adds the rollback;
`Undone` is `undoMove` with its three special undos. A key is the set of the
features whose random words are XORed, so that toggling is symmetric
difference and equal keys are equal feature sets: hash collisions are left
out, and what the code leaves out of a key (the side to move, the row of an
en-passant pawn) is left out here. The four rotated occupancies are one set.

Four modules ask questions of every position the board reaches. `Legality` has
the three generators and the tests that judge a move by its squares alone, as
the node picker does with killers. In `Exchange` the calls of `see` inside one another
are a function from levels to boards and scores, what they return is another, from
the last level back, and the textbook swap-off stands beside them, with moves of the
generators and the worth of whole boards. `Longest` bounds the levels; no exchange
is cut short by it (`ExchangesEnd`). In `MoveTexts` a text is a record of
what its characters say, and reading it is choosing among the legal moves.

### StaticEvaluator

`Configured` is what `configure` leaves; the terms of each colour are written
out as they are in the code, which computes them separately, with the tables
of the source. Doubles are the integers they are truncated to; `Quotient` is
the division of C++. `Above` is `test` with its shortcut. `Parameters` is what
`configure` takes, and the settings of an instance are some of it.

### EndgameIndex

An index is a number of three digits. The FEN between index and board is the
identity on squares; what `loadFen` refuses is the parameter `Sound`. XOR with
56 is written as the reflection of the row.

### Pgn

A text is a sequence of the items the reader acts on; one call of `load` or
`next` is one step. The instance writes a file together with the games it
stands for, cuts it off or damages it, and the properties compare.

### History

One worker's move scores, killers and increments as `update`, `reset` and the
constructor leave them. `cutoffs` is a ghost: the calls since the last reset.

### MemoryTable

A critical section is taken apart into the steps in which a second task in the
same slot would be seen: the tag and the score of an entry are written apart,
a slot is tested and read apart, `reset` clears store by store. A key has two slots,
a shared one among all entries and one in the part of its worker, and one lock, which
follows from the shared slot: a private slot is reached under several locks. A score is
abstracted to the test that proved it.

### Xboard

The protocol task executes one command or one `pollSearch` at a time; a search
is what `SearchService` promises (searching, ready, taken), on the position and
for the purpose it was started with. `Budget` bounds the number of commands.

### Learning

`triggerLearning` is a step per system call; any may fail or be cut short by the
end of the process, appending to `history.txt` also half way. Which weights
come out of the positions is a choice.

### SeekBot

Each access to a flag or to the future is a step, of the owner or of the task.
Arguments that `start` refuses before it does anything are left out.

### BookFile

A book is the set of games learned. `open`, `digest`, `learning` are one step
each, `save` is a step per system call; any call may fail and any engine may
die between two of them and be started again. `open` takes whatever file it
cannot open for a missing one (`src/book.cpp:169`): `Rebuilding` builds the book anew
from `eco.pgn` and saves it over the file there is. A save that fails may fail to
remove its temporary file as well (`Discarded`), and then no later save creates one.

## 3. Runs

| run | instance | shows |
|---|---|---|
| `scheduler` | 3 workers, 2 depths, 2 moves, 3 score tables or any answers, guess -3, an owner that may stop, a deadline | no question lost or repeated; an unstopped search completes; bounds enclose the true score; a complete depth has it exactly, with a best move, is reported once and stays as it is; the deepest report is what the search ends with, in whatever order the reports arrive; nothing is merged after the end |
| `lifecycle` | 2 workers, 1 depth, 2 searches in a row, spawns and tasks fail, timer, setters | no task or stop request outlives its search; cached bounds match the preference; refinement of the service (fairness) |
| `search_unwinds` | depth 4, ply cap 5, 2 moves per node, walks of depth 2 | board, ply and flags agree at every step and are restored however a call ends; checks do not lead a walk past its array; what is stopped or out of time ends (fairness) |
| `search_history_full` | the root two half moves from the history limit | a violation: see below |
| `node_stages` | every position of 6 moves, every legality, table move and pair of killers | each move handed out once; only late quiet moves are reduced |
| `board_moves` | 7 positions, null moves, undo at any time, 2 evaluator settings | redundant state agrees; undo restores all of it; repetitions are counted exactly; the killers the node picker lets through are quiet moves of the position; exchanges are the swap-off; texts read back; the evaluator's shortcut is exact and its colours are alike |
| `castling_texts` | a castling move that gives check | a violation: see below |
| `pgn_games` | pairs of four games, annotated, cut off and damaged everywhere | exactly the games of a file are read; a broken file loses only what is broken and is noticed |
| `history_cutoffs` | 3 moves, 5 cutoffs, `int` up to 15, depths and plies on and off the limits | order kept by halving (no overflow is a theorem) |
| `table_resets` | 5 entries, 3 locks, 2 workers with 2 entries each, 2 resets; 2 keys with one private slot and different locks | no two tasks in a slot, no half entry answered, a shared slot at least as deep as the private one, no deadlock |
| `session_commands` | 2 moves, 7 commands, history of 3 | a running search fits board and mode; nothing is searched twice without a command; an engine to move moves in the end (fairness) |
| `book_shared` | 2 engines, 2 games, failures and deaths | the file is always whole, `dirty` is cleared only by a publication, a save drops no game of the file it builds on, unless it publishes a book rebuilt from `eco.pgn` |

Bounds. *Scheduler*: two depths suffice for every relation the scan has
between a depth and its neighbour; three workers are the least for which two
others are in flight while one merges. Scores span -4..4 with a grain of 2, so
that up to five thresholds are open at once; `Infty` is far
enough away that no chain of open thresholds reaches it (`ReachAssumption`:
`Infty > 3 * Reach + 2 * GrainSize`, where `Reach` is `MaxScore` and a grain per
worker and three more). In the code 100000 exceeds
`3 * (10000 + (W + 3) * 8) + 16` up to `W` = 2900 workers. `prepare()` would also
accept a guess as far out as `kInfty - grain`; its callers pass 0 or the score
of an earlier search, and the assumption asks for no more. One of the tables of
scores lies off the grain, where a report is exact to half a grain. A mate score (`MinCheckmateValue` 3) inside that range makes the early end at a
mate happen. Workers are symmetric, as the code treats their indices alike.
The score stays, falls to a loss or rises to a mate from one depth to the next;
the guess is negative and lies off the grain, so that rounding towards zero
matters. One owner stops at any time, and the deadline passes at any time; the
timer races the rest in `lifecycle`.
Every property of this run is also proved for any number of workers and depths.
*Lifecycle*: one depth, because races of spawn, timer, stop and failure do
not depend on how many depths the workers cross; two searches, because what
matters is what the first leaves to the second. *Search*: the reductions keep
the order of their sizes in `params.hpp`; ply cap 5 lets a null move, its
verification, an extension and quiescence all occur in one line, and lets a walk
of depth 2 be extended to the cap by checks. *Board*: each
start needs as many half moves as its special moves take to meet (a promoting
capture of a rook with a castling right; a double step between two pawns, one
of them pinned along the row; a capture across the rim that is none; two
squares attacked by a dozen pieces; a pawn that may be taken in passing as the
position is loaded, which makes the same men a different position later); one plays long enough for a third
occurrence and fills a history of 8; one has most pieces for the evaluator's
terms, and two knights on one file, whose texts need the rank. The second setting of the evaluator puts terms over their bound, which is
no multiple of the grain; the grains are the two in use, 8 and 2.
*PGN*: two annotations at a distance of three items meet in every way; games are
with and without tags, moves and result; two half moves reach the limit. *History*: three moves, two to compare
and one rewarded; a score passes the largest `int` after a few cutoffs.
*Table*: keys 0 and 10 have the private slot 0 of each worker, but the shared slots 0 and 2
under the locks 0 and 2, so that what keeps two tasks out of a private slot is that it
is one worker's alone, and not the lock; fewer locks than slots, and not a divisor, so that stripes wrap and
overlap; two writes meet one reset and each other. *Session*: seven commands
reach each mode from each other mode with a search under way; the game ends
in mate, in a draw and at the history limit. *Book*: two engines are all that
share a file in any one race.

Fairness. Weak fairness of each task of the search and of each lock holder:
the tasks are HPX tasks that yield at every poll (`checkKill`), and
`hpx::mutex` is held for bounded work. A probe ends because the search below it
is finite (`DepthCapped`); `search_unwinds` assumes only that the searching
task runs on. The owner finishes a call it began, but need not
make another; the clock need not reach the deadline. In the session the loop's
`pollSearch` is fair, and so is the end of a search for a move, which has a
deadline; pondering and analysis have none and may go on for ever.

### Findings

`search_history_full`: `Board::makeMove` refuses every move, the null move
included, once 1024 half moves are recorded (`src/board.cpp:469`).
`nullTest` does not look at the answer (`src/search.cpp:157`): it counts a ply
and later undoes a move, now a real one. `search.hpp:75` and the comment at
`search.cpp:360` say that `currentPly` is exactly the number of moves made.
With room in the history (`search_unwinds`, and `PlyAlwaysCounts` for every
instance) the property holds.
`reconstructPrincipalVariation` ignores the same answer (`src/search.cpp:73`).

`castling_texts`: `makeTextMove` compares castling texts as a whole
(`src/board.cpp:1333`), so that `O-O+` and `O-O#` are refused, which `moveToStr`
itself writes and games in PGN contain. `TextsReadBack` is the property without
this case.

Remarks. The comment at `src/node.cpp:201` says that quiescence includes every
promotion and capture; underpromotions, captures among them, are listed by
`genPseudolegalNoncaptures` (`src/board.cpp:1161`) and left out.
`isPseudoLegalMove` alone takes a pawn's step across the rim of the board for an
en-passant capture; its callers ask `moveIsCapture` first, which catches it.
With 1024 half moves recorded no move can be made, and `kingInCheckmate` and
`result` judge the game over. Black's middlegame king table has -20 on its
second row and -40 on its last, White's the other way round
(`src/static_evaluator.cpp:59-71`); `ColoursAlike` excludes such kings. It also
excludes piece values that `configure` takes although its limit on the material
comes out negative (`2 * (knight + bishop + rook) + queen < 800`): both clamps of
`materialScore` (`src/static_evaluator.cpp:234`) then apply, and White is ahead
by the limit whatever stands on the board. The evaluator rounds its bound to the default grain only: a grain that does not
divide 8 would break the shortcut. Two processes that learn in one directory
share `brain.dat.tmp`, which is opened with truncation, and one could publish
the other's unfinished file; `Learning` has one process. The comment at
`src/book.cpp:166` says that missing books are built from `eco.pgn`; a book that is
there and cannot be opened (no permission, no descriptor left) is built anew and
replaced too, and the games learned are lost.

## 4. Proofs

`ParallelSearchProofs` proves, of the scheduler, for every number of workers, depths, moves and
every grain, under `ParametersAssumption` and `ReachAssumption` (what the second
says of `Infty` is needed from `NothingLeftUnasked` on):

- `TypeCorrect`: `TypeOK` (no run repeats it), by one step per action.
- `BoundsNeverCross`: `BoundsOrdered`. An answer is merged only if its
  threshold lies strictly inside the interval.
- `DoneIsFinal`: `NothingMergedAfterDone`. Inductive strengthening: once
  `searchDone`, every search is stopped, since both places that set it stop all
  of them in the same critical section and a worker clears its flag only in a
  pass that saw it unset.
- `BoundsSound`: `BoundsEncloseScore`. Strengthening: an answer in hand that was
  not cancelled is what the table of values says of the worker's threshold.
- `EachDepthReportedOnce`: `ReportedOnce`. Strengthening: a depth that is not
  complete has been neither reported nor queued, and one that is queued by one
  worker is not queued by another.
- `NeverAskedTwice`: `NoQuestionAskedTwice`. Being different is not inductive,
  being a grain apart is (`Spacing`): a new threshold is a grain beyond the
  outermost one known or asked, and that only keeps its distance to questions
  outside the bounds if a question inside them leaves a grain on one side.
- `CompletedIsFinal`: `CompletedDepthIsFinal`, from `Spacing`: a complete depth is
  one grain wide, a question inside it would leave no room.
- `NothingLeftUnasked`: `NoQuestionLost`. This is the long one. Thresholds form a
  lattice, and what is inductive is how questions lie on it (`Lattice`): between
  two of them none is missing (`Gapless`), so that a depth with no neighbour
  left to hand out has nothing left at all (`AllAsked`); what is cancelled lies
  outside the bounds; and a question far from zero ends a chain that begins near
  it (`Chained`). The last is why `Reach` suffices: a chain has no more links
  than there are workers (`Pigeons`), so no step out of an infinite bound is
  ever nearer to the guess than the other side. The guess itself lies in reach
  because the depth above was narrowed to as many thresholds as workers before
  (`Crowded`, `GuessWithinReach`). A critical section is proved in two halves,
  merge and scan, with the invariant's parts taking the bounds and the crew as
  parameters in between (`Midway`).
- `UnstoppedCompletes`: `UnstoppedSearchCompletes`. A worker leaves when a scan
  offers it nothing; what others still ask then decides the rest. The last to
  leave leaves no open threshold behind (`LastOneDecides`), as who has left asks
  nothing (`GoneAsksNothing`).
- `ReportsAreExact`: `ResultsExact`, to half a grain, and exactly for scores on
  the grain. Strengthening: a complete depth has two finite neighbouring bounds
  and a move, and a report equals what its depth still says.

It proves of the lifecycle, with its failures, for any number of
searches in a row, under `LifecycleAssumption` too (the tasks that request a stop
are all distinct):

- `EverySearchSchedules`: every invariant above holds in every search of a
  lifetime. `Prepare` leaves what the scheduler's `Init` leaves but for names
  nobody reads (`Fresh`), and every other step of the lifecycle is a step of the
  scheduler or touches only the tasks (`LifeSteps`, `TaskOnly`).
- `NothingRunsOn`: `InactiveMeansQuiet`. Strengthening: a request to stop belongs
  to a task that lives (`RequestsInv`), and a coordinator that waits for a task
  has not yet counted it among the joined (`JoinInv`), also while an exception
  unwinds it.
- `TableMatchesPreference`: `CachedBoundsMatchPreference`, a corollary: a setter
  changes the preference where `NothingRunsOn` says nobody probes.
- `OutcomeIsReported`: `DeepestReportStands` of every search none of whose tasks
  threw, and `OutcomeAgreesWithReports`, the same of the result that `runImpl`
  returns. Strengthening `DeliveryInv`: a complete depth is reported, or on its way,
  unless a task threw; a search with a thrown task does not conclude but rethrows.
  The run `scheduler` checks the first, with two depths whose reports arrive in
  either order; `lifecycle` has one depth and checks neither.
- `LifecycleServes`: `LifeSpec` implies the initial condition of `SearchService`
  and, of every step, that it is one of the service's or none. One lemma for
  each group of steps (`OwnerServes`, `CoordinatorServes`, `TasksServe`); what it
  means that a result is full comes from `LastOneDecides`. The service's
  liveness, the rest of `ImplementsService`, stays with the run `lifecycle`.

`SearchProofs` proves, for every cap on the ply, depth, reduction and number of
moves, under `SearchAssumption`:

- `VerificationsDoNotNest`: `FlagsFollowStack`, and `RecursionBounded`:
  `DepthCapped`. What is inductive is the discipline of the stack (`StackInv`):
  each frame is at a place its function has (`Placed`), above one that may have
  called it from there (`Above`), entered at the ply that the moves of the frames
  below make (`Measured`), which is in its range (`Fits`), and at a height this
  ply allows (`Low`). The height is needed because the depth a frame has left
  says nothing of how deep it is: a check extends and a walk can go on. A
  verification costs two frames and no ply, and there is only one of them, since
  a frame that verifies has none below (`Stands`). Two lemmas say that a frame
  that moves on keeps this and one that calls does (`Turned`, `Called`); each
  action then chooses its case of them.
- `PlyAlwaysCounts`, `RootAlwaysRestored`, `TypesKept`: `PlyCountsMoves`,
  `RootRestored` and `TypeOK`. Hypothesis `Room`: half moves up to the root and
  the cap fit in the undo history (with 64 and 1024: a game of at most 960
  half moves). It is what a walk or a search can make, as neither runs within the
  other (`NoWalkBelow`), and
  without it the finding `search_history_full` is the counterexample. The
  strengthening (`BoardInv`) is that the board holds the game, the walk's moves
  and one half move for each ply; with `Room` and `DepthCapped`, `makeMove` is never
  refused, so that nobody has to look whether it was.

`OrderingProofs` proves, of the node's move picker (`Node`), under
`PositionAssumption` (no move is in two of the groups that the generators make, and
there are finitely many; the position, the hints and the order of each group are
the actions' choice):

- `PickerTypesKept`, `EveryMoveOnce`: `TypeOK` and `EachMoveOnce`. The picker has no set of
  what it has done; the strengthening (`NodeInv`) gives it one: `Tried` is the groups
  of the stages passed, less what is still queued, with the hinted moves, and
  what has been handed out is the legal part of it (`Recorded`). Each stage draws
  from a group of its own, so a queue holds nothing tried before.
- `ReducedMovesAreLate`: `OnlyLateQuietsReduced`. What counts is that the best
  captures, the killers and the hash move have their place in the count
  before a move from the last group has (`FirstMarked`).

and, of the scores (`History`, instanced), under `HistoryAssumption` and
`IncrementsAssumption` (the constructor's cap of half the largest `int`), stated as a
hypothesis:

- `ScoresFit`: `TypeOK`, that is, no score leaves `int`: a score that would is
  halved first, and half a score and an increment fit.
- `OrderAlwaysKept`: `OrderKept`. Division by two is monotone.

`MemoryTableProofs` proves, under `DimensionsAssumption`:

- `SlotsAlwaysExclusive`: `SlotsExclusive`. Strengthening `LockInv`: a task in a
  critical section holds the locks its place in the code says, and a lock has
  one holder; the slot's lock is a function of the slot, and the whole-table
  operations hold all of them.
- `StripesNeverDeadlock`: `NoDeadlock`. A lock that is held is held by a task inside
  or by a maintainer on its way up (`HoldersBusy`); of these the one that has
  climbed farthest can wait only for a task inside, which waits for nobody.
- `TableAnswersProved`: `AnswersProved`, and `SharedNeverShallower`:
  `SharedSlotsDeepest`. Strengthening `TableInv`: an entry carries a proof that
  agrees with its tag, unless the one task in its slot is between tag and score
  (`Tears`); a writer's tags are those of its call; an answer in hand is proved;
  a store that a reset has passed is empty, and stays so while it sweeps. A
  private entry is deeper than the shared slot only while its writer is on the
  way from one to the other.

`PositionProofs` proves, of the board, for every set of positions to load and every
length of the history, under `StartsAssumption` (squares, side, rights, en-passant
pawn and clock of a position have their types):

- `BoardConsistent`: `Consistent`, and `BoardsComeBack`: `TakingBackRestores`, its
  action property. The strengthening (`BackedInv`) is that the board and every board of
  before a half move are whole, and that `Undone` of each is the one before it.
- A board is whole (`Whole`) when it is a function of its squares, flags, clock
  and history (`State`), and when a right to castle has its king and rook at home
  (`Homed`), a pawn that can be taken in passing stands behind an empty square
  (`EpReady`), and no right is left to a side that has castled. Without `Homed` a
  castling would move a rook that is not there, and without `EpReady` a capture in
  passing would remove nothing; both the forward and the backward step fail.
  A loaded en-passant pawn has both from the checks of `loadFen` (`LoadedWhole`).
  Each side has one king (`Crowned`): `loadFen` asks for one each, and `makeMove` refuses
  to take one (`CrownedAfter`).
- `GeneratedSuits`: each move the generators offer and `makeMove` does not refuse
  fits the squares (`Fits`): one case per piece, castling and the four ways of a
  pawn. `AppliedMove` follows the squares, sets, counts and keys through
  every branch of `makeMove`, `UndoneMove` through every branch of `undoMove`;
  `WholeApplied` combines them.

- `KillersAlwaysFit`: `KillersAreQuietMoves` at every board the moves lead to. A whole
  board has no pawn on a first or last row (`Inside`, which `loadFen` and promotion
  see to): with one there, and no en-passant row set (0), `PawnReaches` would call a
  move to the eighth square a capture in passing. `UsablePawns`, `ListedPawns` and
  `UsablePieces` compare the two tests with the generators, piece by piece.
- `RepetitionsCounted`: `RepetitionsExact`. What the window of `adjustRepeatCount`
  leaves out could not repeat: `Potential` counts a unit for every man and one for each
  row before a pawn, no half move raises it (`PotentialAfter`), and each that resets the
  fifty-move clock lowers it, so no earlier position has the squares of now. The half
  move before last is left out too, and `TwoSteps` says why it may be: the
  square that one side leaves is not filled by the other, so that the squares of now come
  back two half moves later only when both sides passed (`NoTwoPasses`). Within the window
  equal keys are equal positions (`KeyTells`, `SameKeys`): the key names only the
  column of a pawn that may be taken in passing, and `EpReady` the row. The strengthening
  is `ChronicleInv`: beside `BackedInv`, what each board of the history says of all
  boards before it (`Follows`: keys, sides to move, potentials, the last two half moves),
  since `undoMove` makes any of them the current one again.

- `TextsAlwaysRead`: `TextsReadBack`, that is, of what `moveToStr` writes, all but
  castling that gives check (the finding `castling_texts`), and of the short texts
  those with the source file alone, the rank alone or neither; castling has no other
  text than the one written. What `makeTextMove` makes of a text is the one
  legal move that agrees with it (`ShortlyRead`); two moves of the same kind of piece
  to one square differ in file or rank, and what `moveToStr` adds is what tells them
  apart (`Alike`, `Arriving`).

The keys are sets of features there, so what the proof says of them is that each
feature that comes or goes is toggled once (`WordsPut`, `WordsTaken`).

`EvaluationProofs` proves `TestMeansScore`, for every material, sum of terms,
fifty-move clock, threshold and bound, and every grain that divides 8: the
shortcut of `test` answers what the whole score would. Rounding towards zero
moves a sum by less than the bound only because the bound is a multiple of the
grain (`BoundOnLattice`, `RoundedSum`). Of positions it proves, for all
parameters that `configure` takes (`SettingsAssumption`) and at every board the moves
lead to:

- `ShortcutAlwaysExact`: `ShortcutExact`, from `TestMeansScore`, once every term is
  known to be a number (`TermSumTyped`, `MaterialScoreTyped`). The kings' terms are,
  because each side has one king.
- `KingsAlwaysStand`: each side's one king is where `inCheck` and the evaluator look for it.
- `ColoursAlwaysAlike`: `ColoursAlike`. The board with the colours exchanged has the
  counts of the other colour and the mirror images of its squares (`Reflects`). The
  rank of White's hindmost pawn on a file is seven less that of Black's
  (`ReflectedRanks`), each pawn, king and piece counts what its opposite does
  (`TurnedPawn`, `ReflectedKings`, `ReflectedPieces`), sums are moved from one
  set of squares to the other (`MirrorSums`), and rounding, limits and damping are odd
  functions (`QuotientOdd`, `WithinOdd`, `DampedOdd`).

- `SwapOffAlwaysExact`: `SwapOffExact`, at every board the moves lead to. Who is attacked
  attacks back (`PawnsAttackBack`, `AttacksBack`), so that the attack sets `see` looks
  up around its square are the generators' captures on it (`RecaptureListed`,
  `ListedRecapture`), and the first legal one of the least kind is the one of least
  rank (`RankedByKind`, `SameRecapture`). What `see` adds for a move is what the move
  changes on the board (`GainIsChange`). Boards along the line stay whole and the man
  that took last stands on the square (`OnLine`, `FollowsUp`), so both lines
  are the same (`NextLinked`), and from the end of them back what a call returns is
  what it was given plus what its mover wins (`SeeExact`).
- `ExchangesEnd`: the recursion of `see` ends: each recapture leaves one man less (`ManGone`).

A sum over a set of squares is a fold, and the library's induction on finite sets
takes a predicate, which the provers cannot be given. What is needed of
sums (`TotalUnfolds`, `TotalTyped`, `TotalTakesOut`, `TotalMoved`) is proved by smallest
counterexample instead: the subsets of which it would be false are a set, and one of
them has no other below it (`SmallestSubset`, from `WFMin`). In the same way the recursive
functions of an exchange are shown to exist (`CallsExist`, `ReturnsExist`) and to
agree level by level (`LowestExists`, `HighestExists`).

It also proves `LoadedIndexReadsBack` and `IndexIsOneToOne`: index
and placement are inverse to each other, in both colours. A square is
determined by the number of free squares before it, and each number below 62
occurs (`OrdinalTells`, `OrdinalMet`).

`FileProofs` proves, of the opening book (`BookFile`), for every set of engines and of
games and under `FilesAssumption` (an empty file or a broken one is no book):

- `BooksTypesKept`, `BookWhole`, `CleanIsPublished`: `TypeOK`, `BookAlwaysWhole` and
  `CleanMeansPublished`. The strengthening (`BookInv`) says whose the temporary
  file is: all engines give it one name, and it is the `O_EXCL` of its creation that makes
  the engine which writes or renames it the one that created it (`OwnTemporary`);
  what it renames is the whole of what it saves. A mark is cleared only with
  the rename, so entries without one have been published (`CleanAlways`).
- `SavesKeepGames`: `SavesAddGames`. An engine's entries, and what it saves of
  them, hold the games of the file they were loaded from (`BuildsOnBase`). It says
  nothing of two steps that do drop learned games, which the code takes: a
  rename by an engine that has not seen the file since another published it, and one by an
  `open` that could not open the file and has built a new book.

and of the weights (`Learning`, instanced), for every set of weights that holds the
default ones (`WeightsAssumption`, a hypothesis of each theorem):

- `BrainAlwaysWhole`, `PlayedWeightsPublished`: `BrainWhole`; `LivePublished` and
  `CacheFollowsLive`. The strengthening says what the temporary file, the last
  line of `history.txt` and `brain.dat` hold at each step of a call.
- `RecordPrecedesPublication`: `PublishedAfterRecord`.

`SessionProofs` proves, of the session (`Xboard`), for any lines, commands and game
history, under `SessionAssumption`:

- `SessionTypesKept`, `SearchFitsSession`: `TypeOK` and `SearchMatchesSession`. Commands and
  results change the board and the flags in any order; the strengthening
  (`SessionInv`) is that a search that has not answered is for the board and the
  mode the session is in now, since whatever changes them stops it first
  (`Unfinished`).
- `PositionsSearchedOnce`: `NoSearchRepeated`. Each position searched since the last
  command is settled by a completed flag or by the search that runs (`SettledBy`,
  `ExploredOnce`).

and of the seek bot (`SeekBot`, instanced) `RunningIsTrue`, `StopIsFinal` and
`OneTaskAtATime`: `RunningTellsTruth`, `StoppedMeansQuiet` and `OneTask`. Strengthening: a
task is there exactly while its future, or the owner about to store it, holds
it, and `active` is set exactly while a task lives or is about to be spawned.

No run repeats what `Learning`, `SeekBot` and `EndgameIndex` state: the first two
are proved for their whole state space and the last for every index.

Everything else is model-checked only. Liveness and the refinement's fairness
are out of the prover's reach, and so is what a RECURSIVE operator computes, such as
those of `Pgn`; recursive functions over numbers and sets of squares are not. Where a proof needs the least of a set of numbers (thresholds,
locks), it takes it from the library's theorem about well-founded relations
(`WFMin`), which is about sets; induction on a predicate is not available.

## 5. Not modelled

- Scores and thresholds inside `Search`, whose answers are choices, and its
  statistics counters. `serialTestDriver`, which only the tests call in effect.
- The evaluator's pawn cache, the mate values and the pawn statistics, which
  nothing uses.
- Clocks, draw offers and ratings of the session; `killUntouchedEntries` of the
  table and `moveIsFutile` of the node, which the program never calls.
- Rating formulas and learning's gradient: floating point.
- The bytes of FENs, PGN tags, books and output, the rotated bitboards' bit
  tricks, the command line, bench and debug: no control of their own.

`Pgn` is recursive and stays with TLC (`GamesReadTrue`, `NothingLost`), as do `EngineMoves`
and `StopIsObeyed`, which are liveness.
