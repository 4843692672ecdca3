------------------------------- MODULE Search -------------------------------
(***************************************************************************)
(* One Search (src/src/search.cpp, src/src/search_quiescent.cpp) as a      *)
(* stack machine: test(), testChild(), nullTest(), quiescentTest() and     *)
(* quiescentValue() are frames that make and undo moves on the one board   *)
(* they share, and an exception thrown by checkKill() drops every frame    *)
(* without running its undo.  reconstructPrincipalVariation() walks down   *)
(* the table's moves on that same board.  MemoryTable::read() finds no     *)
(* entry without a move, so the walk never asks serialTestDriver(), which  *)
(* nothing else of the program calls: the driver is not modelled.          *)
(*                                                                         *)
(* What the position, the table and the evaluator say is a choice; the     *)
(* order of calls, the ply counter, the two null-move flags, the limit of  *)
(* the board's undo history and the depth arithmetic are the code's.       *)
(* stopRequested and the deadline are shared with other tasks and are only *)
(* read in checkKill(), so code between two reads is one step.             *)
(***************************************************************************)
EXTENDS Integers, Sequences, FiniteSets

CONSTANTS
  MaxDepth,         \* kMaxDepth
  NullReduction,    \* kNullReduction
  ReductionLimit,   \* kReductionLimit
  FullDepthMoves,   \* kFullDepthMoves
  HistoryLimit,     \* maxHalfMoves
  RootPlies,        \* half moves of the game before the root
  Branching,        \* bound on the legal moves of a position
  TestDepths,       \* depths test() is called with
  WalkDepths        \* completed depths a variation is walked for

ASSUME SearchAssumption ==
  /\ {MaxDepth, NullReduction, ReductionLimit, FullDepthMoves, HistoryLimit,
      RootPlies, Branching} \subseteq Nat
  /\ MaxDepth > 1
  /\ RootPlies <= HistoryLimit
  /\ TestDepths \subseteq Nat \ {0}
  /\ WalkDepths \subseteq Nat

VARIABLES
  board,             \* half moves made on the board since the game began
  currentPly,
  verifyNullMove,
  nullVerification,
  stopRequested,     \* atomic flag
  deadlinePassed,    \* killTime is set and lies in the past
  stack,             \* frames, innermost last
  returned           \* answer of the call that just returned, or "none"

flags == <<verifyNullMove, nullVerification>>
kill == <<stopRequested, deadlinePassed>>
position == <<board, currentPly>>
vars == <<position, flags, kill, stack, returned>>

Answers == {"above", "below"}   \* is the score above the threshold?
Negated(answer) == IF answer = "above" THEN "below" ELSE "above"
Root == [i \in 1 .. RootPlies |-> "move"]
Idle == stack = <<>>

Frames ==
  [function : {"walk", "test", "value", "child", "null", "quiet"},
   at : {"entry", "leaf", "null", "node", "reduced", "searched", "probe", "verify",
         "leaving"},
   depth : Int, moves : Nat, extended : BOOLEAN]
Frame(function, at, depth) ==
  [function |-> function, at |-> at, depth |-> depth, moves |-> 0,
   extended |-> FALSE]
Top == stack[Len(stack)]
At(functions, point) ==
  ~Idle /\ Top.function \in functions /\ Top.at = point
WithTop(frame) == [stack EXCEPT ![Len(stack)] = frame]
Goto(point) == WithTop([Top EXCEPT !.at = point])
Below == SubSeq(stack, 1, Len(stack) - 1)

\* The moves that a walk has made.
Walked == IF Idle \/ stack[1].function # "walk" THEN 0 ELSE stack[1].moves
-----------------------------------------------------------------------------
(***************************************************************************)
(* The board.                                                              *)
(***************************************************************************)
\* makeMove() refuses when the undo history is full.
CanMake == Len(board) < HistoryLimit
Made(kind) == IF CanMake THEN Append(board, kind) ELSE board

\* undoMove() n times: each does nothing once no half move is left.
Undone(n) == SubSeq(board, 1, Len(board) - n)

\* Node::doNextMove() and doNextNonquiescentMove(), when a move is left.
MakeNextMove ==
  /\ CanMake /\ Top.moves < Branching
  /\ board' = Append(board, "move")
  /\ currentPly' = currentPly + 1

\* Node::restore().
\* Mutant: the counter is left alone.
RestoreBoardOnly == board' = Undone(1) /\ UNCHANGED currentPly

Restore == board' = Undone(1) /\ currentPly' = currentPly - 1

\* What the code reads off the position of a new testChild(): a draw, a reason
\* to extend, a check.  A verification looks at its caller's position again;
\* a null move gives no check and no reason to extend.
Positions ==
  LET all == {p \in [draw : BOOLEAN, extended : BOOLEAN, inCheck : BOOLEAN] :
                p.inCheck => p.extended}
  IN IF Len(stack) > 2 /\ stack[Len(stack) - 1].at = "verify"
     THEN {p \in all : ~p.draw /\ ~p.inCheck
                       /\ p.extended = stack[Len(stack) - 2].extended}
     ELSE IF board # <<>> /\ board[Len(board)] = "null"
     THEN {p \in all : ~p.extended}
     ELSE all
-----------------------------------------------------------------------------
(***************************************************************************)
(* Calls, returns and cancellation.                                        *)
(***************************************************************************)
Killed == stopRequested \/ deadlinePassed

\* The exception drops every frame of the call.
Unwind == stack' = <<>> /\ returned' = "none"

\* The catch blocks of test() and quiescentValue(): undo currentPly moves, and
\* for test() reset the flags.  quiescentValue() is called at ply 0.
\* Mutant: the flag of an interrupted verification survives.
CatchKeepsFlags ==
  /\ Killed
  /\ stopRequested' = TRUE
  /\ board' = Undone(currentPly) /\ currentPly' = 0
  /\ Unwind
  /\ UNCHANGED <<flags, deadlinePassed>>

\* Mutant: quiescentValue() catches in its loop, and takes it for an answer.
CancelInLoop ==
  /\ Killed
  /\ stopRequested' = TRUE
  /\ board' = Undone(currentPly) /\ currentPly' = 0
  /\ IF stack[1].function # "value"
     THEN verifyNullMove' = TRUE /\ nullVerification' = FALSE /\ Unwind
     ELSE stack' = <<stack[1]>> /\ returned' = "below" /\ UNCHANGED flags
  /\ UNCHANGED deadlinePassed

Cancel ==
  /\ Killed
  /\ stopRequested' = TRUE
  /\ board' = Undone(currentPly) /\ currentPly' = 0
  /\ IF stack[1].function # "value"
     THEN verifyNullMove' = TRUE /\ nullVerification' = FALSE
     ELSE UNCHANGED flags
  /\ Unwind
  /\ UNCHANGED deadlinePassed

Call(frames, function, depth) ==
  /\ stack' = Append(frames, Frame(function, "entry", depth))
  /\ returned' = "none"

Return(answer) ==
  /\ stack' = Below
  /\ returned' = IF Len(stack) = 1 THEN "none" ELSE answer

\* The answer of a call is known; testChild() still polls before it returns.
Answer(answer) ==
  IF Top.function = "child"
  THEN stack' = Goto("leaving") /\ returned' = answer
  ELSE Return(answer)

\* checkKill() on entry to test() and quiescentTest() and at the end of
\* testChild(): it throws, or the function goes on.
Throw ==
  /\ At({"test", "quiet"}, "entry") \/ At({"child"}, "leaving")
  /\ Cancel

LeaveChild ==
  /\ At({"child"}, "leaving") /\ ~Killed
  /\ Return(returned)
  /\ UNCHANGED <<position, flags, kill>>
-----------------------------------------------------------------------------
(***************************************************************************)
(* test() and quiescentValue(), from the outside.                          *)
(***************************************************************************)
\* The flags are not both reset here: nullVerification must be FALSE already.
BeginTest(depth) ==
  /\ Idle
  /\ verifyNullMove' = TRUE
  /\ currentPly' = 0
  /\ Call(stack, "test", depth)
  /\ UNCHANGED <<board, nullVerification, kill>>

\* Not killed: a table hit answers at once, or the root's node is made.
ProbeRoot ==
  /\ At({"test"}, "entry") /\ ~Killed
  /\ \/ \E answer \in Answers : Return(answer)
     \/ stack' = Goto("node") /\ UNCHANGED returned
  /\ UNCHANGED <<position, flags, kill>>

\* quiescentValue() repeats quiescentTest() until its answer changes.
BeginValue ==
  /\ Idle
  /\ Call(<<Frame("value", "searched", 0)>>, "quiet", 0)
  /\ UNCHANGED <<position, flags, kill>>

NextThreshold ==
  /\ At({"value"}, "searched") /\ returned # "none"
  /\ \/ Call(stack, "quiet", 0)
     \/ Return(returned)
  /\ UNCHANGED <<position, flags, kill>>
-----------------------------------------------------------------------------
(***************************************************************************)
(* reconstructPrincipalVariation().  What the table has is a choice: no    *)
(* entry, or one with a move.                                              *)
(***************************************************************************)
BeginWalk(depth) ==
  /\ Idle
  /\ Call(stack, "walk", depth)
  /\ UNCHANGED <<position, flags, kill>>

\* A move of the table.  A check extends the walk; makeMove()'s answer is not
\* looked at.
WalkMove ==
  /\ At({"walk"}, "entry") /\ Top.depth > 0 /\ Top.moves < MaxDepth
  /\ board' = Made("move")
  /\ \E check \in {0, 1} :
       stack' = WithTop([Top EXCEPT !.depth = Top.depth - 1 + check,
                                    !.moves = Top.moves + 1])
  /\ UNCHANGED <<currentPly, flags, kill, returned>>

\* No depth left, no entry or the end of the game: every move is undone.
WalkBack ==
  /\ At({"walk"}, "entry")
  /\ board' = Undone(Top.moves)
  /\ Return("none")
  /\ UNCHANGED <<currentPly, flags, kill>>
-----------------------------------------------------------------------------
(***************************************************************************)
(* testChild().                                                            *)
(***************************************************************************)
InteriorDepth(p) == Top.depth + (IF p.extended THEN 1 ELSE 0)
AtHorizon(p) == InteriorDepth(p) <= 0 \/ currentPly >= MaxDepth - 1

\* A draw or a table hit answers at once.
AnswerAtOnce ==
  /\ At({"child"}, "entry")
  /\ \E p \in Positions, answer \in Answers :
       /\ p.draw \/ ~AtHorizon(p)
       /\ Answer(answer)
  /\ UNCHANGED <<position, flags, kill>>

\* No depth left, or the cap on the ply reached.
EnterLeaf ==
  /\ At({"child"}, "entry")
  /\ \E p \in Positions : ~p.draw /\ AtHorizon(p)
  /\ Call(Goto("leaf"), "quiet", 0)
  /\ UNCHANGED <<position, flags, kill>>

LeaveLeaf ==
  /\ At({"child"}, "leaf") /\ returned # "none"
  /\ Answer(returned)
  /\ UNCHANGED <<position, flags, kill>>

Interior(p, point) ==
  WithTop([Top EXCEPT !.at = point, !.depth = InteriorDepth(p),
                      !.extended = p.extended])

\* nullTest() answers false without a null move: a check, a repetition, little
\* material, no depth or the root of a verification.
SkipNull ==
  /\ At({"child"}, "entry")
  /\ \E p \in Positions :
       /\ ~p.draw /\ ~AtHorizon(p)
       /\ stack' = Interior(p, "node")
  /\ nullVerification' = FALSE
  /\ UNCHANGED <<position, verifyNullMove, kill, returned>>

\* nullTest() makes its free move.  It does not look at makeMove()'s answer.
TryNull ==
  /\ At({"child"}, "entry")
  /\ ~nullVerification
  /\ \E p \in Positions :
       /\ ~p.draw /\ ~AtHorizon(p)
       /\ InteriorDepth(p) > 1 /\ ~p.inCheck
       /\ Call(Append(Interior(p, "null"), Frame("null", "probe", InteriorDepth(p))),
               "child", InteriorDepth(p) - 1 - NullReduction)
  /\ board' = Made("null")
  /\ currentPly' = currentPly + 1
  /\ UNCHANGED <<flags, kill>>

\* The free move failed, or needs no verification.
NullAnswered ==
  /\ At({"null"}, "probe") /\ returned # "none"
  /\ Negated(returned) = "below" \/ ~verifyNullMove
  /\ Restore
  /\ Return(Negated(returned))
  /\ nullVerification' = FALSE
  /\ UNCHANGED <<verifyNullMove, kill>>

\* The original position is searched again, one ply shallower.
\* Mutant: a verification inside a verification.
VerifyNullNested ==
  /\ At({"null"}, "probe") /\ returned # "none"
  /\ Negated(returned) = "above" /\ verifyNullMove
  /\ Restore
  /\ Call(Goto("verify"), "child", Top.depth - 1)
  /\ nullVerification' = TRUE
  /\ UNCHANGED <<verifyNullMove, kill>>

VerifyNull ==
  /\ At({"null"}, "probe") /\ returned # "none"
  /\ Negated(returned) = "above" /\ verifyNullMove
  /\ Restore
  /\ Call(Goto("verify"), "child", Top.depth - 1)
  /\ verifyNullMove' = FALSE /\ nullVerification' = TRUE
  /\ UNCHANGED kill

NullVerified ==
  /\ At({"null"}, "verify") /\ returned # "none"
  /\ Return(returned)
  /\ verifyNullMove' = TRUE /\ nullVerification' = FALSE
  /\ UNCHANGED <<position, kill>>

\* Back in testChild(): a null-move cutoff, or the moves one by one.
LeaveNull ==
  /\ At({"child"}, "null") /\ returned # "none"
  /\ IF returned = "above"
     THEN Answer("above")
     ELSE stack' = Goto("node") /\ returned' = "none"
  /\ UNCHANGED <<position, flags, kill>>
-----------------------------------------------------------------------------
(***************************************************************************)
(* The moves of a node, in test() and testChild().                         *)
(***************************************************************************)
MayReduce ==
  /\ ~Top.extended
  /\ Top.depth >= ReductionLimit
  /\ Top.moves + 1 > FullDepthMoves

Counted(point) == WithTop([Top EXCEPT !.at = point, !.moves = Top.moves + 1])

SearchMove ==
  /\ At({"test", "child"}, "node")
  /\ MakeNextMove
  /\ \/ Call(Counted("searched"), "child", Top.depth - 1)
     \/ MayReduce /\ Call(Counted("reduced"), "child", Top.depth - 2)
  /\ UNCHANGED <<flags, kill>>

\* A reduced cutoff must survive a full-depth re-search.
SearchAgain ==
  /\ At({"test", "child"}, "reduced") /\ returned # "none"
  /\ IF Negated(returned) = "above"
     THEN Call(Goto("searched"), "child", Top.depth - 1)
     ELSE stack' = Goto("searched") /\ UNCHANGED returned
  /\ UNCHANGED <<position, flags, kill>>

\* restore(), then a cutoff or the next move.
MoveSearched ==
  /\ At({"test", "child"}, "searched") /\ returned # "none"
  /\ Restore
  /\ IF Negated(returned) = "above"
     THEN Answer("above")
     ELSE stack' = Goto("node") /\ returned' = "none"
  /\ UNCHANGED <<flags, kill>>

\* No move exceeded the threshold, or there is no legal move at all.
NoMoreMoves ==
  /\ At({"test", "child"}, "node")
  /\ \E answer \in Answers :
       /\ Top.moves > 0 => answer = "below"
       /\ Answer(answer)
  /\ UNCHANGED <<position, flags, kill>>
-----------------------------------------------------------------------------
(***************************************************************************)
(* quiescentTest().                                                        *)
(***************************************************************************)
\* A draw, the cap on the ply, or standing pat.
QuietAnswer ==
  /\ At({"quiet"}, "entry") /\ ~Killed
  /\ \E answer \in Answers : Return(answer)
  /\ UNCHANGED <<position, flags, kill>>

\* Mutant: the cap is one ply too deep.
QuietNodePastCap ==
  /\ At({"quiet"}, "entry") /\ ~Killed
  /\ currentPly <= MaxDepth
  /\ stack' = Goto("node")
  /\ UNCHANGED <<position, flags, kill, returned>>

QuietNode ==
  /\ At({"quiet"}, "entry") /\ ~Killed
  /\ currentPly < MaxDepth
  /\ stack' = Goto("node")
  /\ UNCHANGED <<position, flags, kill, returned>>

QuietMove ==
  /\ At({"quiet"}, "node")
  /\ MakeNextMove
  /\ Call(Counted("searched"), "quiet", 0)
  /\ UNCHANGED <<flags, kill>>

QuietMoveSearched ==
  /\ At({"quiet"}, "searched") /\ returned # "none"
  /\ Restore
  /\ IF Negated(returned) = "above"
     THEN Return("above")
     ELSE stack' = Goto("node") /\ returned' = "none"
  /\ UNCHANGED <<flags, kill>>

QuietMovesDone ==
  /\ At({"quiet"}, "node")
  /\ \E answer \in Answers :
       /\ Top.moves > 0 => answer = "below"
       /\ Return(answer)
  /\ UNCHANGED <<position, flags, kill>>
-----------------------------------------------------------------------------
(***************************************************************************)
(* Other tasks: requestStop(), the clock, clearStop(), setKillTime().      *)
(***************************************************************************)
RequestStop ==
  /\ stopRequested' = TRUE
  /\ UNCHANGED <<position, flags, deadlinePassed, stack, returned>>

DeadlinePasses ==
  /\ deadlinePassed' = TRUE
  /\ UNCHANGED <<position, flags, stopRequested, stack, returned>>

\* The caller clears the stop before the next test.
ClearStop ==
  /\ Idle
  /\ stopRequested' = FALSE
  /\ deadlinePassed' \in BOOLEAN
  /\ UNCHANGED <<position, flags, stack, returned>>

Init ==
  /\ board = Root /\ currentPly = 0
  /\ verifyNullMove = TRUE /\ nullVerification = FALSE
  /\ stopRequested = FALSE /\ deadlinePassed = FALSE
  /\ stack = <<>> /\ returned = "none"

\* What the task that searches does once a call has begun.
SearchStep ==
  \/ ProbeRoot \/ NextThreshold
  \/ WalkMove \/ WalkBack
  \/ AnswerAtOnce \/ EnterLeaf \/ LeaveLeaf
  \/ SkipNull \/ TryNull \/ NullAnswered \/ VerifyNull \/ NullVerified \/ LeaveNull
  \/ SearchMove \/ SearchAgain \/ MoveSearched \/ NoMoreMoves
  \/ QuietAnswer \/ QuietNode \/ QuietMove \/ QuietMoveSearched \/ QuietMovesDone
  \/ LeaveChild \/ Throw

Next ==
  \/ \E depth \in TestDepths : BeginTest(depth)
  \/ \E depth \in WalkDepths : BeginWalk(depth)
  \/ BeginValue
  \/ SearchStep
  \/ RequestStop \/ DeadlinePasses \/ ClearStop

Spec == Init /\ [][Next]_vars

\* The task runs on; nobody else has to do anything.
FairSpec == Spec /\ WF_vars(SearchStep)
-----------------------------------------------------------------------------
(***************************************************************************)
(* Properties.                                                             *)
(***************************************************************************)
\* The types of the variables.
TypeOK ==
  /\ board \in Seq({"move", "null"})
  /\ currentPly \in Nat
  /\ verifyNullMove \in BOOLEAN /\ nullVerification \in BOOLEAN
  /\ stopRequested \in BOOLEAN /\ deadlinePassed \in BOOLEAN
  /\ stack \in Seq(Frames)
  /\ returned \in Answers \union {"none"}

\* currentPly counts exactly the half moves the search has on the board, null
\* moves included, and no move of a walk: the handler of a cancellation, which sees
\* no frame, undoes its own moves and never one of the game.
PlyCountsMoves ==
  /\ Len(board) = RootPlies + Walked + currentPly
  /\ \A i \in 1 .. RootPlies : board[i] = "move"

\* Whatever way a call ends, the board and the flags are those it began with:
\* the next test() of the same object starts from the root, and nullTest() in it is
\* neither switched off nor left unverified.
RootRestored ==
  Idle => /\ board = Root /\ currentPly = 0
          /\ verifyNullMove /\ ~nullVerification

\* Exactly the nodes under a verification search null moves unverified: what the
\* table stores with nullMovesVerified comes from no other node, and the root of
\* a verification alone tries no null move.
FlagsFollowStack ==
  LET verifying == {i \in 1 .. Len(stack) : stack[i].at = "verify"}
  IN /\ Cardinality(verifying) <= 1
     /\ verifyNullMove <=> verifying = {}
     /\ nullVerification => \E i \in verifying : Len(stack) <= i + 2

\* Extensions and captures end: no node lies below ply kMaxDepth, where mate
\* scores would fall under kMinCheckmateValue and the killer tables end, and
\* the calls on the stack are bounded with it.  A walk that checks extend ends
\* within its array of moves.
DepthCapped ==
  /\ currentPly <= MaxDepth
  /\ \A i \in 1 .. Len(stack) :
       stack[i].function = "child" /\ stack[i].at = "node" => currentPly < MaxDepth
  /\ Len(stack) <= 2 * MaxDepth + 3
  /\ Walked <= MaxDepth

\* A search that is told to stop, or runs out of time, comes to an end, however deep
\* it is: no frame on the way takes the cancellation for an answer and goes on.
StopIsObeyed == Killed ~> Idle
=============================================================================
