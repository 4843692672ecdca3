------------------------------- MODULE Xboard -------------------------------
(***************************************************************************)
(* The session of src/src/xboard.cpp: commands, and the searches that run  *)
(* in the background between them.                                         *)
(*                                                                         *)
(* The protocol task owns the board and the mode flags; it executes one    *)
(* command, or one pollSearch(), at a time.  A search runs beside it on    *)
(* the position it was started with, and is seen here as SearchService     *)
(* promises it: searching, then ready, then taken.  Each command is one    *)
(* action, as is each poll: the search it takes, the move it makes and the *)
(* search it starts.                                                       *)
(*                                                                         *)
(* Left out: commands that only print or set what no flag depends on       *)
(* (clocks, depth limit, ratings, names), draw offers, and a search that   *)
(* fails: its exception ends the program.                                  *)
(***************************************************************************)
EXTENDS Integers, Sequences

CONSTANTS
  Moves, NoMove,
  Mates, Draws,  \* the lines that end in mate, and those in a draw, from either root
  HistoryLimit,  \* maxHalfMoves
  Budget,        \* how many commands the user gives, or
  Unlimited      \* any number of them

Colors == 0 .. 1
Roots == [name : {"initial", "setup"}, toMove : Colors]
Start == [root |-> [name |-> "initial", toMove |-> 0], line |-> <<>>]
Idle == [status |-> "idle"]

ASSUME SessionAssumption ==
  /\ NoMove \notin Moves
  /\ HistoryLimit \in Nat /\ Mates \subseteq Seq(Moves) /\ Draws \subseteq Seq(Moves)
  /\ Budget \in Nat \union {Unlimited}

VARIABLES
  session,   \* the members of Xboard
  search,    \* what its ParallelSearch is doing
  left,      \* commands still to come
  explored   \* searches that ended since the last command

vars == <<session, search, left, explored>>
-----------------------------------------------------------------------------
(***************************************************************************)
(* The board.                                                              *)
(***************************************************************************)
SideToMove(board) == (board.root.toMove + Len(board.line)) % 2

CanMake(board) == Len(board.line) < HistoryLimit

\* A position without a move that can be made counts as mate or stalemate.
Finished(board) == board.line \in Mates \union Draws \/ ~CanMake(board)
\* A draw is reported, but play may go on.
Legal(board) == IF board.line \in Mates \/ ~CanMake(board) THEN {} ELSE Moves

Played(board, move) == [board EXCEPT !.line = Append(@, move)]
Undone(board) ==
  IF board.line = <<>> THEN board
  ELSE [board EXCEPT !.line = SubSeq(@, 1, Len(@) - 1)]
-----------------------------------------------------------------------------
(***************************************************************************)
(* What the members become.                                                *)
(***************************************************************************)
Stopped(s) == [s EXCEPT !.searchMode = "none"]
Forced(s) == [s EXCEPT !.forceMode = TRUE]
Reported(s) ==
  [s EXCEPT !.gameResult = IF Finished(s.board) THEN "over" ELSE "inProgress"]

PositionChanged(s) ==
  [s EXCEPT !.ponderCompleted = FALSE, !.analysisCompleted = FALSE,
            !.gameResult = "inProgress"]

MovedTo(s, board) ==
  Reported([s EXCEPT !.board = board, !.ponderCompleted = FALSE,
                     !.analysisCompleted = FALSE])

\* applySearchResult: resign, or make the move.
Applied(s, result) ==
  IF result.move = NoMove THEN Reported(s)
  ELSE IF result.move \notin Legal(s.board) \/ result.losing THEN Forced(s)
  ELSE MovedTo(s, Played(s.board, result.move))

\* Mutants: completed searches leave no trace; a move is not made.
AfterSearchForgotten(s, result) ==
  IF s.searchMode = "move" THEN Applied(Stopped(s), result) ELSE Stopped(s)
AfterSearchDiscarded(s, result) ==
  IF s.searchMode = "analysis" THEN [Stopped(s) EXCEPT !.analysisCompleted = TRUE]
  ELSE [Stopped(s) EXCEPT !.ponderCompleted = TRUE]

AfterSearch(s, result) ==
  CASE s.searchMode = "move" -> Applied(Stopped(s), result)
    [] s.searchMode = "ponder" -> [Stopped(s) EXCEPT !.ponderCompleted = TRUE]
    [] s.searchMode = "analysis" -> [Stopped(s) EXCEPT !.analysisCompleted = TRUE]

\* A finished search names a legal move: the root was not finished.
Results == [move : Legal(search.position), losing : BOOLEAN]

Resting(s) ==
  s.paused \/ s.forceMode \/ s.illegalPosition \/ s.gameResult # "inProgress"

EngineToMove(s) == SideToMove(s.board) = s.computerColor

\* The search that the flags call for.
NextMode(s) ==
  IF Resting(s) THEN "none"
  ELSE IF s.analyzeMode THEN (IF s.analysisCompleted THEN "none" ELSE "analysis")
  ELSE IF EngineToMove(s) THEN "move"
  ELSE IF s.ponderEnabled /\ ~s.ponderCompleted THEN "ponder"
  ELSE "none"
-----------------------------------------------------------------------------
(***************************************************************************)
(* pollSearch().                                                           *)
(***************************************************************************)
StartNext(s) ==
  \/ /\ NextMode(s) = "none"
     /\ session' = s /\ search' = Idle
  \/ /\ NextMode(s) # "none" /\ Finished(s.board)
     /\ session' = Reported(s) /\ search' = Idle
  \/ /\ NextMode(s) # "none" /\ ~Finished(s.board)
     /\ session' = [s EXCEPT !.searchMode = NextMode(s)]
     /\ search' = [status |-> "searching", position |-> s.board,
                   color |-> s.computerColor]

TakeResult ==
  /\ ~session.quitRequested
  /\ session.searchMode # "none" /\ search.status = "ready"
  /\ \E result \in Results : StartNext(AfterSearch(session, result))
  /\ explored' = explored \union {<<session.searchMode, search.position>>}
  /\ UNCHANGED left

StartSearch ==
  /\ ~session.quitRequested
  /\ session.searchMode = "none"
  /\ StartNext(session)
  /\ UNCHANGED <<left, explored>>

Poll == TakeResult \/ StartSearch

\* The search task.
SearchFinishes ==
  /\ search.status = "searching"
  /\ search' = [search EXCEPT !.status = "ready"]
  /\ UNCHANGED <<session, left, explored>>
-----------------------------------------------------------------------------
(***************************************************************************)
(* processCommand().  A command that stops the search leaves searchMode    *)
(* "none" and no search.                                                   *)
(***************************************************************************)
Obey(s) ==
  /\ ~session.quitRequested /\ left # 0
  /\ session' = s
  /\ search' = IF s.searchMode = "none" THEN Idle ELSE search
  /\ left' = IF left = Unlimited THEN left ELSE left - 1
  /\ explored' = {}

New ==
  Obey([PositionChanged(Stopped(session)) EXCEPT
          !.board = Start, !.computerColor = 1, !.forceMode = FALSE,
          !.analyzeMode = FALSE, !.illegalPosition = FALSE, !.paused = FALSE])

ForceMode == Obey([Forced(Stopped(session)) EXCEPT !.analyzeMode = FALSE])
Exit == Obey([Forced(Stopped(session)) EXCEPT !.analyzeMode = FALSE])

\* Mutant: the side is changed under a running search.
PlayUnstopped(color) ==
  Obey([PositionChanged(session) EXCEPT
          !.computerColor = color, !.forceMode = FALSE, !.analyzeMode = FALSE,
          !.paused = FALSE])

\* "go" gives the engine the side to move, "playother" the other one.
Play(color) ==
  Obey([PositionChanged(Stopped(session)) EXCEPT
          !.computerColor = color, !.forceMode = FALSE, !.analyzeMode = FALSE,
          !.paused = FALSE])

Analyze ==
  Obey([Stopped(session) EXCEPT
          !.analyzeMode = TRUE, !.forceMode = FALSE, !.paused = FALSE,
          !.analysisCompleted = FALSE])

Easy ==
  Obey([IF session.searchMode = "ponder" THEN Stopped(session) ELSE session
          EXCEPT !.ponderEnabled = FALSE])
Hard == Obey([session EXCEPT !.ponderEnabled = TRUE, !.ponderCompleted = FALSE])

Pause == Obey([Stopped(session) EXCEPT !.paused = TRUE])
Resume ==
  Obey([session EXCEPT !.paused = FALSE, !.analysisCompleted = FALSE,
                       !.ponderCompleted = FALSE])

\* "bk", "book on", "book off" and "rating" only stop the search.
Interrupt == Obey(Stopped(session))

SetBoard ==
  \/ \E root \in Roots :
       Obey([PositionChanged(Stopped(session)) EXCEPT
               !.board = [root |-> [root EXCEPT !.name = "setup"], line |-> <<>>],
               !.illegalPosition = FALSE])
  \/ Obey([Stopped(session) EXCEPT !.illegalPosition = TRUE])

Undo == Obey([PositionChanged(Stopped(session)) EXCEPT !.board = Undone(@)])
Remove == Obey([PositionChanged(Stopped(session)) EXCEPT !.board = Undone(Undone(@))])

GameOver(result) ==
  Obey([Forced(Stopped(session)) EXCEPT !.gameResult = result, !.analyzeMode = FALSE])

\* "?": the result of a stopped search for a move is applied at once.
MoveNow ==
  \/ /\ session.searchMode = "move"
     /\ \E result \in Results : Obey(Applied(Stopped(session), result))
  \/ session.searchMode # "move" /\ Obey(Stopped(session))

UserMove(move) ==
  IF ~session.illegalPosition /\ move \in Legal(session.board)
  THEN Obey(MovedTo(Stopped(session), Played(session.board, move)))
  ELSE Obey(Stopped(session))

\* "quit", or the end of the input.
Quit == Obey([Stopped(session) EXCEPT !.quitRequested = TRUE])

Command ==
  \/ New \/ ForceMode \/ Exit \/ Analyze \/ Easy \/ Hard \/ Pause \/ Resume
  \/ Play(SideToMove(session.board)) \/ Play(1 - SideToMove(session.board))
  \/ Interrupt \/ SetBoard \/ Undo \/ Remove \/ MoveNow \/ Quit
  \/ \E result \in {"over", "inProgress"} : GameOver(result)
  \/ \E move \in Moves : UserMove(move)
-----------------------------------------------------------------------------
Init ==
  /\ session = [board |-> Start, searchMode |-> "none", gameResult |-> "inProgress",
                forceMode |-> TRUE, analyzeMode |-> FALSE, ponderEnabled |-> TRUE,
                ponderCompleted |-> FALSE, analysisCompleted |-> FALSE,
                paused |-> FALSE, quitRequested |-> FALSE,
                illegalPosition |-> FALSE, computerColor |-> 1]
  /\ search = Idle
  /\ left = Budget
  /\ explored = {}

Terminated == session.quitRequested /\ UNCHANGED vars

Next == Command \/ Poll \/ SearchFinishes \/ Terminated

Spec == Init /\ [][Next]_vars

\* run() polls again and again; a search for a move has a deadline, a ponder
\* search or an analysis has none.
FairSpec ==
  /\ Spec
  /\ WF_vars(Poll)
  /\ WF_vars(session.searchMode = "move" /\ SearchFinishes)
-----------------------------------------------------------------------------
(***************************************************************************)
(* Properties.                                                             *)
(***************************************************************************)
Boards == [root : Roots, line : UNION {[1 .. n -> Moves] : n \in 0 .. HistoryLimit}]
Modes == {"none", "move", "ponder", "analysis"}
Sessions ==
  [board : Boards, searchMode : Modes, gameResult : {"inProgress", "over"},
   forceMode : BOOLEAN, analyzeMode : BOOLEAN, ponderEnabled : BOOLEAN,
   ponderCompleted : BOOLEAN, analysisCompleted : BOOLEAN, paused : BOOLEAN,
   quitRequested : BOOLEAN, illegalPosition : BOOLEAN, computerColor : Colors]

\* The types of the session.
TypeOK ==
  /\ session \in Sessions
  /\ \/ search = Idle
     \/ search \in [status : {"searching", "ready"}, position : Boards, color : Colors]
  /\ left \in Nat \union {Unlimited}
  /\ explored \subseteq Modes \X Boards

\* "The protocol task owns the live board and joins searches before changing
\* it": whatever commands came since a search was started, it still searches
\* the position on the board, for the engine's side, and in the one mode that
\* the flags call for, so that its result may be applied when it is ready.
SearchMatchesSession ==
  /\ session.searchMode = "none" <=> search = Idle
  /\ search # Idle =>
       /\ search.position = session.board /\ ~Finished(session.board)
       /\ search.color = session.computerColor
       /\ ~Resting(session)
       /\ session.searchMode = "analysis" <=> session.analyzeMode
       /\ session.searchMode = "move" => EngineToMove(session)
       /\ session.searchMode = "ponder" => session.ponderEnabled /\ ~EngineToMove(session)

\* "Completed ponder/analysis flags prevent restarting the same position every
\* time the nonblocking input loop polls": without a command, no position is
\* searched twice in one mode, a move search included.
NoSearchRepeated ==
  search # Idle => <<session.searchMode, search.position>> \notin explored

EngineToPlay == ~session.quitRequested /\ NextMode(session) = "move"

\* Once the user is silent, an engine that is to move makes its move, resigns,
\* or finds the game at its end, although each poll may only start a search.
EngineMoves == EngineToPlay ~> ~EngineToPlay
=============================================================================
