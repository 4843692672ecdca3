--------------------------- MODULE SessionProofs ---------------------------
(***************************************************************************)
(* The tasks around the engine: the protocol's session and its background  *)
(* searches agree after any sequence of commands and polls, for every game *)
(* and however many commands there are; the seek bot's owner and its task  *)
(* agree in every order of their steps.                                    *)
(***************************************************************************)
EXTENDS Xboard, SequenceTheorems, TLAPS

-----------------------------------------------------------------------------
(***************************************************************************)
(* The session.                                                            *)
(***************************************************************************)
Searches == [status : {"searching", "ready"}, position : Boards, color : Colors]

\* What is searched was not searched to its end before.
Unfinished ==
  /\ session.searchMode = "ponder" => ~session.ponderCompleted
  /\ session.searchMode = "analysis" => ~session.analysisCompleted

\* Why nothing that was explored since the last command can be searched again
\* in a session s: a move was made or refused, and the other modes are marked
\* as completed.
SettledBy(s, done) ==
  \A x \in done :
    /\ x[1] \in {"move", "ponder", "analysis"}
    /\ x[1] = "move" => s.forceMode \/ Len(x[2].line) < Len(s.board.line)
    /\ x[1] = "ponder" => s.ponderCompleted /\ ~s.analyzeMode /\ ~EngineToMove(s)
    /\ x[1] = "analysis" => s.analysisCompleted /\ s.analyzeMode

ExploredOnce == SettledBy(session, explored)

SessionInv == TypeOK /\ SearchMatchesSession /\ Unfinished /\ ExploredOnce

-----------------------------------------------------------------------------
\* A board is a root with a line that fits the game history.
LEMMA BoardLines ==
  \A board : board \in Boards <=>
    /\ board \in [root : Roots, line : Seq(Moves)]
    /\ Len(board.line) <= HistoryLimit
<1> DEFINE lines == UNION {[1 .. n -> Moves] : n \in 0 .. HistoryLimit}
<1>1. \A l : l \in lines <=> l \in Seq(Moves) /\ Len(l) <= HistoryLimit
  <2>1. ASSUME NEW n \in 0 .. HistoryLimit, NEW l \in [1 .. n -> Moves]
        PROVE  l \in Seq(Moves) /\ Len(l) <= HistoryLimit
    BY <2>1, SessionAssumption
  <2>2. ASSUME NEW l \in Seq(Moves), Len(l) <= HistoryLimit
        PROVE  l \in lines
    <3>1. Len(l) \in 0 .. HistoryLimit /\ l \in [1 .. Len(l) -> Moves]
      BY <2>2, SessionAssumption
    <3> QED
      BY <3>1
  <2> QED
    BY <2>1, <2>2
<1> HIDE DEF lines
<1>2. Boards = [root : Roots, line : lines]
  BY DEF Boards, lines
<1>3. ASSUME NEW board
      PROVE  board \in Boards <=>
               /\ board \in [root : Roots, line : Seq(Moves)]
               /\ Len(board.line) <= HistoryLimit
  BY <1>1, <1>2
<1> QED
  BY <1>3

LEMMA BareBoard ==
  ASSUME NEW root \in Roots
  PROVE  [root |-> root, line |-> <<>>] \in Boards
<1> DEFINE board == [root |-> root, line |-> <<>>]
<1>1. <<>> \in Seq(Moves) /\ Len(<<>>) = 0
  OBVIOUS
<1>2. board \in [root : Roots, line : Seq(Moves)] /\ board.line = <<>>
  BY <1>1
<1>3. 0 <= HistoryLimit
  BY SessionAssumption
<1> HIDE DEF board
<1>4. board \in Boards
  BY <1>1, <1>2, <1>3, BoardLines
<1> QED
  BY <1>4 DEF board

LEMMA BoardsAfterMoves ==
  ASSUME NEW board \in Boards
  PROVE  /\ Len(board.line) \in Nat
         /\ Undone(board) \in Boards
         /\ \A move \in Legal(board) :
              /\ move \in Moves
              /\ Played(board, move) \in Boards
              /\ Played(board, move).root = board.root
              /\ Len(Played(board, move).line) = Len(board.line) + 1
<1>1. board \in [root : Roots, line : Seq(Moves)] /\ Len(board.line) <= HistoryLimit
  BY BoardLines
<1>2. Undone(board) \in Boards
  <2>1. CASE board.line = <<>>
    BY <2>1 DEF Undone
  <2>2. CASE board.line # <<>>
    <3> DEFINE n == Len(board.line) - 1
               b == [board EXCEPT !.line = SubSeq(@, 1, n)]
    <3>1. n \in Nat /\ n <= Len(board.line) /\ n <= HistoryLimit
      BY <1>1, <2>2, SessionAssumption
    <3>2. SubSeq(board.line, 1, n) \in Seq(Moves) /\ Len(SubSeq(board.line, 1, n)) = n
      <4>1. \A i \in 1 .. n : board.line[i] \in Moves
        BY <1>1, <3>1
      <4> HIDE DEF n
      <4>2. /\ SubSeq(board.line, 1, n) \in Seq(Moves)
            /\ Len(SubSeq(board.line, 1, n)) = IF 1 <= n THEN n - 1 + 1 ELSE 0
        BY ONLY <3>1, <4>1, SubSeqProperties
      <4> QED
        BY <3>1, <4>2
    <3>3. b \in [root : Roots, line : Seq(Moves)] /\ b.line = SubSeq(board.line, 1, n)
      BY <1>1, <3>2
    <3>4. b = Undone(board)
      BY <2>2 DEF Undone
    <3> HIDE DEF b, n
    <3> QED
      BY <3>1, <3>2, <3>3, <3>4, BoardLines
  <2> QED
    BY <2>1, <2>2
<1>3. ASSUME NEW move \in Legal(board)
      PROVE  /\ move \in Moves
             /\ Played(board, move) \in Boards
             /\ Played(board, move).root = board.root
             /\ Len(Played(board, move).line) = Len(board.line) + 1
  <2>1. move \in Moves /\ Len(board.line) < HistoryLimit
    BY <1>3 DEF Legal, CanMake
  <2>2. /\ Append(board.line, move) \in Seq(Moves)
        /\ Len(Append(board.line, move)) = Len(board.line) + 1
    BY <1>1, <2>1
  <2>3. /\ Played(board, move) \in [root : Roots, line : Seq(Moves)]
        /\ Played(board, move).root = board.root
        /\ Played(board, move).line = Append(board.line, move)
    BY <1>1, <2>2 DEF Played
  <2>4. Len(Played(board, move).line) <= HistoryLimit
    BY <1>1, <2>1, <2>2, <2>3, SessionAssumption
  <2> QED
    BY <2>1, <2>2, <2>3, <2>4, BoardLines
<1> QED
  BY <1>1, <1>2, <1>3

\* Every board has a side to move.
LEMMA SideIsColor ==
  ASSUME NEW board \in Boards
  PROVE  SideToMove(board) \in Colors /\ 1 - SideToMove(board) \in Colors
<1>1. board.root.toMove \in 0 .. 1 /\ Len(board.line) \in Nat
  BY BoardLines DEF Roots, Colors
<1> QED
  BY <1>1 DEF SideToMove, Colors

-----------------------------------------------------------------------------
(***************************************************************************)
(* What the commands make of a session.                                    *)
(***************************************************************************)
LEMMA MembersTyped ==
  ASSUME NEW s \in Sessions
  PROVE  /\ Stopped(s) \in Sessions /\ Stopped(s).searchMode = "none"
         /\ Forced(s) \in Sessions /\ Forced(s).searchMode = s.searchMode
         /\ Reported(s) \in Sessions /\ Reported(s).searchMode = s.searchMode
         /\ PositionChanged(s) \in Sessions
         /\ PositionChanged(s).searchMode = s.searchMode
         /\ \A board \in Boards :
              /\ MovedTo(s, board) \in Sessions
              /\ MovedTo(s, board).searchMode = s.searchMode
              /\ MovedTo(s, board).board = board
<1>1. Stopped(s) \in Sessions /\ Stopped(s).searchMode = "none"
  BY DEF Stopped, Sessions, Modes
<1>2. Forced(s) \in Sessions /\ Forced(s).searchMode = s.searchMode
  BY DEF Forced, Sessions
<1>3. ASSUME NEW t \in Sessions
      PROVE  /\ Reported(t) \in Sessions /\ Reported(t).searchMode = t.searchMode
             /\ Reported(t).board = t.board
  BY DEF Reported, Sessions
<1>4. /\ PositionChanged(s) \in Sessions
      /\ PositionChanged(s).searchMode = s.searchMode
  BY DEF PositionChanged, Sessions
<1>5. ASSUME NEW board \in Boards
      PROVE  /\ MovedTo(s, board) \in Sessions
             /\ MovedTo(s, board).searchMode = s.searchMode
             /\ MovedTo(s, board).board = board
  <2> DEFINE t == [s EXCEPT !.board = board, !.ponderCompleted = FALSE,
                            !.analysisCompleted = FALSE]
  <2>1. t \in Sessions /\ t.searchMode = s.searchMode /\ t.board = board
    BY DEF Sessions
  <2>2. MovedTo(s, board) = Reported(t)
    BY DEF MovedTo
  <2> HIDE DEF t
  <2> QED
    BY <1>3, <2>1, <2>2
<1> QED
  BY <1>1, <1>2, <1>3, <1>4, <1>5

\* The result of a search for a move changes the session in one of three ways.
LEMMA AppliedCases ==
  ASSUME NEW s \in Sessions, NEW result, result.move \in Legal(s.board)
  PROVE  \/ Applied(s, result) = Forced(s)
         \/ Applied(s, result) = MovedTo(s, Played(s.board, result.move))
<1>1. s.board \in Boards
  BY DEF Sessions
<1>2. result.move # NoMove
  BY <1>1, BoardsAfterMoves, SessionAssumption
<1> QED
  BY <1>2 DEF Applied

\* A command that stops the search.
LEMMA StoppingKeepsInv ==
  ASSUME SessionInv, NEW s \in Sessions, s.searchMode = "none", Obey(s)
  PROVE  SessionInv'
<1>1. session' = s /\ search' = Idle /\ explored' = {}
  BY DEF Obey
<1>2. TypeOK'
  BY <1>1 DEF SessionInv, TypeOK, Obey
<1>3. SearchMatchesSession'
  BY <1>1 DEF SearchMatchesSession
<1> QED
  BY <1>1, <1>2, <1>3 DEF SessionInv, Unfinished, ExploredOnce, SettledBy

\* A command that lets the search run may not change what it was started for.
LEMMA RunningKeepsInv ==
  ASSUME SessionInv, NEW s \in Sessions, s.searchMode # "none", Obey(s),
         s.searchMode = session.searchMode,
         s.board = session.board, s.computerColor = session.computerColor,
         s.analyzeMode = session.analyzeMode,
         Resting(s) => Resting(session),
         s.searchMode = "ponder" => s.ponderEnabled /\ ~s.ponderCompleted,
         s.searchMode = "analysis" => ~s.analysisCompleted
  PROVE  SessionInv'
<1>1. session' = s /\ search' = search /\ explored' = {}
  BY DEF Obey
<1>2. TypeOK'
  BY <1>1 DEF SessionInv, TypeOK, Obey
<1>3. SearchMatchesSession'
  BY <1>1 DEF SessionInv, SearchMatchesSession, EngineToMove
<1> QED
  BY <1>1, <1>2, <1>3 DEF SessionInv, Unfinished, ExploredOnce, SettledBy

\* Commands that only set flags.
LEMMA FlagCommandsKeepInv ==
  ASSUME SessionInv,
         \/ ForceMode \/ Exit \/ Analyze \/ Pause \/ Interrupt \/ Quit
         \/ \E result \in {"over", "inProgress"} : GameOver(result)
  PROVE  SessionInv'
<1> DEFINE s == Stopped(session)
<1>1. s \in Sessions /\ s.searchMode = "none"
  BY MembersTyped DEF SessionInv, TypeOK
<1>2. Forced(s) \in Sessions /\ Forced(s).searchMode = "none"
  BY <1>1, MembersTyped
<1> HIDE DEF s
<1>3. /\ [Forced(s) EXCEPT !.analyzeMode = FALSE] \in Sessions
      /\ [Forced(s) EXCEPT !.analyzeMode = FALSE].searchMode = "none"
  BY <1>2 DEF Sessions
<1>4. CASE ForceMode \/ Exit
  <2> DEFINE t == [Forced(s) EXCEPT !.analyzeMode = FALSE]
  <2>1. t \in Sessions /\ t.searchMode = "none"
    BY <1>3
  <2>2. ForceMode => Obey(t)
    BY DEF ForceMode, s
  <2>3. Exit => Obey(t)
    BY DEF Exit, s
  <2> HIDE DEF t
  <2> QED
    BY <1>4, <2>1, <2>2, <2>3, StoppingKeepsInv
<1>5. CASE Analyze
  <2> DEFINE t == [s EXCEPT !.analyzeMode = TRUE, !.forceMode = FALSE, !.paused = FALSE,
                            !.analysisCompleted = FALSE]
  <2>1. t \in Sessions /\ t.searchMode = "none"
    BY <1>1 DEF Sessions
  <2>2. Obey(t)
    BY <1>5 DEF Analyze, s
  <2> HIDE DEF t
  <2> QED
    BY <2>1, <2>2, StoppingKeepsInv
<1>6. CASE Pause
  <2>1. /\ [s EXCEPT !.paused = TRUE] \in Sessions
        /\ [s EXCEPT !.paused = TRUE].searchMode = "none"
    BY <1>1 DEF Sessions
  <2> QED
    BY <1>6, <2>1, StoppingKeepsInv DEF Pause, s
<1>7. CASE Interrupt
  BY <1>1, <1>7, StoppingKeepsInv DEF Interrupt, s
<1>8. CASE Quit
  <2>1. /\ [s EXCEPT !.quitRequested = TRUE] \in Sessions
        /\ [s EXCEPT !.quitRequested = TRUE].searchMode = "none"
    BY <1>1 DEF Sessions
  <2> QED
    BY <1>8, <2>1, StoppingKeepsInv DEF Quit, s
<1>9. ASSUME NEW result \in {"over", "inProgress"}, GameOver(result)
      PROVE  SessionInv'
  <2>1. /\ [Forced(s) EXCEPT !.gameResult = result, !.analyzeMode = FALSE] \in Sessions
        /\ [Forced(s) EXCEPT !.gameResult = result,
                             !.analyzeMode = FALSE].searchMode = "none"
    BY <1>2 DEF Sessions
  <2> QED
    BY <1>9, <2>1, StoppingKeepsInv DEF GameOver, s
<1> QED
  BY <1>4, <1>5, <1>6, <1>7, <1>8, <1>9

\* Commands that change the board or the engine's side.
LEMMA PositionCommandsKeepInv ==
  ASSUME SessionInv,
         \/ New \/ SetBoard \/ Undo \/ Remove
         \/ \E color \in Colors : Play(color)
  PROVE  SessionInv'
<1> DEFINE s == PositionChanged(Stopped(session))
<1>1. s \in Sessions /\ s.searchMode = "none" /\ s.board \in Boards
  <2>1. Stopped(session) \in Sessions /\ Stopped(session).searchMode = "none"
    BY MembersTyped DEF SessionInv, TypeOK
  <2> QED
    BY <2>1, MembersTyped DEF Sessions
<1> HIDE DEF s
<1>2. \A root \in Roots :
        [root |-> [root EXCEPT !.name = "setup"], line |-> <<>>] \in Boards
  <2>1. ASSUME NEW root \in Roots
        PROVE  [root |-> [root EXCEPT !.name = "setup"], line |-> <<>>] \in Boards
    <3>1. [root EXCEPT !.name = "setup"] \in Roots
      BY DEF Roots
    <3> QED
      BY <3>1, BareBoard
  <2> QED
    BY <2>1
<1>3. Start \in Boards
  <2>1. [name |-> "initial", toMove |-> 0] \in Roots
    BY DEF Roots, Colors
  <2> QED
    BY <2>1, BareBoard DEF Start
<1>4. CASE New
  <2> DEFINE t == [s EXCEPT !.board = Start, !.computerColor = 1, !.forceMode = FALSE,
                            !.analyzeMode = FALSE, !.illegalPosition = FALSE,
                            !.paused = FALSE]
  <2>1. t \in Sessions /\ t.searchMode = "none"
    <3>1. 1 \in Colors
      BY DEF Colors
    <3> QED
      BY <1>1, <1>3, <3>1 DEF Sessions
  <2>2. Obey(t)
    BY <1>4 DEF New, s
  <2> HIDE DEF t
  <2> QED
    BY <2>1, <2>2, StoppingKeepsInv
<1>5. CASE SetBoard
  <2>1. CASE Obey([Stopped(session) EXCEPT !.illegalPosition = TRUE])
    <3>1. Stopped(session) \in Sessions /\ Stopped(session).searchMode = "none"
      BY MembersTyped DEF SessionInv, TypeOK
    <3>2. /\ [Stopped(session) EXCEPT !.illegalPosition = TRUE] \in Sessions
          /\ [Stopped(session) EXCEPT !.illegalPosition = TRUE].searchMode = "none"
      BY <3>1 DEF Sessions
    <3> QED
      BY <2>1, <3>2, StoppingKeepsInv
  <2>2. ASSUME NEW board \in Boards,
               Obey([s EXCEPT !.board = board, !.illegalPosition = FALSE])
        PROVE  SessionInv'
    <3>1. /\ [s EXCEPT !.board = board, !.illegalPosition = FALSE] \in Sessions
          /\ [s EXCEPT !.board = board, !.illegalPosition = FALSE].searchMode = "none"
      BY <1>1 DEF Sessions
    <3> QED
      BY <2>2, <3>1, StoppingKeepsInv
  <2> QED
    BY <1>2, <1>5, <2>1, <2>2 DEF SetBoard, s
<1>6. CASE Undo \/ Remove
  <2>1. PICK board \in {Undone(s.board), Undone(Undone(s.board))} :
          Obey([s EXCEPT !.board = board])
    BY <1>6 DEF Undo, Remove, s
  <2>2. board \in Boards
    BY <1>1, <2>1, BoardsAfterMoves
  <2>3. /\ [s EXCEPT !.board = board] \in Sessions
        /\ [s EXCEPT !.board = board].searchMode = "none"
    BY <1>1, <2>2 DEF Sessions
  <2> QED
    BY <2>1, <2>3, StoppingKeepsInv
<1>7. ASSUME NEW color \in Colors, Play(color)
      PROVE  SessionInv'
  <2> DEFINE t == [s EXCEPT !.computerColor = color, !.forceMode = FALSE,
                            !.analyzeMode = FALSE, !.paused = FALSE]
  <2>1. t \in Sessions /\ t.searchMode = "none"
    BY <1>1 DEF Sessions
  <2>2. Obey(t)
    BY <1>7 DEF Play, s
  <2> HIDE DEF t
  <2> QED
    BY <2>1, <2>2, StoppingKeepsInv
<1> QED
  BY <1>4, <1>5, <1>6, <1>7

\* "easy", "hard" and "resume" may leave a search running.
LEMMA PonderCommandsKeepInv ==
  ASSUME SessionInv, Easy \/ Hard \/ Resume
  PROVE  SessionInv'
<1>1. session \in Sessions /\ Stopped(session) \in Sessions
      /\ Stopped(session).searchMode = "none"
  BY MembersTyped DEF SessionInv, TypeOK
<1>2. ASSUME NEW s \in Sessions, s.searchMode = session.searchMode, Obey(s),
             s.board = session.board, s.computerColor = session.computerColor,
             s.analyzeMode = session.analyzeMode,
             Resting(s) => Resting(session),
             s.searchMode = "ponder" => s.ponderEnabled /\ ~s.ponderCompleted,
             s.searchMode = "analysis" => ~s.analysisCompleted
      PROVE  SessionInv'
  BY <1>2, StoppingKeepsInv, RunningKeepsInv
<1>3. CASE Easy
  <2>1. CASE session.searchMode = "ponder"
    <3> DEFINE t == [Stopped(session) EXCEPT !.ponderEnabled = FALSE]
    <3>1. t \in Sessions /\ t.searchMode = "none"
      BY <1>1 DEF Sessions
    <3>2. Obey(t)
      BY <1>3, <2>1 DEF Easy
    <3> HIDE DEF t
    <3> QED
      BY <3>1, <3>2, StoppingKeepsInv
  <2>2. CASE session.searchMode # "ponder"
    <3> DEFINE t == [session EXCEPT !.ponderEnabled = FALSE]
    <3>1. /\ t \in Sessions /\ t.searchMode = session.searchMode
          /\ t.board = session.board /\ t.computerColor = session.computerColor
          /\ t.analyzeMode = session.analyzeMode
          /\ t.analysisCompleted = session.analysisCompleted
          /\ t.paused = session.paused /\ t.forceMode = session.forceMode
          /\ t.illegalPosition = session.illegalPosition
          /\ t.gameResult = session.gameResult
      BY <1>1 DEF Sessions
    <3>2. Obey(t)
      BY <1>3, <2>2 DEF Easy
    <3> HIDE DEF t
    <3> QED
      BY <1>2, <2>2, <3>1, <3>2 DEF Resting, SessionInv, Unfinished
  <2> QED
    BY <2>1, <2>2
<1>4. CASE Hard
  <2> DEFINE t == [session EXCEPT !.ponderEnabled = TRUE, !.ponderCompleted = FALSE]
  <2>1. /\ t \in Sessions /\ t.searchMode = session.searchMode
        /\ t.board = session.board /\ t.computerColor = session.computerColor
        /\ t.analyzeMode = session.analyzeMode
        /\ t.analysisCompleted = session.analysisCompleted
        /\ t.ponderEnabled /\ ~t.ponderCompleted
        /\ t.paused = session.paused /\ t.forceMode = session.forceMode
        /\ t.illegalPosition = session.illegalPosition
        /\ t.gameResult = session.gameResult
    BY <1>1 DEF Sessions
  <2>2. Obey(t)
    BY <1>4 DEF Hard
  <2> HIDE DEF t
  <2> QED
    BY <1>2, <2>1, <2>2 DEF Resting, SessionInv, Unfinished
<1>5. CASE Resume
  <2> DEFINE t == [session EXCEPT !.paused = FALSE, !.analysisCompleted = FALSE,
                                  !.ponderCompleted = FALSE]
  <2>1. /\ t \in Sessions /\ t.searchMode = session.searchMode
        /\ t.board = session.board /\ t.computerColor = session.computerColor
        /\ t.analyzeMode = session.analyzeMode
        /\ ~t.analysisCompleted /\ ~t.ponderCompleted
        /\ t.ponderEnabled = session.ponderEnabled
        /\ ~t.paused /\ t.forceMode = session.forceMode
        /\ t.illegalPosition = session.illegalPosition
        /\ t.gameResult = session.gameResult
    BY <1>1 DEF Sessions
  <2>2. Obey(t)
    BY <1>5 DEF Resume
  <2>3. session.searchMode = "ponder" => session.ponderEnabled
    BY DEF SessionInv, SearchMatchesSession
  <2> HIDE DEF t
  <2> QED
    BY <1>2, <2>1, <2>2, <2>3 DEF Resting, SessionInv
<1> QED
  BY <1>3, <1>4, <1>5

\* A move of the user's, or the one that "?" asks the engine for.
LEMMA MovesKeepInv ==
  ASSUME SessionInv, MoveNow \/ \E move \in Moves : UserMove(move)
  PROVE  SessionInv'
<1> DEFINE s == Stopped(session)
<1>1. s \in Sessions /\ s.searchMode = "none" /\ s.board = session.board
      /\ s.board \in Boards
  BY MembersTyped DEF SessionInv, TypeOK, Stopped, Sessions
<1>2. s \in Sessions /\ s.searchMode = "none"
  BY <1>1
<1> HIDE DEF s
<1>3. ASSUME Obey(s)
      PROVE  SessionInv'
  BY <1>1, <1>3, StoppingKeepsInv
<1>4. ASSUME NEW move \in Legal(s.board), Obey(MovedTo(s, Played(s.board, move)))
      PROVE  SessionInv'
  <2>1. Played(s.board, move) \in Boards
    BY <1>1, <1>4, BoardsAfterMoves
  <2>2. /\ MovedTo(s, Played(s.board, move)) \in Sessions
        /\ MovedTo(s, Played(s.board, move)).searchMode = "none"
    BY <1>1, <2>1, MembersTyped
  <2> QED
    BY <1>4, <2>2, StoppingKeepsInv
<1>5. ASSUME NEW result \in Results, session.searchMode = "move", Obey(Applied(s, result))
      PROVE  SessionInv'
  <2>1. search.position = session.board
    BY <1>5 DEF SessionInv, SearchMatchesSession
  <2>2. result.move \in Legal(s.board)
    BY <1>1, <2>1 DEF Results
  <2>3. CASE Applied(s, result) = Forced(s)
    BY <1>1, <1>5, <2>3, MembersTyped, StoppingKeepsInv
  <2>4. CASE Applied(s, result) = MovedTo(s, Played(s.board, result.move))
    BY <1>4, <1>5, <2>2, <2>4
  <2> QED
    BY <1>1, <2>2, <2>3, <2>4, AppliedCases
<1>6. CASE MoveNow
  BY <1>3, <1>5, <1>6 DEF MoveNow, s
<1>7. ASSUME NEW move \in Moves, UserMove(move)
      PROVE  SessionInv'
  <2>1. CASE ~session.illegalPosition /\ move \in Legal(session.board)
    <3>1. Obey(MovedTo(s, Played(session.board, move)))
      BY <1>7, <2>1 DEF UserMove, s
    <3> QED
      BY <1>1, <1>4, <2>1, <3>1
  <2>2. CASE ~(~session.illegalPosition /\ move \in Legal(session.board))
    <3>1. Obey(s)
      BY <1>7, <2>2 DEF UserMove, s
    <3> QED
      BY <1>3, <3>1
  <2> QED
    BY <2>1, <2>2
<1> QED
  BY <1>6, <1>7

-----------------------------------------------------------------------------
(***************************************************************************)
(* The polls.                                                              *)
(***************************************************************************)
\* The search that is started, or that none is, fits the session.
LEMMA StartingKeepsInv ==
  ASSUME TypeOK, NEW s \in Sessions, s.searchMode = "none", StartNext(s),
         UNCHANGED left, explored' \subseteq Modes \X Boards, SettledBy(s, explored')
  PROVE  SessionInv'
<1>1. CASE session' \in {s, Reported(s)} /\ search' = Idle
  <2>1. /\ session' \in Sessions /\ session'.searchMode = "none"
        /\ session'.forceMode = s.forceMode /\ session'.board = s.board
        /\ session'.ponderCompleted = s.ponderCompleted
        /\ session'.analysisCompleted = s.analysisCompleted
        /\ session'.analyzeMode = s.analyzeMode
        /\ session'.computerColor = s.computerColor
    <3>1. /\ Reported(s) \in Sessions /\ Reported(s).searchMode = s.searchMode
          /\ Reported(s).forceMode = s.forceMode /\ Reported(s).board = s.board
          /\ Reported(s).ponderCompleted = s.ponderCompleted
          /\ Reported(s).analysisCompleted = s.analysisCompleted
          /\ Reported(s).analyzeMode = s.analyzeMode
          /\ Reported(s).computerColor = s.computerColor
      BY DEF Reported, Sessions
    <3> QED
      BY <1>1, <3>1
  <2>2. TypeOK'
    BY <1>1, <2>1 DEF TypeOK
  <2>3. SearchMatchesSession' /\ Unfinished'
    BY <1>1, <2>1 DEF SearchMatchesSession, Unfinished
  <2>4. ExploredOnce'
    BY <2>1 DEF ExploredOnce, SettledBy, EngineToMove
  <2> QED
    BY <2>2, <2>3, <2>4 DEF SessionInv
<1>2. CASE /\ NextMode(s) # "none" /\ ~Finished(s.board)
           /\ session' = [s EXCEPT !.searchMode = NextMode(s)]
           /\ search' = [status |-> "searching", position |-> s.board,
                         color |-> s.computerColor]
  <2> DEFINE mode == NextMode(s)
  <2>1. /\ mode \in {"move", "ponder", "analysis"} /\ ~Resting(s)
        /\ mode = "analysis" <=> s.analyzeMode
        /\ mode = "analysis" => ~s.analysisCompleted
        /\ mode = "move" => EngineToMove(s)
        /\ mode = "ponder" => s.ponderEnabled /\ ~s.ponderCompleted /\ ~EngineToMove(s)
    BY <1>2 DEF NextMode, Sessions
  <2> HIDE DEF mode
  <2>2. session' = [s EXCEPT !.searchMode = mode]
    BY <1>2 DEF mode
  <2>3. /\ session' \in Sessions /\ session'.searchMode = mode
        /\ session'.forceMode = s.forceMode /\ session'.board = s.board
        /\ session'.ponderCompleted = s.ponderCompleted
        /\ session'.analysisCompleted = s.analysisCompleted
        /\ session'.analyzeMode = s.analyzeMode
        /\ session'.computerColor = s.computerColor
        /\ session'.ponderEnabled = s.ponderEnabled
        /\ session'.paused = s.paused /\ session'.illegalPosition = s.illegalPosition
        /\ session'.gameResult = s.gameResult
    BY <2>1, <2>2 DEF Sessions, Modes
  <2>4. search' # Idle /\ search' \in Searches
        /\ search'.position = s.board /\ search'.color = s.computerColor
    BY <1>2 DEF Idle, Searches, Sessions
  <2>5. TypeOK'
    BY <2>3, <2>4 DEF TypeOK, Searches
  <2>6. SearchMatchesSession'
    <3>1. ~Finished(s.board)
      BY <1>2
    <3> QED
      BY <2>1, <2>3, <2>4, <3>1 DEF SearchMatchesSession, Resting, EngineToMove
  <2>7. Unfinished'
    BY <2>1, <2>3 DEF Unfinished
  <2>8. ExploredOnce'
    BY <2>3 DEF ExploredOnce, SettledBy, EngineToMove
  <2> QED
    BY <2>5, <2>6, <2>7, <2>8 DEF SessionInv
<1> QED
  BY <1>1, <1>2 DEF StartNext

LEMMA StartSearchKeepsInv ==
  ASSUME SessionInv, StartSearch
  PROVE  SessionInv'
BY StartingKeepsInv DEF SessionInv, TypeOK, ExploredOnce, StartSearch

\* A search that ended is applied to the position it searched, and settles it.
LEMMA TakeResultKeepsInv ==
  ASSUME SessionInv, TakeResult
  PROVE  SessionInv'
<1> DEFINE mode == session.searchMode
           s0 == Stopped(session)
<1>1. PICK result \in Results : StartNext(AfterSearch(session, result))
  BY DEF TakeResult
<1>2. /\ search # Idle /\ search.position = session.board
      /\ mode = "analysis" <=> session.analyzeMode
      /\ mode = "move" => EngineToMove(session)
      /\ mode = "ponder" => ~EngineToMove(session)
      /\ mode \in {"move", "ponder", "analysis"}
  BY DEF SessionInv, TakeResult, SearchMatchesSession, TypeOK, Sessions, Modes
<1>3. /\ session.board \in Boards /\ explored' = explored \union {<<mode, session.board>>}
      /\ explored' \subseteq Modes \X Boards /\ UNCHANGED left
  BY <1>2 DEF SessionInv, TypeOK, TakeResult, Sessions, Modes
<1>4. /\ s0 \in Sessions /\ s0.searchMode = "none"
      /\ s0.forceMode = session.forceMode /\ s0.board = session.board
      /\ s0.ponderCompleted = session.ponderCompleted
      /\ s0.analysisCompleted = session.analysisCompleted
      /\ s0.analyzeMode = session.analyzeMode
      /\ s0.computerColor = session.computerColor
  BY DEF SessionInv, TypeOK, Stopped, Sessions, Modes
<1>5. SettledBy(session, explored)
  BY DEF SessionInv, ExploredOnce
<1>6. result.move \in Legal(session.board)
  BY <1>1, <1>2 DEF Results
<1>7. ASSUME NEW s \in Sessions, s.searchMode = "none", StartNext(s),
             SettledBy(s, explored')
      PROVE  SessionInv'
  BY <1>3, <1>7, StartingKeepsInv DEF SessionInv
<1>8. CASE mode = "move"
  <2>1. AfterSearch(session, result) = Applied(s0, result)
    BY <1>8 DEF AfterSearch
  <2> HIDE DEF s0, mode
  <2>2. CASE Applied(s0, result) = Forced(s0)
    <3>1. /\ Forced(s0) \in Sessions /\ Forced(s0).searchMode = "none"
          /\ Forced(s0).forceMode
      BY <1>4 DEF Forced, Sessions
    <3>2. \A x \in explored' : x[1] = "move"
      BY <1>2, <1>3, <1>5, <1>8 DEF SettledBy
    <3>3. SettledBy(Forced(s0), explored')
      BY <3>1, <3>2 DEF SettledBy
    <3> QED
      BY <1>1, <1>7, <2>1, <2>2, <3>1, <3>3
  <2>3. CASE Applied(s0, result) = MovedTo(s0, Played(s0.board, result.move))
    <3> DEFINE board == Played(s0.board, result.move)
               s == MovedTo(s0, board)
    <3>1. board \in Boards /\ Len(board.line) = Len(session.board.line) + 1
          /\ Len(session.board.line) \in Nat
      BY <1>3, <1>4, <1>6, BoardsAfterMoves
    <3> HIDE DEF board
    <3>2. /\ s \in Sessions /\ s.searchMode = "none" /\ s.board = board
          /\ s.forceMode = s0.forceMode
      <4>1. s \in Sessions /\ s.searchMode = "none" /\ s.board = board
        BY <1>4, <3>1, MembersTyped
      <4>2. s.forceMode = s0.forceMode
        BY <1>4, <3>1 DEF MovedTo, Reported, Sessions
      <4> QED
        BY <4>1, <4>2
    <3> HIDE DEF s
    <3>3. \A x \in explored' :
            x[1] = "move" /\ (session.forceMode \/ Len(x[2].line) < Len(board.line))
      <4>1. ASSUME NEW x \in explored
            PROVE  /\ x[1] = "move"
                   /\ session.forceMode \/ Len(x[2].line) < Len(board.line)
        <5>1. x[1] = "move"
          BY <1>2, <1>5, <1>8 DEF SettledBy
        <5>2. session.forceMode \/ Len(x[2].line) < Len(session.board.line)
          BY <1>5, <5>1 DEF SettledBy
        <5>3. x \in Modes \X Boards
          BY DEF SessionInv, TypeOK
        <5>4. Len(x[2].line) \in Nat
          BY <5>3, BoardsAfterMoves
        <5> QED
          BY <3>1, <5>1, <5>2, <5>4
      <4>2. ASSUME NEW x, x = <<mode, session.board>>
            PROVE  x[1] = "move" /\ Len(x[2].line) < Len(board.line)
        BY <1>8, <3>1, <4>2
      <4> QED
        BY <1>3, <4>1, <4>2
    <3>4. SettledBy(s, explored')
      BY <1>4, <3>2, <3>3 DEF SettledBy
    <3>5. StartNext(s)
      BY <1>1, <2>1, <2>3 DEF s, board
    <3> QED
      BY <1>7, <3>2, <3>4, <3>5
  <2> QED
    BY <1>4, <1>6, <2>2, <2>3, AppliedCases
<1>9. CASE mode \in {"ponder", "analysis"}
  <2> DEFINE s == AfterSearch(session, result)
  <2>1. /\ s \in Sessions /\ s.searchMode = "none"
        /\ s.forceMode = session.forceMode /\ s.board = session.board
        /\ s.ponderCompleted = (session.ponderCompleted \/ mode = "ponder")
        /\ s.analysisCompleted = (session.analysisCompleted \/ mode = "analysis")
        /\ s.analyzeMode = session.analyzeMode
        /\ s.computerColor = session.computerColor
    <3>1. CASE mode = "ponder"
      <4>1. s = [s0 EXCEPT !.ponderCompleted = TRUE]
        BY <3>1 DEF AfterSearch
      <4> HIDE DEF s, s0
      <4> QED
        BY <1>4, <3>1, <4>1 DEF Sessions
    <3>2. CASE mode = "analysis"
      <4>1. s = [s0 EXCEPT !.analysisCompleted = TRUE]
        BY <3>2 DEF AfterSearch
      <4> HIDE DEF s, s0
      <4> QED
        BY <1>4, <3>2, <4>1 DEF Sessions
    <3> QED
      BY <1>9, <3>1, <3>2
  <2> HIDE DEF s, s0
  <2>2. EngineToMove(s) = EngineToMove(session)
    BY <2>1 DEF EngineToMove
  <2>3. SettledBy(s, explored')
    <3>1. SettledBy(s, explored)
      BY <1>5, <2>1, <2>2 DEF SettledBy
    <3>2. SettledBy(s, {<<mode, session.board>>})
      <4>1. CASE mode = "ponder"
        <5>1. s.ponderCompleted /\ ~s.analyzeMode /\ ~EngineToMove(s)
          BY <1>2, <2>1, <2>2, <4>1
        <5> QED
          BY <4>1, <5>1 DEF SettledBy
      <4>2. CASE mode = "analysis"
        <5>1. s.analysisCompleted /\ s.analyzeMode
          BY <1>2, <2>1, <4>2
        <5> QED
          BY <4>2, <5>1 DEF SettledBy
      <4> QED
        BY <1>9, <4>1, <4>2
    <3> QED
      BY <1>3, <3>1, <3>2 DEF SettledBy
  <2> QED
    BY <1>1, <1>7, <2>1, <2>3 DEF s
<1> QED
  BY <1>2, <1>8, <1>9

LEMMA SearchFinishesKeepsInv ==
  ASSUME SessionInv, SearchFinishes
  PROVE  SessionInv'
<1>1. search \in Searches
  BY DEF SessionInv, TypeOK, SearchFinishes, Idle, Searches
<1>2. /\ search' \in Searches /\ search'.position = search.position
      /\ search'.color = search.color
  BY <1>1 DEF SearchFinishes, Searches
<1>3. UNCHANGED <<session, left, explored>>
  BY DEF SearchFinishes
<1>4. search # Idle /\ search' # Idle
  BY <1>1, <1>2 DEF Idle, Searches
<1>5. TypeOK'
  BY <1>2, <1>3 DEF SessionInv, TypeOK, Searches
<1>6. SearchMatchesSession'
  BY <1>2, <1>3, <1>4 DEF SessionInv, SearchMatchesSession
<1> QED
  BY <1>3, <1>5, <1>6 DEF SessionInv, Unfinished, ExploredOnce

LEMMA SessionInvInit == Init => SessionInv
<1> SUFFICES ASSUME Init PROVE SessionInv
  OBVIOUS
<1>1. Start \in Boards
  <2>1. [name |-> "initial", toMove |-> 0] \in Roots
    BY DEF Roots, Colors
  <2> QED
    BY <2>1, BareBoard DEF Start
<1>2. session \in Sessions /\ session.searchMode = "none"
  BY <1>1 DEF Init, Sessions, Modes, Colors
<1>3. TypeOK
  BY <1>2, SessionAssumption DEF Init, TypeOK
<1> QED
  BY <1>2, <1>3
     DEF Init, SessionInv, SearchMatchesSession, Unfinished, ExploredOnce, SettledBy

LEMMA SessionInvHolds == Spec => []SessionInv
<1>1. SessionInv /\ [Next]_vars => SessionInv'
  <2> SUFFICES ASSUME SessionInv, [Next]_vars PROVE SessionInv'
    OBVIOUS
  <2>1. CASE Command
    <3>1. SideToMove(session.board) \in Colors /\ 1 - SideToMove(session.board) \in Colors
      BY SideIsColor DEF SessionInv, TypeOK, Sessions
    <3> QED
      BY <2>1, <3>1, FlagCommandsKeepInv, PositionCommandsKeepInv, PonderCommandsKeepInv,
         MovesKeepInv DEF Command
  <2>2. CASE Poll
    BY <2>2, TakeResultKeepsInv, StartSearchKeepsInv DEF Poll
  <2>3. CASE SearchFinishes
    BY <2>3, SearchFinishesKeepsInv
  <2>4. CASE UNCHANGED vars
    <3>1. session' = session /\ search' = search /\ left' = left /\ explored' = explored
      BY <2>4 DEF vars
    <3> QED
      BY <3>1 DEF SessionInv, TypeOK, SearchMatchesSession, Unfinished, ExploredOnce
  <2> QED
    BY <2>1, <2>2, <2>3, <2>4 DEF Next, Terminated
<1> QED
  BY <1>1, SessionInvInit, PTL DEF Spec

\* The members of the session, the search and the board keep their types: no
\* command or result grows a line beyond the game history.
THEOREM SessionTypesKept == Spec => []TypeOK
<1>1. SessionInv => TypeOK
  BY DEF SessionInv
<1> QED
  BY <1>1, SessionInvHolds, PTL

\* "The protocol task owns the live board and joins searches before changing
\* it": whatever commands come, for ever, the search that runs is the one that
\* the board and the flags call for.
THEOREM SearchFitsSession == Spec => []SearchMatchesSession
<1>1. SessionInv => SearchMatchesSession
  BY DEF SessionInv
<1> QED
  BY <1>1, SessionInvHolds, PTL

\* "Completed ponder/analysis flags prevent restarting the same position every
\* time the nonblocking input loop polls": no position is searched twice in one
\* mode between two commands.
THEOREM PositionsSearchedOnce == Spec => []NoSearchRepeated
<1>1. SessionInv => NoSearchRepeated
  <2> SUFFICES ASSUME SessionInv, search # Idle,
                      <<session.searchMode, search.position>> \in explored
               PROVE  FALSE
    BY DEF NoSearchRepeated
  <2> DEFINE x == <<session.searchMode, session.board>>
  <2>1. x \in explored /\ x[1] = session.searchMode /\ x[2] = session.board
    BY DEF SessionInv, SearchMatchesSession
  <2>2. session.board \in Boards
    BY DEF SessionInv, TypeOK, Sessions
  <2>3. ~(Len(session.board.line) < Len(session.board.line))
    BY <2>2, BoardsAfterMoves
  <2> HIDE DEF x
  <2>4. session.searchMode = "move" => FALSE
    BY <2>1, <2>3 DEF SessionInv, SearchMatchesSession, Resting, ExploredOnce, SettledBy
  <2>5. session.searchMode \in {"move", "ponder", "analysis"}
    BY <2>1 DEF SessionInv, ExploredOnce, SettledBy
  <2> QED
    BY <2>1, <2>4, <2>5 DEF SessionInv, Unfinished, ExploredOnce, SettledBy
<1> QED
  BY <1>1, SessionInvHolds, PTL

-----------------------------------------------------------------------------
(***************************************************************************)
(* The seek bot.                                                           *)
(***************************************************************************)
CONSTANT None

VARIABLES stopRequested, active, pending, task, method, owner

Bot == INSTANCE SeekBot

Places == {"idle", "joining", "clearing", "activating", "spawning", "storing",
           "failing", "gone"}

\* A method is under way exactly while the owner is inside one.
CallInv ==
  /\ owner \in Places
  /\ owner = "joining" => method \in {"stop", "start", "destroy"}
  /\ owner = "clearing" => method = "start"

\* A task is there exactly while its future, or the owner about to store the
\* future, holds it.
TaskInv ==
  /\ task \in Bot!Alive \union Bot!Ended \union {"none"}
  /\ task # "none" <=> pending \/ owner = "storing"
  /\ pending => owner \in {"idle", "joining"}

FlagInv ==
  /\ stopRequested \in BOOLEAN /\ active \in BOOLEAN /\ pending \in BOOLEAN
  /\ active <=> task \in Bot!Alive \/ owner \in {"spawning", "failing"}
  /\ owner \in {"joining", "gone"} => stopRequested
  /\ owner \in {"activating", "spawning", "storing", "failing"} => ~stopRequested
  /\ stopRequested /\ owner = "idle" => task = "none"

BotInv == CallInv /\ TaskInv /\ FlagInv
-----------------------------------------------------------------------------
LEMMA BotInvHolds == Bot!Spec => []BotInv
<1>1. Bot!Init => BotInv
  BY DEF Bot!Init, BotInv, CallInv, TaskInv, FlagInv, Places, Bot!Alive, Bot!Ended
<1>2. BotInv /\ [Bot!Next]_(Bot!vars) => BotInv'
  <2> SUFFICES ASSUME BotInv, [Bot!Next]_(Bot!vars) PROVE BotInv'
    OBVIOUS
  <2> USE DEF BotInv, CallInv, TaskInv, FlagInv, Places, Bot!Alive, Bot!Ended,
              Bot!flags, Bot!call, Bot!Leave
  <2>1. CASE Bot!RequestStop
    BY <2>1 DEF Bot!RequestStop
  <2>2. CASE Bot!Join
    <3>1. CASE pending /\ task = "failed" /\ method # "destroy"
      BY <2>2, <3>1 DEF Bot!Join
    <3>2. CASE ~(pending /\ task = "failed" /\ method # "destroy")
      <4>1. Bot!AfterStop
        BY <2>2, <3>2 DEF Bot!Join
      <4>2. pending' = FALSE /\ task' = "none" /\ UNCHANGED Bot!flags /\ stopRequested
        BY <2>2 DEF Bot!Join
      <4>3. ~active /\ owner # "storing"
        BY <2>2 DEF Bot!Join
      <4>4. CASE method = "start"
        BY <4>1, <4>2, <4>3, <4>4 DEF Bot!AfterStop
      <4>5. CASE method = "destroy"
        BY <4>1, <4>2, <4>3, <4>5 DEF Bot!AfterStop
      <4>6. CASE method = "stop"
        BY <4>1, <4>2, <4>3, <4>6 DEF Bot!AfterStop
      <4>7. method \in {"stop", "start", "destroy"}
        BY <2>2 DEF Bot!Join
      <4> QED
        BY <4>4, <4>5, <4>6, <4>7
    <3> QED
      BY <3>1, <3>2
  <2>3. CASE Bot!ClearStop
    BY <2>3 DEF Bot!ClearStop
  <2>4. CASE Bot!Activate
    BY <2>4 DEF Bot!Activate
  <2>5. CASE Bot!Spawn
    BY <2>5 DEF Bot!Spawn
  <2>6. CASE Bot!StoreFuture
    BY <2>6 DEF Bot!StoreFuture
  <2>7. CASE Bot!SpawnFailed
    BY <2>7 DEF Bot!SpawnFailed
  <2>8. CASE Bot!TaskStep
    BY <2>8 DEF Bot!TaskStep
  <2>9. CASE Bot!ClearActive
    BY <2>9 DEF Bot!ClearActive
  <2>10. CASE UNCHANGED Bot!vars
    BY <2>10 DEF Bot!vars
  <2> QED
    BY <2>1, <2>2, <2>3, <2>4, <2>5, <2>6, <2>7, <2>8, <2>9, <2>10 DEF Bot!Next
<1> QED
  BY <1>1, <1>2, PTL DEF Bot!Spec

\* Between calls running() is true exactly while a task runs.
THEOREM RunningIsTrue == Bot!Spec => []Bot!RunningTellsTruth
<1>1. BotInv => Bot!RunningTellsTruth
  BY DEF BotInv, FlagInv, Bot!RunningTellsTruth
<1> QED
  BY <1>1, BotInvHolds, PTL

\* After a stop, and after destruction, no task is left.
THEOREM StopIsFinal == Bot!Spec => []Bot!StoppedMeansQuiet
<1>1. BotInv => Bot!StoppedMeansQuiet
  BY DEF BotInv, TaskInv, FlagInv, Bot!StoppedMeansQuiet, Bot!Alive
<1> QED
  BY <1>1, BotInvHolds, PTL

\* No task is spawned while an earlier one is there.
THEOREM OneTaskAtATime == Bot!Spec => Bot!OneTask
<1>1. BotInv /\ [Bot!Next]_(Bot!vars)
        => [task' = "begun" /\ task # "begun" => task = "none"]_(Bot!vars)
  <2> SUFFICES ASSUME BotInv, Bot!Next, task' = "begun", task # "begun"
               PROVE  task = "none"
    OBVIOUS
  <2>1. Bot!Spawn \/ Bot!Join
    BY DEF Bot!Next, Bot!RequestStop, Bot!ClearStop, Bot!Activate, Bot!StoreFuture,
           Bot!SpawnFailed, Bot!TaskStep, Bot!ClearActive
  <2>2. CASE Bot!Spawn
    BY <2>2 DEF Bot!Spawn, BotInv, TaskInv
  <2>3. CASE Bot!Join
    BY <2>3 DEF Bot!Join
  <2> QED
    BY <2>1, <2>2, <2>3
<1> QED
  BY <1>1, BotInvHolds, PTL DEF Bot!Spec, Bot!OneTask
=============================================================================
