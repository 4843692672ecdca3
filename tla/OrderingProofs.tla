-------------------------- MODULE OrderingProofs --------------------------
(***************************************************************************)
(* The order in which moves are searched: the picker hands out every move  *)
(* once, whatever the position and the order within a group, and the       *)
(* history's scores stay in range and in order, for every size of int,     *)
(* number of moves, plies and depths, and every table of increments.       *)
(***************************************************************************)
EXTENDS Node, FiniteSetTheorems, TLAPS

-----------------------------------------------------------------------------
(***************************************************************************)
(* The picker.                                                             *)
(***************************************************************************)
\* The moves that were tried: those taken from the queue, those of the groups
\* before, and the two that are tried out of turn.
Tried ==
  CASE mgStage = "start" -> {}
    [] mgStage = "table" -> {tableMove}
    [] mgStage = "promotions" -> {tableMove} \union (Promotions \ list)
    [] mgStage = "captures" -> {tableMove} \union Promotions \union (Captures \ list)
    [] mgStage = "losingCaptures" ->
         {tableMove, killer} \union Promotions \union (Captures \ list)
    [] mgStage = "noncaptures" ->
         {tableMove, killer} \union Promotions \union Captures \union (Noncaptures \ list)
    [] mgStage = "end" -> IF Full THEN Moves ELSE Promotions \union Captures

\* The legal ones of them were handed out, each once.
Recorded ==
  /\ given \in Seq(Moves)
  /\ Handed = position.legal \cap Tried
  /\ IsFiniteSet(Handed) /\ Cardinality(Handed) = Len(given)

\* The queue holds moves of the stage's group; the later stages are of the full
\* picker, and it finishes when only the killer is left.
Queues ==
  /\ position \in Positions /\ mgStage \in Stages
  /\ killer \in Quiets \union {NoMove} /\ firstNoncap \in BOOLEAN
  /\ status \in {"parent", "choosing", "child", "finished"}
  /\ mgStage \in {"start", "table", "end"} => list = {}
  /\ mgStage = "promotions" => list \subseteq Promotions
  /\ mgStage \in {"captures", "losingCaptures"} => list \subseteq Captures
  /\ mgStage = "noncaptures" => list \subseteq Noncaptures
  /\ mgStage \in {"start", "table", "promotions", "captures"} => killer = NoMove
  /\ mgStage \in {"losingCaptures", "noncaptures"} => Full
  /\ status = "finished" =>
       mgStage = "end" \/ (mgStage = "noncaptures" /\ list \subseteq {killer})

\* The quiet moves that were handed out in their turn, and the latest of them.
InTurn == (Handed \cap Noncaptures) \ {tableMove, killer}
Latest == given[Len(given)]

\* firstNoncap is reset by the call that follows the first quiet move.
FirstMarked ==
  mgStage = "noncaptures" =>
    /\ status \in {"child", "parent"} \/ ~firstNoncap => InTurn # {}
    /\ status = "child" => Latest \in InTurn
    /\ status = "child" /\ ~firstNoncap => InTurn # {Latest}

NodeInv == Queues /\ Recorded /\ FirstMarked

-----------------------------------------------------------------------------
\* The groups of moves have nothing in common.
LEMMA GroupsApart ==
  /\ Promotions \cap Captures = {} /\ Promotions \cap Noncaptures = {}
  /\ Captures \cap Noncaptures = {} /\ Elsewhere \cap Moves = {}
  /\ NoMove \notin Moves
<1>1. /\ Groups[1] = Promotions /\ Groups[2] = Captures /\ Groups[3] = Quiets
      /\ Groups[4] = Underpromotions /\ Groups[5] = Elsewhere /\ Groups[6] = {NoMove}
      /\ Len(Groups) = 6
  BY DEF Groups
<1>2. \A i, j \in 1 .. 6 : i # j => Groups[i] \cap Groups[j] = {}
  BY <1>1, PositionAssumption
<1>3. /\ Promotions \cap Captures = {} /\ Promotions \cap Quiets = {}
      /\ Promotions \cap Underpromotions = {}
      /\ Captures \cap Quiets = {} /\ Captures \cap Underpromotions = {}
  <2>1. Groups[1] \cap Groups[2] = {} /\ Groups[1] \cap Groups[3] = {}
        /\ Groups[1] \cap Groups[4] = {}
    BY <1>2
  <2>2. Groups[2] \cap Groups[3] = {} /\ Groups[2] \cap Groups[4] = {}
    BY <1>2
  <2> QED
    BY <1>1, <2>1, <2>2
<1>4. \A i \in 1 .. 4 : Groups[i] \cap Elsewhere = {} /\ NoMove \notin Groups[i]
  <2>1. ASSUME NEW i \in 1 .. 4
        PROVE  Groups[i] \cap Groups[5] = {} /\ Groups[i] \cap Groups[6] = {}
    BY <1>2
  <2> QED
    BY <1>1, <2>1
<1>5. /\ Promotions \cap Elsewhere = {} /\ Captures \cap Elsewhere = {}
      /\ Quiets \cap Elsewhere = {} /\ Underpromotions \cap Elsewhere = {}
      /\ NoMove \notin Promotions /\ NoMove \notin Captures
      /\ NoMove \notin Quiets /\ NoMove \notin Underpromotions
  <2>1. 1 \in 1 .. 4 /\ 2 \in 1 .. 4 /\ 3 \in 1 .. 4 /\ 4 \in 1 .. 4
    OBVIOUS
  <2> QED
    BY <1>1, <1>4, <2>1
<1> QED
  BY <1>3, <1>5 DEF Moves, Noncaptures

\* What a move that is handed out adds to the record.
LEMMA HandedAppend ==
  ASSUME given \in Seq(Moves), NEW move \in Moves, given' = Append(given, move)
  PROVE  /\ given' \in Seq(Moves) /\ Len(given') = Len(given) + 1
         /\ Handed' = Handed \union {move} /\ Latest' = move
<1>1. /\ given' \in Seq(Moves) /\ Len(given') = Len(given) + 1 /\ Len(given) \in Nat
      /\ given'[Len(given) + 1] = move
      /\ \A i \in 1 .. Len(given) : given'[i] = given[i]
  OBVIOUS
<1>2. Handed' = Handed \union {move}
  BY <1>1 DEF Handed
<1> QED
  BY <1>1, <1>2 DEF Latest

\* A move is offered that was not tried, or it is the table's.
LEMMA OfferedOnce ==
  ASSUME Recorded, NEW stage, NEW rest, NEW move \in Moves, Offer(stage, rest, move),
         UNCHANGED position,
         move = tableMove => stage = "table" \/ move \in Tried,
         move \in Tried => move = tableMove /\ stage # "table",
         Tried' = Tried \union {move}
  PROVE  /\ Recorded'
         /\ status' = IF Made(move, stage) THEN "child" ELSE status
         /\ Handed' = IF Made(move, stage) THEN Handed \union {move} ELSE Handed
         /\ Made(move, stage) => Latest' = move /\ move \notin Handed
         /\ ~Made(move, stage) => UNCHANGED given
<1>1. CASE Made(move, stage)
  <2>1. given' = Append(given, move) /\ status' = "child"
    BY <1>1 DEF Offer
  <2>2. move \in position.legal /\ move \notin Tried
    BY <1>1 DEF Made
  <2>3. move \notin Handed
    BY <2>2 DEF Recorded
  <2>4. /\ given' \in Seq(Moves) /\ Len(given') = Len(given) + 1
        /\ Handed' = Handed \union {move} /\ Latest' = move
    BY <2>1, HandedAppend DEF Recorded
  <2>5. IsFiniteSet(Handed') /\ Cardinality(Handed') = Len(given')
    BY <2>3, <2>4, FS_AddElement DEF Recorded
  <2>6. Handed' = position'.legal \cap Tried'
    BY <2>2, <2>4 DEF Recorded
  <2> QED
    BY <1>1, <2>1, <2>3, <2>4, <2>5, <2>6 DEF Recorded
<1>2. CASE ~Made(move, stage)
  <2>1. UNCHANGED <<given, status>> /\ Handed' = Handed
    BY <1>2 DEF Offer, Handed
  <2>2. move \notin position.legal \/ move \in Tried
    BY <1>2 DEF Made
  <2>3. Handed' = position'.legal \cap Tried'
    BY <2>1, <2>2 DEF Recorded
  <2> QED
    BY <1>2, <2>1, <2>3 DEF Recorded
<1> QED
  BY <1>1, <1>2

\* What the position's type says.
LEMMA PositionMoves ==
  ASSUME position \in Positions
  PROVE  /\ position.legal \subseteq Moves /\ position.losing \subseteq Captures
         /\ tableMove \in Moves \union {NoMove}
         /\ ~Full => tableMove = NoMove
         /\ NoMove \notin position.legal
BY GroupsApart DEF Positions, Full, tableMove

-----------------------------------------------------------------------------
(***************************************************************************)
(* The steps.                                                              *)
(***************************************************************************)
LEMMA NodeInvInit == Init => NodeInv
<1> SUFFICES ASSUME Init PROVE NodeInv
  OBVIOUS
<1>1. Handed = {} /\ Len(given) = 0 /\ given \in Seq(Moves)
  BY DEF Init, Handed
<1>2. Recorded
  BY <1>1, FS_EmptySet DEF Recorded, Init, Tried
<1> QED
  BY <1>2 DEF NodeInv, Init, Queues, FirstMarked, Stages

\* A step that tries nothing: a call begins or a move is taken back.
LEMMA TurnsKeepInv ==
  ASSUME NodeInv, Call \/ restore
  PROVE  NodeInv'
<1>1. /\ UNCHANGED <<position, mgStage, list, killer, given>>
      /\ status' \in {"choosing", "parent"}
  BY DEF Call, restore, picker
<1>2. Handed' = Handed /\ Tried' = Tried /\ InTurn' = InTurn
  BY <1>1 DEF Handed, Tried, InTurn, tableMove, Full
<1>3. Recorded'
  BY <1>1, <1>2 DEF NodeInv, Recorded
<1>4. Queues'
  BY <1>1 DEF NodeInv, Queues, Full, Call, restore, picker
<1>5. FirstMarked'
  BY <1>1, <1>2 DEF NodeInv, FirstMarked, Call, restore, picker
<1> QED
  BY <1>3, <1>4, <1>5 DEF NodeInv

\* A group is generated: nothing is tried by it.
LEMMA GeneratedKeepsInv ==
  ASSUME NodeInv, UNCHANGED <<position, given, status>>,
         Queues', mgStage' # "noncaptures",
         position.legal \cap Tried' = position.legal \cap Tried
  PROVE  NodeInv'
<1>1. Handed' = Handed
  BY DEF Handed
<1>2. Recorded'
  BY <1>1 DEF NodeInv, Recorded
<1> QED
  BY <1>2 DEF NodeInv, FirstMarked

\* A move of the groups before the noncaptures is offered.
LEMMA OfferKeepsInv ==
  ASSUME NodeInv, NEW stage, NEW rest, NEW move \in Moves, Offer(stage, rest, move),
         UNCHANGED position,
         Queues', stage # "noncaptures",
         move = tableMove => stage = "table" \/ move \in Tried,
         move \in Tried => move = tableMove /\ stage # "table",
         Tried' = Tried \union {move}
  PROVE  NodeInv'
<1>1. Recorded'
  BY OfferedOnce DEF NodeInv
<1>2. mgStage' # "noncaptures"
  BY DEF Offer
<1> QED
  BY <1>1, <1>2 DEF NodeInv, FirstMarked

LEMMA TableMoveKeepsInv ==
  ASSUME NodeInv, TableMove
  PROVE  NodeInv'
<1>1. /\ mgStage = "start" /\ status = "choosing" /\ tableMove \in Moves
      /\ list = {} /\ position \in Positions
  BY PositionMoves DEF NodeInv, Queues, TableMove, InStage
<1>2. Offer("table", list, tableMove) /\ UNCHANGED <<position, killer, firstNoncap>>
  BY DEF TableMove
<1>3. mgStage' = "table" /\ list' = list /\ status' \in {"choosing", "child"}
  BY <1>1, <1>2 DEF Offer
<1>4. Queues'
  BY <1>1, <1>2, <1>3 DEF NodeInv, Queues, Stages
<1>5. Tried = {} /\ Tried' = {tableMove}
  BY <1>1, <1>2, <1>3 DEF Tried, tableMove
<1> QED
  BY <1>1, <1>2, <1>4, <1>5, OfferKeepsInv

LEMMA GenerationsKeepInv ==
  ASSUME NodeInv, GeneratePromotions \/ GenerateCaptures
  PROVE  NodeInv'
<1>1. /\ UNCHANGED <<position, killer, firstNoncap, given, status>>
      /\ status = "choosing" /\ position \in Positions
  BY DEF GeneratePromotions, GenerateCaptures, InStage, Enter, NodeInv, Queues
<1>2. CASE GeneratePromotions
  <2>1. /\ mgStage' = "promotions" /\ list' = Promotions
        /\ mgStage \in {"start", "table"}
        /\ mgStage = "start" => tableMove = NoMove
    BY <1>2 DEF GeneratePromotions, InStage, Enter
  <2>2. Queues'
    BY <1>1, <2>1 DEF NodeInv, Queues, Stages
  <2>3. Tried' = {tableMove}
    BY <1>1, <2>1 DEF Tried, tableMove
  <2>4. Tried = IF mgStage = "start" THEN {} ELSE {tableMove}
    BY <2>1 DEF Tried
  <2>5. position.legal \cap Tried' = position.legal \cap Tried
    BY <1>1, <2>1, <2>3, <2>4, PositionMoves
  <2> QED
    BY <1>1, <2>1, <2>2, <2>5, GeneratedKeepsInv
<1>3. CASE GenerateCaptures
  <2>1. mgStage' = "captures" /\ list' = Captures /\ mgStage = "promotions" /\ list = {}
    BY <1>3 DEF GenerateCaptures, InStage, Enter
  <2>2. Queues'
    BY <1>1, <2>1 DEF NodeInv, Queues, Stages
  <2>3. Tried' = {tableMove} \union Promotions /\ Tried = {tableMove} \union Promotions
    BY <1>1, <2>1 DEF Tried, tableMove
  <2> QED
    BY <1>1, <2>1, <2>2, <2>3, GeneratedKeepsInv
<1> QED
  BY <1>2, <1>3

LEMMA QueuedKeepsInv ==
  ASSUME NodeInv, NextQueued \/ NextCapture
  PROVE  NodeInv'
<1>1. /\ status = "choosing" /\ position \in Positions
      /\ mgStage \in {"promotions", "captures", "losingCaptures"}
      /\ UNCHANGED <<position, killer, firstNoncap>>
  BY DEF NextQueued, NextCapture, InStage, NodeInv, Queues
<1>2. PICK move \in list : Offer(mgStage, list \ {move}, move)
  BY DEF NextQueued, NextCapture, InStage
<1>3. /\ mgStage' = mgStage /\ list' = list \ {move} /\ status' \in {"choosing", "child"}
  BY <1>1, <1>2 DEF Offer
<1>4. Queues'
  BY <1>1, <1>3 DEF NodeInv, Queues, Full
<1>5. /\ move \in Moves
      /\ mgStage = "promotions" => move \in Promotions
      /\ mgStage \in {"captures", "losingCaptures"} => move \in Captures
      /\ killer \in Quiets \union {NoMove}
  BY <1>1, <1>2 DEF NodeInv, Queues, Moves
<1>6. killer # move
  BY <1>1, <1>5, GroupsApart DEF Noncaptures
<1>7. /\ Tried' = Tried \union {move}
      /\ tableMove \in Tried
      /\ move \in Tried => move = tableMove
  <2>1. tableMove' = tableMove
    BY <1>1 DEF tableMove
  <2>2. CASE mgStage = "promotions"
    <3>1. Tried = {tableMove} \union (Promotions \ list)
      BY <2>2 DEF Tried
    <3>2. Tried' = {tableMove} \union (Promotions \ list')
      BY <1>3, <2>1, <2>2 DEF Tried
    <3> QED
      BY <1>2, <1>3, <1>5, <2>2, <3>1, <3>2
  <2>3. CASE mgStage = "captures"
    <3>1. Tried = {tableMove} \union Promotions \union (Captures \ list)
      BY <2>3 DEF Tried
    <3>2. Tried' = {tableMove} \union Promotions \union (Captures \ list')
      BY <1>3, <2>1, <2>3 DEF Tried
    <3> QED
      BY <1>2, <1>3, <1>5, <2>3, <3>1, <3>2, GroupsApart
  <2>4. CASE mgStage = "losingCaptures"
    <3>1. Tried = {tableMove, killer} \union Promotions \union (Captures \ list)
      BY <2>4 DEF Tried
    <3>2. Tried' = {tableMove, killer} \union Promotions \union (Captures \ list')
      BY <1>1, <1>3, <2>1, <2>4 DEF Tried
    <3> QED
      BY <1>2, <1>3, <1>5, <1>6, <2>4, <3>1, <3>2, GroupsApart
  <2> QED
    BY <1>1, <2>2, <2>3, <2>4
<1> QED
  BY <1>1, <1>2, <1>4, <1>5, <1>7, OfferKeepsInv

\* A killer is a quiet move that was not tried; without one the stage changes
\* all the same.
LEMMA LeaveCapturesKeepsInv ==
  ASSUME NodeInv, LeaveCaptures
  PROVE  NodeInv'
<1>1. /\ status = "choosing" /\ mgStage = "captures" /\ Full /\ position \in Positions
      /\ list \subseteq Captures /\ killer = NoMove
      /\ UNCHANGED <<position, firstNoncap>> /\ tableMove' = tableMove /\ Full'
  BY DEF LeaveCaptures, InStage, NodeInv, Queues, tableMove, Full
<1>2. Tried = {tableMove} \union Promotions \union (Captures \ list)
  BY <1>1 DEF Tried
<1>3. ASSUME NEW move, OfferKiller(move)
      PROVE  NodeInv'
  <2>1. /\ move \in Quiets /\ move # tableMove /\ killer' = move
        /\ Offer("losingCaptures", list, move)
    BY <1>3 DEF OfferKiller, Usable
  <2>2. /\ mgStage' = "losingCaptures" /\ list' = list
        /\ status' \in {"choosing", "child"}
    BY <1>1, <2>1 DEF Offer
  <2>3. Queues'
    BY <1>1, <2>1, <2>2 DEF NodeInv, Queues, Stages
  <2>4. Tried' = {tableMove, move} \union Promotions \union (Captures \ list)
    BY <1>1, <2>1, <2>2 DEF Tried
  <2>5. move \in Moves /\ move \notin Tried /\ Tried' = Tried \union {move}
    BY <1>2, <2>1, <2>4, GroupsApart DEF Moves, Noncaptures
  <2> QED
    BY <1>1, <2>1, <2>3, <2>5, OfferKeepsInv
<1>4. CASE Enter("losingCaptures", list) /\ UNCHANGED killer
  <2>1. /\ mgStage' = "losingCaptures" /\ list' = list
        /\ UNCHANGED <<given, status, killer>>
    BY <1>4 DEF Enter
  <2>2. Queues'
    BY <1>1, <2>1 DEF NodeInv, Queues, Stages
  <2>3. Tried' = {tableMove, NoMove} \union Promotions \union (Captures \ list)
    BY <1>1, <2>1 DEF Tried
  <2>4. position.legal \cap Tried' = position.legal \cap Tried
    BY <1>1, <1>2, <2>3, PositionMoves
  <2> QED
    BY <1>1, <2>1, <2>2, <2>4, GeneratedKeepsInv
<1> QED
  BY <1>3, <1>4 DEF LeaveCaptures

\* The first quiet move is marked before it is handed out.
LEMMA GenerateNoncapturesKeepsInv ==
  ASSUME NodeInv, GenerateNoncaptures
  PROVE  NodeInv'
<1>1. /\ status = "choosing" /\ mgStage = "losingCaptures" /\ list = {}
      /\ mgStage' = "noncaptures" /\ list' = Noncaptures /\ firstNoncap' = TRUE
      /\ UNCHANGED <<position, killer, given, status>>
  BY DEF GenerateNoncaptures, InStage, Enter
<1>2. Queues'
  BY <1>1 DEF NodeInv, Queues, Stages, Full
<1>3. Handed' = Handed /\ tableMove' = tableMove
  BY <1>1 DEF Handed, tableMove
<1>4. Tried = {tableMove, killer} \union Promotions \union Captures
  BY <1>1 DEF Tried
<1>5. Tried' = {tableMove, killer} \union Promotions \union Captures
  BY <1>1, <1>3 DEF Tried
<1>6. Recorded'
  BY <1>1, <1>3, <1>4, <1>5 DEF NodeInv, Recorded
<1>7. FirstMarked'
  BY <1>1 DEF FirstMarked
<1> QED
  BY <1>2, <1>6, <1>7 DEF NodeInv

\* A quiet move that is handed out later than the first finds it in the record.
LEMMA NextNoncaptureKeepsInv ==
  ASSUME NodeInv, NextNoncapture
  PROVE  NodeInv'
<1>1. /\ status = "choosing" /\ mgStage = "noncaptures" /\ list \subseteq Noncaptures
      /\ UNCHANGED <<position, killer, firstNoncap>> /\ tableMove' = tableMove
      /\ firstNoncap \in BOOLEAN
  BY DEF NextNoncapture, InStage, NodeInv, Queues, tableMove
<1>2. PICK move \in list \ {killer} : Offer(mgStage, list \ {move}, move)
  BY DEF NextNoncapture
<1>3. /\ mgStage' = mgStage /\ list' = list \ {move} /\ status' \in {"choosing", "child"}
  BY <1>1, <1>2 DEF Offer
<1>4. Queues'
  BY <1>1, <1>3 DEF NodeInv, Queues, Full
<1>5. Tried = {tableMove, killer} \union Promotions \union Captures \union (Noncaptures \ list)
  BY <1>1 DEF Tried
<1>6. Tried' = {tableMove, killer} \union Promotions \union Captures
                 \union (Noncaptures \ list')
  BY <1>1, <1>3 DEF Tried
<1>7. /\ move \in Moves /\ move \in Noncaptures
      /\ Tried' = Tried \union {move}
      /\ tableMove \in Tried
      /\ move \in Tried => move = tableMove
  BY <1>1, <1>2, <1>3, <1>5, <1>6, GroupsApart DEF Moves
<1>8. /\ Recorded'
      /\ status' = IF Made(move, mgStage) THEN "child" ELSE status
      /\ Handed' = IF Made(move, mgStage) THEN Handed \union {move} ELSE Handed
      /\ Made(move, mgStage) => Latest' = move /\ move \notin Handed
  BY <1>1, <1>2, <1>7, OfferedOnce DEF NodeInv
<1>9. FirstMarked'
  <2>1. CASE Made(move, mgStage)
    <3>1. move # tableMove
      BY <1>1, <2>1 DEF Made
    <3>2. InTurn' = InTurn \union {move} /\ move \notin InTurn
      BY <1>1, <1>2, <1>7, <1>8, <2>1, <3>1 DEF InTurn
    <3>3. ~firstNoncap => InTurn # {}
      BY <1>1 DEF NodeInv, FirstMarked
    <3> QED
      BY <1>1, <1>8, <2>1, <3>2, <3>3 DEF FirstMarked
  <2>2. CASE ~Made(move, mgStage)
    <3>1. InTurn' = InTurn /\ status' = "choosing"
      BY <1>1, <1>8, <2>2 DEF InTurn
    <3> QED
      BY <1>1, <1>3, <3>1 DEF NodeInv, FirstMarked
  <2> QED
    BY <2>1, <2>2
<1> QED
  BY <1>4, <1>8, <1>9 DEF NodeInv

LEMMA FinishKeepsInv ==
  ASSUME NodeInv, Finish
  PROVE  NodeInv'
<1>1. /\ UNCHANGED <<position, list, killer, firstNoncap, given>>
      /\ status = "choosing" /\ status' = "finished" /\ position \in Positions
      /\ mgStage' = IF list = {} THEN "end" ELSE mgStage
      /\ Handed' = Handed /\ tableMove' = tableMove /\ Full' = Full
  BY DEF Finish, InStage, NodeInv, Queues, Handed, tableMove, Full
<1>2. CASE mgStage = "noncaptures" /\ list \subseteq {killer}
  <2>1. Full /\ killer \in Quiets \union {NoMove}
    BY <1>2 DEF NodeInv, Queues
  <2>2. Queues'
    BY <1>1, <1>2 DEF NodeInv, Queues, Stages, Full
  <2>3. Tried = {tableMove, killer} \union Promotions \union Captures
                  \union (Noncaptures \ list)
    BY <1>2 DEF Tried
  <2>4. Tried' = IF list = {} THEN Moves ELSE Tried
    BY <1>1, <1>2, <2>1, <2>3 DEF Tried
  <2>5. position.legal \cap Tried' = position.legal \cap Tried
    BY <1>1, <2>3, <2>4, PositionMoves DEF Moves
  <2>6. Recorded'
    BY <1>1, <2>5 DEF NodeInv, Recorded
  <2>7. InTurn' = InTurn
    BY <1>1 DEF InTurn
  <2>8. FirstMarked'
    BY <1>1, <1>2, <2>7 DEF NodeInv, FirstMarked
  <2> QED
    BY <2>2, <2>6, <2>8 DEF NodeInv
<1>3. CASE mgStage = "captures" /\ ~Full /\ list = {}
  <2>1. mgStage' = "end"
    BY <1>1, <1>3
  <2>2. Queues'
    BY <1>1, <1>3, <2>1 DEF NodeInv, Queues, Stages, Full
  <2>3. Tried = {tableMove} \union Promotions \union Captures /\ tableMove = NoMove
    BY <1>1, <1>3, PositionMoves DEF Tried
  <2>4. Tried' = Promotions \union Captures
    BY <1>1, <1>3, <2>1 DEF Tried
  <2>5. position.legal \cap Tried' = position.legal \cap Tried
    BY <1>1, <2>3, <2>4, PositionMoves
  <2>6. Recorded'
    BY <1>1, <2>5 DEF NodeInv, Recorded
  <2>7. FirstMarked'
    BY <2>1 DEF FirstMarked
  <2> QED
    BY <2>2, <2>6, <2>7 DEF NodeInv
<1> QED
  BY <1>2, <1>3 DEF Finish, InStage

LEMMA NodeInvHolds == Spec => []NodeInv
<1>1. NodeInv /\ [Next]_vars => NodeInv'
  <2> SUFFICES ASSUME NodeInv, [Next]_vars PROVE NodeInv'
    OBVIOUS
  <2>1. CASE UNCHANGED vars
    <3>1. UNCHANGED <<position, mgStage, list, killer, firstNoncap, given, status>>
      BY <2>1 DEF vars, picker
    <3>2. Handed' = Handed /\ Tried' = Tried /\ InTurn' = InTurn /\ Latest' = Latest
      BY <3>1 DEF Handed, Tried, InTurn, Latest, tableMove, Full
    <3> QED
      BY <3>1, <3>2 DEF NodeInv, Queues, Recorded, FirstMarked, Full
  <2>2. CASE Next
    BY <2>1, <2>2, TurnsKeepInv, TableMoveKeepsInv, GenerationsKeepInv, QueuedKeepsInv,
       LeaveCapturesKeepsInv, GenerateNoncapturesKeepsInv, NextNoncaptureKeepsInv,
       FinishKeepsInv DEF Next, Terminated
  <2> QED
    BY <2>1, <2>2
<1> QED
  BY <1>1, NodeInvInit, PTL DEF Spec

\* The picker's members keep their types, and it hands out no more moves than
\* there are.
THEOREM PickerTypesKept == Spec => []TypeOK
<1>1. NodeInv => TypeOK
  <2> SUFFICES ASSUME NodeInv PROVE TypeOK
    OBVIOUS
  <2>1. Handed \subseteq Moves
    BY PositionMoves DEF NodeInv, Queues, Recorded
  <2>2. Len(given) <= Cardinality(Moves)
    BY <2>1, PositionAssumption, FS_Subset DEF NodeInv, Recorded
  <2>3. list \subseteq Moves
    BY DEF NodeInv, Queues, Stages, Moves
  <2> QED
    BY <2>1, <2>2, <2>3 DEF NodeInv, Queues, TypeOK
<1> QED
  BY <1>1, NodeInvHolds, PTL

\* Of every position, and in whatever order the groups are sorted, each legal
\* move is handed out exactly once.
THEOREM EveryMoveOnce == Spec => []EachMoveOnce
<1>1. NodeInv => EachMoveOnce
  <2> SUFFICES ASSUME NodeInv PROVE EachMoveOnce
    OBVIOUS
  <2>1. Cardinality(Handed) = Len(given) /\ Handed \subseteq position.legal
    BY DEF NodeInv, Recorded
  <2>2. ASSUME status = "finished"
        PROVE  Handed = IF Full THEN position.legal
                        ELSE position.legal \cap (Promotions \union Captures)
    <3>1. position.legal \subseteq Moves /\ NoMove \notin position.legal
      BY PositionMoves DEF NodeInv, Queues
    <3>2. CASE mgStage = "end"
      <4>1. Tried = IF Full THEN Moves ELSE Promotions \union Captures
        BY <3>2 DEF Tried
      <4> QED
        BY <3>1, <4>1 DEF NodeInv, Recorded
    <3>3. CASE mgStage = "noncaptures" /\ list \subseteq {killer}
      <4>1. Moves \subseteq Tried
        BY <3>3 DEF Tried, Moves
      <4>2. Full
        BY <3>3 DEF NodeInv, Queues
      <4> QED
        BY <3>1, <4>1, <4>2 DEF NodeInv, Recorded
    <3> QED
      BY <2>2, <3>2, <3>3 DEF NodeInv, Queues
  <2> QED
    BY <2>1, <2>2 DEF EachMoveOnce
<1> QED
  BY <1>1, NodeInvHolds, PTL

\* "Preserve early quiet moves and all tactical stages at full depth".
THEOREM ReducedMovesAreLate == Spec => []OnlyLateQuietsReduced
<1>1. NodeInv => OnlyLateQuietsReduced
  BY DEF NodeInv, FirstMarked, OnlyLateQuietsReduced, okToReduce, InTurn, Latest
<1> QED
  BY <1>1, NodeInvHolds, PTL

-----------------------------------------------------------------------------
(***************************************************************************)
(* The history's scores.                                                   *)
(***************************************************************************)
CONSTANTS ScoredMoves, MaxDepth, MaxInt, updateIncrements, Depths, Plies, MaxCutoffs

VARIABLES scores, firstKillers, secondKillers, cutoffs

Scores == INSTANCE History WITH Moves <- ScoredMoves

HistoryConstants == Scores!HistoryAssumption /\ Scores!IncrementsAssumption

\* Halving is monotone, and makes room for one increment.
LEMMA Half ==
  ASSUME HistoryConstants,
         NEW x \in 0 .. MaxInt, NEW y \in 0 .. MaxInt, NEW i \in 0 .. Scores!maximumIncrement
  PROVE  /\ x \div 2 \in 0 .. MaxInt
         /\ x \div 2 + i \in 0 .. MaxInt
         /\ x <= y => x \div 2 <= y \div 2
BY DEF HistoryConstants, Scores!HistoryAssumption, Scores!maximumIncrement

\* The increment of every call that is not refused.
LEMMA IncrementBounded ==
  ASSUME HistoryConstants, NEW depth \in Depths, depth >= 1
  PROVE  updateIncrements[Scores!DepthIndex(depth)] \in 0 .. Scores!maximumIncrement
<1> USE DEF HistoryConstants
<1>1. depth \in Int
  BY DEF Scores!HistoryAssumption
<1>2. Scores!DepthIndex(depth) \in 1 .. MaxDepth - 1
  BY <1>1 DEF Scores!HistoryAssumption, Scores!DepthIndex
<1> QED
  BY <1>2 DEF Scores!IncrementsAssumption

\* What one reward does to the scores.
LEMMA RewardedScores ==
  ASSUME HistoryConstants, Scores!TypeOK,
         NEW move \in ScoredMoves, NEW i \in 0 .. Scores!maximumIncrement
  PROVE  /\ Scores!Rewarded(move, i) \in [ScoredMoves -> 0 .. MaxInt]
         /\ \A m, n \in ScoredMoves :
              scores[n] <= scores[m] /\ n # move
                => Scores!Rewarded(move, i)[n] <= Scores!Rewarded(move, i)[m]
<1> DEFINE new == Scores!Rewarded(move, i)
           halved == [m \in ScoredMoves |-> scores[m] \div 2]
<1>1. scores \in [ScoredMoves -> 0 .. MaxInt] /\ MaxInt \in Nat /\ i \in Nat
  BY DEF HistoryConstants, Scores!HistoryAssumption, Scores!TypeOK,
         Scores!maximumIncrement
<1>2. CASE Scores!Overflows(move, i)
  <2>1. new = [halved EXCEPT ![move] = @ + i]
    BY <1>2 DEF Scores!Rewarded, Scores!Halved
  <2>2. \A m \in ScoredMoves :
          new[m] = IF m = move THEN (scores[m] \div 2) + i ELSE scores[m] \div 2
    BY <2>1
  <2>3. new = [m \in ScoredMoves |->
                 IF m = move THEN (scores[m] \div 2) + i ELSE scores[m] \div 2]
    BY <2>1
  <2>4. \A m \in ScoredMoves : new[m] \in 0 .. MaxInt
    BY <1>1, <2>2, Half
  <2>5. \A m, n \in ScoredMoves :
          scores[n] <= scores[m] => scores[n] \div 2 <= scores[m] \div 2
    BY <1>1, Half
  <2>6. \A m \in ScoredMoves : scores[m] \div 2 \in Nat
    BY <1>1, Half
  <2>7. \A m, n \in ScoredMoves : scores[n] <= scores[m] /\ n # move => new[n] <= new[m]
    BY <1>1, <2>2, <2>5, <2>6
  <2> QED
    BY <2>3, <2>4, <2>7
<1>3. CASE ~Scores!Overflows(move, i)
  <2>1. new = [scores EXCEPT ![move] = @ + i]
    BY <1>3 DEF Scores!Rewarded, Scores!Halved
  <2>2. scores[move] + i \in 0 .. MaxInt
    BY <1>1, <1>3 DEF Scores!Overflows
  <2> QED
    BY <1>1, <2>1, <2>2
<1> QED
  BY <1>2, <1>3

LEMMA ScoresTypeInit ==
  ASSUME HistoryConstants
  PROVE  Scores!Init => Scores!TypeOK
BY DEF HistoryConstants, Scores!HistoryAssumption, Scores!Init, Scores!TypeOK

LEMMA ScoresTypeNext ==
  ASSUME HistoryConstants
  PROVE  Scores!TypeOK /\ [Scores!Next]_(Scores!vars) => Scores!TypeOK'
<1> SUFFICES ASSUME Scores!TypeOK, [Scores!Next]_(Scores!vars) PROVE Scores!TypeOK'
  OBVIOUS
<1>1. ASSUME NEW move \in ScoredMoves, NEW depth \in Depths, NEW ply \in Plies,
             Scores!Update(move, depth, ply)
      PROVE  Scores!TypeOK'
  <2>1. scores' \in [ScoredMoves -> 0 .. MaxInt]
    BY <1>1, IncrementBounded, RewardedScores DEF Scores!Update
  <2>2. /\ firstKillers' \in [Scores!PlyIndices -> ScoredMoves \union {NoMove}]
        /\ secondKillers' \in [Scores!PlyIndices -> ScoredMoves \union {NoMove}]
    BY <1>1 DEF Scores!Update, Scores!KeepKiller, Scores!TypeOK
  <2>3. cutoffs' \in Seq([move : ScoredMoves, ply : Scores!PlyIndices])
    BY <1>1 DEF Scores!Update, Scores!TypeOK
  <2> QED
    BY <2>1, <2>2, <2>3 DEF Scores!TypeOK
<1>2. CASE Scores!Reset
  BY <1>2 DEF HistoryConstants, Scores!HistoryAssumption, Scores!Reset, Scores!TypeOK
<1>3. CASE UNCHANGED Scores!vars
  BY <1>3 DEF Scores!vars, Scores!TypeOK
<1> QED
  BY <1>1, <1>2, <1>3 DEF Scores!Next

\* No score leaves the range of int, whatever cutoffs come (history.cpp:63).
THEOREM ScoresFit ==
  ASSUME HistoryConstants
  PROVE  Scores!Spec => []Scores!TypeOK
BY ScoresTypeInit, ScoresTypeNext, PTL DEF Scores!Spec

LEMMA ScoresOrderNext ==
  ASSUME HistoryConstants
  PROVE  Scores!TypeOK /\ [Scores!Next]_(Scores!vars) => [Scores!KeepsOrder]_(Scores!vars)
<1> SUFFICES ASSUME Scores!TypeOK, Scores!Next PROVE Scores!KeepsOrder
  OBVIOUS
<1>1. ASSUME NEW move \in ScoredMoves, NEW depth \in Depths, NEW ply \in Plies,
             Scores!Update(move, depth, ply)
      PROVE  Scores!KeepsOrder
  <2>1. Scores!JustRewarded(move)
    BY <1>1, SMTT(30) DEF Scores!Update, Scores!JustRewarded, Scores!TypeOK
  <2> QED
    BY <1>1, <2>1, IncrementBounded, RewardedScores DEF Scores!Update, Scores!KeepsOrder
<1>2. CASE Scores!Reset
  BY <1>2 DEF Scores!Reset, Scores!KeepsOrder
<1> QED
  BY <1>1, <1>2 DEF Scores!Next

\* Halving all scores keeps their order (history.cpp:41): only the rewarded
\* move overtakes others.
THEOREM OrderAlwaysKept ==
  ASSUME HistoryConstants
  PROVE  Scores!Spec => Scores!OrderKept
BY ScoresTypeInit, ScoresTypeNext, ScoresOrderNext, PTL DEF Scores!Spec, Scores!OrderKept
=============================================================================
