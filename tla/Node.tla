-------------------------------- MODULE Node --------------------------------
(***************************************************************************)
(* The staged move picker of src/src/node.cpp: one Node hands out the      *)
(* moves of one position, generating each group of them only when the one  *)
(* before is used up, and makes every move it hands out on the board.      *)
(*                                                                         *)
(* A call of doNextMove() or doNextNonquiescentMove() is a few steps: from *)
(* one case label to the next, or one pass through tryAgain.  The order    *)
(* within a group is left open (values and history scores decide it, and   *)
(* the latter change between calls); the sign of a capture's value counts. *)
(* The table's move belongs to this position or is empty: two positions    *)
(* with one key are taken to be the same.                                  *)
(***************************************************************************)
EXTENDS Naturals, Sequences, FiniteSets

CONSTANTS
  Promotions,        \* genPseudolegalPromotions: to a queen
  Captures,          \* genPseudolegalCaptures
  Quiets,            \* genPseudolegalNoncaptures, but
  Underpromotions,   \* these it generates too, captures among them
  Elsewhere,         \* moves that are not pseudolegal here
  NoMove,
  ReductionLimit,    \* kReductionLimit
  FullDepthMoves     \* kFullDepthMoves

Noncaptures == Quiets \union Underpromotions
Moves == Promotions \union Captures \union Noncaptures

Groups == <<Promotions, Captures, Quiets, Underpromotions, Elsewhere, {NoMove}>>

ASSUME PositionAssumption ==
  /\ \A i, j \in 1 .. Len(Groups) : i # j => Groups[i] \cap Groups[j] = {}
  /\ IsFiniteSet(Moves)
  /\ ReductionLimit \in Nat /\ FullDepthMoves \in Nat

VARIABLES
  position,      \* what the board, the history and the caller say of it
  mgStage,
  list,          \* the moves in the queue
  killer,
  firstNoncap,
  given,         \* the moves handed out so far
  status         \* "parent", "choosing" (in a call), "child" or "finished"

picker == <<mgStage, list, killer, firstNoncap>>
vars == <<position, picker, given, status>>

Full == position.picker = "full"
tableMove == position.tableMove
-----------------------------------------------------------------------------
\* makeMove(): a pseudolegal move that leaves the king in check is taken back.
Made(move, stage) ==
  /\ move \in position.legal
  /\ move = tableMove => stage = "table"

\* The code after the switch: hand the move out, or try again.
Offer(stage, rest, move) ==
  /\ mgStage' = stage /\ list' = rest
  /\ IF Made(move, stage)
     THEN given' = Append(given, move) /\ status' = "child"
     ELSE UNCHANGED <<given, status>>

\* Fall through to the next case label.
Enter(stage, generated) ==
  /\ mgStage' = stage /\ list' = generated
  /\ UNCHANGED <<given, status>>

InStage(stage) == status = "choosing" /\ mgStage = stage

\* A killer comes from a sibling's subtree: it must be a quiet move here.
Usable(move) == move \in Quiets /\ move # tableMove
-----------------------------------------------------------------------------
Call ==
  /\ status = "parent"
  /\ status' = "choosing"
  /\ firstNoncap' = (firstNoncap /\ mgStage # "noncaptures")
  /\ UNCHANGED <<position, mgStage, list, killer, given>>

TableMove ==
  /\ InStage("start") /\ tableMove # NoMove
  /\ Offer("table", list, tableMove)
  /\ UNCHANGED <<position, killer, firstNoncap>>

GeneratePromotions ==
  /\ InStage("table") \/ (InStage("start") /\ tableMove = NoMove)
  /\ Enter("promotions", Promotions)
  /\ UNCHANGED <<position, killer, firstNoncap>>

GenerateCaptures ==
  /\ InStage("promotions") /\ list = {}
  /\ Enter("captures", Captures)
  /\ UNCHANGED <<position, killer, firstNoncap>>

\* Promotions, losing captures and, in quiescence, all captures: whichever is
\* first in the queue.
NextQueued ==
  /\ \/ InStage("promotions") \/ InStage("losingCaptures")
     \/ InStage("captures") /\ ~Full
  /\ \E move \in list : Offer(mgStage, list \ {move}, move)
  /\ UNCHANGED <<position, killer, firstNoncap>>

NextCapture ==
  /\ InStage("captures") /\ Full
  /\ \E move \in list \ position.losing : Offer(mgStage, list \ {move}, move)
  /\ UNCHANGED <<position, killer, firstNoncap>>

\* No capture of value 0 or more is left: one killer, then the losing ones.
\* Mutant: the killer is not remembered.
OfferKillerForgotten(move) ==
  Usable(move) /\ Offer("losingCaptures", list, move) /\ UNCHANGED killer
OfferKiller(move) ==
  /\ Usable(move)
  /\ killer' = move
  /\ Offer("losingCaptures", list, move)

LeaveCaptures ==
  /\ InStage("captures") /\ Full /\ list \subseteq position.losing
  /\ \/ OfferKiller(position.killer1)
     \/ ~Usable(position.killer1) /\ OfferKiller(position.killer2)
     \/ /\ ~Usable(position.killer1) /\ ~Usable(position.killer2)
        /\ Enter("losingCaptures", list)
        /\ UNCHANGED killer
  /\ UNCHANGED <<position, firstNoncap>>

\* Mutant: every quiet move counts as a later one.
GenerateNoncapturesUnmarked ==
  /\ InStage("losingCaptures") /\ list = {}
  /\ Enter("noncaptures", Noncaptures)
  /\ UNCHANGED <<position, killer, firstNoncap>>

GenerateNoncaptures ==
  /\ InStage("losingCaptures") /\ list = {}
  /\ Enter("noncaptures", Noncaptures)
  /\ firstNoncap' = TRUE
  /\ UNCHANGED <<position, killer>>

NextNoncapture ==
  /\ InStage("noncaptures")
  /\ \E move \in list \ {killer} : Offer(mgStage, list \ {move}, move)
  /\ UNCHANGED <<position, killer, firstNoncap>>

Finish ==
  /\ \/ InStage("noncaptures") /\ list \subseteq {killer}
     \/ InStage("captures") /\ ~Full /\ list = {}
  /\ mgStage' = IF list = {} THEN "end" ELSE mgStage
  /\ status' = "finished"
  /\ UNCHANGED <<position, list, killer, firstNoncap, given>>

restore ==
  /\ status = "child"
  /\ status' = "parent"
  /\ UNCHANGED <<position, picker, given>>

\* The answer of okToReduce() while the child is on the board.
okToReduce(depth) ==
  /\ mgStage = "noncaptures" /\ ~firstNoncap
  /\ depth >= ReductionLimit
  /\ Len(given) > FullDepthMoves
-----------------------------------------------------------------------------
\* A pawn that may promote may promote to any piece.
Positions ==
  {p \in [picker : {"full", "tactical"}, legal : SUBSET Moves,
          losing : SUBSET Captures, tableMove : Moves \union {NoMove},
          killer1 : Moves \union Elsewhere \union {NoMove},
          killer2 : Moves \union Elsewhere \union {NoMove}] :
     /\ p.legal \cap Promotions = {} <=> p.legal \cap Underpromotions = {}
     /\ p.killer1 = p.killer2 => p.killer1 = NoMove
     /\ p.picker = "tactical" => {p.tableMove, p.killer1, p.killer2} = {NoMove}}

Init ==
  /\ position \in Positions
  /\ mgStage = "start" /\ list = {} /\ killer = NoMove /\ firstNoncap = FALSE
  /\ given = <<>> /\ status = "parent"

Terminated == status = "finished" /\ UNCHANGED vars

Next ==
  \/ Call \/ restore
  \/ TableMove \/ GeneratePromotions \/ GenerateCaptures \/ NextQueued
  \/ NextCapture \/ LeaveCaptures \/ GenerateNoncaptures \/ NextNoncapture
  \/ Finish \/ Terminated

Spec == Init /\ [][Next]_vars
-----------------------------------------------------------------------------
(***************************************************************************)
(* Properties.                                                             *)
(***************************************************************************)
Stages == {"start", "table", "promotions", "captures", "losingCaptures",
           "noncaptures", "end"}
Handed == {given[i] : i \in 1 .. Len(given)}

\* The types of the picker's members.
TypeOK ==
  /\ position \in Positions
  /\ mgStage \in Stages /\ list \subseteq Moves
  /\ killer \in Quiets \union {NoMove} /\ firstNoncap \in BOOLEAN
  /\ Len(given) <= Cardinality(Moves) /\ Handed \subseteq Moves
  /\ status \in {"parent", "choosing", "child", "finished"}

\* The full picker hands out each legal move exactly once, although the
\* table's move and the killer appear again in their groups; the tactical one
\* each queen promotion and capture.
EachMoveOnce ==
  /\ Cardinality(Handed) = Len(given) /\ Handed \subseteq position.legal
  /\ status = "finished" =>
       Handed = IF Full THEN position.legal
                ELSE position.legal \cap (Promotions \union Captures)

\* "Preserve early quiet moves and all tactical stages at full depth": a move
\* may be reduced only if it comes late, is neither the table's nor the killer the
\* node was offered, and another move of its group was searched before it.
OnlyLateQuietsReduced ==
  status = "child" /\ okToReduce(ReductionLimit) =>
    LET last == given[Len(given)]
        group == (Handed \cap Noncaptures) \ {tableMove, killer}
    IN last \in group /\ group # {last}
=============================================================================
