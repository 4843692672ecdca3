------------------------------ MODULE Exchange ------------------------------
(***************************************************************************)
(* Static exchange evaluation (src/src/see.cpp): a move is made on the     *)
(* board, then the least valued legal recaptures on its square follow one  *)
(* another, each side stopping when that is better for it.                 *)
(***************************************************************************)
EXTENDS Legality
Fun == INSTANCE Functions

materialScore == [p \in 0 .. king |-> <<0, 100, 300, 300, 500, 900, 1000>>[p + 1]]
-----------------------------------------------------------------------------
Attackers(b, piece, square) ==
  LET us == b.flags.side
  IN b.boards[us][piece] \cap
       IF piece = pawn THEN PawnAttacks[Flip(us)][square] ELSE Attacks(b, piece, square)

Recapture(piece, from, square) ==
  [from |-> from, to |-> square,
   promo |-> IF piece = pawn /\ Row(square) \in {0, 7} THEN queen ELSE 0]

Recaptures(b, piece, square) ==
  {Recapture(piece, from, square) : from \in Attackers(b, piece, square)}
FromLowest(moves) == {m \in moves : \A other \in moves : m.from <= other.from}

\* Mutant: only the first attacker of a kind is tried, and it may be pinned.
SelectFirstAttacker(b, piece, square) ==
  {m \in FromLowest(Recaptures(b, piece, square)) : Makes(b, m)}

\* selectLegalAttacker(): the attacker on the lowest square that may move.
SelectLegalAttacker(b, piece, square) ==
  FromLowest({m \in Recaptures(b, piece, square) : Makes(b, m)})

OfLeastPiece(selected) ==
  UNION {selected[p] : p \in {p \in DOMAIN selected :
                                \A q \in DOMAIN selected : selected[q] # {} => p <= q}}

\* The recapture as a set: empty when the function returns false.
GenLvaAttackToSquare(b, square) ==
  OfLeastPiece([p \in pawn .. king |-> SelectLegalAttacker(b, p, square)])

Gain(b, move) ==
  LET taken == IF b.values[move.to] = empty /\ MoveIsCapture(b, move) THEN pawn
               ELSE Magnitude(b.values[move.to])
  IN materialScore[taken]
       + IF move.promo = 0 THEN 0 ELSE materialScore[move.promo] - materialScore[pawn]

BetterReply(score, replyScore) == IF replyScore < score THEN replyScore ELSE score

\* Every recapture takes a man off the board: no exchange is longer.
Longest == 64

\* makeMove() in see(): the board after it, and the score with what it gains.
Forced(b, move, score) == [after |-> Applied(b, move), score |-> score + Gain(b, move)]

\* The calls of see() inside one another, the n-th as a set that is empty when
\* there are fewer: each is for the other side and gets the score negated.
Calls(b, move, score) ==
  LET calls[n \in 0 .. Longest] ==
        IF n = 0 THEN {Forced(b, move, score)}
        ELSE UNION {{Forced(call.after, reply, -call.score) :
                       reply \in GenLvaAttackToSquare(call.after, move.to)} :
                    call \in calls[n - 1]}
  IN calls

\* What the calls return, from the innermost one out: a reply only when it is
\* better for the side that replies.
Answers(calls) ==
  LET returned[n \in 0 .. Longest] ==
        LET own == (CHOOSE call \in calls[n] : TRUE).score
        IN IF n = Longest \/ calls[n + 1] = {} THEN own
           ELSE BetterReply(own, -returned[n + 1])
  IN returned

See(b, move, score) ==
  IF Makes(b, move) THEN Answers(Calls(b, move, score))[0] ELSE score
-----------------------------------------------------------------------------
(***************************************************************************)
(* The reference: what the board is worth to the mover before and after,   *)
(* less what the best continuation of the exchange is worth to the other.  *)
(***************************************************************************)
Worth(value) == IF value < 0 THEN -materialScore[-value] ELSE materialScore[value]
Balance(b, color) ==
  Forward(color) * Fun!SumFunction([s \in Squares |-> Worth(b.values[s])])

\* Every recapture by a generated move, least valued piece first.
Legal(b, square) ==
  {m \in PseudolegalMoves(b) : m.to = square /\ m.promo \in {0, queen} /\ Makes(b, m)}
LeastValued(b, moves) ==
  LET Rank(m) == 64 * Magnitude(b.values[m.from]) + m.from
  IN {m \in moves : \A other \in moves : Rank(m) <= Rank(other)}

Recapturings(b, move) ==
  LET turns[n \in 0 .. Longest] ==
        IF n = 0 THEN {[before |-> b, after |-> Applied(b, move)]}
        ELSE UNION {{[before |-> turn.after, after |-> Applied(turn.after, m)] :
                       m \in LeastValued(turn.after, Legal(turn.after, move.to))} :
                    turn \in turns[n - 1]}
  IN turns

Won(turns) ==
  LET won[n \in 0 .. Longest] ==
        LET turn == CHOOSE turn \in turns[n] : TRUE
            mover == turn.before.flags.side
            change == Balance(turn.after, mover) - Balance(turn.before, mover)
            reply == IF n = Longest \/ turns[n + 1] = {} THEN 0 ELSE won[n + 1]
        IN IF reply > 0 THEN change - reply ELSE change
  IN won

SwapOff(b, move) == Won(Recapturings(b, move))[0]

\* The score carried down with its sign changed at every level, and the board
\* made and taken back move by move, amount to the textbook swap-off: pinned
\* attackers stay out of it, uncovered ones join in, en-passant captures and
\* promotions count what they change on the board.
SwapOffExact ==
  \A move \in {m \in Captures(board) \union Promotions(board) : Makes(board, m)} :
    LET worth == SwapOff(board, move)
    IN \A score \in {0, 150} : See(board, move, score) = score + worth
=============================================================================
