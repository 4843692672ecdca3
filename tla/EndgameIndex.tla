--------------------------- MODULE EndgameIndex ---------------------------
(***************************************************************************)
(* The index of positions with two kings and one more man                  *)
(* (src/src/egtb.cpp), squares numbered 0 .. 63 from a1.                   *)
(*                                                                         *)
(* A placement is seen from the side with the third man, called white.     *)
(* Writing it as a FEN and reading that back leaves the squares as they    *)
(* are, and refuses what loadFen refuses: `Sound' stands for its verdict   *)
(* and that of the test for a king that could be taken.                    *)
(***************************************************************************)
EXTENDS Integers

CONSTANTS Sound(_, _, _)   \* third man, placement, side to move

Men == 1 .. 5        \* pawn .. queen
Colours == {0, 1}    \* black and white
Places == 0 .. 63
threeManPositionCount == 64 * 63 * 62
Indices == {i \in Nat : i < threeManPositionCount}

Placements ==
  {p \in [king : Places, other : Places, third : Places] :
     p.king # p.other /\ p.third # p.king /\ p.third # p.other}

Before(king, square) == IF king < square THEN 1 ELSE 0

\* The square that has `remaining' free squares before it.
NthFree(king, other, remaining) ==
  CHOOSE s \in Places \ {king, other} :
    s - Before(king, s) - Before(other, s) = remaining

\* An index is a number of three digits: 64 choices for one king, then 63 and
\* 62 remaining squares.
IndexOf(kingDigit, otherDigit, thirdDigit) ==
  (kingDigit * 63 + otherDigit) * 62 + thirdDigit
KingDigit(index) == (index \div 62) \div 63
OtherDigit(index) == (index \div 62) % 63
ThirdDigit(index) == index % 62

Placement(index) ==
  LET king == KingDigit(index)
      other == OtherDigit(index) + IF OtherDigit(index) >= king THEN 1 ELSE 0
  IN  [king |-> king, other |-> other,
       third |-> NthFree(king, other, ThirdDigit(index))]

\* loadEgtbIndex: the position it loads, if it loads any.  The stronger side
\* is always white.
Loadable(man, index, side) ==
  /\ man \in Men /\ side \in Colours
  /\ index \in Indices
  /\ Sound(man, Placement(index), side)

\* threeManEgtbIndex of a position in which `colour' has the third man.  Black
\* is reflected so that pawns keep their direction: squares are XORed with 56.
Reflected(square) == 8 * (7 - (square \div 8)) + (square % 8)

Seen(p, colour) ==
  IF colour = 1 THEN p
  ELSE [king |-> Reflected(p.king), other |-> Reflected(p.other),
        third |-> Reflected(p.third)]

IndexAsWhite(p) ==
  IndexOf(p.king, p.other - Before(p.king, p.other),
          p.third - Before(p.king, p.third) - Before(p.other, p.third))

Index(p, colour) == IndexAsWhite(Seen(p, colour))
-----------------------------------------------------------------------------
(***************************************************************************)
(* Properties.                                                             *)
(***************************************************************************)
\* What is loaded from an index has that index, in white's colours and, its
\* reflection, in black's.
IndexReadsBack ==
  \A man \in Men, side \in Colours, i \in Indices :
    Loadable(man, i, side) =>
      /\ Placement(i) \in Placements
      /\ Index(Placement(i), 1) = i
      /\ Index(Seen(Placement(i), 0), 0) = i

\* Every placement has an index of its own, which leads back to it.
PlacementReadsBack ==
  \A p \in Placements, colour \in Colours :
    /\ Index(p, colour) \in Indices
    /\ Placement(Index(p, colour)) = Seen(p, colour)
=============================================================================
