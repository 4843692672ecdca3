------------------------------ MODULE MCXboard ------------------------------
(***************************************************************************)
(* Instances of Xboard for TLC.                                            *)
(***************************************************************************)
EXTENDS Xboard

CONSTANTS m1, m2

\* m2 twice in a row ends the game, and in a draw if nothing went before.
ShortMates == {<<m1, m2, m2>>}
ShortDraws == {<<m2, m2>>}
=============================================================================
