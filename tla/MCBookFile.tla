----------------------------- MODULE MCBookFile -----------------------------
(***************************************************************************)
(* Instances of BookFile for TLC.                                          *)
(***************************************************************************)
EXTENDS BookFile, TLC

CONSTANTS e1, e2, g1, g2

GameSymmetry == Permutations(Games) \union Permutations(Engines)
=============================================================================
