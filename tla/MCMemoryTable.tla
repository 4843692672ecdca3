--------------------------- MODULE MCMemoryTable ---------------------------
(***************************************************************************)
(* Instances of MemoryTable for TLC.  In five entries of which each of two *)
(* workers has two, with three locks, keys 0 and 10 (2 of 32 bits' worth)  *)
(* share a private slot and have different shared slots and locks: no size *)
(* divides another.                                                        *)
(***************************************************************************)
EXTENDS MemoryTable, TLC

CONSTANTS r1, r2

MaintainerSymmetry == Permutations(Maintainers)
=============================================================================
