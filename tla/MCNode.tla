------------------------------- MODULE MCNode -------------------------------
(***************************************************************************)
(* Instances of Node for TLC.                                              *)
(***************************************************************************)
EXTENDS Node

CONSTANTS p, c1, c2, q1, q2, u, e
=============================================================================
