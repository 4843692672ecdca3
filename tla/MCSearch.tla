------------------------------ MODULE MCSearch ------------------------------
(***************************************************************************)
(* Instances of Search for TLC.  The depths, reductions and caps are small *)
(* versions of params.hpp that keep their order.                           *)
(***************************************************************************)
EXTENDS Search
=============================================================================
