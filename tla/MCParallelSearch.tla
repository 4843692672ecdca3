-------------------------- MODULE MCParallelSearch --------------------------
(***************************************************************************)
(* Instances of ParallelSearch for TLC.                                    *)
(***************************************************************************)
EXTENDS ParallelSearch

CONSTANTS m1

AnyAnswers == {Anything}
ZeroGuess == {0}
=============================================================================
