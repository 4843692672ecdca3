--------------------------- MODULE SearchService ----------------------------
(***************************************************************************)
(* What ParallelSearch promises the task that owns it: at most one search  *)
(* at a time, and for every search exactly one result, which the owner     *)
(* takes before it can begin another.                                      *)
(***************************************************************************)
VARIABLES
  status,  \* idle, searching, or ready with a result nobody took yet
  asked,   \* has a stop been asked for, or the deadline passed?
  broken,  \* has a task of the search failed?
  result

serviceVars == <<status, asked, broken, result>>

Init == status = "idle" /\ asked = FALSE /\ broken = FALSE /\ result = "none"

Begin ==
  /\ status = "idle"
  /\ status' = "searching"
  /\ UNCHANGED <<asked, broken, result>>

\* A stop may also come when the result is already there.
AskStop ==
  /\ status # "idle"
  /\ asked' = TRUE
  /\ UNCHANGED <<status, broken, result>>

Break ==
  /\ status = "searching"
  /\ broken' = TRUE
  /\ UNCHANGED <<status, asked, result>>

\* nothing: the game is over.  full: the last depth, or a mate.  partial: the
\* deepest completed depth, or just a legal move.
Promised ==
  IF broken THEN {"error"}
  ELSE {"nothing", "book", "full"} \union IF asked THEN {"partial"} ELSE {}

Conclude ==
  /\ status = "searching"
  /\ status' = "ready"
  /\ result' \in Promised
  /\ UNCHANGED <<asked, broken>>

Take ==
  /\ status = "ready"
  /\ status' = "idle" /\ asked' = FALSE /\ broken' = FALSE /\ result' = "none"

Next == Begin \/ AskStop \/ Break \/ Conclude \/ Take

\* Every search comes to a result.
Spec == Init /\ [][Next]_serviceVars /\ WF_serviceVars(Conclude)
=============================================================================
