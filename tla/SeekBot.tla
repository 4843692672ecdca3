------------------------------ MODULE SeekBot ------------------------------
(***************************************************************************)
(* The seek bot (src/src/seek_bot.cpp): one owner starts and stops a task  *)
(* that prints a seek command at intervals until it is told to stop.       *)
(*                                                                         *)
(* The flags are atomic and read without a lock, so every load and store   *)
(* is a step of its own.  The output handler, the random device and the    *)
(* spawn may throw.  Methods are called by one task at a time and not from *)
(* the output handler.                                                     *)
(***************************************************************************)
CONSTANTS None   \* no method is under way

VARIABLES
  stopRequested, active,
  pending,   \* whether the future holds a task's result
  task,      \* where the task is; "none" without one
  method,    \* the method under way: "stop", "start", "destroy" or None
  owner      \* where that method is

flags == <<stopRequested, active>>
call == <<method, owner>>
vars == <<flags, pending, task, call>>

Ended == {"returned", "failed"}
Alive == {"begun", "loop", "output", "waiting", "returning", "throwing"}
-----------------------------------------------------------------------------
(***************************************************************************)
(* The owner.                                                              *)
(***************************************************************************)
\* stop(), alone or as the first thing start() and the destructor do.
RequestStop ==
  /\ owner = "idle"
  /\ method' \in {"stop", "start", "destroy"} /\ owner' = "joining"
  /\ stopRequested' = TRUE
  /\ UNCHANGED <<active, pending, task>>

Leave == method' = None /\ owner' = "idle"

AfterStop ==
  CASE method = "start" -> owner' = "clearing" /\ UNCHANGED method
    [] method = "destroy" -> owner' = "gone" /\ UNCHANGED method
    [] method = "stop" -> Leave

\* pending.get() waits for the task and throws what it threw; the destructor
\* ignores that, and a start ends with it.
Join ==
  /\ owner = "joining"
  /\ pending => task \in Ended
  /\ IF pending /\ task = "failed" /\ method # "destroy" THEN Leave ELSE AfterStop
  /\ pending' = FALSE
  /\ task' = IF pending THEN "none" ELSE task
  /\ UNCHANGED flags

ClearStop ==
  /\ owner = "clearing" /\ owner' = "activating"
  /\ stopRequested' = FALSE
  /\ UNCHANGED <<active, pending, task, method>>

Activate ==
  /\ owner = "activating" /\ owner' = "spawning"
  /\ active' = TRUE
  /\ UNCHANGED <<stopRequested, pending, task, method>>

\* The task may run before async() has returned its future.
Spawn ==
  /\ owner = "spawning"
  /\ \/ task' = "begun" /\ owner' = "storing"
     \/ owner' = "failing" /\ UNCHANGED task
  /\ UNCHANGED <<flags, pending, method>>

StoreFuture ==
  /\ owner = "storing" /\ Leave
  /\ pending' = TRUE
  /\ UNCHANGED <<flags, task>>

SpawnFailed ==
  /\ owner = "failing" /\ Leave
  /\ active' = FALSE
  /\ UNCHANGED <<stopRequested, pending, task>>
-----------------------------------------------------------------------------
(***************************************************************************)
(* The task.                                                               *)
(***************************************************************************)
TaskStep ==
  /\ \/ task = "begun" /\ task' \in {"loop", "throwing"}
     \/ task = "loop" /\ task' = IF stopRequested THEN "returning" ELSE "output"
     \/ task = "output" /\ task' \in {"waiting", "throwing"}
     \/ task = "waiting" /\ task' = "loop"   \* the stop or the interval's end
  /\ UNCHANGED <<flags, pending, call>>

ClearActive ==
  /\ \/ task = "returning" /\ task' = "returned"
     \/ task = "throwing" /\ task' = "failed"
  /\ active' = FALSE
  /\ UNCHANGED <<stopRequested, pending, call>>
-----------------------------------------------------------------------------
Init ==
  /\ stopRequested = FALSE /\ active = FALSE /\ pending = FALSE
  /\ task = "none" /\ method = None /\ owner = "idle"

Next ==
  \/ RequestStop \/ Join \/ ClearStop \/ Activate
  \/ Spawn \/ StoreFuture \/ SpawnFailed
  \/ TaskStep \/ ClearActive

Spec == Init /\ [][Next]_vars
-----------------------------------------------------------------------------
(***************************************************************************)
(* Properties.                                                             *)
(***************************************************************************)
\* A task that is late in clearing its flag never does so to a task started
\* after it: between calls running() is true exactly while a task runs.
RunningTellsTruth ==
  owner \in {"idle", "gone"} => (active <=> task \in Alive)

\* Once stop() has returned or thrown, and once the bot is destroyed, nothing
\* runs that could still call the output handler.
StoppedMeansQuiet ==
  \/ stopRequested /\ owner = "idle"
  \/ owner = "gone"
  => task = "none" /\ ~active

\* A task is joined before the next one is spawned.
OneTask == [][task' = "begun" /\ task # "begun" => task = "none"]_vars
=============================================================================
