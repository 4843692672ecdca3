--------------------------- MODULE ParallelSearch ---------------------------
(***************************************************************************)
(* The life of a ParallelSearch (src/src/parallel_search.cpp): the task    *)
(* that owns it and calls start, run, finish, stop, the setters and the    *)
(* destructor; the coordinator runImpl, which spawns and joins the timer   *)
(* and the workers; the timer; and the workers of BoundScheduler, which    *)
(* may also end in an exception from Search::test or the progress handler. *)
(*                                                                         *)
(* A blocking call of the owner is split where it waits: requestStop() at  *)
(* the mutex, finish() at the future.  The owner uses its ParallelSearch   *)
(* from one task, as the engine does ("the protocol task").  Books, boards *)
(* and node counts are left out; `root' says what runImpl finds when it    *)
(* looks at the root position and the book.                                *)
(***************************************************************************)
EXTENDS BoundScheduler

CONSTANTS
  TheOwner, TheCoordinator,  \* requesters, with TheTimer and the workers
  Fallback,      \* the first legal move of the root
  Preferences,   \* draw preferences: contempt factor and computer colour
  MaxSearches,   \* bound on the searches one behaviour starts
  Failures       \* may tasks fail to spawn, and probes and handlers throw?

ASSUME LifecycleAssumption ==
  /\ Workers = 0 .. Cardinality(Workers) - 1
  /\ Requesters = Workers \union {TheOwner, TheTimer, TheCoordinator}
  /\ Workers \intersect {TheOwner, TheTimer, TheCoordinator} = {}
  /\ TheOwner # TheTimer /\ TheTimer # TheCoordinator /\ TheCoordinator # TheOwner
  /\ Fallback \in Moves
  /\ MaxSearches \in Nat
  /\ Failures \in BOOLEAN

VARIABLES
  owner,         \* what the owning task is doing
  resume,        \* what it does once stop() has returned
  pending,       \* the future of start(): invalid, running or ready
  active,        \* running()
  coordinator,   \* where runImpl is
  root,          \* what runImpl finds at the root
  joined,        \* workers whose future was got
  failed,        \* workers whose future holds an exception
  error,         \* runImpl keeps an exception to rethrow
  timer, timerDone,
  outcome,       \* what runImpl returned or threw
  searchCount,
  preference, cachedFor  \* draw preference set, and that of cached bounds

life == <<owner, resume, pending, active, coordinator, root, joined, failed,
          error, timer, timerDone, outcome, searchCount, preference, cachedFor>>
scheduler == vars
allVars == <<vars, life>>

NoOutcome == [kind |-> "nothing", move |-> NoMove, score |-> 0, depth |-> 0]
Spawned == {w \in Workers : pc[w] # "unspawned"}
Running(w) == pc[w] \notin {"unspawned", "finished"}
-----------------------------------------------------------------------------
(***************************************************************************)
(* The owning task.                                                        *)
(***************************************************************************)
\* prepare(): a fresh scheduler state for one initial guess.
Prepare(guess) ==
  /\ lowerBounds' = Prepared(guess).lower /\ upperBounds' = Prepared(guess).upper
  /\ stages' = [d \in Depths |-> "waiting"]
  /\ bestMoves' = [d \in Depths |-> NoMove]
  /\ completedDepth' = 0 /\ searchDone' = FALSE
  /\ depths' = [w \in Workers |-> NoDepth]
  /\ stopped' = [w \in Workers |-> FALSE]
  /\ stopRequested' = FALSE /\ expired' = FALSE
  /\ requests' = [r \in Requesters |-> "none"]
  /\ pc' = [w \in Workers |-> "unspawned"]
  /\ answers' = [w \in Workers |-> NoMove]
  /\ notifications' = [w \in Workers |-> {}] /\ reported' = {}
  /\ UNCHANGED <<testValues, values>>

\* runImpl begins: in the owner's own task for run(), in a new one for start().
Begin(guess) ==
  /\ searchCount < MaxSearches
  /\ Prepare(guess)
  /\ active' = TRUE
  /\ coordinator' = "setup"
  /\ root' \in {"terminal", "book", "open"}
  /\ joined' = {} /\ failed' = {} /\ error' = FALSE
  /\ timer' = "none" /\ timerDone' = FALSE
  /\ outcome' = NoOutcome
  /\ searchCount' = searchCount + 1
  /\ UNCHANGED <<resume, preference, cachedFor>>

\* run() refuses to begin while a search is active or a result is pending.
Run(guess) ==
  /\ owner = "idle" /\ ~active /\ pending = "invalid"
  /\ Begin(guess)
  /\ owner' = "inRun"
  /\ UNCHANGED pending

RunReturns ==
  /\ owner = "inRun" /\ coordinator = "returned"
  /\ owner' = "idle" /\ coordinator' = "none"
  /\ UNCHANGED <<scheduler, resume, pending, active, root, joined, failed, error,
                 timer, timerDone, outcome, searchCount, preference, cachedFor>>

\* start() after its stop(): the coordinator is spawned, or cannot be.
Start ==
  /\ owner = "starting"
  /\ owner' = "idle"
  /\ \/ Begin(0) /\ pending' = "running"
     \/ /\ Failures
        /\ Prepare(0)
        /\ active' = FALSE
        /\ UNCHANGED <<resume, pending, coordinator, root, joined, failed, error,
                       timer, timerDone, outcome, searchCount, preference, cachedFor>>

\* Every call that begins with stop(): `after' is the rest of the call.
Calls == {"idle", "starting", "configuring", "destroyed"}

CallStop(after) ==
  /\ owner = "idle"
  /\ after = "starting" => searchCount < MaxSearches
  /\ \/ /\ pending = "invalid"
        /\ owner' = after
        /\ UNCHANGED <<scheduler, resume>>
     \/ /\ pending # "invalid"
        /\ owner' = "stopping" /\ resume' = after
        /\ RequestStop(TheOwner)
  /\ UNCHANGED <<pending, active, coordinator, root, joined, failed, error, timer,
                 timerDone, outcome, searchCount, preference, cachedFor>>

\* finish() without a stop.
CallFinish ==
  /\ owner = "idle" /\ pending # "invalid"
  /\ owner' = "joining" /\ resume' = "idle"
  /\ UNCHANGED <<scheduler, pending, active, coordinator, root, joined, failed,
                 error, timer, timerDone, outcome, searchCount, preference, cachedFor>>

StopReachesFuture ==
  /\ owner = "stopping" /\ requests[TheOwner] = "done"
  /\ owner' = "joining"
  /\ UNCHANGED <<scheduler, resume, pending, active, coordinator, root, joined,
                 failed, error, timer, timerDone, outcome, searchCount, preference,
                 cachedFor>>

\* pending.get(): the stored exception leaves the call, except the destructor.
GetResult ==
  /\ owner = "joining" /\ pending = "ready"
  /\ pending' = "invalid"
  /\ owner' = IF outcome.kind = "error" /\ resume # "destroyed" THEN "idle" ELSE resume
  /\ UNCHANGED <<scheduler, resume, active, coordinator, root, joined, failed,
                 error, timer, timerDone, outcome, searchCount, preference, cachedFor>>

\* Mutant: cached bounds survive a change of preference.
SetPreferenceKeepsTable(p) ==
  /\ owner = "configuring"
  /\ owner' = "idle"
  /\ preference' = p
  /\ UNCHANGED <<scheduler, resume, pending, active, coordinator, root, joined,
                 failed, error, timer, timerDone, outcome, searchCount, cachedFor>>

\* setContemptFactor, setComputerColor: "Cached bounds include the utility
\* assigned to a draw".  A probe in flight would go on to store what it found
\* under the preference it began with.
SetPreference(p) ==
  /\ owner = "configuring"
  /\ owner' = "idle"
  /\ preference' = p
  /\ cachedFor' = IF p = preference THEN cachedFor
                ELSE {preference : w \in {v \in Workers : pc[v] = "probing"}}
  /\ UNCHANGED <<scheduler, resume, pending, active, coordinator, root, joined,
                 failed, error, timer, timerDone, outcome, searchCount>>

ResetMemory ==
  /\ owner = "configuring"
  /\ owner' = "idle" /\ cachedFor' = {}
  /\ UNCHANGED <<scheduler, resume, pending, active, coordinator, root, joined,
                 failed, error, timer, timerDone, outcome, searchCount, preference>>

Owner ==
  \/ \E guess \in InitialGuesses : Run(guess)
  \/ RunReturns \/ Start \/ CallFinish \/ StopReachesFuture \/ GetResult
  \/ \E after \in Calls : CallStop(after)
  \/ \E p \in Preferences : SetPreference(p)
  \/ ResetMemory
-----------------------------------------------------------------------------
(***************************************************************************)
(* The coordinator: runImpl.                                               *)
(***************************************************************************)
Return(result) ==
  /\ outcome' = result
  /\ active' = FALSE
  /\ coordinator' = "returned"

\* A finished game or a book move ends the search before any task is spawned.
Setup ==
  /\ coordinator = "setup"
  /\ \/ root = "terminal" /\ Return(NoOutcome) /\ UNCHANGED timer
     \/ root = "book" /\ Return([NoOutcome EXCEPT !.kind = "book", !.move = Fallback])
        /\ UNCHANGED timer
     \/ /\ root = "open"
        /\ coordinator' = "spawning"
        /\ timer' = IF Timed THEN "running" ELSE "none"
        /\ UNCHANGED <<outcome, active>>
  /\ UNCHANGED <<scheduler, owner, resume, pending, root, joined, failed, error,
                 timerDone, searchCount, preference, cachedFor>>

\* Spawn the workers one by one; earlier ones already search.
SpawnWorker(w) ==
  /\ coordinator = "spawning"
  /\ pc[w] = "unspawned" /\ \A v \in Workers : v < w => pc[v] # "unspawned"
  /\ pc' = [pc EXCEPT ![w] = "starting"]
  /\ coordinator' = IF Spawned \union {w} = Workers THEN "joining" ELSE "spawning"
  /\ UNCHANGED <<bounds, progress, depths, testValues, stopped, stopRequested,
                 requests, expired, answers, notifications, reported, values,
                 owner, resume, pending, active, root, joined, failed, error, timer,
                 timerDone, outcome, searchCount, preference, cachedFor>>

SpawnFails ==
  /\ Failures
  /\ coordinator = "spawning" /\ Spawned # Workers
  /\ error' = TRUE
  /\ coordinator' = "unwinding"
  /\ UNCHANGED <<scheduler, owner, resume, pending, active, root, joined, failed,
                 timer, timerDone, outcome, searchCount, preference, cachedFor>>

\* Mutant: the exception of a worker is swallowed.
JoinWorkerSilently(w) ==
  /\ coordinator = "joining"
  /\ w \notin joined /\ \A v \in Workers : v < w => v \in joined
  /\ pc[w] = "finished"
  /\ joined' = joined \union {w}
  /\ UNCHANGED <<scheduler, owner, resume, pending, active, coordinator, root, failed,
                 error, timer, timerDone, outcome, searchCount, preference, cachedFor>>

\* Join the workers in order; the first exception is kept, each stops the rest.
JoinWorker(w) ==
  /\ coordinator = "joining"
  /\ w \notin joined /\ \A v \in Workers : v < w => v \in joined
  /\ pc[w] = "finished"
  /\ joined' = joined \union {w}
  /\ \/ /\ w \in failed
        /\ RequestStop(TheCoordinator)
        /\ error' = TRUE
        /\ coordinator' = "stopping"
     \/ w \notin failed /\ UNCHANGED <<scheduler, error, coordinator>>
  /\ UNCHANGED <<owner, resume, pending, active, root, failed, timer, timerDone,
                 outcome, searchCount, preference, cachedFor>>

\* requestStop() returned to the coordinator.
CoordinatorResumes ==
  /\ requests[TheCoordinator] = "done"
  /\ requests' = [requests EXCEPT ![TheCoordinator] = "none"]
  /\ coordinator' = IF coordinator = "stopping" THEN "joining" ELSE "waiting"
  /\ UNCHANGED <<bounds, progress, depths, testValues, stopped, stopRequested,
                 expired, pc, answers, notifications, reported, values,
                 owner, resume, pending, active, root, joined, failed, error, timer,
                 timerDone, outcome, searchCount, preference, cachedFor>>

StopTimer ==
  /\ coordinator = "joining" /\ joined = Workers
  /\ timerDone' = TRUE
  /\ coordinator' = "awaitingTimer"
  /\ UNCHANGED <<scheduler, owner, resume, pending, active, root, joined, failed,
                 error, timer, outcome, searchCount, preference, cachedFor>>

\* "Partial deeper bounds are not a completed score or best move."
Selected ==
  IF completedDepth > 0
  THEN [kind |-> "move", depth |-> completedDepth,
        move |-> IF bestMoves[completedDepth] = NoMove THEN Fallback
                 ELSE bestMoves[completedDepth],
        score |-> lowerBounds[completedDepth] + GrainSize \div 2]
  ELSE [kind |-> "move", depth |-> 0, move |-> Fallback, score |-> 0]

Conclude ==
  /\ coordinator = "awaitingTimer" /\ timer # "running"
  /\ \/ error /\ coordinator' = "unwinding" /\ UNCHANGED <<outcome, active>>
     \/ ~error /\ Return(Selected)
  /\ UNCHANGED <<scheduler, owner, resume, pending, root, joined, failed, error,
                 timer, timerDone, searchCount, preference, cachedFor>>

\* The outer handler of runImpl: stop and join everything that was launched.
Unwind ==
  /\ coordinator = "unwinding"
  /\ timerDone' = TRUE
  /\ RequestStop(TheCoordinator)
  /\ coordinator' = "unwindStopping"
  /\ UNCHANGED <<owner, resume, pending, active, root, joined, failed, error, timer,
                 outcome, searchCount, preference, cachedFor>>

\* Mutant: the exception leaves before the launched tasks are joined.
RethrowAtOnce ==
  /\ coordinator = "waiting"
  /\ Return([NoOutcome EXCEPT !.kind = "error"])
  /\ UNCHANGED <<scheduler, owner, resume, pending, root, joined, failed, error,
                 timer, timerDone, searchCount, preference, cachedFor>>

Rethrow ==
  /\ coordinator = "waiting"
  /\ \A w \in Workers : ~Running(w)
  /\ timer # "running"
  /\ Return([NoOutcome EXCEPT !.kind = "error"])
  /\ UNCHANGED <<scheduler, owner, resume, pending, root, joined, failed, error,
                 timer, timerDone, searchCount, preference, cachedFor>>

\* The future becomes ready after runImpl cleared `active'.
FutureReady ==
  /\ coordinator = "returned" /\ pending = "running"
  /\ pending' = "ready" /\ coordinator' = "none"
  /\ UNCHANGED <<scheduler, owner, resume, active, root, joined, failed, error,
                 timer, timerDone, outcome, searchCount, preference, cachedFor>>

Coordinator ==
  \/ Setup
  \/ \E w \in Workers : SpawnWorker(w) \/ JoinWorker(w)
  \/ SpawnFails \/ CoordinatorResumes \/ StopTimer \/ Conclude
  \/ Unwind \/ Rethrow \/ FutureReady
-----------------------------------------------------------------------------
(***************************************************************************)
(* The timer and the workers.                                              *)
(***************************************************************************)
\* Deadline reached: requestStop(), then the loop is left.  The timer may have
\* read timerDone before the coordinator set it.
TimerStops ==
  /\ timer = "running"
  /\ RequestStop(TheTimer)
  /\ UNCHANGED life

TimerEnds ==
  /\ timer = "running"
  /\ \/ timerDone /\ requests[TheTimer] = "none"
     \/ requests[TheTimer] = "done"
  /\ timer' = "done"
  /\ UNCHANGED <<scheduler, owner, resume, pending, active, coordinator, root,
                 joined, failed, error, timerDone, outcome, searchCount, preference,
                 cachedFor>>

Timer == TimerStops \/ TimerEnds

\* A probe fills the shared table with bounds for the current preference.
WorkerSearches(w) ==
  /\ Worker(w)
  /\ cachedFor' = IF pc[w] = "probing" THEN cachedFor \union {preference} ELSE cachedFor
  /\ UNCHANGED <<owner, resume, pending, active, coordinator, root, joined, failed,
                 error, timer, timerDone, outcome, searchCount, preference>>

\* Search::test or the handler throws; of a batch, only the shallower results
\* were handed over.
WorkerThrows(w) ==
  /\ Failures
  /\ \/ pc[w] = "probing" /\ UNCHANGED <<reported, notifications>>
     \/ /\ pc[w] = "notifying"
        /\ \E bad \in notifications[w] :
             reported' = reported \union {r \in notifications[w] : r.depth < bad.depth}
        /\ notifications' = [notifications EXCEPT ![w] = {}]
  /\ pc' = [pc EXCEPT ![w] = "failing"]
  /\ UNCHANGED <<bounds, progress, depths, testValues, stopped, stopRequested,
                 requests, expired, answers, values, life>>

\* The task's own handler: requestStop() before the exception is stored.
WorkerCancelsSiblings(w) ==
  /\ pc[w] = "failing"
  /\ RequestStop(w)
  /\ UNCHANGED life

WorkerEnds(w) ==
  /\ pc[w] = "failing" /\ requests[w] = "done"
  /\ pc' = [pc EXCEPT ![w] = "finished"]
  /\ failed' = failed \union {w}
  /\ UNCHANGED <<bounds, progress, depths, testValues, stopped, stopRequested,
                 requests, expired, answers, notifications, reported, values,
                 owner, resume, pending, active, coordinator, root, joined, error,
                 timer, timerDone, outcome, searchCount, preference, cachedFor>>

WorkerTask(w) ==
  WorkerSearches(w) \/ WorkerCancelsSiblings(w) \/ WorkerEnds(w)

StopUnderLock(r) == StopSearches(r) /\ UNCHANGED life

DeadlinePasses == active /\ ClockExpires /\ UNCHANGED life
-----------------------------------------------------------------------------
LifeInit ==
  /\ InitialState("unspawned")
  /\ owner = "idle" /\ resume = "idle"
  /\ pending = "invalid" /\ active = FALSE
  /\ coordinator = "none" /\ root = "terminal"
  /\ joined = {} /\ failed = {} /\ error = FALSE
  /\ timer = "none" /\ timerDone = FALSE
  /\ outcome = NoOutcome
  /\ searchCount = 0
  /\ preference \in Preferences /\ cachedFor = {}

\* The destructor has returned: nothing is left to do.
Destroyed == owner = "destroyed" /\ UNCHANGED allVars

LifeNext ==
  \/ Owner \/ Coordinator \/ Timer \/ DeadlinePasses \/ Destroyed
  \/ \E w \in Workers : WorkerTask(w) \/ WorkerThrows(w)
  \/ \E r \in Requesters : StopUnderLock(r)

LifeSpec == LifeInit /\ [][LifeNext]_allVars

\* Tasks are scheduled and locks granted; the owner finishes what it began.
LifeFairness ==
  /\ WF_allVars(Coordinator) /\ WF_allVars(Timer)
  /\ \A w \in Workers : WF_allVars(WorkerTask(w))
  /\ \A r \in Requesters : WF_allVars(StopUnderLock(r))
  /\ WF_allVars(owner # "idle" /\ Owner)

FairLifeSpec == LifeSpec /\ LifeFairness
-----------------------------------------------------------------------------
(***************************************************************************)
(* Properties.                                                             *)
(***************************************************************************)

\* No worker, timer or requestStop() of a search is under way.
Quiet ==
  /\ \A w \in Workers : ~Running(w)
  /\ timer # "running"
  /\ \A r \in Requesters \ {TheOwner} : requests[r] # "locking"

\* Once running() is false, a result is ready, or a call of the owner has
\* stopped the search and goes on to prepare the next one, change a setting or
\* destroy the object, no task, timer or request of an earlier search is left
\* that could touch the boards, the bounds or the stop flags.
InactiveMeansQuiet ==
  ~active \/ pending = "ready" \/ owner \in {"starting", "configuring", "destroyed"}
    => Quiet

\* The shared table never holds bounds computed under another draw preference
\* than the one the searches use.
CachedBoundsMatchPreference == cachedFor \subseteq {preference}

Status ==
  IF coordinator = "returned" \/ pending = "ready" THEN "ready"
  ELSE IF coordinator = "none" THEN "idle"
  ELSE "searching"

\* The move, score and depth a search returns are those of the deepest report
\* its handler received, whichever worker delivered it and in whatever order.
OutcomeAgreesWithReports ==
  Status = "ready" /\ outcome.kind = "move" =>
    /\ \A r \in reported : r.depth <= outcome.depth
    /\ outcome.depth > 0 =>
         [depth |-> outcome.depth, move |-> outcome.move, score |-> outcome.score]
           \in reported

-----------------------------------------------------------------------------
(***************************************************************************)
(* The lifecycle implements SearchService.                                 *)
(***************************************************************************)
FullResult ==
  /\ completedDepth > 0
  /\ \/ completedDepth = MaximumDepth
     \/ \E d \in 1 .. completedDepth :
          stages[d] = "complete" /\ Abs(lowerBounds[d]) >= MinCheckmateValue

ServiceResult ==
  IF Status # "ready" THEN "none"
  ELSE IF outcome.kind # "move" THEN outcome.kind
  ELSE IF FullResult THEN "full" ELSE "partial"

Service == INSTANCE SearchService WITH
  status <- Status,
  asked <- Status # "idle" /\ (stopRequested \/ expired),
  broken <- Status # "idle" /\ (error \/ failed # {}),
  result <- ServiceResult

\* What callers may rely on: one result per search, an exception if and only if
\* some task threw, a partial result only if a stop or the deadline asked for it.
ImplementsService == Service!Spec
=============================================================================
