---------------------------- MODULE MemoryTable ----------------------------
(***************************************************************************)
(* The transposition table of src/src/memory.cpp: four stores of bounds,   *)
(* one private partition per worker and one shared part, behind striped    *)
(* locks.                                                                  *)
(*                                                                         *)
(* A critical section is taken apart.  Copying a MemoryEntry is two steps  *)
(* (its tag, by which readers recognise it, and its score), testing a slot *)
(* and taking its score are two steps, clearing the table is one step per  *)
(* store.  Two tasks in one slot can therefore see half an entry, as they  *)
(* could in a data race.                                                   *)
(*                                                                         *)
(* The score of an entry is abstracted to the test that proved it.  Left   *)
(* out: moves and the touched flag, which nothing in the program reads     *)
(* (killUntouchedEntries has no caller).  Calls that return before the     *)
(* lock is taken (a repeated position, a mate score) change nothing.       *)
(***************************************************************************)
EXTENDS Integers, FiniteSets

CONSTANTS
  entryCount, lockCount, threadCount,
  Word,          \* 2^32: what the keys are reduced by
  Keys,          \* position keys in use
  Colors,        \* sides to move in use
  Clocks,        \* fifty-move clocks in use
  SearchDepths,  \* depths the searches ask for
  Maintainers,   \* tasks that reset the table
  Nobody,
  MaxWrites      \* bound on the number of writes

Threads == 0 .. threadCount - 1
Tasks == Threads \union Maintainers
Locks == 0 .. lockCount - 1
Bounds == {"upper", "lower"}
localEntryCount == entryCount \div threadCount

ASSUME DimensionsAssumption ==
  /\ entryCount \in Nat /\ lockCount \in Nat /\ threadCount \in Nat
  /\ threadCount >= 1 /\ lockCount >= 1
  /\ threadCount <= entryCount /\ lockCount <= entryCount
  /\ Word \in Nat \ {0} /\ Keys \subseteq Nat
  /\ Clocks \subseteq Nat /\ SearchDepths \subseteq Nat
  /\ MaxWrites \in Nat
  /\ Maintainers \cap Int = {} /\ Nobody \notin Tasks

VARIABLES
  holders,  \* per lock: the task that holds it
  pc,       \* per task: its place in the operation
  taken,    \* per maintainer: how many locks lockAll() has taken
  calls,    \* per thread: the arguments of its read() or write()
  answers,  \* per thread: the bounds its read() has found, as proofs
  taking,   \* per thread: the slot whose score it is about to take
  store,    \* the four stores, per colour
  proved,   \* what the searches have proved since the last reset
  writes    \* how many writes were begun

vars == <<holders, pc, taken, calls, answers, taking, store, proved, writes>>
-----------------------------------------------------------------------------
(***************************************************************************)
(* Slots and locks.                                                        *)
(***************************************************************************)
Slots == Bounds \X {"local", "global"} \X Colors \X (0 .. entryCount - 1)

\* What one threshold test shows: a bound of a position at a depth.
Proofs == [bound : Bounds, key : Keys, color : Colors, clock : Clocks,
           depth : SearchDepths, verified : BOOLEAN]

NoProof == [bound |-> "none"]
EmptyEntry == [key |-> 0, clock |-> 0, depth |-> -1, verified |-> FALSE,
               proof |-> NoProof]

GlobalIndex(key) == (key % Word) % entryCount

\* Mutant: the private stores are not divided among the workers.
LocalIndexTogether(t, key) == (key % Word) % localEntryCount

LocalIndex(t, key) == t * localEntryCount + ((key % Word) % localEntryCount)

LockOf(key) == GlobalIndex(key) % lockCount

Slot(t, scope, bound) ==
  <<bound, scope, calls[t].color,
    IF scope = "local" THEN LocalIndex(t, calls[t].key) ELSE GlobalIndex(calls[t].key)>>

Matches(t, entry) ==
  entry.key = calls[t].key /\ entry.depth >= 0 /\ entry.clock = calls[t].clock
-----------------------------------------------------------------------------
(***************************************************************************)
(* The tasks of the searches.  The lock is held from Acquire to Release.   *)
(***************************************************************************)
\* What leads up to the lock touches nothing that is shared: a call starts where
\* it takes its lock.
Acquire(t) ==
  /\ pc[t] = "idle"
  /\ \E p \in Proofs :
       /\ holders[LockOf(p.key)] = Nobody
       /\ holders' = [holders EXCEPT ![LockOf(p.key)] = t]
       /\ calls' = [calls EXCEPT ![t] = p]
       /\ \/ /\ writes < MaxWrites
             /\ writes' = writes + 1
             /\ proved' = proved \union {p}
             /\ pc' = [pc EXCEPT ![t] = "localTag"]
          \/ /\ p.bound = "upper"   \* a read() asks for both
             /\ pc' = [pc EXCEPT ![t] = "findUpper"]
             /\ UNCHANGED <<proved, writes>>
  /\ UNCHANGED <<taken, answers, taking, store>>

\* The tag and the score of the entry that write() copies into a slot.
CopyTag(slot, p) ==
  store' = [store EXCEPT ![slot] = [key |-> p.key, clock |-> p.clock, depth |-> p.depth,
                                    verified |-> p.verified, proof |-> @.proof]]
CopyScore(slot, p) == store' = [store EXCEPT ![slot].proof = p]

WriteLocal(t) ==
  LET slot == Slot(t, "local", calls[t].bound) IN
  /\ \/ /\ pc[t] = "localTag"
        /\ CopyTag(slot, calls[t])
        /\ pc' = [pc EXCEPT ![t] = "localScore"]
     \/ /\ pc[t] = "localScore"
        /\ CopyScore(slot, calls[t])
        /\ pc' = [pc EXCEPT ![t] = "replace"]
  /\ UNCHANGED <<taken, holders, calls, answers, taking, proved, writes>>

\* Mutant: the shared slot takes whatever is verified.
ReplacesAlways(t, old) == calls[t].verified
Replaces(t, old) == calls[t].verified /\ calls[t].depth >= old.depth

WriteGlobal(t) ==
  LET slot == Slot(t, "global", calls[t].bound) IN
  /\ \/ /\ pc[t] = "replace" /\ Replaces(t, store[slot])
        /\ CopyTag(slot, calls[t])
        /\ pc' = [pc EXCEPT ![t] = "globalScore"]
     \/ /\ pc[t] = "replace" /\ ~Replaces(t, store[slot])
        /\ pc' = [pc EXCEPT ![t] = "leave"]
        /\ UNCHANGED store
     \/ /\ pc[t] = "globalScore"
        /\ CopyScore(slot, calls[t])
        /\ pc' = [pc EXCEPT ![t] = "leave"]
  /\ UNCHANGED <<taken, holders, calls, answers, taking, proved, writes>>

\* Mutant: a search that wants verified bounds takes any.
UsableUnverified(t, entry) == Matches(t, entry) /\ calls[t].depth <= entry.depth

\* In a read, `verified' is the search's verifyNullMove, `depth' is minDepth.
Usable(t, entry) ==
  /\ Matches(t, entry)
  /\ calls[t].verified => entry.verified
  /\ calls[t].depth <= entry.depth

After(bound) == IF bound = "upper" THEN "findLower" ELSE "leave"

\* The shared slot is looked at first and hides the private one.
FindBound(t, bound) ==
  LET global == Slot(t, "global", bound)
      slot == IF Matches(t, store[global]) THEN global ELSE Slot(t, "local", bound)
  IN
  /\ pc[t] = IF bound = "upper" THEN "findUpper" ELSE "findLower"
  /\ \/ /\ Usable(t, store[slot])
        /\ taking' = [taking EXCEPT ![t] = slot]
        /\ pc' = [pc EXCEPT ![t] = IF bound = "upper" THEN "takeUpper" ELSE "takeLower"]
     \/ /\ ~Usable(t, store[slot])
        /\ pc' = [pc EXCEPT ![t] = After(bound)]
        /\ UNCHANGED taking
  /\ UNCHANGED <<taken, holders, calls, answers, store, proved, writes>>

TakeScore(t, bound) ==
  /\ pc[t] = IF bound = "upper" THEN "takeUpper" ELSE "takeLower"
  /\ answers' = [answers EXCEPT ![t] = @ \union {<<bound, store[taking[t]].proof>>}]
  /\ pc' = [pc EXCEPT ![t] = After(bound)]
  /\ taking' = [taking EXCEPT ![t] = <<>>]
  /\ UNCHANGED <<taken, holders, calls, store, proved, writes>>

Release(t) ==
  /\ pc[t] = "leave"
  /\ holders' = [holders EXCEPT ![LockOf(calls[t].key)] = Nobody]
  /\ pc' = [pc EXCEPT ![t] = "idle"]
  /\ calls' = [calls EXCEPT ![t] = NoProof]
  /\ answers' = [answers EXCEPT ![t] = {}]
  /\ UNCHANGED <<taken, taking, store, proved, writes>>

Search(t) ==
  \/ Acquire(t) \/ Release(t)
  \/ WriteLocal(t) \/ WriteGlobal(t)
  \/ \E bound \in Bounds : FindBound(t, bound) \/ TakeScore(t, bound)
-----------------------------------------------------------------------------
(***************************************************************************)
(* reset(): lockAll() takes the locks one by one, in ascending order.      *)
(* Then a maintainer's pc names the store it clears next.                  *)
(***************************************************************************)
\* The stores in the order of reset(), each with its successor.
Sweep == [upperLocal |-> [cells |-> <<"upper", "local">>, next |-> "lowerLocal"],
          lowerLocal |-> [cells |-> <<"lower", "local">>, next |-> "upperGlobal"],
          upperGlobal |-> [cells |-> <<"upper", "global">>, next |-> "lowerGlobal"],
          lowerGlobal |-> [cells |-> <<"lower", "global">>, next |-> "unlock"]]

BeginReset(m) ==
  /\ pc[m] = "idle"
  /\ pc' = [pc EXCEPT ![m] = "lockAll"]
  /\ UNCHANGED <<holders, taken, calls, answers, taking, store, proved, writes>>

Locked(m) ==
  /\ taken' = [taken EXCEPT ![m] = @ + 1]
  /\ pc' = [pc EXCEPT ![m] = IF taken[m] + 1 = lockCount THEN "upperLocal" ELSE "lockAll"]
  /\ UNCHANGED <<calls, answers, taking, store, proved, writes>>

\* Mutant: the locks are taken in any order.
LockNextAnyOrder(m) ==
  /\ pc[m] = "lockAll"
  /\ \E l \in Locks : holders[l] = Nobody /\ holders' = [holders EXCEPT ![l] = m]
  /\ Locked(m)

LockNext(m) ==
  /\ pc[m] = "lockAll"
  /\ holders[taken[m]] = Nobody
  /\ holders' = [holders EXCEPT ![taken[m]] = m]
  /\ Locked(m)

ClearStore(m) ==
  /\ pc[m] \in DOMAIN Sweep
  /\ store' = [s \in Slots |->
                 IF <<s[1], s[2]>> = Sweep[pc[m]].cells THEN EmptyEntry ELSE store[s]]
  /\ pc' = [pc EXCEPT ![m] = Sweep[pc[m]].next]
  /\ UNCHANGED <<holders, taken, calls, answers, taking, proved, writes>>

UnlockAll(m) ==
  /\ pc[m] = "unlock"
  /\ holders' = [l \in Locks |-> IF holders[l] = m THEN Nobody ELSE holders[l]]
  /\ proved' = {}
  /\ taken' = [taken EXCEPT ![m] = 0]
  /\ pc' = [pc EXCEPT ![m] = "idle"]
  /\ UNCHANGED <<calls, answers, taking, store, writes>>

Reset(m) == BeginReset(m) \/ LockNext(m) \/ ClearStore(m) \/ UnlockAll(m)
-----------------------------------------------------------------------------
Init ==
  /\ holders = [l \in Locks |-> Nobody]
  /\ pc = [t \in Tasks |-> "idle"]
  /\ taken = [m \in Maintainers |-> 0]
  /\ calls = [t \in Threads |-> NoProof]
  /\ answers = [t \in Threads |-> {}]
  /\ taking = [t \in Threads |-> <<>>]
  /\ store = [s \in Slots |-> EmptyEntry]
  /\ proved = {} /\ writes = 0

Next == \/ \E t \in Threads : Search(t)
        \/ \E m \in Maintainers : Reset(m)

Spec == Init /\ [][Next]_vars
-----------------------------------------------------------------------------
(***************************************************************************)
(* Properties.                                                             *)
(***************************************************************************)
Entries == [key : Keys \union {0}, clock : Clocks \union {0},
            depth : SearchDepths \union {-1}, verified : BOOLEAN,
            proof : Proofs \union {NoProof}]

ReadStates == {"findUpper", "takeUpper", "findLower", "takeLower"}
WriteStates == {"localTag", "localScore", "replace", "globalScore"}
ThreadStates == {"idle", "leave"} \union ReadStates \union WriteStates
SweepStates == {"upperLocal", "lowerLocal", "upperGlobal", "lowerGlobal", "unlock"}
MaintainerStates == {"idle", "lockAll"} \union SweepStates

\* The types of the table and of the tasks that use it.
TypeOK ==
  /\ holders \in [Locks -> Tasks \union {Nobody}]
  /\ DOMAIN pc = Tasks
  /\ \A t \in Threads : pc[t] \in ThreadStates
  /\ \A m \in Maintainers : pc[m] \in MaintainerStates
  /\ taken \in [Maintainers -> 0 .. lockCount]
  /\ calls \in [Threads -> Proofs \union {NoProof}]
  /\ answers \in [Threads -> SUBSET (Bounds \X (Proofs \union {NoProof}))]
  /\ taking \in [Threads -> Slots \union {<<>>}]
  /\ store \in [Slots -> Entries]
  /\ proved \subseteq Proofs
  /\ writes \in 0 .. MaxWrites

\* The slots a task may read or write before it releases its locks.
Footprint(t) ==
  IF t \in Maintainers THEN (IF pc[t] \in SweepStates THEN Slots ELSE {})
  ELSE IF pc[t] \in ReadStates
       THEN {Slot(t, scope, bound) : scope \in {"local", "global"}, bound \in Bounds}
  ELSE IF pc[t] \in WriteStates
       THEN {Slot(t, scope, calls[t].bound) : scope \in {"local", "global"}}
  ELSE {}

\* No two tasks are ever in one slot.  A private slot is guarded by the stripe
\* of a shared slot it has nothing to do with: the partitions must be disjoint,
\* and the stripe must be a function of the shared slot.
SlotsExclusive ==
  \A t, u \in Tasks : t # u => Footprint(t) \cap Footprint(u) = {}

\* A bound that read() returns was proved, since the table was last reset, for
\* this very position and clock, in this direction, at the depth asked for or
\* deeper, and with verified null moves where the search wants them.
AnswersProved ==
  \A t \in Threads : pc[t] = "leave" =>
    \A answer \in answers[t] :
      LET bound == answer[1]
          proof == answer[2]
      IN /\ proof \in proved
         /\ proof.bound = bound
         /\ proof.key = calls[t].key /\ proof.color = calls[t].color
         /\ proof.clock = calls[t].clock /\ proof.depth >= calls[t].depth
         /\ calls[t].verified => proof.verified

\* The shared slot, which hides the private one, never holds less: what any
\* worker has verified and still remembers is matched or exceeded in depth.
SharedSlotsDeepest ==
  \A t \in Threads, key \in Keys, bound \in Bounds, color \in Colors :
    LET own == store[<<bound, "local", color, LocalIndex(t, key)>>]
        shared == store[<<bound, "global", color, GlobalIndex(key)>>]
    IN holders[LockOf(key)] = Nobody /\ own.key = key /\ own.verified
         => shared.depth >= own.depth

\* A worker waits for its stripe before its call, with nothing in its hands.
Waiting(t) == pc[t] = "lockAll" /\ holders[taken[t]] # Nobody

\* "Acquire stripes in one order so whole-table maintenance cannot deadlock":
\* of the tasks that have begun an operation, one can always go on.
NoDeadlock ==
  (\E t \in Tasks : pc[t] # "idle") => \E t \in Tasks : pc[t] # "idle" /\ ~Waiting(t)
=============================================================================
