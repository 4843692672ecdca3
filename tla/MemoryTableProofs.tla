------------------------- MODULE MemoryTableProofs -------------------------
(***************************************************************************)
(* Theorems about the transposition table (memory.cpp), for every number   *)
(* of entries, locks, threads and maintainers: no two tasks are in one     *)
(* slot, the stripes never deadlock, what a lookup answers was proved, and *)
(* no worker ever stores a shallower proof over a shared slot.             *)
(***************************************************************************)
EXTENDS MemoryTable, WellFoundedInduction, TLAPS

ThreadInside == ReadStates \union WriteStates \union {"leave"}

\* Who is inside holds the locks for it.
LockInv ==
  /\ holders \in [Locks -> Tasks \union {Nobody}]
  /\ pc \in [Tasks -> ThreadStates \union MaintainerStates]
  /\ \A t \in Threads : pc[t] \in ThreadStates
  /\ \A m \in Maintainers : pc[m] \in MaintainerStates
  /\ taken \in [Maintainers -> 0 .. lockCount]
  /\ calls \in [Threads -> Proofs \union {NoProof}]
  /\ \A t \in Threads : pc[t] # "idle" => calls[t] \in Proofs
  /\ \A t \in Threads : pc[t] \in ThreadInside => holders[LockOf(calls[t].key)] = t
  /\ \A m \in Maintainers :
       /\ pc[m] = "idle" => taken[m] = 0
       /\ pc[m] = "lockAll" => taken[m] < lockCount
       /\ pc[m] = "lockAll" => \A l \in Locks : l < taken[m] => holders[l] = m
       /\ pc[m] \in SweepStates => \A l \in Locks : holders[l] = m

USE DEF Threads, Tasks, Locks

\* Every key has a stripe (memory.cpp:93,97).
LEMMA LockOfInLocks == \A key \in Nat : LockOf(key) \in Locks
<1> SUFFICES ASSUME NEW key \in Nat PROVE LockOf(key) \in Locks
  OBVIOUS
<1>1. key % Word \in Nat
  BY DimensionsAssumption
<1>2. ASSUME NEW a \in Nat PROVE a % entryCount \in Nat
  BY DimensionsAssumption
<1>3. ASSUME NEW a \in Nat PROVE a % lockCount \in 0 .. lockCount - 1
  BY DimensionsAssumption
<1> QED
  BY <1>1, <1>2, <1>3 DEF LockOf, GlobalIndex

\* The partitions of two workers are disjoint (memory.cpp:94-95).
LEMMA PartitionsDisjoint ==
  \A t, u \in Threads, a, b \in Keys :
    t # u => LocalIndex(t, a) # LocalIndex(u, b)
<1> DEFINE L == localEntryCount
<1>1. L \in Nat /\ L >= 1
  <2>1. threadCount * 1 <= entryCount
    BY DimensionsAssumption
  <2> QED
    BY <2>1, DimensionsAssumption DEF localEntryCount
<1> HIDE DEF L
<1>2. ASSUME NEW k \in Keys PROVE (k % Word) % L \in 0 .. L - 1
  <2>1. k % Word \in Nat
    BY DimensionsAssumption
  <2> QED
    BY <2>1, <1>1
<1>3. ASSUME NEW t \in Nat, NEW u \in Nat, t < u PROVE t * L + L <= u * L
  <2>1. PICK d \in Nat : u = t + 1 + d
    <3>1. u - t - 1 \in Nat /\ u = t + 1 + (u - t - 1)
      BY <1>3
    <3> QED BY <3>1
  <2>2. u * L = t * L + L + d * L
    BY <2>1, <1>1
  <2>3. d * L >= 0 /\ t * L \in Int /\ d * L \in Int
    BY <1>1
  <2> QED
    BY <2>2, <2>3, <1>1
<1>4. ASSUME NEW t \in Threads, NEW u \in Threads, NEW a \in Keys, NEW b \in Keys, t < u
      PROVE LocalIndex(t, a) # LocalIndex(u, b)
  <2>1. t * L + L <= u * L
    BY <1>3, <1>4, DimensionsAssumption
  <2>2. (a % Word) % L \in 0 .. L - 1 /\ (b % Word) % L \in 0 .. L - 1
    BY <1>2
  <2>3. t * L \in Int /\ u * L \in Int
    BY <1>1, DimensionsAssumption
  <2>4. t * L + ((a % Word) % L) < u * L + ((b % Word) % L)
    BY <2>1, <2>2, <2>3, <1>1
  <2> QED
    BY <2>2, <2>3, <2>4 DEF LocalIndex, L
<1>5. ASSUME NEW t \in Threads, NEW u \in Threads, t # u PROVE t < u \/ u < t
  BY <1>5, DimensionsAssumption
<1> QED
  BY <1>4, <1>5

LEMMA KeyOfCall == ASSUME NEW p \in Proofs PROVE p.key \in Nat /\ p.key \in Keys
BY DimensionsAssumption DEF Proofs

LEMMA LocksInit == Init => LockInv
<1> SUFFICES ASSUME Init PROVE LockInv
  OBVIOUS
<1> USE DEF Init, ThreadStates, MaintainerStates
<1>1. holders \in [Locks -> Tasks \union {Nobody}]
  BY DEF Init
<1>2. pc \in [Tasks -> ThreadStates \union MaintainerStates]
  BY DEF Init
<1>3. \A t \in Tasks : pc[t] = "idle"
  BY DEF Init
<1>4. taken \in [Maintainers -> 0 .. lockCount] /\ \A m \in Maintainers : taken[m] = 0
  BY DimensionsAssumption DEF Init
<1>5. calls \in [Threads -> Proofs \union {NoProof}]
  BY DEF Init
<1>6. "idle" \notin ThreadInside /\ "idle" \notin SweepStates
  BY DEF ThreadInside, ReadStates, WriteStates, SweepStates
<1> QED
  BY <1>1, <1>2, <1>3, <1>4, <1>5, <1>6 DEF LockInv

\* Where a call starts: its lock is free, and then its own.
LEMMA AcquireTakes ==
  ASSUME NEW t \in Threads, Acquire(t)
  PROVE  \E p \in Proofs, x \in {"localTag", "findUpper"} :
           /\ pc[t] = "idle" /\ holders[LockOf(p.key)] = Nobody
           /\ holders' = [holders EXCEPT ![LockOf(p.key)] = t]
           /\ calls' = [calls EXCEPT ![t] = p]
           /\ pc' = [pc EXCEPT ![t] = x]
           /\ proved' \in {proved, proved \union {p}}
           /\ x = "localTag" => proved' = proved \union {p}
           /\ UNCHANGED <<taken, answers, taking, store>>
<1>1. PICK p \in Proofs :
        /\ holders[LockOf(p.key)] = Nobody
        /\ holders' = [holders EXCEPT ![LockOf(p.key)] = t]
        /\ calls' = [calls EXCEPT ![t] = p]
        /\ \/ proved' = proved \union {p} /\ pc' = [pc EXCEPT ![t] = "localTag"]
           \/ proved' = proved /\ pc' = [pc EXCEPT ![t] = "findUpper"]
  BY DEF Acquire
<1>2. pc[t] = "idle" /\ UNCHANGED <<taken, answers, taking, store>>
  BY DEF Acquire
<1>3. CASE proved' = proved \union {p} /\ pc' = [pc EXCEPT ![t] = "localTag"]
  BY <1>1, <1>2, <1>3
<1>4. CASE proved' = proved /\ pc' = [pc EXCEPT ![t] = "findUpper"]
  BY <1>1, <1>2, <1>4, Zenon
<1> QED
  BY <1>1, <1>3, <1>4

\* What one step of a search task does: it keeps to its own pc and call, and
\* takes or gives up only the lock of its call.
LEMMA SearchKeepsLocks ==
  ASSUME LockInv, NEW t \in Threads, Search(t)
  PROVE  LockInv'
<1> USE DEF LockInv
<1>a. t \in Tasks /\ t \notin Maintainers
  BY DimensionsAssumption
<1>b. \A u \in Threads : u \in Tasks
  OBVIOUS
<1>c. \A p \in Proofs : LockOf(p.key) \in Locks
  BY KeyOfCall, LockOfInLocks
<1>2. CASE Acquire(t)
  <2>a. PICK p \in Proofs, x \in {"localTag", "findUpper"} :
          /\ holders[LockOf(p.key)] = Nobody
          /\ holders' = [holders EXCEPT ![LockOf(p.key)] = t]
          /\ calls' = [calls EXCEPT ![t] = p]
          /\ pc' = [pc EXCEPT ![t] = x] /\ UNCHANGED taken
    BY <1>2, AcquireTakes
  <2>1. /\ calls' \in [Threads -> Proofs \union {NoProof}] /\ calls'[t] = p
        /\ \A u \in Threads \ {t} : calls'[u] = calls[u]
    BY <2>a
  <2>b. {"localTag", "findUpper"} \subseteq ThreadStates \ {"idle"}
    BY DEF ThreadStates, ReadStates, WriteStates
  <2>2. pc' \in [Tasks -> ThreadStates \union MaintainerStates]
    BY <2>a, <2>b, <1>a
  <2>3. pc'[t] \in ThreadStates \ {"idle"} /\ \A u \in Tasks \ {t} : pc'[u] = pc[u]
    BY <2>a, <2>b, <1>a
  <2>4. /\ holders' \in [Locks -> Tasks \union {Nobody}]
        /\ holders'[LockOf(p.key)] = t
        /\ \A l \in Locks : holders[l] # Nobody => holders'[l] = holders[l]
    BY <2>a, <1>a, <1>c
  <2>5. \A u \in Tasks : u # Nobody
    BY DimensionsAssumption
  <2>6. \A u \in Threads \ {t} : pc[u] \in ThreadInside => LockOf(calls[u].key) \in Locks
    <3>1. "idle" \notin ThreadInside
      BY DEF ThreadInside, ReadStates, WriteStates
    <3> QED BY <3>1, <1>c
  <2>7. \A u \in Threads : pc'[u] \in ThreadInside => holders'[LockOf(calls'[u].key)] = u
    BY <2>1, <2>3, <2>4, <2>5, <2>6, <1>b
  <2>8. ASSUME NEW m \in Maintainers, NEW l \in Locks, holders[l] = m
        PROVE  holders'[l] = m
    <3>1. m # Nobody
      BY <2>5
    <3> QED BY <3>1, <2>4, <2>8
  <2>9. \A m \in Maintainers : m \in Tasks /\ m # t /\ pc'[m] = pc[m]
    BY <2>3, <1>a
  <2>10. \A u \in Threads : pc'[u] \in ThreadStates
    BY <2>3, <1>b
  <2>11. \A u \in Threads : pc'[u] # "idle" => calls'[u] \in Proofs
    BY <2>1, <2>3, <1>b
  <2>12. UNCHANGED taken
    BY <2>a
  <2> QED
    BY <2>1, <2>2, <2>3, <2>4, <2>7, <2>8, <2>9, <2>10, <2>11, <2>12
<1>3. CASE Release(t)
  <2>1. /\ pc[t] = "leave" /\ holders[LockOf(calls[t].key)] = t /\ calls[t] \in Proofs
    BY <1>3 DEF Release, ThreadInside
  <2>2. /\ holders' = [holders EXCEPT ![LockOf(calls[t].key)] = Nobody]
        /\ calls' = [calls EXCEPT ![t] = NoProof]
        /\ pc' = [pc EXCEPT ![t] = "idle"]
        /\ UNCHANGED taken
    BY <1>3 DEF Release
  <2>3. /\ holders' \in [Locks -> Tasks \union {Nobody}]
        /\ \A l \in Locks : holders[l] # t => holders'[l] = holders[l]
    BY <2>1, <2>2, <1>c
  <2>4. /\ pc' \in [Tasks -> ThreadStates \union MaintainerStates]
        /\ pc'[t] = "idle" /\ \A u \in Tasks \ {t} : pc'[u] = pc[u]
    BY <2>2, <1>a DEF ThreadStates
  <2>5. /\ calls' \in [Threads -> Proofs \union {NoProof}]
        /\ \A u \in Threads \ {t} : calls'[u] = calls[u]
    BY <2>2
  <2>6. "idle" \notin ThreadInside /\ "idle" \in ThreadStates
    BY DEF ThreadInside, ReadStates, WriteStates, ThreadStates
  <2>7. \A u \in Threads \ {t} : pc[u] \in ThreadInside => LockOf(calls[u].key) \in Locks
    BY <2>6, <1>c
  <2>8. \A u \in Threads : pc'[u] \in ThreadInside => holders'[LockOf(calls'[u].key)] = u
    BY <2>3, <2>4, <2>5, <2>6, <2>7, <1>b
  <2>9. \A m \in Maintainers : \A l \in Locks : holders[l] = m => holders'[l] = m
    BY <2>3, <1>a
  <2> QED
    BY <2>2, <2>3, <2>4, <2>5, <2>6, <2>8, <2>9, <1>a
<1>4. ASSUME pc[t] \in ThreadInside, UNCHANGED <<holders, taken, calls>>,
             \E x \in ThreadInside : pc' = [pc EXCEPT ![t] = x]
      PROVE  LockInv'
  <2>1. ThreadInside \subseteq ThreadStates /\ "idle" \notin ThreadInside
    BY DEF ThreadInside, ThreadStates, ReadStates, WriteStates
  <2>2. /\ pc' \in [Tasks -> ThreadStates \union MaintainerStates]
        /\ pc'[t] \in ThreadInside /\ \A u \in Tasks \ {t} : pc'[u] = pc[u]
    BY <1>4, <2>1, <1>a
  <2> QED
    BY <1>4, <2>1, <2>2, <1>a
<1>5. CASE WriteLocal(t)
  BY <1>5, <1>4 DEF WriteLocal, ThreadInside, WriteStates, ReadStates
<1>6. CASE WriteGlobal(t)
  BY <1>6, <1>4 DEF WriteGlobal, ThreadInside, WriteStates, ReadStates
<1>7. ASSUME NEW bound \in Bounds, FindBound(t, bound)
      PROVE  LockInv'
  BY <1>7, <1>4 DEF FindBound, After, ThreadInside, WriteStates, ReadStates
<1>8. ASSUME NEW bound \in Bounds, TakeScore(t, bound)
      PROVE  LockInv'
  BY <1>8, <1>4 DEF TakeScore, After, ThreadInside, WriteStates, ReadStates
<1> QED
  BY <1>2, <1>3, <1>5, <1>6, <1>7, <1>8 DEF Search

LEMMA ResetKeepsLocks ==
  ASSUME LockInv, NEW m \in Maintainers, Reset(m)
  PROVE  LockInv'
<1> USE DEF LockInv
<1>a. m \in Tasks /\ m \notin Threads /\ m # Nobody
  BY DimensionsAssumption
<1>b. \A u \in Threads : u \in Tasks /\ u # Nobody
  BY DimensionsAssumption
<1>c. \A u \in Threads : pc[u] \in ThreadInside => LockOf(calls[u].key) \in Locks
  <2>1. "idle" \notin ThreadInside
    BY DEF ThreadInside, ReadStates, WriteStates
  <2> QED BY <2>1, KeyOfCall, LockOfInLocks
<1>d. \A n \in Maintainers : n \in Tasks /\ n # Nobody
  BY DimensionsAssumption
<1>1. CASE BeginReset(m)
  <2>1. /\ pc' \in [Tasks -> ThreadStates \union MaintainerStates]
        /\ pc'[m] = "lockAll" /\ \A u \in Tasks \ {m} : pc'[u] = pc[u]
    BY <1>1, <1>a DEF BeginReset, MaintainerStates
  <2>2. UNCHANGED <<holders, taken, calls>> /\ taken[m] = 0
    BY <1>1 DEF BeginReset
  <2>3. "lockAll" \in MaintainerStates /\ "lockAll" \notin SweepStates
    BY DEF MaintainerStates, SweepStates
  <2>4. lockCount > 0 /\ \A l \in Locks : ~(l < 0)
    BY DimensionsAssumption
  <2> QED
    BY <2>1, <2>2, <2>3, <2>4, <1>a, <1>b, <1>d
<1>2. CASE LockNext(m)
  <2>1. /\ pc[m] = "lockAll" /\ taken[m] \in Locks /\ taken[m] \in Nat
        /\ holders[taken[m]] = Nobody
    BY <1>2, DimensionsAssumption DEF LockNext
  <2>2. /\ holders' = [holders EXCEPT ![taken[m]] = m]
        /\ taken' = [taken EXCEPT ![m] = taken[m] + 1]
        /\ UNCHANGED calls
    BY <1>2 DEF LockNext, Locked
  <2>3. pc' = [pc EXCEPT ![m] = IF taken[m] + 1 = lockCount THEN "upperLocal" ELSE "lockAll"]
    BY <1>2 DEF LockNext, Locked
  <2>4. /\ pc' \in [Tasks -> ThreadStates \union MaintainerStates]
        /\ pc'[m] \in MaintainerStates /\ pc'[m] # "idle"
        /\ \A u \in Tasks \ {m} : pc'[u] = pc[u]
    BY <2>3, <1>a DEF MaintainerStates, SweepStates
  <2>5. /\ holders' \in [Locks -> Tasks \union {Nobody}]
        /\ holders'[taken[m]] = m
        /\ \A l \in Locks : holders[l] # Nobody => holders'[l] = holders[l]
    BY <2>1, <2>2, <1>a
  <2>6. /\ taken' \in [Maintainers -> 0 .. lockCount]
        /\ taken'[m] = taken[m] + 1 /\ \A n \in Maintainers \ {m} : taken'[n] = taken[n]
    BY <2>1, <2>2, DimensionsAssumption
  <2>7. \A l \in Locks : l < taken[m] + 1 => holders'[l] = m
    <3>1. ASSUME NEW l \in Locks, l < taken[m] + 1 PROVE l < taken[m] \/ l = taken[m]
      BY <3>1, <2>1
    <3> QED BY <3>1, <2>1, <2>5, <1>a
  <2>8. /\ pc'[m] = "lockAll" => taken'[m] < lockCount
        /\ pc'[m] = "lockAll" => \A l \in Locks : l < taken'[m] => holders'[l] = m
    <3>1. pc'[m] = "lockAll" => taken[m] + 1 # lockCount
      BY <2>3, <1>a
    <3> QED BY <3>1, <2>1, <2>6, <2>7, DimensionsAssumption
  <2>9. pc'[m] \in SweepStates => \A l \in Locks : holders'[l] = m
    <3>1. pc'[m] \in SweepStates => taken[m] + 1 = lockCount
      BY <2>3, <1>a DEF SweepStates
    <3>2. \A l \in Locks : l < lockCount
      BY DimensionsAssumption
    <3> QED BY <3>1, <3>2, <2>7
  <2>10. \A u \in Threads : pc'[u] \in ThreadInside => holders'[LockOf(calls'[u].key)] = u
    BY <2>2, <2>4, <2>5, <1>a, <1>b, <1>c
  <2>11. \A n \in Maintainers \ {m} : \A l \in Locks : holders[l] = n => holders'[l] = n
    BY <2>5, <1>d
  <2> QED
    BY <2>2, <2>4, <2>5, <2>6, <2>8, <2>9, <2>10, <2>11, <1>a, <1>b, <1>d
<1>3. CASE ClearStore(m)
  <2>1. /\ pc[m] \in SweepStates
        /\ pc' \in [Tasks -> ThreadStates \union MaintainerStates]
        /\ pc'[m] \in SweepStates /\ \A u \in Tasks \ {m} : pc'[u] = pc[u]
    BY <1>3, <1>a DEF ClearStore, Sweep, SweepStates, MaintainerStates
  <2>2. UNCHANGED <<holders, taken, calls>>
    BY <1>3 DEF ClearStore
  <2>3. SweepStates \subseteq MaintainerStates /\ "idle" \notin SweepStates /\ "lockAll" \notin SweepStates
    BY DEF MaintainerStates, SweepStates
  <2> QED
    BY <2>1, <2>2, <2>3, <1>a, <1>b, <1>d
<1>4. CASE UnlockAll(m)
  <2>1. /\ pc' \in [Tasks -> ThreadStates \union MaintainerStates]
        /\ pc'[m] = "idle" /\ \A u \in Tasks \ {m} : pc'[u] = pc[u]
    BY <1>4, <1>a DEF UnlockAll, MaintainerStates
  <2>2. /\ holders' \in [Locks -> Tasks \union {Nobody}]
        /\ \A l \in Locks : holders[l] # m => holders'[l] = holders[l]
    BY <1>4 DEF UnlockAll
  <2>3. /\ taken' \in [Maintainers -> 0 .. lockCount]
        /\ taken'[m] = 0 /\ \A n \in Maintainers \ {m} : taken'[n] = taken[n]
    BY <1>4, DimensionsAssumption DEF UnlockAll
  <2>4. UNCHANGED calls
    BY <1>4 DEF UnlockAll
  <2>5. "idle" \in MaintainerStates /\ "idle" \notin SweepStates /\ "idle" # "lockAll"
    BY DEF MaintainerStates, SweepStates
  <2>6. \A u \in Threads : pc'[u] \in ThreadInside => holders'[LockOf(calls'[u].key)] = u
    BY <2>1, <2>2, <2>4, <1>a, <1>b, <1>c
  <2>7. \A n \in Maintainers \ {m} : \A l \in Locks : holders[l] = n => holders'[l] = n
    BY <2>2
  <2> QED
    BY <2>1, <2>2, <2>3, <2>4, <2>5, <2>6, <2>7, <1>a, <1>b, <1>d, SMTT(30)
<1> QED
  BY <1>1, <1>2, <1>3, <1>4 DEF Reset

LEMMA LocksNext == LockInv /\ [Next]_vars => LockInv'
<1> SUFFICES ASSUME LockInv, [Next]_vars PROVE LockInv'
  OBVIOUS
<1>1. ASSUME UNCHANGED vars PROVE LockInv'
  BY <1>1 DEF vars, LockInv
<1> QED
  BY <1>1, SearchKeepsLocks, ResetKeepsLocks DEF Next

\* Two search tasks inside one slot would hold one lock, or be one worker.
LEMMA ThreadsApart ==
  ASSUME LockInv, NEW t \in Threads, NEW u \in Threads, t # u
  PROVE  Footprint(t) \cap Footprint(u) = {}
<1>1. t \notin Maintainers /\ u \notin Maintainers
  BY DimensionsAssumption
<1>2. ASSUME NEW s, s \in Footprint(t), s \in Footprint(u) PROVE FALSE
  <2>1. pc[t] \in ThreadInside /\ pc[u] \in ThreadInside
    BY <1>1, <1>2 DEF Footprint, ThreadInside
  <2>2. calls[t] \in Proofs /\ calls[u] \in Proofs
    BY <2>1 DEF LockInv, ThreadInside, ReadStates, WriteStates
  <2>3. LockOf(calls[t].key) # LockOf(calls[u].key)
    BY <2>1 DEF LockInv
  <2>4. /\ \E scope \in {"local", "global"}, bound \in Bounds \union {calls[t].bound} :
              s = Slot(t, scope, bound)
        /\ \E scope \in {"local", "global"}, bound \in Bounds \union {calls[u].bound} :
              s = Slot(u, scope, bound)
    BY <1>1, <1>2 DEF Footprint
  <2>5. PICK scope1 \in {"local", "global"},
              bound1 \in Bounds \union {calls[t].bound} : s = Slot(t, scope1, bound1)
    BY <2>4
  <2>6. PICK scope2 \in {"local", "global"},
              bound2 \in Bounds \union {calls[u].bound} : s = Slot(u, scope2, bound2)
    BY <2>4
  <2>7. /\ s[2] = scope1 /\ s[2] = scope2
        /\ s[4] = IF scope1 = "local" THEN LocalIndex(t, calls[t].key) ELSE GlobalIndex(calls[t].key)
        /\ s[4] = IF scope2 = "local" THEN LocalIndex(u, calls[u].key) ELSE GlobalIndex(calls[u].key)
    BY <2>5, <2>6 DEF Slot
  <2>8. CASE scope1 = "local"
    BY <2>2, <2>7, <2>8, PartitionsDisjoint, KeyOfCall
  <2>9. CASE scope1 = "global"
    BY <2>3, <2>7, <2>9 DEF LockOf
  <2> QED
    BY <2>8, <2>9
<1> QED
  BY <1>2

\* A reset that sweeps the stores holds every lock there is.
LEMMA MaintainersApart ==
  ASSUME LockInv, NEW m \in Maintainers, NEW t \in Tasks, t # m
  PROVE  Footprint(m) \cap Footprint(t) = {}
<1>1. CASE pc[m] \notin SweepStates
  BY <1>1 DEF Footprint
<1>2. CASE pc[m] \in SweepStates
  <2>1. \A l \in Locks : holders[l] = m
    BY <1>2 DEF LockInv
  <2>2. 0 \in Locks
    BY DimensionsAssumption
  <2>3. CASE t \in Maintainers
    <3>1. pc[t] \notin SweepStates
      BY <2>1, <2>2, <2>3 DEF LockInv
    <3> QED BY <3>1, <2>3 DEF Footprint
  <2>4. CASE t \in Threads
    <3>1. t \notin Maintainers
      BY <2>4, DimensionsAssumption
    <3>2. pc[t] \notin ThreadInside
      <4>1. ASSUME pc[t] \in ThreadInside PROVE FALSE
        <5>1. calls[t] \in Proofs
          BY <4>1, <2>4 DEF LockInv, ThreadInside, ReadStates, WriteStates
        <5>2. LockOf(calls[t].key) \in Locks
          BY <5>1, KeyOfCall, LockOfInLocks
        <5> QED BY <5>2, <4>1, <2>1, <2>4 DEF LockInv
      <4> QED BY <4>1
    <3> QED BY <3>1, <3>2 DEF Footprint, ThreadInside
  <2> QED
    BY <2>3, <2>4
<1> QED
  BY <1>1, <1>2

\* No two tasks are ever in one slot of the table, whatever its dimensions and
\* however they divide each other: the shared slot fixes the stripe
\* (memory.cpp:97), the partitions are disjoint, and reset() holds all stripes.
THEOREM SlotsAlwaysExclusive == Spec => []SlotsExclusive
<1>1. LockInv => SlotsExclusive
  <2> SUFFICES ASSUME LockInv, NEW t \in Tasks, NEW u \in Tasks, t # u
               PROVE  Footprint(t) \cap Footprint(u) = {}
    BY DEF SlotsExclusive
  <2>1. CASE t \in Threads /\ u \in Threads
    BY <2>1, ThreadsApart
  <2>2. CASE t \in Maintainers
    BY <2>2, MaintainersApart
  <2>3. CASE u \in Maintainers
    BY <2>3, MaintainersApart
  <2> QED
    BY <2>1, <2>2, <2>3
<1> QED
  BY <1>1, LocksInit, LocksNext, PTL DEF Spec

-----------------------------------------------------------------------------
(***************************************************************************)
(* The stripes cannot deadlock.                                            *)
(***************************************************************************)
\* Who holds a lock is inside its critical section, or on its way up the stripes.
HoldersBusy ==
  /\ \A l \in Locks, t \in Threads : holders[l] = t =>
       pc[t] \in ThreadInside /\ LockOf(calls[t].key) = l
  /\ \A l \in Locks, m \in Maintainers : holders[l] = m =>
       pc[m] \in SweepStates \/ (pc[m] = "lockAll" /\ l < taken[m])

LEMMA HoldersInit == Init => HoldersBusy
<1> SUFFICES ASSUME Init PROVE HoldersBusy
  OBVIOUS
<1>1. \A l \in Locks : holders[l] = Nobody
  BY DEF Init
<1> QED
  BY <1>1, DimensionsAssumption DEF HoldersBusy

LEMMA SearchKeepsHolders ==
  ASSUME LockInv, HoldersBusy, NEW t \in Threads, Search(t)
  PROVE  HoldersBusy'
<1> USE DEF LockInv
<1>a. t \in Tasks /\ t \notin Maintainers /\ \A u \in Tasks : u # Nobody
  BY DimensionsAssumption
<1>b. \A m \in Maintainers : m \in Tasks /\ m # t
  BY <1>a
<1>c. "idle" \notin ThreadInside
  BY DEF ThreadInside, ReadStates, WriteStates
<1>2. CASE Acquire(t)
  <2>a. PICK p \in Proofs, x \in {"localTag", "findUpper"} :
          /\ pc[t] = "idle"
          /\ holders' = [holders EXCEPT ![LockOf(p.key)] = t]
          /\ calls' = [calls EXCEPT ![t] = p]
          /\ pc' = [pc EXCEPT ![t] = x] /\ UNCHANGED taken
    BY <1>2, AcquireTakes
  <2>1. /\ UNCHANGED taken /\ pc[t] \notin ThreadInside
        /\ \A u \in Tasks \ {t} : pc'[u] = pc[u]
        /\ calls'[t] = p /\ \A u \in Threads \ {t} : calls'[u] = calls[u]
    BY <2>a, <1>c
  <2>2. pc'[t] \in ThreadInside
    BY <2>a, <1>a DEF ThreadInside, ReadStates, WriteStates
  <2>3. \A l \in Locks : holders'[l] = IF l = LockOf(p.key) THEN t ELSE holders[l]
    BY <2>a
  <2>4. ASSUME NEW l \in Locks, NEW u \in Threads, holders'[l] = u
        PROVE  pc'[u] \in ThreadInside /\ LockOf(calls'[u].key) = l
    BY <2>1, <2>2, <2>3, <2>4, <1>a DEF HoldersBusy
  <2>5. ASSUME NEW l \in Locks, NEW n \in Maintainers, holders'[l] = n
        PROVE  pc'[n] \in SweepStates \/ (pc'[n] = "lockAll" /\ l < taken'[n])
    <3>1. pc[n] \in SweepStates \/ (pc[n] = "lockAll" /\ l < taken[n])
      BY <2>3, <2>5, <1>b DEF HoldersBusy
    <3>2. pc'[n] = pc[n] /\ taken'[n] = taken[n]
      BY <2>1, <1>b
    <3> QED
      BY <3>1, <3>2
  <2> QED
    BY <2>4, <2>5 DEF HoldersBusy
<1>3. CASE Release(t)
  <2>1. /\ holders' = [holders EXCEPT ![LockOf(calls[t].key)] = Nobody]
        /\ UNCHANGED taken
        /\ \A u \in Tasks \ {t} : pc'[u] = pc[u]
        /\ \A u \in Threads \ {t} : calls'[u] = calls[u]
    BY <1>3 DEF Release
  <2>2. \A l \in Locks : holders'[l] = IF l = LockOf(calls[t].key) THEN Nobody ELSE holders[l]
    BY <2>1
  <2>3. ASSUME NEW l \in Locks, NEW u \in Threads, holders'[l] = u
        PROVE  pc'[u] \in ThreadInside /\ LockOf(calls'[u].key) = l
    BY <2>1, <2>2, <2>3, <1>a DEF HoldersBusy
  <2>4. ASSUME NEW l \in Locks, NEW n \in Maintainers, holders'[l] = n
        PROVE  pc'[n] \in SweepStates \/ (pc'[n] = "lockAll" /\ l < taken'[n])
    <3>0. n # Nobody
      BY <1>a, <1>b
    <3>1. pc[n] \in SweepStates \/ (pc[n] = "lockAll" /\ l < taken[n])
      <4>1. holders[l] = n
        BY <2>2, <2>4, <3>0
      <4> QED
        BY <4>1 DEF HoldersBusy
    <3>2. pc'[n] = pc[n] /\ taken'[n] = taken[n]
      BY <2>1, <1>b
    <3> QED
      BY <3>1, <3>2
  <2> QED
    BY <2>3, <2>4 DEF HoldersBusy
<1>4. ASSUME UNCHANGED <<holders, taken, calls>>,
             \E x \in ThreadInside : pc' = [pc EXCEPT ![t] = x]
      PROVE  HoldersBusy'
  <2>1. pc'[t] \in ThreadInside /\ \A u \in Tasks \ {t} : pc'[u] = pc[u]
    BY <1>4, <1>a
  <2> QED
    BY <1>4, <2>1, <1>b DEF HoldersBusy
<1>5. CASE WriteLocal(t)
  BY <1>5, <1>4 DEF WriteLocal, ThreadInside, WriteStates, ReadStates
<1>6. CASE WriteGlobal(t)
  BY <1>6, <1>4 DEF WriteGlobal, ThreadInside, WriteStates, ReadStates
<1>7. ASSUME NEW bound \in Bounds, FindBound(t, bound)
      PROVE  HoldersBusy'
  BY <1>7, <1>4 DEF FindBound, After, ThreadInside, WriteStates, ReadStates
<1>8. ASSUME NEW bound \in Bounds, TakeScore(t, bound)
      PROVE  HoldersBusy'
  BY <1>8, <1>4 DEF TakeScore, After, ThreadInside, WriteStates, ReadStates
<1> QED
  BY <1>2, <1>3, <1>5, <1>6, <1>7, <1>8 DEF Search

LEMMA ResetKeepsHolders ==
  ASSUME LockInv, HoldersBusy, NEW m \in Maintainers, Reset(m)
  PROVE  HoldersBusy'
<1> USE DEF LockInv
<1>a. m \in Tasks /\ m \notin Threads /\ \A u \in Tasks : u # Nobody
  BY DimensionsAssumption
<1>b. \A u \in Threads : u \in Tasks /\ u # m
  BY <1>a
<1>c. "idle" \notin SweepStates /\ "lockAll" \notin SweepStates
  BY DEF SweepStates
<1>1. CASE BeginReset(m)
  <2>1. /\ UNCHANGED <<holders, taken, calls>> /\ pc[m] = "idle"
        /\ \A u \in Tasks \ {m} : pc'[u] = pc[u]
    BY <1>1 DEF BeginReset
  <2>2. ASSUME NEW l \in Locks, NEW u \in Threads, holders'[l] = u
        PROVE  pc'[u] \in ThreadInside /\ LockOf(calls'[u].key) = l
    BY <2>1, <2>2, <1>b DEF HoldersBusy
  <2>3. ASSUME NEW l \in Locks, NEW n \in Maintainers, holders'[l] = n
        PROVE  pc'[n] \in SweepStates \/ (pc'[n] = "lockAll" /\ l < taken'[n])
    <3>1. n # m
      BY <2>1, <2>3, <1>c DEF HoldersBusy
    <3>2. pc[n] \in SweepStates \/ (pc[n] = "lockAll" /\ l < taken[n])
      BY <2>1, <2>3 DEF HoldersBusy
    <3> QED
      BY <2>1, <3>1, <3>2
  <2> QED
    BY <2>2, <2>3 DEF HoldersBusy
<1>2. CASE LockNext(m)
  <2>1. /\ UNCHANGED calls /\ pc[m] = "lockAll" /\ taken[m] \in Nat
        /\ holders' = [holders EXCEPT ![taken[m]] = m]
        /\ taken' = [taken EXCEPT ![m] = taken[m] + 1]
        /\ pc' = [pc EXCEPT ![m] = IF taken[m] + 1 = lockCount THEN "upperLocal" ELSE "lockAll"]
    BY <1>2, DimensionsAssumption DEF LockNext, Locked
  <2>2. \A l \in Locks : holders'[l] = IF l = taken[m] THEN m ELSE holders[l]
    BY <2>1
  <2>3. \A u \in Tasks \ {m} : pc'[u] = pc[u]
    BY <2>1
  <2>4. pc'[m] \in SweepStates \/ pc'[m] = "lockAll"
    BY <2>1, <1>a DEF SweepStates
  <2>5. taken'[m] = taken[m] + 1 /\ \A n \in Maintainers \ {m} : taken'[n] = taken[n]
    BY <2>1
  <2>6. ASSUME NEW l \in Locks, NEW n \in Maintainers, holders'[l] = n
        PROVE  pc'[n] \in SweepStates \/ (pc'[n] = "lockAll" /\ l < taken'[n])
    <3>1. CASE n = m
      <4>1. l < taken[m] + 1
        <5>1. l = taken[m] \/ holders[l] = m
          BY <2>2, <2>6, <3>1
        <5>2. holders[l] = m => l < taken[m]
          BY <2>1, <1>c DEF HoldersBusy
        <5> QED
          BY <2>1, <5>1, <5>2
      <4> QED
        BY <2>4, <2>5, <3>1, <4>1
    <3>2. CASE n # m
      BY <2>2, <2>3, <2>5, <2>6, <3>2 DEF HoldersBusy
    <3> QED
      BY <3>1, <3>2
  <2> QED
    BY <2>1, <2>2, <2>3, <2>6, <1>b DEF HoldersBusy
<1>3. CASE ClearStore(m)
  <2>1. /\ UNCHANGED <<holders, taken, calls>>
        /\ pc'[m] \in SweepStates /\ \A u \in Tasks \ {m} : pc'[u] = pc[u]
    BY <1>3, <1>a DEF ClearStore, Sweep, SweepStates
  <2> QED
    BY <2>1, <1>b DEF HoldersBusy
<1>4. CASE UnlockAll(m)
  <2>1. /\ UNCHANGED calls
        /\ \A u \in Tasks \ {m} : pc'[u] = pc[u]
        /\ \A n \in Maintainers \ {m} : taken'[n] = taken[n]
        /\ \A l \in Locks : holders'[l] = IF holders[l] = m THEN Nobody ELSE holders[l]
    BY <1>4 DEF UnlockAll
  <2> QED
    BY <2>1, <1>a, <1>b DEF HoldersBusy
<1> QED
  BY <1>1, <1>2, <1>3, <1>4 DEF Reset

LEMMA HoldersStep == LockInv /\ HoldersBusy /\ [Next]_vars => HoldersBusy'
<1> SUFFICES ASSUME LockInv, HoldersBusy, [Next]_vars PROVE HoldersBusy'
  OBVIOUS
<1>1. ASSUME UNCHANGED vars PROVE HoldersBusy'
  BY <1>1 DEF vars, HoldersBusy
<1> QED
  BY <1>1, SearchKeepsHolders, ResetKeepsHolders DEF Next

\* Of a non-empty set of maintainers one has taken the most locks.
LEMMA FarthestUp ==
  ASSUME LockInv, NEW S \in SUBSET Maintainers, S # {}
  PROVE  \E m \in S : \A n \in S : taken[n] <= taken[m]
<1> DEFINE missing == {lockCount - taken[m] : m \in S}
<1>1. \A m \in S : taken[m] \in Nat /\ lockCount - taken[m] \in Nat
  BY DimensionsAssumption DEF LockInv
<1>2. missing \subseteq Nat /\ missing # {}
  BY <1>1
<1>3. PICK R : IsWellFoundedOn(R, Nat) /\ \A x, y \in Nat : <<y, x>> \in R <=> y < x
  <2>1. IsWellFoundedOn(OpToRel(<, Nat), Nat)
    BY Zenon, NatLessThanWellFounded
  <2>2. \A x, y \in Nat : <<y, x>> \in OpToRel(<, Nat) <=> y < x
    BY DEF OpToRel
  <2> QED
    BY Zenon, <2>1, <2>2
<1>4. PICK x \in missing : \A y \in missing : ~ (<<y, x>> \in R)
  <2> HIDE DEF missing
  <2> QED
    BY Zenon, <1>2, <1>3, WFMin
<1>5. PICK m \in S : x = lockCount - taken[m]
  BY <1>4
<1>6. ASSUME NEW n \in S PROVE taken[n] <= taken[m]
  <2>1. ~(lockCount - taken[n] < lockCount - taken[m])
    BY <1>1, <1>3, <1>4, <1>5
  <2> QED
    BY <1>1, <2>1, DimensionsAssumption
<1> QED
  BY <1>6

\* Searches and whole-table maintenance cannot wait for one another in a circle: the
\* maintainer that has climbed farthest up the stripes waits for a task inside.
THEOREM StripesNeverDeadlock == Spec => []NoDeadlock
<1>1. ASSUME LockInv, HoldersBusy, \E t \in Tasks : pc[t] # "idle"
      PROVE  \E t \in Tasks : pc[t] # "idle" /\ ~Waiting(t)
  <2> USE DEF LockInv
  <2> SUFFICES ASSUME \A t \in Tasks : pc[t] # "idle" => Waiting(t) PROVE FALSE
    OBVIOUS
  <2>1. /\ \A t \in Threads : pc[t] \notin ThreadInside
        /\ \A m \in Maintainers : pc[m] \notin SweepStates
    BY <1>1 DEF Waiting, ThreadInside, ReadStates, WriteStates, SweepStates
  <2> DEFINE climbing == {m \in Maintainers : pc[m] = "lockAll"}
  <2>2. \A l \in Locks : holders[l] # Nobody =>
          \E m \in climbing : holders[l] = m /\ l < taken[m]
    BY <1>1, <2>1 DEF HoldersBusy
  <2>3. PICK t \in Tasks : pc[t] = "lockAll"
    BY <1>1 DEF Waiting
  <2>4. climbing # {}
    <3>1. "lockAll" \notin ThreadStates
      BY DEF ThreadStates, ReadStates, WriteStates
    <3> QED
      BY <1>1, <2>3, <3>1
  <2>5. PICK m \in climbing : \A n \in climbing : taken[n] <= taken[m]
    BY <1>1, <2>4, FarthestUp
  <2>6. taken[m] \in Locks /\ holders[taken[m]] # Nobody
    <3>1. Waiting(m) /\ taken[m] < lockCount /\ taken[m] \in 0 .. lockCount
      BY <1>1, <2>5
    <3> QED
      BY <2>5, <3>1, DimensionsAssumption DEF Waiting
  <2>7. PICK n \in climbing : taken[m] < taken[n]
    BY <2>2, <2>6
  <2> QED
    BY <1>1, <2>5, <2>7, DimensionsAssumption
<1> QED
  BY <1>1, LocksInit, LocksNext, HoldersInit, HoldersStep, PTL DEF Spec, NoDeadlock

-----------------------------------------------------------------------------
(***************************************************************************)
(* What the table answers was proved, and the shared slots are deepest.    *)
(*                                                                         *)
(* The parts of the invariant are about one task: `state' is its pc,       *)
(* `call' the arguments of its operation, `cells' the stores, `shown' what *)
(* has been proved.                                                        *)
(***************************************************************************)
SlotOf(t, call, scope, bound) ==
  <<bound, scope, call.color,
    IF scope = "local" THEN LocalIndex(t, call.key) ELSE GlobalIndex(call.key)>>

Tagged(entry, p) ==
  /\ entry.key = p.key /\ entry.clock = p.clock
  /\ entry.depth = p.depth /\ entry.verified = p.verified

\* An entry in use carries a proof that agrees with its tag and its place.
Honest(entry, slot, shown) ==
  entry.depth >= 0 =>
    /\ entry.proof \in shown /\ Tagged(entry, entry.proof)
    /\ entry.proof.bound = slot[1] /\ entry.proof.color = slot[3]

\* Between the two halves of a copy an entry is torn.
Tears(t, state, call, slot) ==
  \/ state = "localScore" /\ slot = SlotOf(t, call, "local", call.bound)
  \/ state = "globalScore" /\ slot = SlotOf(t, call, "global", call.bound)

Writing(t, state, call, cells, shown) ==
  /\ state \in WriteStates => call \in shown
  /\ state \in {"localScore", "replace"} =>
       Tagged(cells[SlotOf(t, call, "local", call.bound)], call)
  /\ state = "globalScore" => Tagged(cells[SlotOf(t, call, "global", call.bound)], call)

UsableFor(call, entry) ==
  /\ entry.key = call.key /\ entry.clock = call.clock /\ entry.depth >= 0
  /\ call.verified => entry.verified
  /\ call.depth <= entry.depth

TakeState(bound) == IF bound = "upper" THEN "takeUpper" ELSE "takeLower"

Finding(t, state, call, slot, cells) ==
  \A bound \in Bounds : state = TakeState(bound) =>
    /\ slot = SlotOf(t, call, "local", bound) \/ slot = SlotOf(t, call, "global", bound)
    /\ UsableFor(call, cells[slot])

Proves(p, bound, call, shown) ==
  /\ p \in shown /\ p.bound = bound
  /\ p.key = call.key /\ p.color = call.color
  /\ p.clock = call.clock /\ p.depth >= call.depth
  /\ call.verified => p.verified

Found(state, call, found, shown) ==
  \A answer \in found :
    state \in ReadStates \union {"leave"} /\ Proves(answer[2], answer[1], call, shown)

\* Below a shared slot there is nothing deeper, except while its worker is on the way
\* from the private slot to the shared one.
Deepest(t, state, call, cells) ==
  \A key \in Keys, bound \in Bounds, color \in Colors :
    LET own == cells[<<bound, "local", color, LocalIndex(t, key)>>]
        shared == cells[<<bound, "global", color, GlobalIndex(key)>>]
    IN own.key = key /\ own.verified =>
         \/ shared.depth >= own.depth
         \/ /\ state \in {"localScore", "replace"}
            /\ call.key = key /\ call.color = color /\ call.bound = bound

\* The stores a reset has already cleared.
Cleared(state, slot) ==
  \/ slot[1] = "upper" /\ slot[2] = "local" /\ state \in SweepStates \ {"upperLocal"}
  \/ slot[1] = "lower" /\ slot[2] = "local" /\ state \in {"upperGlobal", "lowerGlobal", "unlock"}
  \/ slot[1] = "upper" /\ slot[2] = "global" /\ state \in {"lowerGlobal", "unlock"}
  \/ slot[1] = "lower" /\ slot[2] = "global" /\ state = "unlock"

TableTypes ==
  /\ store \in [Slots -> Entries]
  /\ answers \in [Threads -> SUBSET (Bounds \X (Proofs \union {NoProof}))]
  /\ taking \in [Threads -> Slots \union {<<>>}]
  /\ proved \subseteq Proofs

StoreHonest ==
  \A s \in Slots : \/ Honest(store[s], s, proved)
                   \/ \E t \in Threads : Tears(t, pc[t], calls[t], s)

TasksTrue ==
  \A t \in Threads : /\ Writing(t, pc[t], calls[t], store, proved)
                     /\ Finding(t, pc[t], calls[t], taking[t], store)
                     /\ Found(pc[t], calls[t], answers[t], proved)

StoreDeepest == \A t \in Threads : Deepest(t, pc[t], calls[t], store)

Sweeping == \A m \in Maintainers, s \in Slots : Cleared(pc[m], s) => store[s] = EmptyEntry

TableInv == TableTypes /\ StoreHonest /\ TasksTrue /\ StoreDeepest /\ Sweeping

LEMMA SlotIsSlotOf ==
  ASSUME NEW t, NEW scope, NEW bound
  PROVE  Slot(t, scope, bound) = SlotOf(t, calls[t], scope, bound)
BY DEF Slot, SlotOf

\* Every access lands in the table (memory.cpp:93-96).
LEMMA IndexInTable ==
  ASSUME NEW t \in Threads, NEW key \in Keys
  PROVE  /\ GlobalIndex(key) \in 0 .. entryCount - 1
         /\ LocalIndex(t, key) \in 0 .. entryCount - 1
<1> DEFINE L == localEntryCount
<1>1. L \in Nat /\ L >= 1 /\ threadCount * L <= entryCount
  <2>1. threadCount * 1 <= entryCount
    BY DimensionsAssumption
  <2>2. \A a, b \in Nat : b >= 1 => a \div b \in Int /\ b * (a \div b) <= a
    OBVIOUS
  <2> QED
    BY <2>1, <2>2, DimensionsAssumption DEF localEntryCount
<1> HIDE DEF L
<1>2. key \in Nat /\ key % Word \in Nat
  BY DimensionsAssumption
<1>3. GlobalIndex(key) \in 0 .. entryCount - 1
  <2>1. \A a \in Nat : a % entryCount \in 0 .. entryCount - 1
    BY DimensionsAssumption
  <2> QED
    BY <1>2, <2>1 DEF GlobalIndex
<1>4. LocalIndex(t, key) \in 0 .. entryCount - 1
  <2>1. (key % Word) % L \in 0 .. L - 1
    BY <1>1, <1>2
  <2>2. t \in Nat /\ threadCount - t - 1 \in Nat
    BY DimensionsAssumption
  <2>3. threadCount * L = t * L + L + (threadCount - t - 1) * L
    BY <1>1, <2>2, DimensionsAssumption
  <2>4. t * L \in Nat /\ (threadCount - t - 1) * L \in Nat /\ threadCount * L \in Nat
    BY <1>1, <2>2, DimensionsAssumption
  <2>5. t * L + ((key % Word) % L) \in 0 .. entryCount - 1
    BY <1>1, <2>1, <2>3, <2>4, DimensionsAssumption
  <2> QED
    BY <2>5 DEF LocalIndex, L
<1> QED
  BY <1>3, <1>4

LEMMA SlotInTable ==
  ASSUME NEW t \in Threads, NEW call \in Proofs, NEW scope \in {"local", "global"},
         NEW bound \in Bounds
  PROVE  SlotOf(t, call, scope, bound) \in Slots
BY IndexInTable DEF SlotOf, Slots, Proofs

\* Two workers inside their critical sections have no slot in common.
LEMMA SlotsApart ==
  ASSUME LockInv, NEW t \in Threads, NEW u \in Threads, t # u,
         pc[t] \in ThreadInside, pc[u] \in ThreadInside,
         NEW a \in {"local", "global"}, NEW b \in {"local", "global"}, NEW x, NEW y
  PROVE  SlotOf(t, calls[t], a, x) # SlotOf(u, calls[u], b, y)
<1>1. calls[t] \in Proofs /\ calls[u] \in Proofs
  BY DEF LockInv, ThreadInside, ReadStates, WriteStates
<1>2. LockOf(calls[t].key) # LockOf(calls[u].key)
  BY DEF LockInv
<1>3. CASE a = "local" /\ b = "local"
  BY <1>1, <1>3, PartitionsDisjoint, KeyOfCall DEF SlotOf
<1>4. CASE a # b
  BY <1>4 DEF SlotOf
<1>5. CASE a = "global" /\ b = "global"
  BY <1>2, <1>5 DEF SlotOf, LockOf
<1> QED
  BY <1>3, <1>4, <1>5

\* While a maintainer sweeps, nobody else is inside.
LEMMA SweepsAlone ==
  ASSUME LockInv, NEW m \in Maintainers, pc[m] \in SweepStates
  PROVE  /\ \A t \in Threads : pc[t] \notin ThreadInside
         /\ \A n \in Maintainers : pc[n] \in SweepStates => n = m
<1>1. \A l \in Locks : holders[l] = m
  BY DEF LockInv
<1>2. 0 \in Locks
  BY DimensionsAssumption
<1>3. ASSUME NEW t \in Threads, pc[t] \in ThreadInside PROVE FALSE
  <2>1. calls[t] \in Proofs
    BY <1>3 DEF LockInv, ThreadInside, ReadStates, WriteStates
  <2>2. LockOf(calls[t].key) \in Locks
    BY <2>1, KeyOfCall, LockOfInLocks
  <2> QED
    BY <1>1, <1>3, <2>2, DimensionsAssumption DEF LockInv
<1> QED
  BY <1>1, <1>2, <1>3 DEF LockInv

LEMMA TagCopied ==
  ASSUME store \in [Slots -> Entries], NEW slot \in Slots, NEW p \in Proofs, CopyTag(slot, p)
  PROVE  /\ store' \in [Slots -> Entries]
         /\ \A s \in Slots \ {slot} : store'[s] = store[s]
         /\ Tagged(store'[slot], p)
<1> DEFINE e == [key |-> p.key, clock |-> p.clock, depth |-> p.depth,
                 verified |-> p.verified, proof |-> store[slot].proof]
<1>1. store' = [store EXCEPT ![slot] = e]
  BY DEF CopyTag
<1>2. e \in Entries
  BY DEF Entries, Proofs
<1> QED
  BY <1>1, <1>2 DEF Tagged

LEMMA ScoreCopied ==
  ASSUME store \in [Slots -> Entries], NEW slot \in Slots, NEW p \in Proofs, CopyScore(slot, p)
  PROVE  /\ store' \in [Slots -> Entries]
         /\ \A s \in Slots \ {slot} : store'[s] = store[s]
         /\ store'[slot].proof = p
         /\ \A s \in Slots : /\ store'[s].key = store[s].key
                             /\ store'[s].clock = store[s].clock
                             /\ store'[s].depth = store[s].depth
                             /\ store'[s].verified = store[s].verified
<1> DEFINE e == [store[slot] EXCEPT !.proof = p]
<1>1. store' = [store EXCEPT ![slot] = e]
  BY DEF CopyScore
<1>2. /\ e \in Entries /\ e.proof = p
      /\ e.key = store[slot].key /\ e.clock = store[slot].clock
      /\ e.depth = store[slot].depth /\ e.verified = store[slot].verified
  BY DEF Entries
<1> QED
  BY <1>1, <1>2

LEMMA StateNames ==
  /\ WriteStates \subseteq ThreadInside /\ ReadStates \subseteq ThreadInside
  /\ "leave" \in ThreadInside /\ \A bound \in Bounds : TakeState(bound) \in ReadStates
  /\ "idle" \notin ThreadInside
  /\ ReadStates \cap WriteStates = {} /\ "leave" \notin WriteStates \union ReadStates
BY DEF WriteStates, ReadStates, ThreadInside, TakeState, Bounds

\* What holds of a task does not depend on the slots of others.
LEMMA TaskKept ==
  ASSUME NEW t, NEW state, NEW call, NEW slot, NEW found,
         NEW cells, NEW cells2, NEW shown, NEW shown2, shown \subseteq shown2,
         state \in ReadStates \union WriteStates =>
           \A scope \in {"local", "global"}, bound \in Bounds \union {call.bound} :
             cells2[SlotOf(t, call, scope, bound)] = cells[SlotOf(t, call, scope, bound)],
         Writing(t, state, call, cells, shown), Finding(t, state, call, slot, cells),
         Found(state, call, found, shown)
  PROVE  /\ Writing(t, state, call, cells2, shown2)
         /\ Finding(t, state, call, slot, cells2)
         /\ Found(state, call, found, shown2)
<1>1. Writing(t, state, call, cells2, shown2)
  BY DEF Writing, WriteStates
<1>2. Finding(t, state, call, slot, cells2)
  BY StateNames DEF Finding
<1>3. Found(state, call, found, shown2)
  BY DEF Found, Proves
<1> QED
  BY <1>1, <1>2, <1>3

LEMMA EntryDepths == \A e \in Entries : e.depth \in Int
<1>1. \A d \in SearchDepths \union {-1} : d \in Int
  BY DimensionsAssumption
<1>2. \A e \in Entries : e.depth \in SearchDepths \union {-1}
  BY DEF Entries
<1> QED
  BY <1>1, <1>2

\* Shared slots that only get deeper stay deepest as long as private ones are left alone.
LEMMA DeepestKept ==
  ASSUME NEW t \in Threads, NEW state, NEW call, NEW cells \in [Slots -> Entries],
         NEW state2, NEW call2, NEW cells2 \in [Slots -> Entries],
         Deepest(t, state, call, cells),
         \A color \in Colors, bound \in Bounds, key \in Keys :
           LET own == <<bound, "local", color, LocalIndex(t, key)>>
               shared == <<bound, "global", color, GlobalIndex(key)>>
           IN /\ own \in Slots /\ shared \in Slots
              /\ cells2[own].key = cells[own].key
              /\ cells2[own].verified = cells[own].verified
              /\ cells2[own].depth = cells[own].depth
              /\ cells2[shared].depth >= cells[shared].depth,
         state \in {"localScore", "replace"} =>
           state2 \in {"localScore", "replace"} /\ call2 = call
  PROVE  Deepest(t, state2, call2, cells2)
<1> SUFFICES ASSUME NEW key \in Keys, NEW bound \in Bounds, NEW color \in Colors
             PROVE  LET own == cells2[<<bound, "local", color, LocalIndex(t, key)>>]
                        shared == cells2[<<bound, "global", color, GlobalIndex(key)>>]
                    IN own.key = key /\ own.verified =>
                         \/ shared.depth >= own.depth
                         \/ /\ state2 \in {"localScore", "replace"}
                            /\ call2.key = key /\ call2.color = color /\ call2.bound = bound
  BY DEF Deepest
<1> DEFINE own == <<bound, "local", color, LocalIndex(t, key)>>
           shared == <<bound, "global", color, GlobalIndex(key)>>
<1>1. \A e \in Entries : e.depth \in Int
  BY EntryDepths
<1>2. /\ cells2[own].key = cells[own].key /\ cells2[own].verified = cells[own].verified
      /\ cells2[own].depth = cells[own].depth /\ cells2[shared].depth >= cells[shared].depth
      /\ own \in Slots /\ shared \in Slots
  OBVIOUS
<1>3. /\ cells[own].depth \in Int /\ cells[shared].depth \in Int
      /\ cells2[shared].depth \in Int
  BY <1>1, <1>2
<1>4. cells[own].key = key /\ cells[own].verified =>
        \/ cells[shared].depth >= cells[own].depth
        \/ /\ state \in {"localScore", "replace"}
           /\ call.key = key /\ call.color = color /\ call.bound = bound
  BY DEF Deepest
<1> HIDE DEF own, shared
<1>5. cells2[own].key = key /\ cells2[own].verified =>
        \/ cells2[shared].depth >= cells2[own].depth
        \/ /\ state2 \in {"localScore", "replace"}
           /\ call2.key = key /\ call2.color = color /\ call2.bound = bound
  BY <1>2, <1>3, <1>4
<1> QED
  BY <1>5 DEF own, shared

\* The places that the depths of a key are compared at.
LEMMA PlaceInTable ==
  ASSUME NEW t \in Threads, NEW key \in Keys, NEW bound \in Bounds, NEW color \in Colors
  PROVE  /\ <<bound, "local", color, LocalIndex(t, key)>> \in Slots
         /\ <<bound, "global", color, GlobalIndex(key)>> \in Slots
BY IndexInTable DEF Slots

\* A step of one search task: what it leaves alone stays true.
LEMMA ThreadStep ==
  ASSUME LockInv, TableInv, NEW t \in Threads, TableTypes', StoreDeepest',
         \A u \in Tasks \ {t} : pc'[u] = pc[u],
         \A u \in Threads \ {t} : /\ calls'[u] = calls[u] /\ answers'[u] = answers[u]
                                  /\ taking'[u] = taking[u],
         proved \subseteq proved',
         \A s \in Slots : store'[s] # store[s] =>
           /\ pc[t] \in WriteStates
           /\ \E scope \in {"local", "global"} : s = SlotOf(t, calls[t], scope, calls[t].bound),
         \A s \in Slots : Tears(t, pc[t], calls[t], s) \/ store'[s] # store[s] =>
           Honest(store'[s], s, proved') \/ Tears(t, pc'[t], calls'[t], s),
         Writing(t, pc'[t], calls'[t], store', proved'),
         Finding(t, pc'[t], calls'[t], taking'[t], store'),
         Found(pc'[t], calls'[t], answers'[t], proved')
  PROVE  TableInv'
<1>a. t \notin Maintainers /\ \A m \in Maintainers : m \in Tasks \ {t}
  BY DimensionsAssumption
<1>b. \A u \in Threads \ {t} : u \in Tasks \ {t}
  OBVIOUS
<1>1. ASSUME NEW u \in Threads
      PROVE  /\ Writing(u, pc'[u], calls'[u], store', proved')
             /\ Finding(u, pc'[u], calls'[u], taking'[u], store')
             /\ Found(pc'[u], calls'[u], answers'[u], proved')
  <2>1. CASE u = t
    BY <2>1
  <2>2. CASE u # t
    <3>1. /\ pc'[u] = pc[u] /\ calls'[u] = calls[u] /\ answers'[u] = answers[u]
          /\ taking'[u] = taking[u]
      BY <1>b, <2>2
    <3>2. ASSUME pc[u] \in ReadStates \union WriteStates, NEW scope \in {"local", "global"},
                 NEW bound \in Bounds \union {calls[u].bound}
          PROVE  store'[SlotOf(u, calls[u], scope, bound)] = store[SlotOf(u, calls[u], scope, bound)]
      <4>1. pc[u] \in ThreadInside /\ pc[u] # "idle"
        BY <3>2, StateNames
      <4>2. calls[u] \in Proofs /\ bound \in Bounds
        BY <4>1 DEF LockInv, Proofs
      <4>3. SlotOf(u, calls[u], scope, bound) \in Slots
        BY <4>2, SlotInTable
      <4> QED
        BY <2>2, <4>1, <4>3, SlotsApart, StateNames
    <3>3. /\ Writing(u, pc[u], calls[u], store, proved)
          /\ Finding(u, pc[u], calls[u], taking[u], store)
          /\ Found(pc[u], calls[u], answers[u], proved)
      BY DEF TableInv, TasksTrue
    <3> QED
      BY <3>1, <3>2, <3>3, TaskKept
  <2> QED
    BY <2>1, <2>2
<1>2. TasksTrue'
  BY <1>1 DEF TasksTrue
<1>3. StoreHonest'
  <2> SUFFICES ASSUME NEW s \in Slots
               PROVE  \/ Honest(store'[s], s, proved')
                      \/ \E u \in Threads : Tears(u, pc'[u], calls'[u], s)
    BY DEF StoreHonest
  <2>1. CASE Tears(t, pc[t], calls[t], s) \/ store'[s] # store[s]
    BY <2>1
  <2>2. CASE ~Tears(t, pc[t], calls[t], s) /\ store'[s] = store[s]
    <3>1. CASE Honest(store[s], s, proved)
      <4>1. Honest(store[s], s, proved')
        BY <3>1 DEF Honest
      <4> QED
        BY <2>2, <4>1
    <3>2. ASSUME NEW u \in Threads, Tears(u, pc[u], calls[u], s)
          PROVE  Tears(u, pc'[u], calls'[u], s)
      <4>1. u # t
        BY <2>2, <3>2
      <4> QED
        BY <1>b, <3>2, <4>1
    <3> QED
      BY <3>1, <3>2 DEF TableInv, StoreHonest
  <2> QED
    BY <2>1, <2>2
<1>4. Sweeping'
  <2> SUFFICES ASSUME NEW m \in Maintainers, NEW s \in Slots, Cleared(pc'[m], s)
               PROVE  store'[s] = EmptyEntry
    BY DEF Sweeping
  <2>1. pc'[m] = pc[m]
    BY <1>a
  <2>2. pc[m] \in SweepStates
    BY <2>1 DEF Cleared, SweepStates
  <2>3. pc[t] \notin WriteStates
    BY <2>2, SweepsAlone, StateNames
  <2> QED
    BY <2>1, <2>3 DEF TableInv, Sweeping
<1> QED
  BY <1>2, <1>3, <1>4 DEF TableInv

\* A step that changes no store.
LEMMA DeepestUnmoved ==
  ASSUME TableInv, NEW t \in Threads, UNCHANGED store,
         \A u \in Tasks \ {t} : pc'[u] = pc[u],
         \A u \in Threads \ {t} : calls'[u] = calls[u],
         pc[t] \notin {"localScore", "replace"}
  PROVE  StoreDeepest'
<1> SUFFICES ASSUME NEW u \in Threads PROVE Deepest(u, pc'[u], calls'[u], store')
  BY DEF StoreDeepest
<1>1. Deepest(u, pc[u], calls[u], store)
  BY DEF TableInv, StoreDeepest
<1>2. CASE u # t
  <2>1. pc'[u] = pc[u] /\ calls'[u] = calls[u]
    BY <1>2
  <2> QED
    BY <1>1, <2>1
<1>3. CASE u = t
  BY <1>1, <1>3 DEF Deepest
<1> QED
  BY <1>2, <1>3

LEMMA AcquireTable ==
  ASSUME LockInv, TableInv, NEW t \in Threads, Acquire(t)
  PROVE  TableInv'
<1>1. PICK p \in Proofs, x \in {"localTag", "findUpper"} :
        /\ pc[t] = "idle"
        /\ calls' = [calls EXCEPT ![t] = p]
        /\ pc' = [pc EXCEPT ![t] = x]
        /\ proved' \in {proved, proved \union {p}}
        /\ x = "localTag" => proved' = proved \union {p}
        /\ UNCHANGED <<taken, answers, taking, store>>
  BY AcquireTakes
<1>2. /\ pc'[t] = x /\ \A u \in Tasks \ {t} : pc'[u] = pc[u]
      /\ calls'[t] = p /\ \A u \in Threads \ {t} : calls'[u] = calls[u]
  BY <1>1 DEF LockInv
<1>3. /\ proved \subseteq proved' /\ proved' \subseteq Proofs
      /\ pc'[t] = "localTag" => calls'[t] \in proved'
  BY <1>1, <1>2 DEF TableInv, TableTypes
<1>5. answers[t] = {}
  BY <1>1, StateNames DEF TableInv, TasksTrue, Found
<1>6. TableTypes'
  BY <1>1, <1>3 DEF TableInv, TableTypes
<1>7. StoreDeepest'
  BY <1>1, <1>2, DeepestUnmoved
<1>8. \A s : ~Tears(t, pc[t], calls[t], s)
  BY <1>1 DEF Tears
<1>9. /\ Writing(t, pc'[t], calls'[t], store', proved')
      /\ Finding(t, pc'[t], calls'[t], taking'[t], store')
      /\ Found(pc'[t], calls'[t], answers'[t], proved')
  BY <1>1, <1>2, <1>3, <1>5 DEF Writing, Finding, Found, WriteStates, TakeState
<1> QED
  BY <1>1, <1>2, <1>3, <1>6, <1>7, <1>8, <1>9, ThreadStep

LEMMA ReleaseTable ==
  ASSUME LockInv, TableInv, NEW t \in Threads, Release(t)
  PROVE  TableInv'
<1>1. /\ pc[t] = "leave" /\ UNCHANGED <<taking, store, proved>>
      /\ pc' = [pc EXCEPT ![t] = "idle"] /\ calls' = [calls EXCEPT ![t] = NoProof]
      /\ answers' = [answers EXCEPT ![t] = {}]
  BY DEF Release
<1>2. /\ pc'[t] = "idle" /\ \A u \in Tasks \ {t} : pc'[u] = pc[u]
      /\ \A u \in Threads \ {t} : calls'[u] = calls[u] /\ answers'[u] = answers[u]
      /\ answers'[t] = {}
  BY <1>1 DEF LockInv, TableInv, TableTypes
<1>3. TableTypes'
  BY <1>1 DEF TableInv, TableTypes
<1>4. StoreDeepest'
  BY <1>1, <1>2, DeepestUnmoved
<1>5. \A s : ~Tears(t, pc[t], calls[t], s)
  BY <1>1 DEF Tears
<1>6. /\ Writing(t, pc'[t], calls'[t], store', proved')
      /\ Finding(t, pc'[t], calls'[t], taking'[t], store')
      /\ Found(pc'[t], calls'[t], answers'[t], proved')
  BY <1>2 DEF Writing, Finding, Found, WriteStates, TakeState
<1> QED
  BY <1>1, <1>2, <1>3, <1>4, <1>5, <1>6, ThreadStep

LEMMA FindTable ==
  ASSUME LockInv, TableInv, NEW t \in Threads, NEW bound \in Bounds, FindBound(t, bound)
  PROVE  TableInv'
<1>1. /\ pc[t] \in {"findUpper", "findLower"} /\ UNCHANGED <<calls, answers, store, proved>>
      /\ \E x \in ThreadStates : pc' = [pc EXCEPT ![t] = x]
  BY DEF FindBound, After, ThreadStates, ReadStates
<1>2. calls[t] \in Proofs
  BY <1>1 DEF LockInv
<1>3. \A u \in Tasks \ {t} : pc'[u] = pc[u]
  BY <1>1 DEF LockInv
<1>4. \/ /\ pc'[t] = TakeState(bound)
         /\ \E scope \in {"local", "global"} :
              /\ taking' = [taking EXCEPT ![t] = SlotOf(t, calls[t], scope, bound)]
              /\ UsableFor(calls[t], store[SlotOf(t, calls[t], scope, bound)])
      \/ pc'[t] \in {"findLower", "leave"} /\ UNCHANGED taking
  <2>1. pc \in [Tasks -> ThreadStates \union MaintainerStates] /\ t \in Tasks
    BY DEF LockInv
  <2>2. \A e : Usable(t, e) => UsableFor(calls[t], e)
    BY DEF Usable, Matches, UsableFor
  <2> QED
    BY <2>1, <2>2, SlotIsSlotOf DEF FindBound, TakeState, After
<1>5. /\ TableTypes' /\ \A u \in Threads \ {t} : taking'[u] = taking[u]
      /\ Finding(t, pc'[t], calls'[t], taking'[t], store')
  <2>1. CASE UNCHANGED taking /\ pc'[t] \in {"findLower", "leave"}
    BY <1>1, <2>1 DEF TableInv, TableTypes, Finding, TakeState
  <2>2. ASSUME NEW scope \in {"local", "global"}, pc'[t] = TakeState(bound),
               taking' = [taking EXCEPT ![t] = SlotOf(t, calls[t], scope, bound)],
               UsableFor(calls[t], store[SlotOf(t, calls[t], scope, bound)])
        PROVE  /\ TableTypes' /\ \A u \in Threads \ {t} : taking'[u] = taking[u]
               /\ Finding(t, pc'[t], calls'[t], taking'[t], store')
    <3>1. SlotOf(t, calls[t], scope, bound) \in Slots
      BY <1>2, SlotInTable
    <3>2. /\ taking' \in [Threads -> Slots \union {<<>>}]
          /\ taking'[t] = SlotOf(t, calls[t], scope, bound)
          /\ \A u \in Threads \ {t} : taking'[u] = taking[u]
      BY <2>2, <3>1 DEF TableInv, TableTypes
    <3>3. TableTypes'
      BY <1>1, <3>2 DEF TableInv, TableTypes
    <3>4. \A b \in Bounds : TakeState(b) = TakeState(bound) => b = bound
      BY DEF TakeState, Bounds
    <3> QED
      BY <1>1, <2>2, <3>2, <3>3, <3>4 DEF Finding
  <2> QED
    BY <1>4, <2>1, <2>2
<1>6. StoreDeepest'
  BY <1>1, <1>3, DeepestUnmoved
<1>7. \A s : ~Tears(t, pc[t], calls[t], s)
  BY <1>1 DEF Tears
<1>8. pc'[t] \in ReadStates \union {"leave"}
  BY <1>4, StateNames DEF ReadStates
<1>9. Writing(t, pc'[t], calls'[t], store', proved') /\ Found(pc'[t], calls'[t], answers'[t], proved')
  <2>1. Found(pc[t], calls[t], answers[t], proved)
    BY DEF TableInv, TasksTrue
  <2> QED
    BY <1>1, <1>8, <2>1, StateNames DEF Writing, Found, WriteStates, ReadStates
<1> QED
  BY <1>1, <1>3, <1>5, <1>6, <1>7, <1>9, ThreadStep

LEMMA TakeTable ==
  ASSUME LockInv, TableInv, NEW t \in Threads, NEW bound \in Bounds, TakeScore(t, bound)
  PROVE  TableInv'
<1>1. /\ pc[t] = TakeState(bound) /\ UNCHANGED <<calls, store, proved>>
      /\ answers' = [answers EXCEPT ![t] = @ \union {<<bound, store[taking[t]].proof>>}]
      /\ pc' = [pc EXCEPT ![t] = After(bound)]
      /\ taking' = [taking EXCEPT ![t] = <<>>]
  BY DEF TakeScore, TakeState
<1>2. pc[t] \in ReadStates /\ calls[t] \in Proofs /\ pc[t] \in ThreadInside
  BY <1>1, StateNames DEF LockInv
<1>3. /\ pc'[t] \in {"findLower", "leave"} /\ \A u \in Tasks \ {t} : pc'[u] = pc[u]
  BY <1>1 DEF LockInv, After
<1>4. PICK scope \in {"local", "global"} : taking[t] = SlotOf(t, calls[t], scope, bound)
  BY <1>1 DEF TableInv, TasksTrue, Finding
<1> DEFINE s == taking[t]
           e == store[s]
<1>5. s \in Slots /\ s[1] = bound /\ s[3] = calls[t].color /\ e \in Entries
  BY <1>2, <1>4, SlotInTable DEF SlotOf, TableInv, TableTypes
<1>6. UsableFor(calls[t], e)
  BY <1>1 DEF TableInv, TasksTrue, Finding
<1>7. ASSUME NEW u \in Threads, Tears(u, pc[u], calls[u], s) PROVE FALSE
  <2>1. pc[u] \in WriteStates
    BY <1>7 DEF Tears, WriteStates
  <2>2. u # t
    BY <1>2, <2>1, StateNames
  <2> QED
    BY <1>2, <1>4, <1>7, <2>1, <2>2, SlotsApart, StateNames DEF Tears
<1>8. Honest(e, s, proved)
  BY <1>5, <1>7 DEF TableInv, StoreHonest
<1>9. Proves(e.proof, bound, calls[t], proved) /\ e.proof \in Proofs
  BY <1>5, <1>6, <1>8 DEF Proves, UsableFor, Honest, Tagged, TableInv, TableTypes
<1>10. /\ answers'[t] = answers[t] \union {<<bound, e.proof>>} /\ taking'[t] = <<>>
       /\ \A u \in Threads \ {t} : answers'[u] = answers[u] /\ taking'[u] = taking[u]
  BY <1>1 DEF TableInv, TableTypes
<1> HIDE DEF s, e
<1>11. TableTypes'
  <2>1. <<bound, e.proof>> \in Bounds \X (Proofs \union {NoProof})
    BY <1>9
  <2>2. answers[t] \subseteq Bounds \X (Proofs \union {NoProof})
    BY DEF TableInv, TableTypes
  <2>3. answers' \in [Threads -> SUBSET (Bounds \X (Proofs \union {NoProof}))]
    <3>1. answers' = [answers EXCEPT ![t] = answers[t] \union {<<bound, e.proof>>}]
      BY <1>1 DEF e, s
    <3> QED
      BY <2>1, <2>2, <3>1 DEF TableInv, TableTypes
  <2> QED
    BY <1>1, <2>3 DEF TableInv, TableTypes
<1>12. StoreDeepest'
  <2>1. pc[t] \notin {"localScore", "replace"}
    BY <1>2 DEF ReadStates
  <2> QED
    BY <1>1, <1>3, <2>1, DeepestUnmoved
<1>13. \A r : ~Tears(t, pc[t], calls[t], r)
  BY <1>2 DEF Tears, ReadStates
<1>14. /\ Writing(t, pc'[t], calls'[t], store', proved')
       /\ Finding(t, pc'[t], calls'[t], taking'[t], store')
  BY <1>3 DEF Writing, Finding, WriteStates, TakeState
<1>15. Found(pc'[t], calls'[t], answers'[t], proved')
  <2>1. Found(pc[t], calls[t], answers[t], proved)
    BY DEF TableInv, TasksTrue
  <2>2. \A a \in answers'[t] : a \in answers[t] \/ (a[1] = bound /\ a[2] = e.proof)
    BY <1>10
  <2>3. \A a \in answers'[t] : Proves(a[2], a[1], calls[t], proved)
    BY <1>9, <2>1, <2>2 DEF Found
  <2> QED
    BY <1>1, <1>3, <2>3 DEF Found, ReadStates
<1> QED
  BY <1>1, <1>3, <1>10, <1>11, <1>12, <1>13, <1>14, <1>15, ThreadStep

\* The task that writes: its call, its slots, and what it does not touch.
LEMMA WriterFacts ==
  ASSUME LockInv, TableInv, NEW t \in Threads, pc[t] \in WriteStates
  PROVE  /\ calls[t] \in Proofs /\ calls[t] \in proved
         /\ \A scope \in {"local", "global"} : SlotOf(t, calls[t], scope, calls[t].bound) \in Slots
         /\ Writing(t, pc[t], calls[t], store, proved)
         /\ Found(pc[t], calls[t], answers[t], proved)
<1>1. calls[t] \in Proofs /\ calls[t].bound \in Bounds
  BY StateNames DEF LockInv, Proofs
<1> QED
  BY <1>1, SlotInTable DEF TableInv, TasksTrue, Writing

LEMMA WriterFinds ==
  ASSUME LockInv, TableInv, NEW t \in Threads, pc[t] \in WriteStates,
         pc'[t] \in WriteStates \union {"leave"}, UNCHANGED <<calls, answers, taking, proved>>
  PROVE  /\ Finding(t, pc'[t], calls'[t], taking'[t], store')
         /\ Found(pc'[t], calls'[t], answers'[t], proved')
<1>1. Found(pc[t], calls[t], answers[t], proved)
  BY DEF TableInv, TasksTrue
<1>2. answers[t] = {}
  BY <1>1, StateNames DEF Found
<1>3. \A bound \in Bounds : pc'[t] # TakeState(bound)
  BY StateNames
<1> QED
  BY <1>2, <1>3 DEF Finding, Found

\* The tag of a private entry.
LEMMA LocalTagTable ==
  ASSUME LockInv, TableInv, NEW t \in Threads, pc[t] = "localTag", WriteLocal(t)
  PROVE  TableInv'
<1> DEFINE slot == SlotOf(t, calls[t], "local", calls[t].bound)
<1>1. /\ CopyTag(slot, calls[t]) /\ UNCHANGED <<calls, answers, taking, proved>>
      /\ pc' = [pc EXCEPT ![t] = "localScore"]
  BY SlotIsSlotOf DEF WriteLocal
<1>2. /\ calls[t] \in Proofs /\ calls[t] \in proved /\ slot \in Slots
  BY WriterFacts DEF WriteStates
<1>3. /\ store' \in [Slots -> Entries] /\ \A s \in Slots \ {slot} : store'[s] = store[s]
      /\ Tagged(store'[slot], calls[t])
  BY <1>1, <1>2, TagCopied DEF TableInv, TableTypes
<1>4. pc'[t] = "localScore" /\ \A u \in Tasks \ {t} : pc'[u] = pc[u]
  BY <1>1 DEF LockInv
<1>5. TableTypes'
  BY <1>1, <1>3 DEF TableInv, TableTypes
<1>6. StoreDeepest'
  <2> SUFFICES ASSUME NEW u \in Threads PROVE Deepest(u, pc'[u], calls'[u], store')
    BY DEF StoreDeepest
  <2>1. Deepest(u, pc[u], calls[u], store)
    BY DEF TableInv, StoreDeepest
  <2>2. \A key \in Keys, bound \in Bounds, color \in Colors :
          <<bound, "global", color, GlobalIndex(key)>> # slot
    BY DEF SlotOf
  <2>3. CASE u # t
    <3>1. \A key \in Keys, bound \in Bounds, color \in Colors :
            <<bound, "local", color, LocalIndex(u, key)>> # slot
      BY <1>2, <2>3, PartitionsDisjoint, KeyOfCall DEF SlotOf
    <3>2. pc'[u] = pc[u] /\ calls'[u] = calls[u]
      BY <1>1, <1>4, <2>3
    <3>3. \A key \in Keys, bound \in Bounds, color \in Colors :
            /\ store'[<<bound, "local", color, LocalIndex(u, key)>>]
                 = store[<<bound, "local", color, LocalIndex(u, key)>>]
            /\ store'[<<bound, "global", color, GlobalIndex(key)>>]
                 = store[<<bound, "global", color, GlobalIndex(key)>>]
      BY <1>2, <1>3, <2>2, <3>1, PlaceInTable
    <3> QED
      BY <2>1, <3>2, <3>3 DEF Deepest
  <2>4. CASE u = t
    <3> SUFFICES ASSUME NEW key \in Keys, NEW bound \in Bounds, NEW color \in Colors,
                        store'[<<bound, "local", color, LocalIndex(t, key)>>].key = key,
                        store'[<<bound, "local", color, LocalIndex(t, key)>>].verified
                 PROVE  \/ store'[<<bound, "global", color, GlobalIndex(key)>>].depth
                             >= store'[<<bound, "local", color, LocalIndex(t, key)>>].depth
                        \/ /\ pc'[t] \in {"localScore", "replace"}
                           /\ calls'[t].key = key /\ calls'[t].color = color
                           /\ calls'[t].bound = bound
      BY <2>4 DEF Deepest
    <3>1. CASE <<bound, "local", color, LocalIndex(t, key)>> = slot
      BY <1>1, <1>3, <1>4, <3>1 DEF Tagged, SlotOf
    <3>2. CASE <<bound, "local", color, LocalIndex(t, key)>> # slot
      <4>1. /\ store'[<<bound, "local", color, LocalIndex(t, key)>>]
                 = store[<<bound, "local", color, LocalIndex(t, key)>>]
            /\ store'[<<bound, "global", color, GlobalIndex(key)>>]
                 = store[<<bound, "global", color, GlobalIndex(key)>>]
        BY <1>2, <1>3, <2>2, <3>2, PlaceInTable
      <4> QED
        BY <2>1, <2>4, <4>1 DEF Deepest
    <3> QED
      BY <3>1, <3>2
  <2> QED
    BY <2>3, <2>4
<1>7. \A s \in Slots : ~Tears(t, pc[t], calls[t], s)
  BY DEF Tears
<1>8. Tears(t, pc'[t], calls'[t], slot)
  BY <1>1, <1>4 DEF Tears
<1>9. Writing(t, pc'[t], calls'[t], store', proved')
  BY <1>1, <1>2, <1>3, <1>4 DEF Writing
<1>10. /\ Finding(t, pc'[t], calls'[t], taking'[t], store')
       /\ Found(pc'[t], calls'[t], answers'[t], proved')
  BY <1>1, <1>4, WriterFinds DEF WriteStates
<1>11. \A s \in Slots : store'[s] # store[s] => s = slot
  BY <1>3
<1>12. pc[t] \in WriteStates
  BY DEF WriteStates
<1> HIDE DEF slot
<1>13. \A s \in Slots : store'[s] # store[s] =>
         /\ pc[t] \in WriteStates
         /\ \E scope \in {"local", "global"} : s = SlotOf(t, calls[t], scope, calls[t].bound)
  BY <1>11, <1>12 DEF slot
<1> QED
  BY <1>1, <1>4, <1>5, <1>6, <1>7, <1>8, <1>9, <1>10, <1>11, <1>13, ThreadStep

\* The score of an entry: it is whole again.
LEMMA ScoreTable ==
  ASSUME LockInv, TableInv, NEW t \in Threads, NEW scope \in {"local", "global"},
         pc[t] = IF scope = "local" THEN "localScore" ELSE "globalScore",
         CopyScore(SlotOf(t, calls[t], scope, calls[t].bound), calls[t]),
         pc' = [pc EXCEPT ![t] = IF scope = "local" THEN "replace" ELSE "leave"],
         UNCHANGED <<calls, answers, taking, proved>>
  PROVE  TableInv'
<1> DEFINE slot == SlotOf(t, calls[t], scope, calls[t].bound)
<1>0. pc[t] \in WriteStates
  BY DEF WriteStates
<1>1. /\ calls[t] \in Proofs /\ calls[t] \in proved /\ slot \in Slots
      /\ Writing(t, pc[t], calls[t], store, proved)
  BY <1>0, WriterFacts
<1>2. /\ store' \in [Slots -> Entries] /\ \A s \in Slots \ {slot} : store'[s] = store[s]
      /\ store'[slot].proof = calls[t]
      /\ \A s \in Slots : /\ store'[s].key = store[s].key /\ store'[s].clock = store[s].clock
                          /\ store'[s].depth = store[s].depth
                          /\ store'[s].verified = store[s].verified
  BY <1>1, ScoreCopied DEF TableInv, TableTypes
<1>3. /\ pc'[t] = IF scope = "local" THEN "replace" ELSE "leave"
      /\ \A u \in Tasks \ {t} : pc'[u] = pc[u]
  BY DEF LockInv
<1>4. TableTypes'
  BY <1>2 DEF TableInv, TableTypes
<1>5. Tagged(store[slot], calls[t])
  BY <1>1 DEF Writing
<1>6. Honest(store'[slot], slot, proved')
  <2>1. slot[1] = calls[t].bound /\ slot[3] = calls[t].color
    BY DEF SlotOf
  <2> QED
    BY <1>1, <1>2, <1>5, <2>1 DEF Honest, Tagged
<1>7. StoreDeepest'
  <2> SUFFICES ASSUME NEW u \in Threads PROVE Deepest(u, pc'[u], calls'[u], store')
    BY DEF StoreDeepest
  <2>1. Deepest(u, pc[u], calls[u], store) /\ store \in [Slots -> Entries]
    BY DEF TableInv, StoreDeepest, TableTypes
  <2>2. \A color \in Colors, bound \in Bounds, key \in Keys :
          /\ <<bound, "local", color, LocalIndex(u, key)>> \in Slots
          /\ <<bound, "global", color, GlobalIndex(key)>> \in Slots
    BY PlaceInTable
  <2>3. \A s \in Slots : store'[s].depth >= store[s].depth
    BY <1>2, <2>1, EntryDepths
  <2>4. pc[u] \in {"localScore", "replace"} =>
          pc'[u] \in {"localScore", "replace"} /\ calls'[u] = calls[u]
    BY <1>3
  <2> QED
    BY <1>2, <2>1, <2>2, <2>3, <2>4, DeepestKept
<1>8. \A s \in Slots : Tears(t, pc[t], calls[t], s) \/ store'[s] # store[s] => s = slot
  BY <1>2 DEF Tears
<1>9. Writing(t, pc'[t], calls'[t], store', proved')
  BY <1>1, <1>2, <1>3, <1>5 DEF Writing, Tagged, WriteStates
<1>10. /\ Finding(t, pc'[t], calls'[t], taking'[t], store')
       /\ Found(pc'[t], calls'[t], answers'[t], proved')
  BY <1>0, <1>3, WriterFinds DEF WriteStates
<1> HIDE DEF slot
<1>11. \A s \in Slots : store'[s] # store[s] =>
         /\ pc[t] \in WriteStates
         /\ \E kind \in {"local", "global"} : s = SlotOf(t, calls[t], kind, calls[t].bound)
  BY <1>0, <1>8 DEF slot
<1> QED
  BY <1>3, <1>4, <1>6, <1>7, <1>8, <1>9, <1>10, <1>11, ThreadStep

\* The tag of a shared entry: only over one that is not deeper.
LEMMA GlobalTagTable ==
  ASSUME LockInv, TableInv, NEW t \in Threads, pc[t] = "replace", WriteGlobal(t),
         Replaces(t, store[Slot(t, "global", calls[t].bound)])
  PROVE  TableInv'
<1> DEFINE slot == SlotOf(t, calls[t], "global", calls[t].bound)
           private == SlotOf(t, calls[t], "local", calls[t].bound)
<1>0. pc[t] \in WriteStates
  BY DEF WriteStates
<1>1. /\ CopyTag(slot, calls[t]) /\ UNCHANGED <<calls, answers, taking, proved>>
      /\ pc' = [pc EXCEPT ![t] = "globalScore"] /\ calls[t].depth >= store[slot].depth
  BY SlotIsSlotOf DEF WriteGlobal, Replaces
<1>2. /\ calls[t] \in Proofs /\ calls[t] \in proved /\ slot \in Slots
      /\ Writing(t, pc[t], calls[t], store, proved)
  BY <1>0, WriterFacts
<1>3. /\ store' \in [Slots -> Entries] /\ \A s \in Slots \ {slot} : store'[s] = store[s]
      /\ Tagged(store'[slot], calls[t])
  BY <1>1, <1>2, TagCopied DEF TableInv, TableTypes
<1>4. pc'[t] = "globalScore" /\ \A u \in Tasks \ {t} : pc'[u] = pc[u]
  BY <1>1 DEF LockInv
<1>5. TableTypes'
  BY <1>1, <1>3 DEF TableInv, TableTypes
<1>6. Tagged(store[private], calls[t]) /\ private # slot
  BY <1>2 DEF Writing, SlotOf
<1>7. StoreDeepest'
  <2> SUFFICES ASSUME NEW u \in Threads, NEW key \in Keys, NEW bound \in Bounds,
                      NEW color \in Colors,
                      store'[<<bound, "local", color, LocalIndex(u, key)>>].key = key,
                      store'[<<bound, "local", color, LocalIndex(u, key)>>].verified
               PROVE  \/ store'[<<bound, "global", color, GlobalIndex(key)>>].depth
                           >= store'[<<bound, "local", color, LocalIndex(u, key)>>].depth
                      \/ /\ pc'[u] \in {"localScore", "replace"}
                         /\ calls'[u].key = key /\ calls'[u].color = color
                         /\ calls'[u].bound = bound
    BY DEF StoreDeepest, Deepest
  <2> DEFINE own == <<bound, "local", color, LocalIndex(u, key)>>
             shared == <<bound, "global", color, GlobalIndex(key)>>
  <2>1. own \in Slots /\ shared \in Slots /\ own # slot
    BY PlaceInTable DEF SlotOf
  <2>2. store'[own] = store[own] /\ store[own].key = key /\ store[own].verified
    BY <1>3, <2>1
  <2>3. \/ store[shared].depth >= store[own].depth
        \/ /\ pc[u] \in {"localScore", "replace"}
           /\ calls[u].key = key /\ calls[u].color = color /\ calls[u].bound = bound
    BY <2>2 DEF TableInv, StoreDeepest, Deepest
  <2>4. /\ store[shared].depth \in Int /\ store[own].depth \in Int
        /\ store'[shared].depth \in Int
    BY <1>3, <2>1, EntryDepths DEF TableInv, TableTypes
  <2>5. store'[shared].depth >= store[shared].depth
    BY <1>1, <1>3, <2>1, <2>4 DEF Tagged
  <2>6. CASE store[shared].depth >= store[own].depth
    BY <2>2, <2>4, <2>5, <2>6
  <2>7. CASE /\ pc[u] \in {"localScore", "replace"}
             /\ calls[u].key = key /\ calls[u].color = color /\ calls[u].bound = bound
    <3>1. CASE u = t
      <4>1. own = private /\ shared = slot
        BY <2>7, <3>1 DEF SlotOf
      <4>2. store'[shared].depth = calls[t].depth /\ store[own].depth = calls[t].depth
        BY <1>3, <1>6, <4>1 DEF Tagged
      <4> QED
        BY <2>2, <2>4, <4>2
    <3>2. CASE u # t
      BY <1>1, <1>4, <2>7, <3>2
    <3> QED
      BY <3>1, <3>2
  <2> QED
    BY <2>3, <2>6, <2>7
<1>8. \A s \in Slots : ~Tears(t, pc[t], calls[t], s)
  BY DEF Tears
<1>9. Tears(t, pc'[t], calls'[t], slot)
  BY <1>1, <1>4 DEF Tears
<1>10. Writing(t, pc'[t], calls'[t], store', proved')
  BY <1>1, <1>2, <1>3, <1>4 DEF Writing
<1>11. /\ Finding(t, pc'[t], calls'[t], taking'[t], store')
       /\ Found(pc'[t], calls'[t], answers'[t], proved')
  BY <1>0, <1>1, <1>4, WriterFinds DEF WriteStates
<1>12. \A s \in Slots : store'[s] # store[s] => s = slot
  BY <1>3
<1> HIDE DEF slot
<1>13. \A s \in Slots : store'[s] # store[s] =>
         /\ pc[t] \in WriteStates
         /\ \E scope \in {"local", "global"} : s = SlotOf(t, calls[t], scope, calls[t].bound)
  BY <1>0, <1>12 DEF slot
<1> QED
  BY <1>1, <1>4, <1>5, <1>7, <1>8, <1>9, <1>10, <1>11, <1>12, <1>13, ThreadStep

\* What is not verified, or not as deep, stays private.
LEMMA KeepTable ==
  ASSUME LockInv, TableInv, NEW t \in Threads, pc[t] = "replace", WriteGlobal(t),
         ~Replaces(t, store[Slot(t, "global", calls[t].bound)])
  PROVE  TableInv'
<1> DEFINE slot == SlotOf(t, calls[t], "global", calls[t].bound)
           private == SlotOf(t, calls[t], "local", calls[t].bound)
<1>0. pc[t] \in WriteStates
  BY DEF WriteStates
<1>1. /\ UNCHANGED <<calls, answers, taking, proved, store>>
      /\ pc' = [pc EXCEPT ![t] = "leave"]
      /\ ~(calls[t].verified /\ calls[t].depth >= store[slot].depth)
  BY SlotIsSlotOf DEF WriteGlobal, Replaces
<1>2. /\ calls[t] \in Proofs /\ slot \in Slots /\ private \in Slots
      /\ Writing(t, pc[t], calls[t], store, proved)
  BY <1>0, WriterFacts
<1>3. pc'[t] = "leave" /\ \A u \in Tasks \ {t} : pc'[u] = pc[u]
  BY <1>1 DEF LockInv
<1>4. TableTypes'
  BY <1>1 DEF TableInv, TableTypes
<1>5. Tagged(store[private], calls[t])
  BY <1>2 DEF Writing
<1>6. store[slot].depth \in Int /\ store[private].depth \in Int
  BY <1>2, EntryDepths DEF TableInv, TableTypes
<1>7. store[private].verified => store[slot].depth >= store[private].depth
  BY <1>1, <1>5, <1>6 DEF Tagged
<1>8. StoreDeepest'
  <2> SUFFICES ASSUME NEW u \in Threads PROVE Deepest(u, pc'[u], calls'[u], store')
    BY DEF StoreDeepest
  <2>1. Deepest(u, pc[u], calls[u], store)
    BY DEF TableInv, StoreDeepest
  <2>2. CASE u # t
    <3>1. pc'[u] = pc[u] /\ calls'[u] = calls[u] /\ store' = store
      BY <1>1, <1>3, <2>2
    <3> QED
      BY <2>1, <3>1
  <2>3. CASE u = t
    <3>1. \A key \in Keys, bound \in Bounds, color \in Colors :
            calls[t].key = key /\ calls[t].color = color /\ calls[t].bound = bound =>
              /\ <<bound, "local", color, LocalIndex(t, key)>> = private
              /\ <<bound, "global", color, GlobalIndex(key)>> = slot
      BY DEF SlotOf
    <3> HIDE DEF slot, private
    <3> QED
      BY <1>1, <1>7, <2>1, <2>3, <3>1 DEF Deepest
  <2> QED
    BY <2>2, <2>3
<1>9. \A s \in Slots : ~Tears(t, pc[t], calls[t], s)
  BY DEF Tears
<1>10. Writing(t, pc'[t], calls'[t], store', proved')
  BY <1>3, StateNames DEF Writing
<1>11. /\ Finding(t, pc'[t], calls'[t], taking'[t], store')
       /\ Found(pc'[t], calls'[t], answers'[t], proved')
  BY <1>0, <1>1, <1>3, WriterFinds
<1> QED
  BY <1>1, <1>3, <1>4, <1>8, <1>9, <1>10, <1>11, ThreadStep

LEMMA SearchTable ==
  ASSUME LockInv, TableInv, NEW t \in Threads, Search(t)
  PROVE  TableInv'
<1>1. CASE WriteLocal(t)
  <2>1. CASE pc[t] = "localTag"
    BY <1>1, <2>1, LocalTagTable
  <2>2. CASE pc[t] = "localScore"
    BY <1>1, <2>2, ScoreTable, SlotIsSlotOf DEF WriteLocal
  <2> QED
    BY <1>1, <2>1, <2>2 DEF WriteLocal
<1>2. CASE WriteGlobal(t)
  <2>1. CASE pc[t] = "replace"
    BY <1>2, <2>1, GlobalTagTable, KeepTable
  <2>2. CASE pc[t] = "globalScore"
    BY <1>2, <2>2, ScoreTable, SlotIsSlotOf DEF WriteGlobal
  <2> QED
    BY <1>2, <2>1, <2>2 DEF WriteGlobal
<1> QED
  BY <1>1, <1>2, AcquireTable, ReleaseTable, FindTable, TakeTable DEF Search

LEMMA EmptyEntryType == EmptyEntry \in Entries /\ EmptyEntry.depth = -1 /\ ~EmptyEntry.verified
BY DEF EmptyEntry, Entries, Proofs, NoProof

\* A reset, one store after the other, with every lock held.
LEMMA ClearTable ==
  ASSUME LockInv, TableInv, NEW m \in Maintainers, ClearStore(m)
  PROVE  TableInv'
<1>1. /\ pc[m] \in DOMAIN Sweep /\ pc' = [pc EXCEPT ![m] = Sweep[pc[m]].next]
      /\ store' = [s \in Slots |->
                     IF <<s[1], s[2]>> = Sweep[pc[m]].cells THEN EmptyEntry ELSE store[s]]
      /\ UNCHANGED <<calls, answers, taking, proved>>
  BY DEF ClearStore
<1>2. pc[m] \in SweepStates /\ m \in Tasks /\ m \notin Threads
  BY <1>1, DimensionsAssumption DEF Sweep, SweepStates
<1>3. /\ \A t \in Threads : pc[t] \notin ThreadInside /\ pc'[t] = pc[t]
      /\ \A n \in Maintainers \ {m} : pc[n] \notin SweepStates /\ pc'[n] = pc[n]
      /\ pc'[m] = Sweep[pc[m]].next
  BY <1>1, <1>2, SweepsAlone DEF LockInv
<1>4. TableTypes'
  <2>1. store' \in [Slots -> Entries]
    BY <1>1, EmptyEntryType DEF TableInv, TableTypes
  <2> QED
    BY <1>1, <2>1 DEF TableInv, TableTypes
<1>5. \A s \in Slots : store'[s] = EmptyEntry \/ store'[s] = store[s]
  BY <1>1
<1>6. \A t \in Threads, s \in Slots : ~Tears(t, pc[t], calls[t], s)
  BY <1>3, StateNames DEF Tears, WriteStates
<1>7. StoreHonest'
  BY <1>1, <1>5, <1>6, EmptyEntryType DEF TableInv, StoreHonest, Honest
<1>8. TasksTrue'
  <2> SUFFICES ASSUME NEW t \in Threads
               PROVE  /\ Writing(t, pc'[t], calls'[t], store', proved')
                      /\ Finding(t, pc'[t], calls'[t], taking'[t], store')
                      /\ Found(pc'[t], calls'[t], answers'[t], proved')
    BY DEF TasksTrue
  <2>1. pc'[t] \notin WriteStates /\ \A bound \in Bounds : pc'[t] # TakeState(bound)
    BY <1>3, StateNames
  <2>2. Found(pc[t], calls[t], answers[t], proved)
    BY DEF TableInv, TasksTrue
  <2> QED
    BY <1>1, <1>3, <2>1, <2>2 DEF Writing, Finding, Found, WriteStates
<1>9. \A s \in Slots : Cleared(pc'[m], s) => store'[s] = EmptyEntry
  <2> SUFFICES ASSUME NEW s \in Slots, Cleared(pc'[m], s) PROVE store'[s] = EmptyEntry
    OBVIOUS
  <2>1. Cleared(pc[m], s) \/ <<s[1], s[2]>> = Sweep[pc[m]].cells
    BY <1>1, <1>3 DEF Cleared, Sweep, SweepStates
  <2> QED
    BY <1>1, <2>1 DEF TableInv, Sweeping
<1>10. Sweeping'
  <2>1. ASSUME NEW n \in Maintainers \ {m}, NEW s PROVE ~Cleared(pc'[n], s)
    BY <1>3 DEF Cleared, SweepStates
  <2> QED
    BY <1>9, <2>1 DEF Sweeping
<1>11. StoreDeepest'
  <2> SUFFICES ASSUME NEW t \in Threads, NEW key \in Keys, NEW bound \in Bounds,
                      NEW color \in Colors,
                      store'[<<bound, "local", color, LocalIndex(t, key)>>].key = key,
                      store'[<<bound, "local", color, LocalIndex(t, key)>>].verified
               PROVE  store'[<<bound, "global", color, GlobalIndex(key)>>].depth
                        >= store'[<<bound, "local", color, LocalIndex(t, key)>>].depth
    BY DEF StoreDeepest, Deepest
  <2> DEFINE own == <<bound, "local", color, LocalIndex(t, key)>>
             shared == <<bound, "global", color, GlobalIndex(key)>>
  <2>1. own \in Slots /\ shared \in Slots
    BY PlaceInTable
  <2>2. store'[own] = store[own] /\ store[own] # EmptyEntry
    BY <1>5, <2>1, EmptyEntryType
  <2>3. store'[shared] = store[shared]
    <3>1. CASE Sweep[pc[m]].cells = <<bound, "global">>
      <4>1. Cleared(pc[m], own)
        <5>1. \/ pc[m] = "upperGlobal" /\ bound = "upper"
              \/ pc[m] = "lowerGlobal" /\ bound = "lower"
          BY <1>1, <3>1 DEF Sweep, Bounds
        <5>2. own[1] = bound /\ own[2] = "local"
          OBVIOUS
        <5> QED
          BY <5>1, <5>2 DEF Cleared, SweepStates
      <4> QED
        BY <2>1, <2>2, <4>1 DEF TableInv, Sweeping
    <3>2. CASE Sweep[pc[m]].cells # <<bound, "global">>
      BY <1>1, <2>1, <3>2
    <3> QED
      BY <3>1, <3>2
  <2>4. pc[t] \notin {"localScore", "replace"}
    BY <1>3, StateNames DEF WriteStates
  <2> QED
    BY <2>2, <2>3, <2>4 DEF TableInv, StoreDeepest, Deepest
<1> QED
  BY <1>4, <1>7, <1>8, <1>10, <1>11 DEF TableInv

LEMMA UnlockTable ==
  ASSUME LockInv, TableInv, NEW m \in Maintainers, UnlockAll(m)
  PROVE  TableInv'
<1>1. /\ pc[m] = "unlock" /\ pc' = [pc EXCEPT ![m] = "idle"] /\ proved' = {}
      /\ UNCHANGED <<calls, answers, taking, store>>
  BY DEF UnlockAll
<1>2. pc[m] \in SweepStates /\ m \in Tasks /\ m \notin Threads
  BY <1>1, DimensionsAssumption DEF SweepStates
<1>3. /\ \A t \in Threads : pc[t] \notin ThreadInside /\ pc'[t] = pc[t]
      /\ \A n \in Maintainers : pc'[n] \notin SweepStates
  <2>1. "idle" \notin SweepStates /\ \A n \in Maintainers : n \in Tasks
    BY DEF SweepStates
  <2> QED
    BY <1>1, <1>2, <2>1, SweepsAlone DEF LockInv
<1>4. \A s \in Slots : store[s] = EmptyEntry
  BY <1>1 DEF TableInv, Sweeping, Cleared, SweepStates, Slots, Bounds
<1>5. TableTypes' /\ StoreHonest'
  BY <1>1, <1>4, EmptyEntryType DEF TableInv, TableTypes, StoreHonest, Honest
<1>6. TasksTrue'
  <2> SUFFICES ASSUME NEW t \in Threads
               PROVE  /\ Writing(t, pc'[t], calls'[t], store', proved')
                      /\ Finding(t, pc'[t], calls'[t], taking'[t], store')
                      /\ Found(pc'[t], calls'[t], answers'[t], proved')
    BY DEF TasksTrue
  <2>1. pc'[t] \notin WriteStates /\ \A bound \in Bounds : pc'[t] # TakeState(bound)
    BY <1>3, StateNames
  <2>2. answers[t] = {}
    BY <1>3, StateNames DEF TableInv, TasksTrue, Found
  <2> QED
    BY <1>1, <2>1, <2>2 DEF Writing, Finding, Found, WriteStates
<1>7. Sweeping'
  BY <1>1, <1>4 DEF Sweeping
<1>8. StoreDeepest'
  BY <1>1, <1>3 DEF TableInv, StoreDeepest
<1> QED
  BY <1>5, <1>6, <1>7, <1>8 DEF TableInv

LEMMA ResetTable ==
  ASSUME LockInv, TableInv, NEW m \in Maintainers, Reset(m)
  PROVE  TableInv'
<1>1. CASE BeginReset(m) \/ LockNext(m)
  <2>1. /\ UNCHANGED <<calls, answers, taking, store, proved>>
        /\ \E x \in {"lockAll", "upperLocal"} : pc' = [pc EXCEPT ![m] = x]
    BY <1>1 DEF BeginReset, LockNext, Locked
  <2>2. m \in Tasks /\ m \notin Threads
    BY DimensionsAssumption
  <2>3. /\ \A u \in Tasks \ {m} : pc'[u] = pc[u]
        /\ pc'[m] \in {"lockAll", "upperLocal"}
    BY <2>1, <2>2 DEF LockInv
  <2>4. \A t \in Threads : pc'[t] = pc[t]
    BY <2>2, <2>3
  <2>5. TableTypes' /\ StoreHonest' /\ TasksTrue' /\ StoreDeepest'
    BY <2>1, <2>4 DEF TableInv, TableTypes, StoreHonest, TasksTrue, StoreDeepest
  <2>6. Sweeping'
    <3>1. \A s : ~Cleared(pc'[m], s)
      BY <2>3 DEF Cleared, SweepStates
    <3> QED
      BY <2>1, <2>3, <3>1 DEF TableInv, Sweeping
  <2> QED
    BY <2>5, <2>6 DEF TableInv
<1> QED
  BY <1>1, ClearTable, UnlockTable DEF Reset

LEMMA TableStep == LockInv /\ TableInv /\ [Next]_vars => TableInv'
<1> SUFFICES ASSUME LockInv, TableInv, [Next]_vars PROVE TableInv'
  OBVIOUS
<1>1. CASE UNCHANGED vars
  BY <1>1 DEF vars, TableInv, TableTypes, StoreHonest, TasksTrue, StoreDeepest, Sweeping
<1> QED
  BY <1>1, SearchTable, ResetTable DEF Next

LEMMA TableInit == Init => TableInv
<1> SUFFICES ASSUME Init PROVE TableInv
  OBVIOUS
<1>1. /\ \A s \in Slots : store[s] = EmptyEntry
      /\ \A t \in Tasks : pc[t] = "idle"
      /\ \A t \in Threads : answers[t] = {}
  BY DEF Init
<1>2. TableTypes /\ StoreHonest
  BY <1>1, EmptyEntryType DEF Init, TableTypes, StoreHonest, Honest
<1>3. TasksTrue
  BY <1>1, StateNames DEF TasksTrue, Writing, Finding, Found, WriteStates, ReadStates
<1>4. StoreDeepest
  <2> SUFFICES ASSUME NEW t \in Threads, NEW key \in Keys, NEW bound \in Bounds,
                      NEW color \in Colors
               PROVE  ~store[<<bound, "local", color, LocalIndex(t, key)>>].verified
    BY DEF StoreDeepest, Deepest
  <2> QED
    BY <1>1, PlaceInTable, EmptyEntryType
<1>5. Sweeping
  BY <1>1 DEF Sweeping
<1> QED
  BY <1>2, <1>3, <1>4, <1>5 DEF TableInv

LEMMA TableInvariant == Spec => [](LockInv /\ TableInv)
BY LocksInit, LocksNext, TableInit, TableStep, PTL DEF Spec

\* What a read returns was proved since the last reset, for the position, clock and
\* side asked about, at least as deep, and verified where that was asked for.
THEOREM TableAnswersProved == Spec => []AnswersProved
<1>1. TableInv => AnswersProved
  BY DEF TableInv, TasksTrue, Found, Proves, AnswersProved
<1> QED
  BY <1>1, TableInvariant, PTL

\* The shared slot a read looks at first holds nothing shallower than a private slot
\* that it hides.
THEOREM SharedNeverShallower == Spec => []SharedSlotsDeepest
<1>1. LockInv /\ TableInv => SharedSlotsDeepest
  <2> SUFFICES ASSUME LockInv, TableInv, NEW t \in Threads, NEW key \in Keys,
                      NEW bound \in Bounds, NEW color \in Colors,
                      holders[LockOf(key)] = Nobody,
                      store[<<bound, "local", color, LocalIndex(t, key)>>].key = key,
                      store[<<bound, "local", color, LocalIndex(t, key)>>].verified
               PROVE  store[<<bound, "global", color, GlobalIndex(key)>>].depth
                        >= store[<<bound, "local", color, LocalIndex(t, key)>>].depth
    BY DEF SharedSlotsDeepest
  <2>1. ~(pc[t] \in {"localScore", "replace"} /\ calls[t].key = key)
    <3>1. pc[t] \in {"localScore", "replace"} => pc[t] \in ThreadInside
      BY DEF ThreadInside, WriteStates
    <3> QED
      BY <3>1, DimensionsAssumption DEF LockInv
  <2> QED
    BY <2>1 DEF TableInv, StoreDeepest, Deepest
<1> QED
  BY <1>1, TableInvariant, PTL

=============================================================================
