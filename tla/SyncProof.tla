----------------------------- MODULE SyncProof ------------------------------
(***************************************************************************)
(* Locks are safe for any number of threads, processes and locks, any       *)
(* priorities and any nesting depth: the invariants of Sync.tla are         *)
(* inductive, and Sync implements both the client of Thread.tla and Mutex.  *)
(***************************************************************************)
EXTENDS Sync, ThreadProof

(* The initial state satisfies the invariant.                               *)
LEMMA SyncInitInv == SyncInit => SyncInv
<1> SUFFICES ASSUME SyncInit PROVE SyncInv
  OBVIOUS
<1> USE ThreadAssumption, SyncAssumption
<1>1. ThreadInv
  BY ThreadInit DEF SyncInit
<1>2. SyncTypeOK
  <2>1. /\ value \in [Locks -> 0..255] /\ depth \in [Threads -> 0..MaxNest]
        /\ holderRepeatNr \in [Locks -> Nat]
    BY DEF SyncInit
  <2>2. waiters \in [Locks -> Seq(Threads)]
    BY DEF SyncInit
  <2>3. /\ holder \in [Locks -> Threads \cup {NULL}]
        /\ pc \in [Threads -> PC] /\ want \in [Threads -> Locks]
        /\ outer \in [Threads -> {"ON", "OFF"}]
    BY DEF SyncInit, PC
  <2> QED
    BY <1>1, <2>1, <2>2, <2>3 DEF SyncTypeOK, ThreadInv
<1>3. \A t \in Threads : pc[t] = "run" /\ depth[t] = 0 /\ frame[t] # "block"
  BY DEF SyncInit, Init
<1>4. \A l \in Locks : value[l] = 1 /\ holder[l] = NULL /\ holderRepeatNr[l] = 0
  BY DEF SyncInit
<1>5. PlaceInv /\ IntrInv /\ BootInv
  BY <1>3 DEF PlaceInv, IntrInv, BootInv
<1>6. HolderInv
  BY <1>3, <1>4 DEF HolderInv
<1>7. MutualExclusion
  BY <1>3, <1>4 DEF MutualExclusion, Owns
<1>8. WaitersExact /\ NoLostWakeup
  <2>1. \A l \in Locks : waiters[l] = <<>>
    BY DEF SyncInit
  <2> QED
    BY <1>3, <2>1 DEF WaitersExact, NoLostWakeup, IsInjective, Range
<1> QED
  BY <1>1, <1>2, <1>5, <1>6, <1>7, <1>8 DEF SyncInv

-----------------------------------------------------------------------------
(* Steps that touch nothing of the scheduler.                              *)

(* A step of the running thread outside the loop of __semaDown, which       *)
(* leaves the threads, the waiters and the count alone, keeps what is said  *)
(* of IF, of the boot and of the waiters.                                   *)
LEMMA FlowKeeps ==
  ASSUME SyncInv, Live, UNCHANGED thread_vars, UNCHANGED <<value, waiters>>,
         pc[cur] # "loop", NEW q \in PC \ {"loop"}, pc' = [pc EXCEPT ![cur] = q],
         NEW w \in Locks, want' = [want EXCEPT ![cur] = w],
         NEW d \in 0..MaxNest, depth' = [depth EXCEPT ![cur] = d],
         cur = Main => intr = "OFF"
  PROVE  /\ ThreadInv' /\ IntrInv' /\ BootInv' /\ WaitersExact' /\ NoLostWakeup'
         /\ pc' \in [Threads -> PC] /\ want' \in [Threads -> Locks]
         /\ depth' \in [Threads -> 0..MaxNest]
<1> USE ThreadAssumption
<1>1. ThreadInv'
  BY ThreadStep DEF SyncInv
<1>2. /\ cur \in Threads /\ frame[cur] = "live"
      /\ pc \in [Threads -> PC] /\ want \in [Threads -> Locks]
      /\ depth \in [Threads -> 0..MaxNest]
  BY DEF SyncInv, SyncTypeOK, ThreadInv, TypeOK, Live
<1>3. /\ pc'[cur] = q /\ want'[cur] = w /\ depth'[cur] = d
      /\ \A t \in Threads \ {cur} : pc'[t] = pc[t] /\ want'[t] = want[t] /\ depth'[t] = depth[t]
  BY <1>2
<1>4. /\ intr' = intr /\ cur' = cur /\ status' = status /\ frame' = frame
      /\ old' = old /\ panic' = panic
  BY DEF thread_vars
<1>5. IntrInv'
  <2>1. status[cur] # "FREE"
    BY <1>2 DEF SyncInv, ThreadInv, OneRunning, NoPanic
  <2> QED
    BY <2>1, <1>2, <1>3, <1>4 DEF SyncInv, IntrInv
<1>6. BootInv'
  <2>1. CASE cur = Main
    BY <1>2, <1>3, <1>4, <2>1 DEF SyncInv, BootInv
  <2>2. CASE cur # Main
    <3>1. pc[Main] = "run" /\ depth[Main] = 0
      BY <1>2, <2>2 DEF SyncInv, BootInv
    <3>2. pc'[Main] = "run" /\ depth'[Main] = 0
      BY <3>1, <2>2, <1>3
    <3> QED
      BY <3>2, <2>2, <1>4 DEF BootInv
  <2> QED
    BY <2>1, <2>2
<1>7. WaitersExact'
  <2>1. \A l \in Locks :
          {t \in Threads : want'[t] = l /\ pc'[t] = "loop" /\ status'[t] = "BLOCKED"}
            = {t \in Threads : want[t] = l /\ pc[t] = "loop" /\ status[t] = "BLOCKED"}
    BY <1>3, <1>4
  <2> QED
    BY <2>1, <1>4 DEF SyncInv, WaitersExact
<1>8. NoLostWakeup'
  BY <1>2, <1>3, <1>4 DEF SyncInv, NoLostWakeup
<1> QED
  BY <1>1, <1>2, <1>5, <1>6, <1>7, <1>8

(* A step that changes no thread's ownership keeps mutual exclusion.        *)
LEMMA SameOwners ==
  ASSUME MutualExclusion, value' = value,
         \A t \in Threads, l \in Locks : Owns(t, l)' <=> Owns(t, l)
  PROVE  MutualExclusion'
BY DEF MutualExclusion

(* A thread that has its lock is the one that has it.                       *)
LEMMA OnlyOwner ==
  ASSUME SyncInv, NEW t \in Threads, NEW l \in Locks, Owns(t, l)
  PROVE  value[l] = 0 /\ \A u \in Threads : Owns(u, l) => u = t
BY DEF SyncInv, MutualExclusion

(* A thread that does not have the lock it wants is at none of the places   *)
(* where the lock is written.                                               *)
LEMMA NotOwner ==
  ASSUME SyncInv, NEW t \in Threads, ~Owns(t, want[t])
  PROVE  depth[t] = 0 /\ pc[t] \notin {"own", "count", "again", "release", "clear", "up"}
BY DEF Owns, SyncInv, PlaceInv, SyncTypeOK

(* The holder field names a thread only if that thread has the lock.        *)
LEMMA HolderOwns ==
  ASSUME SyncInv, NEW l \in Locks, holder[l] # NULL
  PROVE  holder[l] \in Threads /\ Owns(holder[l], l)
<1>1. value[l] = 0
  BY DEF SyncInv, HolderInv
<1>2. PICK t \in Threads : Owns(t, l)
  BY <1>1 DEF SyncInv, MutualExclusion
<1>3. want[t] = l /\ (depth[t] > 0 \/ pc[t] \in {"own", "count"})
  BY <1>2 DEF Owns
<1>4. pc[t] \in PC
  BY DEF SyncInv, SyncTypeOK
<1>5. pc[t] \notin {"down", "loop"}
  BY <1>3 DEF SyncInv, PlaceInv
<1>6. pc[t] \notin {"own", "clear", "up"}
  BY <1>3 DEF SyncInv, HolderInv
<1>7. CASE pc[t] = "count"
  BY <1>2, <1>3, <1>7 DEF SyncInv, HolderInv
<1>8. CASE pc[t] \in {"run", "acquire", "again", "release"}
  BY <1>2, <1>3, <1>8 DEF SyncInv, HolderInv
<1> QED
  BY <1>4, <1>5, <1>6, <1>7, <1>8 DEF PC

(* __lockAcquire is called.                                                 *)
LEMMA CallAcquireKeepsInv == SyncInv /\ CallAcquire => SyncInv'
<1> SUFFICES ASSUME SyncInv, CallAcquire PROVE SyncInv'
  OBVIOUS
<1>1. PICK w \in Locks : (depth[cur] > 0 => w = L) /\ want' = [want EXCEPT ![cur] = w]
  BY DEF CallAcquire
<1>2. /\ Live /\ pc[cur] = "run" /\ depth[cur] < MaxNest /\ (cur = Main => intr = "OFF")
      /\ pc' = [pc EXCEPT ![cur] = "acquire"]
      /\ UNCHANGED <<thread_vars, lock_vars, outer, depth>>
  BY DEF CallAcquire, At, Goto
<1>3. /\ cur \in Threads /\ depth \in [Threads -> 0..MaxNest] /\ want \in [Threads -> Locks]
      /\ pc \in [Threads -> PC]
  BY DEF SyncInv, SyncTypeOK, ThreadInv, TypeOK
<1>4. depth' = [depth EXCEPT ![cur] = depth[cur]] /\ depth[cur] \in 0..MaxNest
  BY <1>2, <1>3
<1>5. /\ ThreadInv' /\ IntrInv' /\ BootInv' /\ WaitersExact' /\ NoLostWakeup'
      /\ pc' \in [Threads -> PC] /\ want' \in [Threads -> Locks]
      /\ depth' \in [Threads -> 0..MaxNest]
  <2>1. "acquire" \in PC \ {"loop"} /\ pc[cur] # "loop"
    BY <1>2 DEF PC
  <2>2. UNCHANGED thread_vars /\ UNCHANGED <<value, waiters>>
    BY <1>2 DEF lock_vars
  <2> QED
    BY <1>1, <1>2, <1>3, <1>4, <2>1, <2>2, FlowKeeps
<1>6. /\ pc'[cur] = "acquire" /\ want'[cur] = w /\ depth' = depth
      /\ \A t \in Threads \ {cur} : pc'[t] = pc[t] /\ want'[t] = want[t]
      /\ value' = value /\ holder' = holder /\ holderRepeatNr' = holderRepeatNr
      /\ waiters' = waiters /\ outer' = outer
  BY <1>1, <1>2, <1>3 DEF lock_vars
<1>7. SyncTypeOK'
  BY <1>5, <1>6 DEF SyncInv, SyncTypeOK, ThreadInv
<1>8. PlaceInv'
  BY <1>2, <1>3, <1>6 DEF SyncInv, PlaceInv
<1>9. HolderInv'
  <2>1. ASSUME NEW t \in Threads, t # cur PROVE
          /\ pc'[t] = pc[t] /\ want'[t] = want[t] /\ depth'[t] = depth[t]
    BY <1>6, <2>1
  <2>2. depth[cur] > 0 => holder[w] = cur /\ holderRepeatNr[w] = depth[cur]
    BY <1>1, <1>2, <1>3 DEF SyncInv, HolderInv, L
  <2> QED
    BY <2>1, <2>2, <1>6 DEF SyncInv, HolderInv
<1>10. MutualExclusion'
  <2>1. \A t \in Threads, l \in Locks : Owns(t, l)' <=> Owns(t, l)
    BY <1>1, <1>2, <1>3, <1>6 DEF Owns, L
  <2> QED
    BY <2>1, <1>6, SameOwners DEF SyncInv
<1> QED
  BY <1>5, <1>7, <1>8, <1>9, <1>10 DEF SyncInv

(* The same for a step that stays with its lock and may write its fields.   *)
LEMMA FlowStep ==
  ASSUME SyncInv, NEW place \in PC \ {"loop"}, At(place),
         place = "run" => (cur = Main => intr = "OFF"),
         NEW q \in PC \ {"loop"}, pc' = [pc EXCEPT ![cur] = q],
         NEW d \in 0..MaxNest, depth' = [depth EXCEPT ![cur] = d],
         holder' \in [Locks -> Threads \cup {NULL}],
         holderRepeatNr' \in [Locks -> Nat],
         UNCHANGED <<thread_vars, value, waiters, want, outer>>
  PROVE  /\ ThreadInv' /\ SyncTypeOK' /\ IntrInv' /\ BootInv'
         /\ WaitersExact' /\ NoLostWakeup'
         /\ cur \in Threads /\ L \in Locks /\ pc[cur] = place
         /\ pc'[cur] = q /\ depth'[cur] = d /\ want' = want
         /\ \A t \in Threads \ {cur} : pc'[t] = pc[t] /\ depth'[t] = depth[t]
<1>1. /\ cur \in Threads /\ want \in [Threads -> Locks] /\ pc \in [Threads -> PC]
      /\ depth \in [Threads -> 0..MaxNest] /\ pc[cur] = place /\ Live
  BY DEF SyncInv, SyncTypeOK, ThreadInv, TypeOK, At
<1>2. want' = [want EXCEPT ![cur] = L] /\ L \in Locks
  BY <1>1 DEF L
<1>3. cur = Main => intr = "OFF"
  BY <1>1 DEF SyncInv, BootInv
<1>4. UNCHANGED thread_vars /\ UNCHANGED <<value, waiters>>
  OBVIOUS
<1>5. /\ ThreadInv' /\ IntrInv' /\ BootInv' /\ WaitersExact' /\ NoLostWakeup'
      /\ pc' \in [Threads -> PC] /\ want' \in [Threads -> Locks]
      /\ depth' \in [Threads -> 0..MaxNest]
  BY <1>1, <1>2, <1>3, <1>4, FlowKeeps
<1>6. SyncTypeOK'
  BY <1>5 DEF SyncInv, SyncTypeOK, ThreadInv
<1> QED
  BY <1>1, <1>2, <1>5, <1>6

(* sync.c:48 only finds its own thread in holder if that has the lock.      *)
LEMMA AcquireTestKeepsInv == SyncInv /\ AcquireTest => SyncInv'
<1> SUFFICES ASSUME SyncInv, AcquireTest PROVE SyncInv'
  OBVIOUS
<1> DEFINE q == IF holder[L] # cur THEN "down" ELSE "again"
<1>1. /\ At("acquire") /\ pc' = [pc EXCEPT ![cur] = q]
      /\ UNCHANGED <<thread_vars, value, waiters, holder, holderRepeatNr, want, outer, depth>>
  BY DEF AcquireTest, Goto, lock_vars
<1>2. depth' = [depth EXCEPT ![cur] = depth[cur]] /\ depth[cur] \in 0..MaxNest
  BY <1>1 DEF SyncInv, SyncTypeOK, ThreadInv, TypeOK
<1>3. /\ holder' \in [Locks -> Threads \cup {NULL}] /\ holderRepeatNr' \in [Locks -> Nat]
      /\ q \in PC \ {"loop"} /\ "acquire" \in PC \ {"loop"}
  BY <1>1 DEF SyncInv, SyncTypeOK, PC
<1>4. /\ ThreadInv' /\ SyncTypeOK' /\ IntrInv' /\ BootInv' /\ WaitersExact' /\ NoLostWakeup'
      /\ cur \in Threads /\ L \in Locks /\ pc[cur] = "acquire"
      /\ pc'[cur] = q /\ depth'[cur] = depth[cur] /\ want' = want
      /\ \A t \in Threads \ {cur} : pc'[t] = pc[t] /\ depth'[t] = depth[t]
  <2> HIDE DEF q
  <2> QED
    BY <1>1, <1>2, <1>3, FlowStep
<1>5. depth[cur] > 0 <=> holder[L] = cur
  <2>1. depth[cur] > 0 => holder[L] = cur
    BY <1>4 DEF SyncInv, HolderInv, L
  <2>2. ASSUME holder[L] = cur PROVE depth[cur] > 0
    <3>1. Owns(cur, L)
      BY <2>2, <1>4, HolderOwns, ThreadAssumption
    <3> QED
      BY <3>1, <1>4 DEF Owns
  <2> QED
    BY <2>1, <2>2
<1>6. PlaceInv'
  BY <1>2, <1>4, <1>5 DEF SyncInv, PlaceInv
<1>7. HolderInv'
  BY <1>1, <1>4, <1>5 DEF SyncInv, HolderInv
<1>8. MutualExclusion'
  <2>1. \A t \in Threads, l \in Locks : Owns(t, l)' <=> Owns(t, l)
    BY <1>4 DEF Owns
  <2> QED
    BY <2>1, <1>1, SameOwners DEF SyncInv
<1> QED
  BY <1>4, <1>6, <1>7, <1>8 DEF SyncInv

(* sync.c:50 writes into the lock that the thread has just got.             *)
LEMMA AcquireOwnKeepsInv == SyncInv /\ AcquireOwn => SyncInv'
<1> SUFFICES ASSUME SyncInv, AcquireOwn PROVE SyncInv'
  OBVIOUS
<1>1. /\ At("own") /\ pc' = [pc EXCEPT ![cur] = "count"]
      /\ holder' = [holder EXCEPT ![L] = cur]
      /\ UNCHANGED <<thread_vars, value, waiters, holderRepeatNr, want, outer, depth>>
  BY DEF AcquireOwn, Goto
<1>2. depth' = [depth EXCEPT ![cur] = depth[cur]] /\ depth[cur] \in 0..MaxNest
  BY <1>1 DEF SyncInv, SyncTypeOK, ThreadInv, TypeOK
<1>3. /\ holder' \in [Locks -> Threads \cup {NULL}] /\ holderRepeatNr' \in [Locks -> Nat]
      /\ "own" \in PC \ {"loop"} /\ "count" \in PC \ {"loop"}
  BY <1>1 DEF SyncInv, SyncTypeOK, ThreadInv, TypeOK, PC
<1>4. /\ ThreadInv' /\ SyncTypeOK' /\ IntrInv' /\ BootInv' /\ WaitersExact' /\ NoLostWakeup'
      /\ cur \in Threads /\ L \in Locks /\ pc[cur] = "own"
      /\ pc'[cur] = "count" /\ depth'[cur] = depth[cur] /\ want' = want
      /\ \A t \in Threads \ {cur} : pc'[t] = pc[t] /\ depth'[t] = depth[t]
  BY <1>1, <1>2, <1>3, FlowStep
<1>5. /\ holder'[L] = cur /\ \A l \in Locks \ {L} : holder'[l] = holder[l]
      /\ holderRepeatNr[L] = 0 /\ depth[cur] = 0
  BY <1>1, <1>4 DEF SyncInv, SyncTypeOK, HolderInv, PlaceInv, L
<1>6. Owns(cur, L)
  BY <1>4 DEF Owns, L
<1>7. value[L] = 0 /\ \A t \in Threads \ {cur} : ~Owns(t, L)
  BY <1>4, <1>6, OnlyOwner
<1>8. PlaceInv'
  BY <1>4, <1>5 DEF SyncInv, PlaceInv
<1>9. HolderInv'
  <2>1. ASSUME NEW t \in Threads, t # cur, want[t] = L PROVE
          depth[t] = 0 /\ pc[t] \notin {"own", "count", "clear", "up"}
    BY <2>1, <1>7, NotOwner
  <2>2. want[cur] = L /\ \A t \in Threads : want[t] \in Locks
    BY <1>4 DEF L, SyncInv, SyncTypeOK
  <2> QED
    BY <2>1, <2>2, <1>1, <1>4, <1>5, <1>7 DEF SyncInv, HolderInv
<1>10. MutualExclusion'
  <2>1. \A t \in Threads, l \in Locks : Owns(t, l)' <=> Owns(t, l)
    BY <1>4 DEF Owns
  <2> QED
    BY <2>1, <1>1, SameOwners DEF SyncInv
<1> QED
  BY <1>4, <1>8, <1>9, <1>10 DEF SyncInv

(* sync.c:51: the thread that has just got a lock finds its counter reset.  *)
LEMMA AcquireCountKeepsInv == SyncInv /\ AcquireCount => SyncInv'
<1> SUFFICES ASSUME SyncInv, AcquireCount PROVE SyncInv'
  OBVIOUS
<1>2. /\ cur \in Threads /\ depth \in [Threads -> 0..MaxNest] /\ Owns(cur, L)
      /\ holder[L] = cur /\ holderRepeatNr[L] = 0 /\ depth[cur] = 0
  BY SyncAssumption, ThreadAssumption DEF AcquireCount, At, SyncInv, SyncTypeOK, ThreadInv, TypeOK, PlaceInv, HolderInv, Owns, L
<1>1. /\ At("count") /\ pc' = [pc EXCEPT ![cur] = "run"]
      /\ holderRepeatNr' = [holderRepeatNr EXCEPT ![L] = 1]
      /\ depth' = [depth EXCEPT ![cur] = depth[cur] + 1]
      /\ UNCHANGED <<thread_vars, value, waiters, holder, want, outer>>
  BY <1>2 DEF AcquireCount, Goto
<1>3. /\ holder' \in [Locks -> Threads \cup {NULL}] /\ holderRepeatNr' \in [Locks -> Nat]
      /\ depth[cur] + 1 \in 0..MaxNest
      /\ "count" \in PC \ {"loop"} /\ "run" \in PC \ {"loop"}
  <2>1. /\ holder \in [Locks -> Threads \cup {NULL}] /\ holderRepeatNr \in [Locks -> Nat]
        /\ L \in Locks /\ depth[cur] \in 0..MaxNest /\ MaxNest \in Nat \ {0}
    BY <1>2, SyncAssumption DEF SyncInv, SyncTypeOK, L
  <2>2. depth[cur] + 1 \in 0..MaxNest
    BY <1>2, <2>1
  <2>3. holder' \in [Locks -> Threads \cup {NULL}] /\ holderRepeatNr' \in [Locks -> Nat]
    BY <1>1, <1>2, <2>1
  <2> QED
    BY <2>2, <2>3 DEF PC
<1>4. /\ ThreadInv' /\ SyncTypeOK' /\ IntrInv' /\ BootInv' /\ WaitersExact' /\ NoLostWakeup'
      /\ cur \in Threads /\ L \in Locks /\ pc[cur] = "count"
      /\ pc'[cur] = "run" /\ depth'[cur] = depth[cur] + 1 /\ want' = want
      /\ \A t \in Threads \ {cur} : pc'[t] = pc[t] /\ depth'[t] = depth[t]
  BY <1>1, <1>3, FlowStep
<1>8. holderRepeatNr'[L] = 1 /\ \A l \in Locks \ {L} : holderRepeatNr'[l] = holderRepeatNr[l]
  BY <1>1, <1>4 DEF SyncInv, SyncTypeOK
<1>9. value[L] = 0 /\ \A t \in Threads \ {cur} : ~Owns(t, L)
  BY <1>2, <1>4, OnlyOwner
<1>10. \A t \in Threads \ {cur} : want[t] = L =>
         depth[t] = 0 /\ pc[t] \notin {"own", "count", "again", "release", "clear", "up"}
  BY <1>9, NotOwner
<1>5. PlaceInv'
  BY <1>2, <1>4, SyncAssumption DEF SyncInv, PlaceInv, SyncTypeOK
<1>6. HolderInv'
  <2>1. want[cur] = L /\ \A t \in Threads : want[t] \in Locks
    BY <1>2 DEF L, SyncInv, SyncTypeOK
  <2> QED
    BY <2>1, <1>1, <1>2, <1>4, <1>8, <1>9, <1>10 DEF SyncInv, HolderInv
<1>7. MutualExclusion'
  <2>1. \A t \in Threads, l \in Locks : Owns(t, l)' <=> Owns(t, l)
    BY <1>2, <1>4 DEF Owns, L
  <2> QED
    BY <2>1, <1>1, SameOwners DEF SyncInv
<1> QED
  BY <1>4, <1>5, <1>6, <1>7 DEF SyncInv

(* sync.c:54 counts an acquisition of its own lock.                         *)
LEMMA AcquireAgainKeepsInv == SyncInv /\ AcquireAgain => SyncInv'
<1> SUFFICES ASSUME SyncInv, AcquireAgain PROVE SyncInv'
  OBVIOUS
<1>2. /\ cur \in Threads /\ depth \in [Threads -> 0..MaxNest] /\ Owns(cur, L)
      /\ holder[L] = cur /\ holderRepeatNr[L] = depth[cur]
      /\ depth[cur] > 0 /\ depth[cur] < MaxNest
  BY SyncAssumption, ThreadAssumption DEF AcquireAgain, At, SyncInv, SyncTypeOK, ThreadInv, TypeOK, PlaceInv, HolderInv, Owns, L
<1>1. /\ At("again") /\ pc' = [pc EXCEPT ![cur] = "run"]
      /\ holderRepeatNr' = [holderRepeatNr EXCEPT ![L] = holderRepeatNr[L] + 1]
      /\ depth' = [depth EXCEPT ![cur] = depth[cur] + 1]
      /\ UNCHANGED <<thread_vars, value, waiters, holder, want, outer>>
  BY <1>2 DEF AcquireAgain, Goto
<1>3. /\ holder' \in [Locks -> Threads \cup {NULL}] /\ holderRepeatNr' \in [Locks -> Nat]
      /\ depth[cur] + 1 \in 0..MaxNest
      /\ "again" \in PC \ {"loop"} /\ "run" \in PC \ {"loop"}
  <2>1. /\ holder \in [Locks -> Threads \cup {NULL}] /\ holderRepeatNr \in [Locks -> Nat]
        /\ L \in Locks /\ depth[cur] \in 0..MaxNest /\ MaxNest \in Nat \ {0}
    BY <1>2, SyncAssumption DEF SyncInv, SyncTypeOK, L
  <2>2. depth[cur] + 1 \in 0..MaxNest
    BY <1>2, <2>1
  <2>3. holder' \in [Locks -> Threads \cup {NULL}] /\ holderRepeatNr' \in [Locks -> Nat]
    BY <1>1, <1>2, <2>1
  <2> QED
    BY <2>2, <2>3 DEF PC
<1>4. /\ ThreadInv' /\ SyncTypeOK' /\ IntrInv' /\ BootInv' /\ WaitersExact' /\ NoLostWakeup'
      /\ cur \in Threads /\ L \in Locks /\ pc[cur] = "again"
      /\ pc'[cur] = "run" /\ depth'[cur] = depth[cur] + 1 /\ want' = want
      /\ \A t \in Threads \ {cur} : pc'[t] = pc[t] /\ depth'[t] = depth[t]
  BY <1>1, <1>3, FlowStep
<1>8. holderRepeatNr'[L] = holderRepeatNr[L] + 1 /\ \A l \in Locks \ {L} : holderRepeatNr'[l] = holderRepeatNr[l]
  BY <1>1, <1>4 DEF SyncInv, SyncTypeOK
<1>9. value[L] = 0 /\ \A t \in Threads \ {cur} : ~Owns(t, L)
  BY <1>2, <1>4, OnlyOwner
<1>10. \A t \in Threads \ {cur} : want[t] = L =>
         depth[t] = 0 /\ pc[t] \notin {"own", "count", "again", "release", "clear", "up"}
  BY <1>9, NotOwner
<1>5. PlaceInv'
  BY <1>2, <1>4, SyncAssumption DEF SyncInv, PlaceInv, SyncTypeOK
<1>6. HolderInv'
  <2>1. want[cur] = L /\ \A t \in Threads : want[t] \in Locks
    BY <1>2 DEF L, SyncInv, SyncTypeOK
  <2> QED
    BY <2>1, <1>1, <1>2, <1>4, <1>8, <1>9, <1>10 DEF SyncInv, HolderInv
<1>7. MutualExclusion'
  <2>1. \A t \in Threads, l \in Locks : Owns(t, l)' <=> Owns(t, l)
    BY <1>2, <1>4 DEF Owns, L
  <2> QED
    BY <2>1, <1>1, SameOwners DEF SyncInv
<1> QED
  BY <1>4, <1>5, <1>6, <1>7 DEF SyncInv

(* __lockRelease is called.                                                 *)
LEMMA CallReleaseKeepsInv == SyncInv /\ CallRelease => SyncInv'
<1> SUFFICES ASSUME SyncInv, CallRelease PROVE SyncInv'
  OBVIOUS
<1>2. /\ cur \in Threads /\ depth \in [Threads -> 0..MaxNest] /\ Owns(cur, L)
      /\ holder[L] = cur /\ holderRepeatNr[L] = depth[cur] /\ depth[cur] > 0
  BY SyncAssumption, ThreadAssumption DEF CallRelease, At, SyncInv, SyncTypeOK, ThreadInv, TypeOK, PlaceInv, HolderInv, Owns, L
<1>1. /\ At("run") /\ pc' = [pc EXCEPT ![cur] = "release"]
      /\ depth' = [depth EXCEPT ![cur] = depth[cur]]
      /\ UNCHANGED <<thread_vars, value, waiters, holder, holderRepeatNr, want, outer>>
  BY <1>2 DEF CallRelease, Goto, lock_vars
<1>11. cur = Main => intr = "OFF"
  BY DEF CallRelease
<1>3. /\ holder' \in [Locks -> Threads \cup {NULL}] /\ holderRepeatNr' \in [Locks -> Nat]
      /\ depth[cur] \in 0..MaxNest
      /\ "run" \in PC \ {"loop"} /\ "release" \in PC \ {"loop"}
  <2>1. /\ holder \in [Locks -> Threads \cup {NULL}] /\ holderRepeatNr \in [Locks -> Nat]
        /\ L \in Locks /\ depth[cur] \in 0..MaxNest /\ MaxNest \in Nat \ {0}
    BY <1>2, SyncAssumption DEF SyncInv, SyncTypeOK, L
  <2>2. depth[cur] \in 0..MaxNest
    BY <1>2, <2>1
  <2>3. holder' \in [Locks -> Threads \cup {NULL}] /\ holderRepeatNr' \in [Locks -> Nat]
    BY <1>1, <1>2, <2>1
  <2> QED
    BY <2>2, <2>3 DEF PC
<1>4. /\ ThreadInv' /\ SyncTypeOK' /\ IntrInv' /\ BootInv' /\ WaitersExact' /\ NoLostWakeup'
      /\ cur \in Threads /\ L \in Locks /\ pc[cur] = "run"
      /\ pc'[cur] = "release" /\ depth'[cur] = depth[cur] /\ want' = want
      /\ \A t \in Threads \ {cur} : pc'[t] = pc[t] /\ depth'[t] = depth[t]
  BY <1>1, <1>3, <1>11, FlowStep
<1>8. holder' = holder /\ holderRepeatNr' = holderRepeatNr
  BY <1>1
<1>9. value[L] = 0 /\ \A t \in Threads \ {cur} : ~Owns(t, L)
  BY <1>2, <1>4, OnlyOwner
<1>10. \A t \in Threads \ {cur} : want[t] = L =>
         depth[t] = 0 /\ pc[t] \notin {"own", "count", "again", "release", "clear", "up"}
  BY <1>9, NotOwner
<1>5. PlaceInv'
  <2>1. /\ pc'[cur] = "release" /\ depth'[cur] > 0
        /\ \A t \in Threads \ {cur} : pc'[t] = pc[t] /\ depth'[t] = depth[t]
    BY <1>2, <1>4
  <2>2. PlaceInv
    BY DEF SyncInv
  <2> QED
    BY <2>1, <2>2 DEF PlaceInv
<1>6. HolderInv'
  <2>1. want[cur] = L /\ \A t \in Threads : want[t] \in Locks
    BY <1>2 DEF L, SyncInv, SyncTypeOK
  <2> QED
    BY <2>1, <1>1, <1>2, <1>4, <1>8, <1>9, <1>10 DEF SyncInv, HolderInv
<1>7. MutualExclusion'
  <2>1. \A t \in Threads, l \in Locks : Owns(t, l)' <=> Owns(t, l)
    BY <1>2, <1>4 DEF Owns, L
  <2> QED
    BY <2>1, <1>1, SameOwners DEF SyncInv
<1> QED
  BY <1>4, <1>5, <1>6, <1>7 DEF SyncInv

(* sync.c:61 gives one of several acquisitions back.                        *)
LEMMA ReleaseOneKeepsInv == SyncInv /\ ReleaseOne => SyncInv'
<1> SUFFICES ASSUME SyncInv, ReleaseOne PROVE SyncInv'
  OBVIOUS
<1>2. /\ cur \in Threads /\ depth \in [Threads -> 0..MaxNest] /\ Owns(cur, L)
      /\ holder[L] = cur /\ holderRepeatNr[L] = depth[cur] /\ depth[cur] > 1
  BY SyncAssumption, ThreadAssumption DEF ReleaseOne, At, SyncInv, SyncTypeOK, ThreadInv, TypeOK, PlaceInv, HolderInv, Owns, L
<1>1. /\ At("release") /\ pc' = [pc EXCEPT ![cur] = "run"]
      /\ holderRepeatNr' = [holderRepeatNr EXCEPT ![L] = holderRepeatNr[L] - 1]
      /\ depth' = [depth EXCEPT ![cur] = depth[cur] - 1]
      /\ UNCHANGED <<thread_vars, value, waiters, holder, want, outer>>
  BY <1>2 DEF ReleaseOne, Goto
<1>3. /\ holder' \in [Locks -> Threads \cup {NULL}] /\ holderRepeatNr' \in [Locks -> Nat]
      /\ depth[cur] - 1 \in 0..MaxNest
      /\ "release" \in PC \ {"loop"} /\ "run" \in PC \ {"loop"}
  <2>1. /\ holder \in [Locks -> Threads \cup {NULL}] /\ holderRepeatNr \in [Locks -> Nat]
        /\ L \in Locks /\ depth[cur] \in 0..MaxNest /\ MaxNest \in Nat \ {0}
    BY <1>2, SyncAssumption DEF SyncInv, SyncTypeOK, L
  <2>2. depth[cur] - 1 \in 0..MaxNest
    BY <1>2, <2>1
  <2>3. holder' \in [Locks -> Threads \cup {NULL}] /\ holderRepeatNr' \in [Locks -> Nat]
    BY <1>1, <1>2, <2>1
  <2> QED
    BY <2>2, <2>3 DEF PC
<1>4. /\ ThreadInv' /\ SyncTypeOK' /\ IntrInv' /\ BootInv' /\ WaitersExact' /\ NoLostWakeup'
      /\ cur \in Threads /\ L \in Locks /\ pc[cur] = "release"
      /\ pc'[cur] = "run" /\ depth'[cur] = depth[cur] - 1 /\ want' = want
      /\ \A t \in Threads \ {cur} : pc'[t] = pc[t] /\ depth'[t] = depth[t]
  BY <1>1, <1>3, FlowStep
<1>8. holderRepeatNr'[L] = holderRepeatNr[L] - 1 /\ \A l \in Locks \ {L} : holderRepeatNr'[l] = holderRepeatNr[l]
  BY <1>1, <1>4 DEF SyncInv, SyncTypeOK
<1>9. value[L] = 0 /\ \A t \in Threads \ {cur} : ~Owns(t, L)
  BY <1>2, <1>4, OnlyOwner
<1>10. \A t \in Threads \ {cur} : want[t] = L =>
         depth[t] = 0 /\ pc[t] \notin {"own", "count", "again", "release", "clear", "up"}
  BY <1>9, NotOwner
<1>5. PlaceInv'
  BY <1>2, <1>4, SyncAssumption DEF SyncInv, PlaceInv, SyncTypeOK
<1>6. HolderInv'
  <2>1. want[cur] = L /\ \A t \in Threads : want[t] \in Locks
    BY <1>2 DEF L, SyncInv, SyncTypeOK
  <2> QED
    BY <2>1, <1>1, <1>2, <1>4, <1>8, <1>9, <1>10 DEF SyncInv, HolderInv
<1>7. MutualExclusion'
  <2>1. \A t \in Threads, l \in Locks : Owns(t, l)' <=> Owns(t, l)
    BY <1>2, <1>4 DEF Owns, L
  <2> QED
    BY <2>1, <1>1, SameOwners DEF SyncInv
<1> QED
  BY <1>4, <1>5, <1>6, <1>7 DEF SyncInv

(* sync.c:65 resets holder: the thread is the holder and returns it for the *)
(* last time.                                                               *)
LEMMA ReleaseLastKeepsInv == SyncInv /\ ReleaseLast => SyncInv'
<1> SUFFICES ASSUME SyncInv, ReleaseLast PROVE SyncInv'
  OBVIOUS
<1>2. /\ cur \in Threads /\ depth \in [Threads -> 0..MaxNest] /\ Owns(cur, L)
      /\ holder[L] = cur /\ holderRepeatNr[L] = 1 /\ depth[cur] = 1
  BY SyncAssumption, ThreadAssumption DEF ReleaseLast, At, SyncInv, SyncTypeOK, ThreadInv, TypeOK, PlaceInv, HolderInv, Owns, L
<1>1. /\ At("release") /\ pc' = [pc EXCEPT ![cur] = "clear"]
      /\ holder' = [holder EXCEPT ![L] = NULL]
      /\ depth' = [depth EXCEPT ![cur] = depth[cur]]
      /\ UNCHANGED <<thread_vars, value, waiters, holderRepeatNr, want, outer>>
  BY <1>2 DEF ReleaseLast, Goto
<1>3. /\ holder' \in [Locks -> Threads \cup {NULL}] /\ holderRepeatNr' \in [Locks -> Nat]
      /\ depth[cur] \in 0..MaxNest
      /\ "release" \in PC \ {"loop"} /\ "clear" \in PC \ {"loop"}
  <2>1. /\ holder \in [Locks -> Threads \cup {NULL}] /\ holderRepeatNr \in [Locks -> Nat]
        /\ L \in Locks /\ depth[cur] \in 0..MaxNest /\ MaxNest \in Nat \ {0}
    BY <1>2, SyncAssumption DEF SyncInv, SyncTypeOK, L
  <2>2. depth[cur] \in 0..MaxNest
    BY <1>2, <2>1
  <2>3. holder' \in [Locks -> Threads \cup {NULL}] /\ holderRepeatNr' \in [Locks -> Nat]
    BY <1>1, <1>2, <2>1
  <2> QED
    BY <2>2, <2>3 DEF PC
<1>4. /\ ThreadInv' /\ SyncTypeOK' /\ IntrInv' /\ BootInv' /\ WaitersExact' /\ NoLostWakeup'
      /\ cur \in Threads /\ L \in Locks /\ pc[cur] = "release"
      /\ pc'[cur] = "clear" /\ depth'[cur] = depth[cur] /\ want' = want
      /\ \A t \in Threads \ {cur} : pc'[t] = pc[t] /\ depth'[t] = depth[t]
  BY <1>1, <1>3, FlowStep
<1>8. holder'[L] = NULL /\ \A l \in Locks \ {L} : holder'[l] = holder[l]
  BY <1>1, <1>4 DEF SyncInv, SyncTypeOK
<1>9. value[L] = 0 /\ \A t \in Threads \ {cur} : ~Owns(t, L)
  BY <1>2, <1>4, OnlyOwner
<1>10. \A t \in Threads \ {cur} : want[t] = L =>
         depth[t] = 0 /\ pc[t] \notin {"own", "count", "again", "release", "clear", "up"}
  BY <1>9, NotOwner
<1>5. PlaceInv'
  BY <1>2, <1>4, SyncAssumption DEF SyncInv, PlaceInv, SyncTypeOK
<1>6. HolderInv'
  <2>1. want[cur] = L /\ \A t \in Threads : want[t] \in Locks
    BY <1>2 DEF L, SyncInv, SyncTypeOK
  <2> QED
    BY <2>1, <1>1, <1>2, <1>4, <1>8, <1>9, <1>10 DEF SyncInv, HolderInv
<1>7. MutualExclusion'
  <2>1. \A t \in Threads, l \in Locks : Owns(t, l)' <=> Owns(t, l)
    BY <1>2, <1>4 DEF Owns, L
  <2> QED
    BY <2>1, <1>1, SameOwners DEF SyncInv
<1> QED
  BY <1>4, <1>5, <1>6, <1>7 DEF SyncInv

(* sync.c:66 resets the counter of a lock that the thread still has.        *)
LEMMA ReleaseClearKeepsInv == SyncInv /\ ReleaseClear => SyncInv'
<1> SUFFICES ASSUME SyncInv, ReleaseClear PROVE SyncInv'
  OBVIOUS
<1>2. /\ cur \in Threads /\ depth \in [Threads -> 0..MaxNest] /\ Owns(cur, L)
      /\ holder[L] = NULL /\ holderRepeatNr[L] = 1 /\ depth[cur] = 1
  BY SyncAssumption, ThreadAssumption DEF ReleaseClear, At, SyncInv, SyncTypeOK, ThreadInv, TypeOK, PlaceInv, HolderInv, Owns, L
<1>1. /\ At("clear") /\ pc' = [pc EXCEPT ![cur] = "up"]
      /\ holderRepeatNr' = [holderRepeatNr EXCEPT ![L] = 0]
      /\ depth' = [depth EXCEPT ![cur] = depth[cur]]
      /\ UNCHANGED <<thread_vars, value, waiters, holder, want, outer>>
  BY <1>2 DEF ReleaseClear, Goto
<1>3. /\ holder' \in [Locks -> Threads \cup {NULL}] /\ holderRepeatNr' \in [Locks -> Nat]
      /\ depth[cur] \in 0..MaxNest
      /\ "clear" \in PC \ {"loop"} /\ "up" \in PC \ {"loop"}
  <2>1. /\ holder \in [Locks -> Threads \cup {NULL}] /\ holderRepeatNr \in [Locks -> Nat]
        /\ L \in Locks /\ depth[cur] \in 0..MaxNest /\ MaxNest \in Nat \ {0}
    BY <1>2, SyncAssumption DEF SyncInv, SyncTypeOK, L
  <2>2. depth[cur] \in 0..MaxNest
    BY <1>2, <2>1
  <2>3. holder' \in [Locks -> Threads \cup {NULL}] /\ holderRepeatNr' \in [Locks -> Nat]
    BY <1>1, <1>2, <2>1
  <2> QED
    BY <2>2, <2>3 DEF PC
<1>4. /\ ThreadInv' /\ SyncTypeOK' /\ IntrInv' /\ BootInv' /\ WaitersExact' /\ NoLostWakeup'
      /\ cur \in Threads /\ L \in Locks /\ pc[cur] = "clear"
      /\ pc'[cur] = "up" /\ depth'[cur] = depth[cur] /\ want' = want
      /\ \A t \in Threads \ {cur} : pc'[t] = pc[t] /\ depth'[t] = depth[t]
  BY <1>1, <1>3, FlowStep
<1>8. holderRepeatNr'[L] = 0 /\ \A l \in Locks \ {L} : holderRepeatNr'[l] = holderRepeatNr[l]
  BY <1>1, <1>4 DEF SyncInv, SyncTypeOK
<1>9. value[L] = 0 /\ \A t \in Threads \ {cur} : ~Owns(t, L)
  BY <1>2, <1>4, OnlyOwner
<1>10. \A t \in Threads \ {cur} : want[t] = L =>
         depth[t] = 0 /\ pc[t] \notin {"own", "count", "again", "release", "clear", "up"}
  BY <1>9, NotOwner
<1>5. PlaceInv'
  BY <1>2, <1>4, SyncAssumption DEF SyncInv, PlaceInv, SyncTypeOK
<1>6. HolderInv'
  <2>1. want[cur] = L /\ \A t \in Threads : want[t] \in Locks
    BY <1>2 DEF L, SyncInv, SyncTypeOK
  <2> QED
    BY <2>1, <1>1, <1>2, <1>4, <1>8, <1>9, <1>10 DEF SyncInv, HolderInv
<1>7. MutualExclusion'
  <2>1. \A t \in Threads, l \in Locks : Owns(t, l)' <=> Owns(t, l)
    BY <1>2, <1>4 DEF Owns, L
  <2> QED
    BY <2>1, <1>1, SameOwners DEF SyncInv
<1> QED
  BY <1>4, <1>5, <1>6, <1>7 DEF SyncInv

-----------------------------------------------------------------------------
(* What the scheduler's steps do to the other threads.                     *)

(* A clock interrupt blocks and wakes nobody; it only returns with IF clear *)
(* into a __thdBlock.                                                       *)
LEMMA TimerEffect ==
  ASSUME ThreadInv, IntrTimer
  PROVE  /\ panic' = FALSE /\ old' = old /\ cur' \in Threads
         /\ intr' = "OFF" => frame[cur'] = "block"
         /\ \A t \in Threads :
              /\ status'[t] = "BLOCKED" <=> status[t] = "BLOCKED"
              /\ status'[t] = "FREE" <=> status[t] = "FREE"
              /\ status[t] \in {"READY", "RUNNING"} => status'[t] \in {"READY", "RUNNING"}
              /\ frame'[t] = "block" <=> frame[t] = "block"
<1> USE DEF ThreadInv
<1>1. CASE SliceGoesOn
  BY <1>1 DEF SliceGoesOn, IntrTimer, TypeOK, FramesResumable
<1>2. CASE SliceUsedUp
  <2> DEFINE st == [status EXCEPT ![cur] = "READY"]
             fr == [frame EXCEPT ![cur] = "intr"]
             ready == Append(thdReadyList, cur)
             next == Head(ready)
  <2>1. /\ cur \in Threads /\ status[cur] = "RUNNING" /\ cur \notin Range(thdReadyList)
        /\ intr = "ON" /\ frame[cur] # "block"
    BY DEF TypeOK, OneRunning, NoPanic, ReadyListExact, FramesResumable, IntrTimer
  <2>2. Dispatch(ready, st, fr) /\ old' = old
    BY <1>2, <2>1 DEF SliceUsedUp, Schedule
  <2>3. /\ ready \in Seq(Threads) /\ ready # <<>> /\ IsInjective(ready)
        /\ Range(ready) = Range(thdReadyList) \cup {cur}
    BY <2>1, AppendQueue DEF TypeOK, ReadyListExact, NoPanic
  <2>4. next \in Threads /\ next \in Range(ready)
    <3> HIDE DEF ready
    <3> QED
      BY <2>3, PopQueue
  <2>5. /\ st[cur] = "READY" /\ fr[cur] = "intr"
        /\ \A t \in Threads \ {cur} : st[t] = status[t] /\ fr[t] = frame[t]
        /\ st \in [Threads -> Status] /\ fr \in [Threads -> Frame]
    BY <2>1 DEF TypeOK, Status, Frame
  <2>6. st[next] = "READY"
    BY <2>1, <2>3, <2>4, <2>5 DEF ReadyListExact, NoPanic
  <2> HIDE DEF st, fr, next
  <2>7. /\ cur' = next /\ panic' = FALSE
        /\ status' = [st EXCEPT ![next] = "RUNNING"]
        /\ intr' = IF fr[next] = "block" THEN "OFF" ELSE "ON"
        /\ frame' = [fr EXCEPT ![next] = IF fr[next] = "block" THEN "block" ELSE "live"]
    BY <2>2 DEF Dispatch, Switch, next
  <2>8. /\ status'[next] = "RUNNING"
        /\ frame'[next] = IF fr[next] = "block" THEN "block" ELSE "live"
        /\ \A t \in Threads \ {next} : status'[t] = st[t] /\ frame'[t] = fr[t]
    BY <2>4, <2>5, <2>7
  <2> QED
    BY <2>1, <2>2, <2>4, <2>5, <2>6, <2>7, <2>8
<1> QED
  BY <1>1, <1>2 DEF IntrTimer

(* A thread that blocks is followed by one that was READY.                  *)
LEMMA BlockEffect ==
  ASSUME ThreadInv, cur # Main, NEW stat \in Blockings, ThdBlock(stat)
  PROVE  /\ panic' = FALSE /\ old' = [old EXCEPT ![cur] = intr]
         /\ cur' \in Threads /\ status[cur'] = "READY" /\ cur' # cur
         /\ intr' = "OFF" => frame[cur'] = "block"
         /\ frame[cur'] = "block" => intr' = "OFF"
         /\ status'[cur] = stat /\ status'[cur'] = "RUNNING" /\ frame'[cur] = "block"
         /\ \A t \in Threads \ {cur, cur'} : status'[t] = status[t]
         /\ \A t \in Threads \ {cur} : frame'[t] = "block" <=> frame[t] = "block"
<1> USE DEF ThreadInv
<1> DEFINE st == [status EXCEPT ![cur] = stat]
           fr == [frame EXCEPT ![cur] = "block"]
           next == Head(thdReadyList)
<1>1. cur \in Threads /\ Main \in Threads /\ stat \notin {"RUNNING", "READY", "FREE"}
  BY ThreadAssumption DEF TypeOK, Blockings
<1>2. /\ st[cur] = stat /\ fr[cur] = "block"
      /\ \A t \in Threads \ {cur} : st[t] = status[t] /\ fr[t] = frame[t]
      /\ st \in [Threads -> Status] /\ fr \in [Threads -> Frame]
  BY <1>1 DEF TypeOK, Status, Frame
<1>3. Main \in Range(thdReadyList)
  BY <1>1 DEF ReadyListExact, NoPanic, OneRunning, MainRunnable
<1>4. thdReadyList # <<>>
  BY <1>3 DEF Range
<1>5. Dispatch(thdReadyList, st, fr) /\ old' = [old EXCEPT ![cur] = intr]
  BY <1>1, <1>2, <1>4 DEF ThdBlock, Schedule
<1>6. next \in Threads /\ next \in Range(thdReadyList)
  BY <1>4, PopQueue DEF TypeOK, ReadyListExact, NoPanic
<1>7. status[next] = "READY" /\ next # cur
  BY <1>1, <1>6 DEF ReadyListExact, NoPanic, OneRunning
<1> HIDE DEF st, fr, next
<1>8. /\ cur' = next /\ panic' = FALSE
      /\ status' = [st EXCEPT ![next] = "RUNNING"]
      /\ intr' = IF fr[next] = "block" THEN "OFF" ELSE "ON"
      /\ frame' = [fr EXCEPT ![next] = IF fr[next] = "block" THEN "block" ELSE "live"]
  BY <1>5 DEF Dispatch, Switch, next
<1>9. /\ status'[next] = "RUNNING"
      /\ frame'[next] = IF fr[next] = "block" THEN "block" ELSE "live"
      /\ \A t \in Threads \ {next} : status'[t] = st[t] /\ frame'[t] = fr[t]
  BY <1>2, <1>6, <1>8
<1> QED
  BY <1>1, <1>2, <1>5, <1>6, <1>7, <1>8, <1>9

(* A step of the scheduler alone keeps what is said of the locks, once it   *)
(* keeps what is said of IF and of the boot, and blocks or wakes nobody.    *)
LEMMA LocksUntouched ==
  ASSUME SyncInv, UNCHANGED lock_vars, UNCHANGED flow_vars,
         ThreadInv', IntrInv', BootInv',
         \A t \in Threads :
           /\ status'[t] = "BLOCKED" <=> status[t] = "BLOCKED"
           /\ status[t] \in {"READY", "RUNNING"} => status'[t] \in {"READY", "RUNNING"}
  PROVE  SyncInv'
<1> USE DEF lock_vars, flow_vars
<1>1. SyncTypeOK'
  BY DEF SyncInv, SyncTypeOK, ThreadInv
<1>2. PlaceInv' /\ HolderInv'
  BY DEF SyncInv, PlaceInv, HolderInv
<1>3. MutualExclusion'
  BY DEF SyncInv, MutualExclusion, Owns
<1>4. WaitersExact'
  <2>1. \A l \in Locks :
          {t \in Threads : want'[t] = l /\ pc'[t] = "loop" /\ status'[t] = "BLOCKED"}
            = {t \in Threads : want[t] = l /\ pc[t] = "loop" /\ status[t] = "BLOCKED"}
    OBVIOUS
  <2>2. ~panic
    BY DEF SyncInv, ThreadInv, NoPanic
  <2> QED
    BY <2>1, <2>2 DEF SyncInv, WaitersExact
<1>5. NoLostWakeup'
  BY DEF SyncInv, NoLostWakeup
<1> QED
  BY <1>1, <1>2, <1>3, <1>4, <1>5 DEF SyncInv

(* A clock interrupt keeps the invariant.                                   *)
LEMMA InterruptKeepsInv == SyncInv /\ Interrupt => SyncInv'
<1> SUFFICES ASSUME SyncInv, Interrupt PROVE SyncInv'
  OBVIOUS
<1>1. IntrTimer /\ UNCHANGED lock_vars /\ UNCHANGED flow_vars /\ intr = "ON" /\ ThreadInv
  BY DEF Interrupt, IntrTimer, SyncInv
<1>2. ThreadInv'
  BY <1>1, ThreadStep DEF Next
<1>3. /\ panic' = FALSE /\ old' = old /\ cur' \in Threads
      /\ intr' = "OFF" => frame[cur'] = "block"
      /\ \A t \in Threads :
           /\ status'[t] = "BLOCKED" <=> status[t] = "BLOCKED"
           /\ status'[t] = "FREE" <=> status[t] = "FREE"
           /\ status[t] \in {"READY", "RUNNING"} => status'[t] \in {"READY", "RUNNING"}
           /\ frame'[t] = "block" <=> frame[t] = "block"
  BY <1>1, TimerEffect
<1>4. IntrInv'
  BY <1>1, <1>3 DEF SyncInv, IntrInv, flow_vars
<1>5. BootInv'
  <2>1. pc[Main] = "run" /\ depth[Main] = 0
    BY <1>1, ThreadAssumption DEF SyncInv, BootInv, SyncTypeOK
  <2>2. frame[Main] # "block"
    BY <2>1, ThreadAssumption DEF SyncInv, IntrInv
  <2> QED
    BY <1>1, <1>3, <2>1, <2>2 DEF BootInv, flow_vars
<1> QED
  BY <1>1, <1>2, <1>3, <1>4, <1>5, LocksUntouched

(* The end of __thdBlock returns into the loop of __semaDown, IF clear.     *)
LEMMA WakeKeepsInv == SyncInv /\ Wake => SyncInv'
<1> SUFFICES ASSUME SyncInv, Wake PROVE SyncInv'
  OBVIOUS
<1>1. /\ ThdBlockReturn /\ UNCHANGED lock_vars /\ UNCHANGED flow_vars
      /\ cur \in Threads /\ frame[cur] = "block" /\ intr = "OFF"
  BY DEF Wake, ThdBlockReturn, SyncInv, ThreadInv, TypeOK, FramesResumable
<1>2. ThreadInv'
  BY <1>1, ThreadStep DEF SyncInv, Next
<1>3. /\ cur' = cur /\ status' = status /\ old' = old /\ intr' = old[cur]
      /\ frame' = [frame EXCEPT ![cur] = "live"]
  BY <1>1 DEF ThdBlockReturn
<1>4. pc[cur] = "loop" /\ old[cur] = "OFF"
  BY <1>1 DEF SyncInv, IntrInv
<1>5. frame'[cur] = "live" /\ \A t \in Threads \ {cur} : frame'[t] = frame[t]
  BY <1>1, <1>3 DEF SyncInv, ThreadInv, TypeOK
<1>6. IntrInv'
  BY <1>1, <1>3, <1>4, <1>5 DEF SyncInv, IntrInv, flow_vars
<1>7. BootInv'
  BY <1>1, <1>3, <1>4 DEF SyncInv, BootInv, flow_vars
<1> QED
  BY <1>1, <1>2, <1>3, <1>6, <1>7, LocksUntouched

(* main() creating threads, any thread creating processes, and main()       *)
(* setting IF keep the invariant.                                           *)
LEMMA MainStepKeepsInv == SyncInv /\ MainStep => SyncInv'
<1> SUFFICES ASSUME SyncInv, MainStep PROVE SyncInv'
  OBVIOUS
<1>1. /\ pc[cur] = "run" /\ depth[cur] = 0 /\ Live
      /\ UNCHANGED lock_vars /\ UNCHANGED flow_vars /\ cur \in Threads
  BY DEF MainStep, At, SyncInv, ThreadInv, TypeOK
<1>2. CASE cur = Main /\ IntrEnable
  <2>1. ThreadInv'
    BY <1>2, ThreadStep DEF SyncInv, Next, ClientStep
  <2>2. cur' = cur /\ status' = status /\ old' = old /\ frame' = frame /\ intr' = "ON"
    BY <1>2 DEF IntrEnable
  <2>3. IntrInv'
    BY <1>1, <2>2 DEF SyncInv, IntrInv, flow_vars
  <2>4. BootInv'
    BY <1>1, <1>2, <2>2 DEF SyncInv, BootInv, flow_vars
  <2> QED
    BY <1>1, <2>1, <2>2, <2>3, <2>4, LocksUntouched
<1>3. ASSUME NEW t \in Threads, StartThread(t) \/ ProcessExecute(t) PROVE SyncInv'
  <2>1. ThreadInv'
    BY <1>3, ThreadStep DEF SyncInv, Next, ClientStep
  <2>2. /\ Enlist(t) /\ status[t] = "FREE"
    BY <1>3 DEF StartThread, ProcessExecute, Enlist
  <2>3. t \notin Range(thdReadyList) /\ t \notin Range(thdList)
    BY <2>2 DEF SyncInv, ThreadInv, ReadyListExact, ThdListComplete, NoPanic
  <2>4. /\ cur' = cur /\ old' = old /\ intr' = intr
        /\ status' = [status EXCEPT ![t] = "READY"] /\ frame' = [frame EXCEPT ![t] = "fresh"]
    BY <2>2, <2>3 DEF Enlist
  <2>5. /\ status'[t] = "READY" /\ frame'[t] = "fresh"
        /\ \A u \in Threads \ {t} : status'[u] = status[u] /\ frame'[u] = frame[u]
    BY <2>4 DEF SyncInv, ThreadInv, TypeOK
  <2>6. pc[t] = "run"
    BY <2>2 DEF SyncInv, IntrInv
  <2>7. IntrInv'
    BY <1>1, <2>4, <2>5, <2>6 DEF SyncInv, IntrInv, flow_vars
  <2>8. BootInv'
    BY <1>1, <2>4 DEF SyncInv, BootInv, flow_vars
  <2> QED
    BY <1>1, <2>1, <2>2, <2>5, <2>7, <2>8, LocksUntouched
<1> QED
  BY <1>2, <1>3 DEF MainStep

-----------------------------------------------------------------------------
(* The semaphore.                                                          *)

(* __semaDown clears IF.                                                    *)
LEMMA SemaDownEnterKeepsInv == SyncInv /\ SemaDownEnter => SyncInv'
<1> SUFFICES ASSUME SyncInv, SemaDownEnter PROVE SyncInv'
  OBVIOUS
<1>1. /\ Live /\ pc[cur] = "down" /\ cur \in Threads /\ frame[cur] = "live" /\ L \in Locks
      /\ outer' = [outer EXCEPT ![cur] = intr] /\ intr' = "OFF"
      /\ pc' = [pc EXCEPT ![cur] = "loop"]
      /\ UNCHANGED <<cur, status, ticks, thdReadyList, thdList, frame, old, cr3,
                     esp0, panic, lock_vars, want, depth>>
  BY DEF SemaDownEnter, At, Goto, Live, SyncInv, SyncTypeOK, ThreadInv, TypeOK, L
<1>2. /\ outer \in [Threads -> {"ON", "OFF"}] /\ pc \in [Threads -> PC] /\ intr \in {"ON", "OFF"}
  BY DEF SyncInv, SyncTypeOK, ThreadInv, TypeOK
<1>3. /\ pc'[cur] = "loop" /\ outer'[cur] = intr
      /\ \A t \in Threads \ {cur} : pc'[t] = pc[t] /\ outer'[t] = outer[t]
  BY <1>1, <1>2
<1>4. cur = Main => intr = "OFF"
  BY <1>1 DEF SyncInv, BootInv
<1>5. ThreadInv'
  <2>1. CASE intr = "ON"
    <3>1. IntrDisable /\ cur # Main
      BY <1>1, <1>4, <2>1 DEF IntrDisable
    <3> QED
      BY <3>1, ThreadStep DEF SyncInv, Next, ClientStep
  <2>2. CASE intr = "OFF"
    <3>1. UNCHANGED thread_vars
      BY <1>1, <2>2 DEF thread_vars
    <3> QED
      BY <3>1, ThreadStep DEF SyncInv
  <2> QED
    BY <1>2, <2>1, <2>2
<1>6. SyncTypeOK'
  <2>1. pc' \in [Threads -> PC] /\ outer' \in [Threads -> {"ON", "OFF"}]
    BY <1>1, <1>2 DEF PC
  <2> QED
    BY <1>1, <1>5, <2>1 DEF SyncInv, SyncTypeOK, ThreadInv, lock_vars
<1>7. PlaceInv'
  BY <1>1, <1>3 DEF SyncInv, PlaceInv
<1>8. IntrInv'
  <2>1. status[cur] # "FREE"
    BY <1>1 DEF SyncInv, ThreadInv, OneRunning, NoPanic
  <2> QED
    BY <2>1, <1>1, <1>3 DEF SyncInv, IntrInv
<1>9. BootInv'
  <2>1. CASE cur = Main
    BY <2>1, <1>1, <1>3, <1>4 DEF SyncInv, BootInv
  <2>2. CASE cur # Main
    BY <2>2, <1>1, <1>3, ThreadAssumption DEF SyncInv, BootInv
  <2> QED
    BY <2>1, <2>2
<1>10. HolderInv'
  BY <1>1, <1>3 DEF SyncInv, HolderInv, lock_vars
<1>11. MutualExclusion'
  <2>1. \A t \in Threads, l \in Locks : Owns(t, l)' <=> Owns(t, l)
    BY <1>1, <1>3 DEF Owns
  <2> QED
    BY <2>1, <1>1, SameOwners DEF SyncInv, lock_vars
<1>12. WaitersExact'
  <2>1. status[cur] # "BLOCKED"
    BY <1>1 DEF SyncInv, ThreadInv, OneRunning, NoPanic
  <2>2. \A l \in Locks :
          {t \in Threads : want'[t] = l /\ pc'[t] = "loop" /\ status'[t] = "BLOCKED"}
            = {t \in Threads : want[t] = l /\ pc[t] = "loop" /\ status[t] = "BLOCKED"}
    BY <2>1, <1>1, <1>3
  <2> QED
    BY <2>2, <1>1 DEF SyncInv, WaitersExact, lock_vars
<1>13. NoLostWakeup'
  BY <1>1, <1>3 DEF SyncInv, NoLostWakeup, lock_vars
<1> QED
  BY <1>5, <1>6, <1>7, <1>8, <1>9, <1>10, <1>11, <1>12, <1>13 DEF SyncInv

(* What holds of the running thread in the loop of __semaDown.              *)
LEMMA AtLoop ==
  ASSUME SyncInv, At("loop")
  PROVE  /\ cur \in Threads /\ L \in Locks /\ Live /\ frame[cur] = "live" /\ pc[cur] = "loop"
         /\ intr = "OFF" /\ depth[cur] = 0 /\ status[cur] = "RUNNING"
         /\ \A l \in Locks : cur \notin Range(waiters[l]) /\ ~Owns(cur, l)
<1>1. /\ cur \in Threads /\ L \in Locks /\ Live /\ frame[cur] = "live" /\ pc[cur] = "loop"
  BY DEF At, Live, SyncInv, SyncTypeOK, ThreadInv, TypeOK, L
<1>2. intr = "OFF" /\ depth[cur] = 0
  BY <1>1 DEF SyncInv, IntrInv, PlaceInv
<1>3. status[cur] = "RUNNING"
  BY <1>1 DEF SyncInv, ThreadInv, OneRunning, NoPanic
<1>4. \A l \in Locks : cur \notin Range(waiters[l])
  BY <1>1, <1>3 DEF SyncInv, ThreadInv, WaitersExact, NoPanic
<1> QED
  BY <1>1, <1>2, <1>3, <1>4 DEF Owns

(* A thread that finds no unit joins the waiters and blocks; it is not      *)
(* main(), which only takes locks while nobody else has run.                *)
LEMMA SemaDownWaitBlocks ==
  ASSUME SyncInv, SemaDownWait
  PROVE  /\ cur # Main /\ ThdBlock("BLOCKED") /\ "BLOCKED" \in Blockings
         /\ waiters' = [waiters EXCEPT ![L] = Append(waiters[L], cur)]
         /\ UNCHANGED <<value, holder, holderRepeatNr, flow_vars>>
<1>1. At("loop") /\ value[L] = 0
  BY DEF SemaDownWait
<1>2. cur # Main
  <2>1. PICK t \in Threads : Owns(t, L)
    BY <1>1, AtLoop DEF SyncInv, MutualExclusion
  <2>2. t # cur /\ (depth[t] > 0 \/ pc[t] \in {"own", "count"})
    BY <1>1, <2>1, AtLoop DEF Owns
  <2> QED
    BY <1>1, <2>2, AtLoop DEF SyncInv, BootInv
<1> QED
  BY <1>1, <1>2, AtLoop DEF SemaDownWait, Blockings

(* Going to sleep in __semaDown (sync.c:21-29) preserves the invariant.     *)
LEMMA SemaDownWaitKeepsInv == SyncInv /\ SemaDownWait => SyncInv'
<1> SUFFICES ASSUME SyncInv, SemaDownWait PROVE SyncInv'
  OBVIOUS
<1>1. /\ cur \in Threads /\ L \in Locks /\ pc[cur] = "loop" /\ intr = "OFF"
      /\ value[L] = 0 /\ cur \notin Range(waiters[L]) /\ status[cur] = "RUNNING"
  BY AtLoop DEF SemaDownWait
<1>2. /\ cur # Main /\ ThdBlock("BLOCKED") /\ "BLOCKED" \in Blockings
      /\ waiters' = [waiters EXCEPT ![L] = Append(waiters[L], cur)]
      /\ UNCHANGED <<value, holder, holderRepeatNr, flow_vars>>
  BY SemaDownWaitBlocks
<1>3. ThreadInv'
  BY <1>2, ThdBlockKeepsInv DEF SyncInv
<1>4. /\ panic' = FALSE /\ old' = [old EXCEPT ![cur] = intr]
      /\ cur' \in Threads /\ status[cur'] = "READY" /\ cur' # cur
      /\ intr' = "OFF" => frame[cur'] = "block"
      /\ frame[cur'] = "block" => intr' = "OFF"
      /\ status'[cur] = "BLOCKED" /\ status'[cur'] = "RUNNING" /\ frame'[cur] = "block"
      /\ \A t \in Threads \ {cur, cur'} : status'[t] = status[t]
      /\ \A t \in Threads \ {cur} : frame'[t] = "block" <=> frame[t] = "block"
  BY <1>2, BlockEffect DEF SyncInv
<1>5. /\ pc' = pc /\ want' = want /\ outer' = outer /\ depth' = depth
      /\ value' = value /\ holder' = holder /\ holderRepeatNr' = holderRepeatNr
  BY <1>2 DEF flow_vars
<1>6. waiters[L] \in Seq(Threads) /\ IsInjective(waiters[L])
  BY <1>1 DEF SyncInv, SyncTypeOK, WaitersExact, ThreadInv, NoPanic
<1>7. /\ waiters'[L] = Append(waiters[L], cur)
      /\ \A l \in Locks \ {L} : waiters'[l] = waiters[l]
      /\ waiters'[L] \in Seq(Threads) /\ IsInjective(waiters'[L])
      /\ Range(waiters'[L]) = Range(waiters[L]) \cup {cur}
  <2>1. waiters'[L] = Append(waiters[L], cur) /\ \A l \in Locks \ {L} : waiters'[l] = waiters[l]
    BY <1>1, <1>2 DEF SyncInv, SyncTypeOK
  <2> QED
    BY <1>1, <1>6, <2>1, AppendQueue
<1>8. SyncTypeOK'
  <2>1. waiters' \in [Locks -> Seq(Threads)]
    BY <1>1, <1>2, <1>7 DEF SyncInv, SyncTypeOK
  <2> QED
    BY <1>3, <1>5, <2>1 DEF SyncInv, SyncTypeOK, ThreadInv
<1>9. PlaceInv' /\ HolderInv'
  BY <1>5 DEF SyncInv, PlaceInv, HolderInv
<1>10. IntrInv'
  <2>1. old'[cur] = "OFF" /\ \A t \in Threads \ {cur} : old'[t] = old[t]
    BY <1>1, <1>4 DEF SyncInv, ThreadInv, TypeOK
  <2>2. \A t \in Threads : status'[t] = "FREE" => status[t] = "FREE"
    BY <1>1, <1>4
  <2> QED
    BY <1>1, <1>4, <1>5, <2>1, <2>2 DEF SyncInv, IntrInv
<1>11. BootInv'
  <2>1. pc[Main] = "run" /\ depth[Main] = 0
    BY <1>2, ThreadAssumption DEF SyncInv, BootInv, SyncTypeOK
  <2>2. frame[Main] # "block"
    BY <2>1, ThreadAssumption DEF SyncInv, IntrInv
  <2> QED
    BY <1>4, <1>5, <2>1, <2>2 DEF BootInv
<1>12. MutualExclusion'
  <2>1. \A t \in Threads, l \in Locks : Owns(t, l)' <=> Owns(t, l)
    BY <1>5 DEF Owns
  <2> QED
    BY <2>1, <1>5, SameOwners DEF SyncInv
<1>13. WaitersExact'
  <2> DEFINE Asleep(l) == {t \in Threads : want[t] = l /\ pc[t] = "loop" /\ status[t] = "BLOCKED"}
  <2>1. \A l \in Locks : IsInjective(waiters[l]) /\ Range(waiters[l]) = Asleep(l)
    BY DEF SyncInv, ThreadInv, WaitersExact, NoPanic
  <2>2. \A t \in Threads : status'[t] = "BLOCKED" <=> status[t] = "BLOCKED" \/ t = cur
    BY <1>1, <1>4
  <2>3. want[cur] = L
    BY DEF L
  <2>4. \A l \in Locks : Asleep(l)' = IF l = L THEN Asleep(l) \cup {cur} ELSE Asleep(l)
    BY <1>1, <1>5, <2>2, <2>3
  <2> HIDE DEF Asleep
  <2>5. \A l \in Locks : IsInjective(waiters'[l]) /\ Range(waiters'[l]) = Asleep(l)'
    BY <1>1, <1>7, <2>1, <2>4
  <2> QED
    BY <2>5 DEF WaitersExact, Asleep
<1>14. NoLostWakeup'
  <2>1. ASSUME NEW l \in Locks, value'[l] = 1, waiters'[l] # <<>> PROVE
          \E t \in Threads : want'[t] = l /\ pc'[t] = "loop" /\ status'[t] \in {"READY", "RUNNING"}
    <3>1. l # L /\ waiters[l] # <<>> /\ value[l] = 1
      BY <1>1, <1>5, <1>7, <2>1
    <3>2. PICK t \in Threads : want[t] = l /\ pc[t] = "loop" /\ status[t] \in {"READY", "RUNNING"}
      BY <3>1 DEF SyncInv, NoLostWakeup
    <3>3. t # cur
      BY <3>1, <3>2 DEF L
    <3> QED
      BY <1>4, <1>5, <3>2, <3>3
  <2> QED
    BY <2>1 DEF NoLostWakeup
<1> QED
  BY <1>3, <1>8, <1>9, <1>10, <1>11, <1>12, <1>13, <1>14 DEF SyncInv

(* A thread that finds a unit takes it, and IF is what it was before.       *)
LEMMA SemaDownTakeKeepsInv == SyncInv /\ SemaDownTake => SyncInv'
<1> SUFFICES ASSUME SyncInv, SemaDownTake PROVE SyncInv'
  OBVIOUS
<1>1. /\ cur \in Threads /\ L \in Locks /\ Live /\ pc[cur] = "loop" /\ intr = "OFF"
      /\ depth[cur] = 0 /\ status[cur] = "RUNNING" /\ value[L] # 0 /\ want[cur] = L
      /\ frame[cur] = "live"
  BY AtLoop DEF SemaDownTake, L
<1>2. value[L] = 1 /\ holder[L] = NULL /\ holderRepeatNr[L] = 0
  BY <1>1 DEF SyncInv, HolderInv
<1>3. /\ value' = [value EXCEPT ![L] = 0]
      /\ intr' = outer[cur] /\ pc' = [pc EXCEPT ![cur] = "own"]
      /\ UNCHANGED <<cur, status, ticks, thdReadyList, thdList, frame, old, cr3, esp0, panic,
                     waiters, holder, holderRepeatNr, want, outer, depth>>
  <2>1. value[L] - 1 = 0
    BY <1>2
  <2> QED
    BY <2>1 DEF SemaDownTake, Goto
<1>4. /\ pc'[cur] = "own" /\ \A t \in Threads \ {cur} : pc'[t] = pc[t]
      /\ value'[L] = 0 /\ \A l \in Locks \ {L} : value'[l] = value[l]
  BY <1>1, <1>3 DEF SyncInv, SyncTypeOK
<1>5. outer[cur] \in {"ON", "OFF"}
  BY <1>1 DEF SyncInv, SyncTypeOK
<1>6. ThreadInv'
  <2>1. CASE outer[cur] = "ON"
    <3>1. IntrEnable
      BY <1>1, <1>3, <2>1 DEF IntrEnable
    <3> QED
      BY <3>1, ThreadStep DEF SyncInv, Next, ClientStep
  <2>2. CASE outer[cur] = "OFF"
    <3>1. UNCHANGED thread_vars
      BY <1>1, <1>3, <2>2 DEF thread_vars
    <3> QED
      BY <3>1, ThreadStep DEF SyncInv
  <2> QED
    BY <1>5, <2>1, <2>2
<1>7. SyncTypeOK'
  <2>1. pc' \in [Threads -> PC]
    BY <1>1, <1>3 DEF SyncInv, SyncTypeOK, PC
  <2>2. value' \in [Locks -> 0..255]
    <3>1. value \in [Locks -> 0..255] /\ 0 \in 0..255
      BY DEF SyncInv, SyncTypeOK
    <3> QED
      BY <3>1, <1>3
  <2> QED
    BY <1>3, <1>6, <2>1, <2>2 DEF SyncInv, SyncTypeOK, ThreadInv
<1>8. PlaceInv'
  BY <1>1, <1>3, <1>4 DEF SyncInv, PlaceInv
<1>9. IntrInv'
  BY <1>1, <1>3, <1>4 DEF SyncInv, IntrInv
<1>10. BootInv'
  <2>1. CASE cur = Main
    BY <2>1, <1>1, <1>3, <1>4 DEF SyncInv, BootInv
  <2>2. CASE cur # Main
    BY <2>2, <1>1, <1>3, <1>4, ThreadAssumption DEF SyncInv, BootInv
  <2> QED
    BY <2>1, <2>2
<1>11. \A t \in Threads : ~Owns(t, L)
  BY <1>1, <1>2 DEF SyncInv, MutualExclusion
<1>12. \A t \in Threads : want[t] = L =>
         depth[t] = 0 /\ pc[t] \notin {"own", "count", "again", "release", "clear", "up"}
  BY <1>11, NotOwner
<1>13. HolderInv'
  BY <1>1, <1>2, <1>3, <1>4, <1>12 DEF SyncInv, HolderInv
<1>14. MutualExclusion'
  <2>1. \A t \in Threads \ {cur}, l \in Locks : Owns(t, l)' <=> Owns(t, l)
    BY <1>3, <1>4 DEF Owns
  <2>2. \A l \in Locks : Owns(cur, l)' <=> l = L
    BY <1>1, <1>3, <1>4 DEF Owns
  <2>3. \A t \in Threads, l \in Locks : Owns(t, l)' <=> IF t = cur THEN l = L ELSE Owns(t, l)
    BY <2>1, <2>2, <1>3
  <2>4. \A l \in Locks : ~Owns(cur, l)
    BY <1>1 DEF Owns
  <2>5. ASSUME NEW l \in Locks, l = L PROVE
          /\ \A t, u \in Threads : Owns(t, l)' /\ Owns(u, l)' => t = u
          /\ value'[l] = 0 <=> \E t \in Threads : Owns(t, l)'
    BY <2>3, <2>5, <1>1, <1>4, <1>11
  <2>6. ASSUME NEW l \in Locks, l # L PROVE
          /\ \A t, u \in Threads : Owns(t, l)' /\ Owns(u, l)' => t = u
          /\ value'[l] = 0 <=> \E t \in Threads : Owns(t, l)'
    <3>1. \A t \in Threads : Owns(t, l)' <=> Owns(t, l)
      BY <2>3, <2>4, <2>6
    <3>2. value'[l] = value[l]
      BY <2>6, <1>4
    <3> QED
      BY <3>1, <3>2 DEF SyncInv, MutualExclusion
  <2> QED
    BY <2>5, <2>6 DEF MutualExclusion
<1>15. WaitersExact'
  <2>1. \A l \in Locks :
          {t \in Threads : want'[t] = l /\ pc'[t] = "loop" /\ status'[t] = "BLOCKED"}
            = {t \in Threads : want[t] = l /\ pc[t] = "loop" /\ status[t] = "BLOCKED"}
    BY <1>1, <1>3, <1>4
  <2> QED
    BY <2>1, <1>3 DEF SyncInv, WaitersExact
<1>16. NoLostWakeup'
  <2>1. ASSUME NEW l \in Locks, value'[l] = 1, waiters'[l] # <<>> PROVE
          \E t \in Threads : want'[t] = l /\ pc'[t] = "loop" /\ status'[t] \in {"READY", "RUNNING"}
    <3>1. l # L /\ waiters[l] # <<>> /\ value[l] = 1
      BY <1>3, <1>4, <2>1
    <3>2. PICK t \in Threads : want[t] = l /\ pc[t] = "loop" /\ status[t] \in {"READY", "RUNNING"}
      BY <3>1 DEF SyncInv, NoLostWakeup
    <3>3. t # cur
      BY <3>1, <3>2, <1>1
    <3> QED
      BY <1>3, <1>4, <3>2, <3>3
  <2> QED
    BY <2>1 DEF NoLostWakeup
<1> QED
  BY <1>6, <1>7, <1>8, <1>9, <1>10, <1>13, <1>14, <1>15, <1>16 DEF SyncInv

(* __semaUp finds the unit out, and its first waiter blocked and in no      *)
(* other list.                                                              *)
LEMMA SemaUpProceeds ==
  ASSUME SyncInv, SemaUp
  PROVE  /\ cur \in Threads /\ L \in Locks /\ Live /\ pc[cur] = "up" /\ want[cur] = L
         /\ depth[cur] = 1 /\ value[L] = 0 /\ holder[L] = NULL /\ holderRepeatNr[L] = 0
         /\ Owns(cur, L)
         /\ value' = [value EXCEPT ![L] = 1]
         /\ depth' = [depth EXCEPT ![cur] = 0] /\ pc' = [pc EXCEPT ![cur] = "run"]
         /\ UNCHANGED <<intr, cur, ticks, thdList, frame, old, cr3, esp0, panic,
                        holder, holderRepeatNr, want, outer>>
         /\ waiters[L] = <<>> => UNCHANGED <<waiters, thdReadyList, status>>
         /\ waiters[L] # <<>> =>
              /\ Head(waiters[L]) \in Threads
              /\ Head(waiters[L]) \in Range(waiters[L])
              /\ status[Head(waiters[L])] = "BLOCKED"
              /\ want[Head(waiters[L])] = L /\ pc[Head(waiters[L])] = "loop"
              /\ ThdUnblock(Head(waiters[L]))
              /\ waiters' = [waiters EXCEPT ![L] = Tail(waiters[L])]
              /\ status' = [status EXCEPT ![Head(waiters[L])] = "READY"]
<1>1. /\ cur \in Threads /\ L \in Locks /\ Live /\ pc[cur] = "up" /\ want[cur] = L
      /\ depth[cur] = 1 /\ holder[L] = NULL /\ holderRepeatNr[L] = 0
  BY DEF SemaUp, At, SyncInv, SyncTypeOK, ThreadInv, TypeOK, PlaceInv, HolderInv, L
<1>2. Owns(cur, L)
  BY <1>1 DEF Owns
<1>3. value[L] = 0
  BY <1>1, <1>2, OnlyOwner
<1> DEFINE h == Head(waiters[L])
<1>4. waiters[L] # <<>> =>
        /\ h \in Threads /\ h \in Range(waiters[L])
        /\ status[h] = "BLOCKED" /\ want[h] = L /\ pc[h] = "loop" /\ MayWakeUp(h)
  <2> SUFFICES ASSUME waiters[L] # <<>>
               PROVE  /\ h \in Threads /\ h \in Range(waiters[L])
                      /\ status[h] = "BLOCKED" /\ want[h] = L /\ pc[h] = "loop" /\ MayWakeUp(h)
    OBVIOUS
  <2>1. waiters[L] \in Seq(Threads) /\ IsInjective(waiters[L])
    BY <1>1 DEF SyncInv, SyncTypeOK, WaitersExact, ThreadInv, NoPanic
  <2>2. h \in Threads /\ h \in Range(waiters[L])
    BY <2>1, PopQueue
  <2>3. status[h] = "BLOCKED" /\ want[h] = L /\ pc[h] = "loop"
    BY <1>1, <2>2 DEF SyncInv, WaitersExact, ThreadInv, NoPanic
  <2>4. MayWakeUp(h)
    BY <2>2, <2>3 DEF MayWakeUp, Blockings, SyncInv, ThreadInv, ReadyListExact, NoPanic
  <2> QED
    BY <2>2, <2>3, <2>4
<1>5. value[L] = 0 /\ (waiters[L] = <<>> \/ MayWakeUp(h))
  BY <1>3, <1>4
<1>6. /\ IF waiters[L] = <<>>
         THEN UNCHANGED <<waiters, thdReadyList, status>>
         ELSE WakeUp(h) /\ waiters' = [waiters EXCEPT ![L] = Tail(waiters[L])]
      /\ value' = [value EXCEPT ![L] = value[L] + 1]
      /\ depth' = [depth EXCEPT ![cur] = 0] /\ pc' = [pc EXCEPT ![cur] = "run"]
      /\ UNCHANGED <<intr, cur, ticks, thdList, frame, old, cr3, esp0, panic,
                     holder, holderRepeatNr, want, outer>>
  BY <1>5 DEF SemaUp, WakeFirst, Goto
<1>7. value[L] + 1 = 1
  BY <1>3
<1> HIDE DEF h
<1>8. waiters[L] # <<>> => ThdUnblock(h) /\ status' = [status EXCEPT ![h] = "READY"]
  BY <1>1, <1>4, <1>6 DEF ThdUnblock, WakeUp
<1> QED
  BY <1>1, <1>2, <1>3, <1>4, <1>6, <1>7, <1>8 DEF h

(* __semaUp (sync.c:35-45) preserves the invariant.                         *)
LEMMA SemaUpKeepsInv == SyncInv /\ SemaUp => SyncInv'
<1> SUFFICES ASSUME SyncInv, SemaUp PROVE SyncInv'
  OBVIOUS
<1> DEFINE h == Head(waiters[L])
<1>1. /\ cur \in Threads /\ L \in Locks /\ Live /\ pc[cur] = "up" /\ want[cur] = L
      /\ depth[cur] = 1 /\ value[L] = 0 /\ holder[L] = NULL /\ holderRepeatNr[L] = 0
      /\ Owns(cur, L)
      /\ value' = [value EXCEPT ![L] = 1]
      /\ depth' = [depth EXCEPT ![cur] = 0] /\ pc' = [pc EXCEPT ![cur] = "run"]
      /\ UNCHANGED <<intr, cur, ticks, thdList, frame, old, cr3, esp0, panic,
                     holder, holderRepeatNr, want, outer>>
  BY SemaUpProceeds
<1>2. waiters[L] = <<>> => UNCHANGED <<waiters, thdReadyList, status>>
  BY SemaUpProceeds
<1>3. waiters[L] # <<>> =>
        /\ h \in Threads /\ h \in Range(waiters[L])
        /\ status[h] = "BLOCKED" /\ want[h] = L /\ pc[h] = "loop"
        /\ ThdUnblock(h)
        /\ waiters' = [waiters EXCEPT ![L] = Tail(waiters[L])]
        /\ status' = [status EXCEPT ![h] = "READY"]
  BY SemaUpProceeds
<1> HIDE DEF h
<1>4. /\ pc'[cur] = "run" /\ depth'[cur] = 0
      /\ \A t \in Threads \ {cur} : pc'[t] = pc[t] /\ depth'[t] = depth[t]
      /\ value'[L] = 1 /\ \A l \in Locks \ {L} : value'[l] = value[l]
  BY <1>1 DEF SyncInv, SyncTypeOK
<1>5. \A t \in Threads :
        /\ status[t] \in {"READY", "RUNNING"} => status'[t] \in {"READY", "RUNNING"}
        /\ status'[t] = "FREE" <=> status[t] = "FREE"
        /\ status'[t] = "BLOCKED" <=> status[t] = "BLOCKED" /\ ~(waiters[L] # <<>> /\ t = h)
  BY <1>2, <1>3 DEF SyncInv, ThreadInv, TypeOK
<1>6. ThreadInv'
  <2>1. CASE waiters[L] = <<>>
    <3>1. UNCHANGED thread_vars
      BY <1>1, <1>2, <2>1 DEF thread_vars
    <3> QED
      BY <3>1, ThreadStep DEF SyncInv
  <2>2. CASE waiters[L] # <<>>
    BY <1>3, <2>2, ThdUnblockKeepsInv DEF SyncInv, Blockings
  <2> QED
    BY <2>1, <2>2
<1>7. /\ waiters[L] \in Seq(Threads) /\ IsInjective(waiters[L])
      /\ waiters'[L] \in Seq(Threads) /\ IsInjective(waiters'[L])
      /\ Range(waiters'[L]) = Range(waiters[L]) \ (IF waiters[L] # <<>> THEN {h} ELSE {})
      /\ \A l \in Locks \ {L} : waiters'[l] = waiters[l]
  <2>1. waiters[L] \in Seq(Threads) /\ IsInjective(waiters[L])
    BY <1>1 DEF SyncInv, SyncTypeOK, WaitersExact, ThreadInv, NoPanic
  <2>2. CASE waiters[L] = <<>>
    BY <2>1, <2>2, <1>2
  <2>3. CASE waiters[L] # <<>>
    <3>1. waiters'[L] = Tail(waiters[L]) /\ \A l \in Locks \ {L} : waiters'[l] = waiters[l]
      BY <1>1, <1>3, <2>3 DEF SyncInv, SyncTypeOK
    <3> QED
      BY <2>1, <2>3, <3>1, PopQueue DEF h
  <2> QED
    BY <2>2, <2>3
<1>8. SyncTypeOK'
  <2>1. waiters' \in [Locks -> Seq(Threads)]
    <3>1. waiters \in [Locks -> Seq(Threads)]
      BY DEF SyncInv, SyncTypeOK
    <3>2. CASE waiters[L] = <<>>
      BY <3>1, <3>2, <1>2
    <3>3. CASE waiters[L] # <<>>
      <4>1. waiters' = [waiters EXCEPT ![L] = Tail(waiters[L])]
        BY <3>3, <1>3
      <4>2. \A l \in Locks : waiters'[l] \in Seq(Threads)
        BY <3>1, <1>7
      <4> QED
        BY <3>1, <4>1, <4>2
    <3> QED
      BY <3>2, <3>3
  <2>2. /\ pc' \in [Threads -> PC] /\ depth' \in [Threads -> 0..MaxNest]
        /\ value' \in [Locks -> 0..255]
    BY <1>1, SyncAssumption DEF SyncInv, SyncTypeOK, PC
  <2> QED
    BY <1>1, <1>6, <2>1, <2>2 DEF SyncInv, SyncTypeOK, ThreadInv
<1>9. PlaceInv'
  BY <1>4 DEF SyncInv, PlaceInv
<1>10. IntrInv'
  BY <1>1, <1>4, <1>5 DEF SyncInv, IntrInv
<1>11. BootInv'
  <2>1. CASE cur = Main
    BY <2>1, <1>1, <1>4 DEF SyncInv, BootInv
  <2>2. CASE cur # Main
    BY <2>2, <1>1, <1>4, ThreadAssumption DEF SyncInv, BootInv
  <2> QED
    BY <2>1, <2>2
<1>12. \A t \in Threads \ {cur} : ~Owns(t, L)
  BY <1>1, OnlyOwner
<1>13. \A t \in Threads \ {cur} : want[t] = L =>
         depth[t] = 0 /\ pc[t] \notin {"own", "count", "again", "release", "clear", "up"}
  BY <1>12, NotOwner
<1>14. HolderInv'
  BY <1>1, <1>4, <1>13 DEF SyncInv, HolderInv
<1>15. MutualExclusion'
  <2>1. \A t \in Threads \ {cur}, l \in Locks : Owns(t, l)' <=> Owns(t, l)
    BY <1>1, <1>4 DEF Owns
  <2>2. \A l \in Locks : ~Owns(cur, l)'
    BY <1>1, <1>4 DEF Owns
  <2>3. \A l \in Locks \ {L} : ~Owns(cur, l)
    BY <1>1 DEF Owns
  <2> QED
    BY <2>1, <2>2, <2>3, <1>1, <1>4, <1>12 DEF SyncInv, MutualExclusion
<1>16. WaitersExact'
  <2> DEFINE Asleep(l) == {t \in Threads : want[t] = l /\ pc[t] = "loop" /\ status[t] = "BLOCKED"}
  <2>1. \A l \in Locks : IsInjective(waiters[l]) /\ Range(waiters[l]) = Asleep(l)
    BY DEF SyncInv, ThreadInv, WaitersExact, NoPanic
  <2>2. \A l \in Locks : Asleep(l)' =
          Asleep(l) \ (IF waiters[L] # <<>> THEN {h} ELSE {})
    BY <1>1, <1>4, <1>5
  <2>3. \A l \in Locks \ {L} : Asleep(l)' = Asleep(l)
    BY <1>3, <2>2
  <2> HIDE DEF Asleep
  <2>4. \A l \in Locks : IsInjective(waiters'[l]) /\ Range(waiters'[l]) = Asleep(l)'
    BY <1>1, <1>7, <2>1, <2>2, <2>3
  <2> QED
    BY <2>4 DEF WaitersExact, Asleep
<1>17. NoLostWakeup'
  <2>1. ASSUME NEW l \in Locks, value'[l] = 1, waiters'[l] # <<>> PROVE
          \E t \in Threads : want'[t] = l /\ pc'[t] = "loop" /\ status'[t] \in {"READY", "RUNNING"}
    <3>1. CASE l = L
      <4>1. waiters[L] # <<>>
        BY <1>2, <2>1, <3>1
      <4>2. status'[h] = "READY" /\ h # cur /\ h \in Threads
        BY <4>1, <1>1, <1>3 DEF SyncInv, ThreadInv, TypeOK
      <4> QED
        BY <4>1, <4>2, <1>1, <1>3, <1>4, <3>1
    <3>2. CASE l # L
      <4>1. waiters[l] # <<>> /\ value[l] = 1
        BY <1>4, <1>7, <2>1, <3>2
      <4>2. PICK t \in Threads : want[t] = l /\ pc[t] = "loop" /\ status[t] \in {"READY", "RUNNING"}
        BY <4>1 DEF SyncInv, NoLostWakeup
      <4>3. t # cur
        BY <4>2, <1>1
      <4> QED
        BY <4>2, <4>3, <1>1, <1>4, <1>5
    <3> QED
      BY <3>1, <3>2
  <2> QED
    BY <2>1 DEF NoLostWakeup
<1> QED
  BY <1>6, <1>8, <1>9, <1>10, <1>11, <1>14, <1>15, <1>16, <1>17 DEF SyncInv

-----------------------------------------------------------------------------
(* The theorems.                                                           *)

(* Every step keeps the invariant.                                          *)
LEMMA SyncStepKeepsInv == SyncInv /\ [SyncNext]_sync_vars => SyncInv'
<1> SUFFICES ASSUME SyncInv, [SyncNext]_sync_vars PROVE SyncInv'
  OBVIOUS
<1>1. CASE UNCHANGED sync_vars
  <2>1. UNCHANGED thread_vars /\ UNCHANGED lock_vars /\ UNCHANGED flow_vars
    BY <1>1 DEF sync_vars
  <2>2. ThreadInv'
    BY <2>1, ThreadStep DEF SyncInv
  <2>3. IntrInv' /\ BootInv' /\ status' = status
    BY <2>1 DEF SyncInv, IntrInv, BootInv, thread_vars, flow_vars
  <2> QED
    BY <2>1, <2>2, <2>3, LocksUntouched
<1>2. CASE Interrupt \/ Wake \/ MainStep
  BY <1>2, InterruptKeepsInv, WakeKeepsInv, MainStepKeepsInv
<1>3. CASE CallAcquire \/ CallRelease
  BY <1>3, CallAcquireKeepsInv, CallReleaseKeepsInv
<1>4. CASE AcquireTest \/ AcquireOwn \/ AcquireCount \/ AcquireAgain
  BY <1>4, AcquireTestKeepsInv, AcquireOwnKeepsInv, AcquireCountKeepsInv, AcquireAgainKeepsInv
<1>5. CASE SemaDownEnter \/ SemaDownWait \/ SemaDownTake
  BY <1>5, SemaDownEnterKeepsInv, SemaDownWaitKeepsInv, SemaDownTakeKeepsInv
<1>6. CASE ReleaseOne \/ ReleaseLast \/ ReleaseClear \/ SemaUp
  BY <1>6, ReleaseOneKeepsInv, ReleaseLastKeepsInv, ReleaseClearKeepsInv, SemaUpKeepsInv
<1> QED
  BY <1>1, <1>2, <1>3, <1>4, <1>5, <1>6 DEF SyncNext, SyncStep

(* The invariant holds in every reachable state.                            *)
THEOREM SyncInvariant == SyncSpec => []SyncInv
<1>1. SyncInit => SyncInv
  BY SyncInitInv
<1>2. SyncInv /\ [SyncNext]_sync_vars => SyncInv'
  BY SyncStepKeepsInv
<1> QED
  BY <1>1, <1>2, PTL DEF SyncSpec

(* No two threads ever have the same lock.                                  *)
THEOREM LocksExclude == SyncSpec => []MutualExclusion
<1>1. SyncInv => MutualExclusion
  BY DEF SyncInv
<1> QED
  BY <1>1, SyncInvariant, PTL

(* No ASSERT or PANIC of sync.c or thread.c is ever reached.                *)
THEOREM LocksNeverPanic == SyncSpec => []NoPanic
<1>1. SyncInv => NoPanic
  BY DEF SyncInv, ThreadInv
<1> QED
  BY <1>1, SyncInvariant, PTL

(* A free lock with sleeping waiters always has a woken one under way.      *)
THEOREM WakeupsAreKept == SyncSpec => []NoLostWakeup
<1>1. SyncInv => NoLostWakeup
  BY DEF SyncInv
<1> QED
  BY <1>1, SyncInvariant, PTL

(* The wait queue of a semaphore is exactly the threads asleep in it.       *)
THEOREM WaitersAreExact == SyncSpec => []WaitersExact
<1>1. SyncInv => WaitersExact
  BY DEF SyncInv
<1> QED
  BY <1>1, SyncInvariant, PTL

(* What __lockAcquire reads from holder without protection can be relied    *)
(* upon.                                                                    *)
THEOREM HolderIsTold == SyncSpec => []HolderTold
<1>1. ASSUME SyncInv PROVE HolderTold
  <2>1. \A l \in Locks : holder[l] # NULL => Owns(holder[l], l)
    BY <1>1, HolderOwns
  <2>2. \A t \in Threads : pc[t] = "run" /\ depth[t] > 0 =>
          holder[want[t]] = t /\ holderRepeatNr[want[t]] = depth[t]
    BY <1>1 DEF SyncInv, HolderInv
  <2> QED
    BY <2>1, <2>2 DEF HolderTold
<1> QED
  BY <1>1, SyncInvariant, PTL

-----------------------------------------------------------------------------
(* Refinement.                                                             *)

(* What the running thread finds in its lock where it writes it.            *)
LEMMA LockAtPlace ==
  ASSUME SyncInv, NEW place \in PC, At(place)
  PROVE  /\ cur \in Threads /\ cur # NULL /\ L \in Locks
         /\ depth[cur] \in Nat
         /\ place = "own"   => holder[L] = NULL /\ holderRepeatNr[L] = 0
         /\ place = "count" => holder[L] = cur /\ holderRepeatNr[L] = 0
         /\ place \in {"again", "release"} =>
              holder[L] = cur /\ holderRepeatNr[L] = depth[cur] /\ depth[cur] > 0
         /\ place = "clear" => holder[L] = NULL
<1>1. /\ cur \in Threads /\ L \in Locks /\ pc[cur] = place
      /\ depth[cur] \in 0..MaxNest /\ MaxNest \in Nat
  BY SyncAssumption DEF SyncInv, SyncTypeOK, ThreadInv, TypeOK, At, L
<1>2. depth[cur] \in Nat /\ cur # NULL
  BY <1>1, ThreadAssumption
<1> QED
  BY <1>1, <1>2 DEF SyncInv, HolderInv, PlaceInv, L

(* Every step of a thread that works with locks is a step that a client of  *)
(* the thread API may take, or none.                                        *)
LEMMA ThreadSimulation == SyncInv /\ [SyncNext]_sync_vars => [Next]_thread_vars
<1> SUFFICES ASSUME SyncInv, [SyncNext]_sync_vars PROVE [Next]_thread_vars
  OBVIOUS
<1>1. CASE UNCHANGED sync_vars
  BY <1>1 DEF sync_vars
<1>2. CASE Interrupt \/ Wake
  BY <1>2 DEF Interrupt, Wake, Next
<1>3. CASE MainStep
  <2>1. CASE IntrEnable \/ \E t \in Threads : StartThread(t) \/ ProcessExecute(t)
    BY <2>1 DEF Next, ClientStep
  <2> QED
    BY <1>3, <2>1 DEF MainStep
<1>4. CASE CallAcquire \/ CallRelease \/ AcquireTest \/ AcquireOwn \/ AcquireAgain
           \/ ReleaseOne \/ ReleaseClear
  BY <1>4 DEF CallAcquire, CallRelease, AcquireTest, AcquireOwn, AcquireAgain,
              ReleaseOne, ReleaseClear
<1>5. CASE AcquireCount
  <2>1. holderRepeatNr[L] = 0
    BY <1>5, LockAtPlace DEF AcquireCount, PC
  <2> QED
    BY <1>5, <2>1 DEF AcquireCount
<1>6. CASE ReleaseLast
  <2>1. /\ holder[L] = cur /\ holderRepeatNr[L] = depth[cur] /\ depth[cur] > 0
        /\ depth[cur] \in Nat
    BY <1>6, LockAtPlace DEF ReleaseLast, PC
  <2>2. holder[L] = cur /\ holderRepeatNr[L] = 1
    BY <1>6, <2>1 DEF ReleaseLast
  <2> QED
    BY <1>6, <2>2 DEF ReleaseLast
<1>7. CASE SemaDownEnter
  <2>1. Live /\ pc[cur] = "down" /\ intr \in {"ON", "OFF"} /\ cur \in Threads
    BY <1>7 DEF SemaDownEnter, At, SyncInv, ThreadInv, TypeOK
  <2>2. cur = Main => intr = "OFF"
    BY <2>1 DEF SyncInv, BootInv
  <2>3. CASE intr = "ON"
    BY <1>7, <2>1, <2>2, <2>3 DEF SemaDownEnter, IntrDisable, Next, ClientStep
  <2>4. CASE intr = "OFF"
    BY <1>7, <2>4 DEF SemaDownEnter, thread_vars
  <2> QED
    BY <2>1, <2>3, <2>4
<1>8. CASE SemaDownWait
  BY <1>8, SemaDownWaitBlocks DEF Next, ClientStep
<1>9. CASE SemaDownTake
  <2>1. At("loop") /\ value[L] # 0
    BY <1>9 DEF SemaDownTake
  <2>2. Live /\ intr = "OFF" /\ value[L] = 1 /\ outer[cur] \in {"ON", "OFF"}
    BY <2>1, AtLoop DEF SyncInv, HolderInv, SyncTypeOK
  <2>3. value[L] - 1 = 0
    BY <2>2
  <2>4. /\ intr' = outer[cur]
        /\ UNCHANGED <<cur, status, ticks, thdReadyList, thdList, frame, old, cr3, esp0, panic>>
    BY <1>9, <2>3 DEF SemaDownTake
  <2>5. CASE outer[cur] = "ON"
    BY <2>2, <2>4, <2>5 DEF IntrEnable, Next, ClientStep
  <2>6. CASE outer[cur] = "OFF"
    BY <2>2, <2>4, <2>6 DEF thread_vars
  <2> QED
    BY <2>2, <2>5, <2>6
<1>10. CASE SemaUp
  <2>1. CASE waiters[L] = <<>>
    BY <1>10, <2>1, SemaUpProceeds DEF thread_vars
  <2>2. CASE waiters[L] # <<>>
    <3>1. \E t \in Threads : status[t] \in Blockings /\ ThdUnblock(t)
      BY <1>10, <2>2, SemaUpProceeds DEF Blockings
    <3>2. cur # Main => ClientStep
      BY <3>1 DEF ClientStep
    <3>3. cur # Main
      <4>1. PICK t \in Threads : status[t] = "BLOCKED" /\ pc[t] = "loop" /\ cur # t
        BY <1>10, <2>2, SemaUpProceeds
      <4>2. pc[cur] = "up" /\ Main \in Threads
        BY <1>10, SemaUpProceeds, ThreadAssumption
      <4> QED
        BY <4>1, <4>2 DEF SyncInv, BootInv
    <3> QED
      BY <3>2, <3>3 DEF Next
  <2> QED
    BY <2>1, <2>2
<1> QED
  BY <1>1, <1>2, <1>3, <1>4, <1>5, <1>6, <1>7, <1>8, <1>9, <1>10 DEF SyncNext, SyncStep

(* sync.c is a legal client of thread.c: its specification implements that  *)
(* of Thread.tla, whose invariants it therefore inherits.                   *)
THEOREM SyncImplementsThread == SyncSpec => ThreadSafety
<1>1. SyncInit => Init
  BY DEF SyncInit
<1>2. SyncInv /\ [SyncNext]_sync_vars => [Next]_thread_vars
  BY ThreadSimulation
<1> QED
  BY <1>1, <1>2, SyncInvariant, PTL DEF SyncSpec, ThreadSafety, Spec

(* A step that leaves holder and holderRepeatNr alone is invisible to the   *)
(* abstract mutex.                                                          *)
LEMMA NestUnchanged ==
  ASSUME holder' = holder, holderRepeatNr' = holderRepeatNr
  PROVE  UNCHANGED M!mutex_vars
BY DEF M!mutex_vars, Nest

(* Every step of sync.c is a step of the abstract mutex or invisible to it. *)
LEMMA MutexSimulation == SyncInv /\ [SyncNext]_sync_vars => [M!Next]_(M!mutex_vars)
<1> SUFFICES ASSUME SyncInv, [SyncNext]_sync_vars PROVE [M!Next]_(M!mutex_vars)
  OBVIOUS
<1> USE DEF M!mutex_vars
<1> DEFINE N == [l \in Locks |-> Nest(l)]
<1>0. /\ holder \in [Locks -> Threads \cup {NULL}] /\ holderRepeatNr \in [Locks -> Nat]
      /\ NULL \notin Threads
  BY ThreadAssumption DEF SyncInv, SyncTypeOK
<1>1. CASE UNCHANGED sync_vars \/ Interrupt \/ Wake \/ MainStep \/ CallAcquire \/ CallRelease
           \/ AcquireTest \/ SemaDownEnter
  <2>1. holder' = holder /\ holderRepeatNr' = holderRepeatNr
    BY <1>1 DEF sync_vars, lock_vars, Interrupt, Wake, MainStep, CallAcquire, CallRelease,
                AcquireTest, SemaDownEnter
  <2> QED
    BY <2>1, NestUnchanged
<1>2. CASE SemaDownWait \/ SemaDownTake \/ SemaUp
  <2>1. holder' = holder /\ holderRepeatNr' = holderRepeatNr
    BY <1>2 DEF SemaDownWait, SemaDownTake, SemaUp, PanicHere, lock_vars
  <2> QED
    BY <2>1, NestUnchanged
<1>3. CASE AcquireOwn
  <2>1. cur \in Threads /\ L \in Locks /\ holder[L] = NULL /\ holderRepeatNr[L] = 0 /\ cur # NULL
    BY <1>3, LockAtPlace DEF AcquireOwn, PC
  <2>2. holder' = [holder EXCEPT ![L] = cur] /\ holderRepeatNr' = holderRepeatNr
    BY <1>3 DEF AcquireOwn
  <2>3. \A l \in Locks : Nest(l)' = IF l = L THEN 1 ELSE Nest(l)
    BY <1>0, <2>1, <2>2 DEF Nest
  <2>4. N' = [N EXCEPT ![L] = 1]
    BY <2>1, <2>3
  <2>5. M!Acquire(cur, L)
    BY <2>1, <2>2, <2>4 DEF M!Acquire
  <2> QED
    BY <2>1, <2>5 DEF M!Next
<1>4. CASE AcquireCount
  <2>1. L \in Locks /\ holder[L] = cur /\ holderRepeatNr[L] = 0 /\ cur # NULL
    BY <1>4, LockAtPlace DEF AcquireCount, PC
  <2>2. holder' = holder /\ holderRepeatNr' = [holderRepeatNr EXCEPT ![L] = 1]
    BY <1>4, <2>1 DEF AcquireCount
  <2>3. \A l \in Locks : Nest(l)' = Nest(l)
    BY <1>0, <2>1, <2>2 DEF Nest
  <2>4. N' = N
    BY <2>3
  <2> QED
    BY <2>2, <2>4
<1>5. CASE AcquireAgain
  <2>1. /\ L \in Locks /\ holder[L] = cur /\ holderRepeatNr[L] = depth[cur] /\ depth[cur] > 0
        /\ cur # NULL /\ depth[cur] \in Nat
    BY <1>5, LockAtPlace DEF AcquireAgain, PC
  <2>2. holder' = holder /\ holderRepeatNr' = [holderRepeatNr EXCEPT ![L] = holderRepeatNr[L] + 1]
    BY <1>5 DEF AcquireAgain
  <2>3. \A l \in Locks : Nest(l)' = IF l = L THEN Nest(L) + 1 ELSE Nest(l)
    BY <1>0, <2>1, <2>2 DEF Nest
  <2>4. N' = [N EXCEPT ![L] = N[L] + 1]
    BY <2>1, <2>3
  <2>5. M!AcquireAgain(L)
    BY <2>1, <2>2, <2>4 DEF M!AcquireAgain
  <2> QED
    BY <2>1, <2>5 DEF M!Next
<1>6. CASE ReleaseOne
  <2>1. L \in Locks /\ holder[L] = cur /\ cur # NULL /\ holderRepeatNr[L] > 1
    BY <1>6, LockAtPlace DEF ReleaseOne, PC
  <2>2. holder' = holder /\ holderRepeatNr' = [holderRepeatNr EXCEPT ![L] = holderRepeatNr[L] - 1]
    BY <1>6 DEF ReleaseOne
  <2>3. Nest(L) > 1
    BY <1>0, <2>1 DEF Nest
  <2>4. \A l \in Locks : Nest(l)' = IF l = L THEN Nest(L) - 1 ELSE Nest(l)
    BY <1>0, <2>1, <2>2 DEF Nest
  <2>5. N' = [N EXCEPT ![L] = N[L] - 1]
    BY <2>1, <2>4
  <2>6. M!ReleaseOne(L)
    BY <2>1, <2>2, <2>3, <2>5 DEF M!ReleaseOne
  <2> QED
    BY <2>1, <2>6 DEF M!Next
<1>7. CASE ReleaseLast
  <2>1. /\ L \in Locks /\ holder[L] = cur /\ holderRepeatNr[L] = depth[cur] /\ depth[cur] > 0
        /\ cur # NULL /\ depth[cur] \in Nat
    BY <1>7, LockAtPlace DEF ReleaseLast, PC
  <2>2. holderRepeatNr[L] = 1
    BY <1>7, <2>1 DEF ReleaseLast
  <2>3. holder' = [holder EXCEPT ![L] = NULL] /\ holderRepeatNr' = holderRepeatNr
    BY <1>7, <2>1, <2>2 DEF ReleaseLast
  <2>4. Nest(L) = 1
    BY <2>1, <2>2 DEF Nest
  <2>5. \A l \in Locks : Nest(l)' = IF l = L THEN 0 ELSE Nest(l)
    BY <1>0, <2>1, <2>3 DEF Nest
  <2>6. N' = [N EXCEPT ![L] = 0]
    BY <2>1, <2>5
  <2>7. M!ReleaseLast(L)
    BY <2>1, <2>3, <2>4, <2>6 DEF M!ReleaseLast
  <2> QED
    BY <2>1, <2>7 DEF M!Next
<1>8. CASE ReleaseClear
  <2>1. L \in Locks /\ holder[L] = NULL
    BY <1>8, LockAtPlace DEF ReleaseClear, PC
  <2>2. holder' = holder /\ holderRepeatNr' = [holderRepeatNr EXCEPT ![L] = 0]
    BY <1>8 DEF ReleaseClear
  <2>3. \A l \in Locks : Nest(l)' = Nest(l)
    <3>1. SUFFICES ASSUME NEW l \in Locks
                   PROVE  Nest(l)' = Nest(l)
      OBVIOUS
    <3>2. CASE l = L
      <4>1. Nest(l) = 0
        BY <2>1, <3>2 DEF Nest
      <4>2. Nest(l)' = 0
        BY <2>1, <2>2, <3>2 DEF Nest
      <4> QED
        BY <4>1, <4>2
    <3>3. CASE l # L
      <4>1. holder'[l] = holder[l] /\ holderRepeatNr'[l] = holderRepeatNr[l]
        BY <1>0, <2>2, <3>3
      <4> QED
        BY <4>1 DEF Nest
    <3> QED
      BY <3>2, <3>3
  <2>4. N' = N
    BY <2>3
  <2> QED
    BY <2>2, <2>4
<1> QED
  BY <1>1, <1>2, <1>3, <1>4, <1>5, <1>6, <1>7, <1>8 DEF SyncNext, SyncStep

(* A lock of sync.c is a recursive mutex.                                   *)
THEOREM SyncImplementsMutex == SyncSpec => ImplementsMutex
<1>1. SyncInit => M!Init
  <2>1. SUFFICES ASSUME SyncInit
                 PROVE  M!Init
    OBVIOUS
  <2>2. holder = [l \in Locks |-> NULL]
    BY <2>1 DEF SyncInit
  <2>3. \A l \in Locks : Nest(l) = 0
    BY <2>2 DEF Nest
  <2>4. [l \in Locks |-> Nest(l)] = [l \in Locks |-> 0]
    BY <2>3
  <2> QED
    BY <2>2, <2>4 DEF M!Init
<1>2. SyncInv /\ [SyncNext]_sync_vars => [M!Next]_(M!mutex_vars)
  BY MutexSimulation
<1> QED
  BY <1>1, <1>2, SyncInvariant, PTL DEF SyncSpec, ImplementsMutex, M!Spec

(* Lock fields keep their types: value never wraps below 0 (sync.c:30). *)
THEOREM SyncTypes == SyncSpec => []SyncTypeOK
<1>1. SyncInv => SyncTypeOK
  BY DEF SyncInv
<1> QED
  BY <1>1, SyncInvariant, PTL
=============================================================================
