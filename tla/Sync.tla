-------------------------------- MODULE Sync --------------------------------
(***************************************************************************)
(* Semaphores and locks: src/thread/sync.c, on the threads of Thread.tla.   *)
(*                                                                         *)
(* A thread that works with a lock does so one source statement that reads  *)
(* or writes shared memory at a time, and the clock may come in between     *)
(* whenever IF is set.  The bodies of __semaDown and __semaUp run with IF   *)
(* clear.  Like every caller in src/, a thread works with one lock at a     *)
(* time, but it may acquire that lock again while it holds it.              *)
(***************************************************************************)
EXTENDS Thread

CONSTANTS Locks,
          MaxNest   \* bound on how often a thread nests its acquisitions

ASSUME SyncAssumption == MaxNest \in Nat \ {0}

VARIABLES
  value,           \* lock.semaphore.value
  waiters,         \* lock.semaphore.waiters
  holder,          \* lock.holder
  holderRepeatNr,  \* lock.holderRepeatNr
  pc,              \* where in sync.c a thread is, see PC
  want,            \* the lock a thread works with
  outer,           \* oldStatus in the frame of a __semaDown under way
  depth            \* acquisitions that a thread has not yet given back

lock_vars == <<value, waiters, holder, holderRepeatNr>>
flow_vars == <<pc, want, outer, depth>>
sync_vars == <<thread_vars, lock_vars, flow_vars>>

PC == {"run",      \* outside sync.c
       "acquire",  \* __lockAcquire, sync.c:48
       "down",     \* __semaDown, sync.c:20
       "loop",     \* sync.c:21, IF clear; also while asleep in sync.c:28
       "own",      \* sync.c:50
       "count",    \* sync.c:51
       "again",    \* sync.c:54
       "release",  \* __lockRelease, sync.c:59
       "clear",    \* sync.c:66
       "up"}       \* __semaUp, sync.c:67

(* The type invariant of the locks and of where each thread is in sync.c.   *)
SyncTypeOK ==
  /\ TypeOK
  /\ value \in [Locks -> 0..255]
  /\ waiters \in [Locks -> Seq(Threads)]
  /\ holder \in [Locks -> Threads \cup {NULL}]
  /\ holderRepeatNr \in [Locks -> Nat]
  /\ pc \in [Threads -> PC]
  /\ want \in [Threads -> Locks]
  /\ outer \in [Threads -> {"ON", "OFF"}]
  /\ depth \in [Threads -> 0..MaxNest]

(* __lockInit of every lock.                                                *)
SyncInit ==
  /\ Init
  /\ value = [l \in Locks |-> 1]
  /\ waiters = [l \in Locks |-> <<>>]
  /\ holder = [l \in Locks |-> NULL]
  /\ holderRepeatNr = [l \in Locks |-> 0]
  /\ pc = [t \in Threads |-> "run"]
  /\ want \in [Threads -> Locks]
  /\ outer = [t \in Threads |-> "OFF"]
  /\ depth = [t \in Threads |-> 0]

L == want[cur]  \* the lock the running thread works with

Goto(place) == pc' = [pc EXCEPT ![cur] = place]

At(place) == Live /\ pc[cur] = place

(* ASSERT(c): if c does not hold, the kernel stops in __panic.              *)
PanicHere == Panic /\ UNCHANGED <<old, lock_vars, flow_vars>>

-----------------------------------------------------------------------------
(* __lockAcquire                                                           *)

(* A call of __lockAcquire: for a lock not yet held, any lock.  main() uses *)
(* locks only while it boots, with IF clear.                                *)
CallAcquire ==
  /\ At("run") /\ (cur = Main => intr = "OFF")
  /\ depth[cur] < MaxNest
  /\ \E l \in Locks : /\ depth[cur] > 0 => l = L
                      /\ want' = [want EXCEPT ![cur] = l]
  /\ Goto("acquire")
  /\ UNCHANGED <<thread_vars, lock_vars, outer, depth>>

(* A mutant of AcquireTest: a lock that looks free is taken without its     *)
(* semaphore.                                                               *)
AcquireTestFastPath ==
  /\ At("acquire")
  /\ Goto(IF holder[L] = cur THEN "again"
          ELSE IF holder[L] = NULL THEN "own" ELSE "down")
  /\ UNCHANGED <<thread_vars, lock_vars, want, outer, depth>>

(* sync.c:48, the only place where a lock is read by a thread that may not  *)
(* own it.                                                                  *)
AcquireTest ==
  /\ At("acquire")
  /\ Goto(IF holder[L] # cur THEN "down" ELSE "again")
  /\ UNCHANGED <<thread_vars, lock_vars, want, outer, depth>>

(* sync.c:50                                                               *)
AcquireOwn ==
  /\ At("own")
  /\ holder' = [holder EXCEPT ![L] = cur]
  /\ Goto("count")
  /\ UNCHANGED <<thread_vars, value, waiters, holderRepeatNr, want, outer, depth>>

(* sync.c:51-52                                                            *)
AcquireCount ==
  /\ At("count")
  /\ IF holderRepeatNr[L] = 0
     THEN /\ holderRepeatNr' = [holderRepeatNr EXCEPT ![L] = 1]
          /\ depth' = [depth EXCEPT ![cur] = @ + 1]
          /\ Goto("run")
          /\ UNCHANGED <<thread_vars, value, waiters, holder, want, outer>>
     ELSE PanicHere

(* sync.c:54                                                               *)
AcquireAgain ==
  /\ At("again")
  /\ holderRepeatNr' = [holderRepeatNr EXCEPT ![L] = @ + 1]
  /\ depth' = [depth EXCEPT ![cur] = @ + 1]
  /\ Goto("run")
  /\ UNCHANGED <<thread_vars, value, waiters, holder, want, outer>>

-----------------------------------------------------------------------------
(* __semaDown                                                              *)

(* sync.c:20                                                               *)
SemaDownEnter ==
  /\ At("down")
  /\ outer' = [outer EXCEPT ![cur] = intr]
  /\ intr' = "OFF"
  /\ Goto("loop")
  /\ UNCHANGED <<cur, status, ticks, thdReadyList, thdList, frame, old, cr3,
                 esp0, panic, lock_vars, want, depth>>

(* sync.c:21-29: no unit is left, so join the waiters and block.            *)
SemaDownWait ==
  /\ At("loop") /\ value[L] = 0
  /\ IF cur \notin Range(waiters[L])
     THEN /\ waiters' = [waiters EXCEPT ![L] = Append(@, cur)]
          /\ ThdBlock("BLOCKED")
          /\ UNCHANGED <<value, holder, holderRepeatNr, flow_vars>>
     ELSE PanicHere

(* A mutant of SemaDownTake: the unit is not counted out.                   *)
SemaDownTakeUncounted ==
  /\ At("loop") /\ value[L] # 0
  /\ intr' = outer[cur]
  /\ Goto("own")
  /\ UNCHANGED <<cur, status, ticks, thdReadyList, thdList, frame, old, cr3,
                 esp0, panic, lock_vars, want, outer, depth>>

(* sync.c:30-32: take the unit and restore IF.                              *)
SemaDownTake ==
  /\ At("loop") /\ value[L] # 0
  /\ IF value[L] - 1 = 0
     THEN /\ value' = [value EXCEPT ![L] = @ - 1]
          /\ intr' = outer[cur]
          /\ Goto("own")
          /\ UNCHANGED <<cur, status, ticks, thdReadyList, thdList, frame, old,
                         cr3, esp0, panic, waiters, holder, holderRepeatNr,
                         want, outer, depth>>
     ELSE PanicHere

-----------------------------------------------------------------------------
(* __lockRelease and __semaUp                                              *)

CallRelease ==
  /\ At("run") /\ (cur = Main => intr = "OFF")
  /\ depth[cur] > 0
  /\ Goto("release")
  /\ UNCHANGED <<thread_vars, lock_vars, want, outer, depth>>

(* sync.c:59-63: one of several acquisitions is given back.                 *)
ReleaseOne ==
  /\ At("release") /\ holder[L] = cur /\ holderRepeatNr[L] > 1
  /\ holderRepeatNr' = [holderRepeatNr EXCEPT ![L] = @ - 1]
  /\ depth' = [depth EXCEPT ![cur] = @ - 1]
  /\ Goto("run")
  /\ UNCHANGED <<thread_vars, value, waiters, holder, want, outer>>

(* A mutant of ReleaseLast: the holder is not reset.                        *)
ReleaseLastKeepsHolder ==
  /\ At("release") /\ ~(holder[L] = cur /\ holderRepeatNr[L] > 1)
  /\ Goto("clear")
  /\ UNCHANGED <<thread_vars, lock_vars, want, outer, depth>>

(* sync.c:59, 64-65: the last one is.                                       *)
ReleaseLast ==
  /\ At("release") /\ ~(holder[L] = cur /\ holderRepeatNr[L] > 1)
  /\ IF holder[L] = cur /\ holderRepeatNr[L] = 1
     THEN /\ holder' = [holder EXCEPT ![L] = NULL]
          /\ Goto("clear")
          /\ UNCHANGED <<thread_vars, value, waiters, holderRepeatNr, want,
                         outer, depth>>
     ELSE PanicHere

(* A mutant of ReleaseClear: the count is not reset.                        *)
ReleaseClearForgets ==
  /\ At("clear")
  /\ Goto("up")
  /\ UNCHANGED <<thread_vars, lock_vars, want, outer, depth>>

(* sync.c:66                                                               *)
ReleaseClear ==
  /\ At("clear")
  /\ holderRepeatNr' = [holderRepeatNr EXCEPT ![L] = 0]
  /\ Goto("up")
  /\ UNCHANGED <<thread_vars, value, waiters, holder, want, outer, depth>>

(* Mutants of WakeFirst: nobody is woken; the woken thread stays among the  *)
(* waiters; it is put at the tail of the ready list, past __thdUnblock.     *)
WakeNobody == UNCHANGED <<waiters, thdReadyList, status>>

WakeFirstUnpopped ==
  IF waiters[L] = <<>>
  THEN UNCHANGED <<waiters, thdReadyList, status>>
  ELSE WakeUp(Head(waiters[L])) /\ UNCHANGED waiters

WakeFirstAtTail ==
  IF waiters[L] = <<>>
  THEN UNCHANGED <<waiters, thdReadyList, status>>
  ELSE /\ thdReadyList' = Append(thdReadyList, Head(waiters[L]))
       /\ status' = [status EXCEPT ![Head(waiters[L])] = "READY"]
       /\ waiters' = [waiters EXCEPT ![L] = Tail(@)]

(* sync.c:38-41: the first waiter, if any, is taken off and unblocked.      *)
WakeFirst ==
  IF waiters[L] = <<>>
  THEN UNCHANGED <<waiters, thdReadyList, status>>
  ELSE /\ WakeUp(Head(waiters[L]))
       /\ waiters' = [waiters EXCEPT ![L] = Tail(@)]

(* __semaUp: wake the first waiter, who goes to the head of the ready list, *)
(* and put the unit back; the waiter does not own it before it runs.        *)
SemaUp ==
  /\ At("up")
  /\ IF value[L] = 0 /\ (waiters[L] = <<>> \/ MayWakeUp(Head(waiters[L])))
     THEN /\ WakeFirst
          /\ value' = [value EXCEPT ![L] = @ + 1]
          /\ depth' = [depth EXCEPT ![cur] = 0]
          /\ Goto("run")
          /\ UNCHANGED <<intr, cur, ticks, thdList, frame, old, cr3, esp0,
                         panic, holder, holderRepeatNr, want, outer>>
     ELSE PanicHere

-----------------------------------------------------------------------------
(* main() creates the threads and sets IF when it holds no lock (main.c:25). *)
(* A process may be created by any thread that is not in sync.c.             *)
MainStep ==
  /\ At("run") /\ depth[cur] = 0
  /\ \/ cur = Main /\ IntrEnable
     \/ cur = Main /\ \E t \in Threads : StartThread(t)
     \/ \E t \in Threads : ProcessExecute(t)
  /\ UNCHANGED <<lock_vars, flow_vars>>

Interrupt == IntrTimer /\ UNCHANGED <<lock_vars, flow_vars>>

Wake == ThdBlockReturn /\ UNCHANGED <<lock_vars, flow_vars>>

(* The steps that a thread which is in sync.c takes of itself.              *)
SyncStep ==
  \/ AcquireTest \/ AcquireOwn \/ AcquireCount \/ AcquireAgain
  \/ SemaDownEnter \/ SemaDownWait \/ SemaDownTake
  \/ ReleaseOne \/ ReleaseLast \/ ReleaseClear \/ SemaUp

SyncNext ==
  \/ Interrupt \/ Wake \/ MainStep
  \/ CallAcquire \/ CallRelease \/ SyncStep

SyncSpec == SyncInit /\ [][SyncNext]_sync_vars

-----------------------------------------------------------------------------
(* Thread t has lock l, from the moment its __semaDown returned to the      *)
(* moment its __semaUp puts the unit back.                                  *)
Owns(t, l) == want[t] = l /\ (depth[t] > 0 \/ pc[t] \in {"own", "count"})

(* No two threads have a lock at once, and its semaphore counts the unit    *)
(* out exactly while one has it, whatever the order in which clock          *)
(* interrupts, wake-ups and new arrivals hit sync.c:21-30.                  *)
MutualExclusion ==
  \A l \in Locks :
    /\ \A t, u \in Threads : Owns(t, l) /\ Owns(u, l) => t = u
    /\ value[l] = 0 <=> \E t \in Threads : Owns(t, l)

(* The holder field, which sync.c:48 reads without protection, never names  *)
(* a thread that does not have the lock, and names the one that is using    *)
(* it; holderRepeatNr is then how often it has to be given back.            *)
HolderTold ==
  \A l \in Locks :
    /\ holder[l] # NULL => Owns(holder[l], l)
    /\ \A t \in Threads : want[t] = l /\ pc[t] = "run" /\ depth[t] > 0 =>
                            holder[l] = t /\ holderRepeatNr[l] = depth[t]

(* The threads waiting in a semaphore are exactly those asleep in its       *)
(* __semaDown, each once, so genNode is never linked into two lists.        *)
WaitersExact ==
  ~panic => \A l \in Locks :
    /\ IsInjective(waiters[l])
    /\ Range(waiters[l]) =
         {t \in Threads : want[t] = l /\ pc[t] = "loop" /\ status[t] = "BLOCKED"}

(* No wake-up is lost: when a lock is free and threads sleep on it, another *)
(* thread was woken for it and is on its way to take the unit (sync.c:38).  *)
NoLostWakeup ==
  \A l \in Locks :
    value[l] = 1 /\ waiters[l] # <<>> =>
      \E t \in Threads : /\ want[t] = l /\ pc[t] = "loop"
                         /\ status[t] \in {"READY", "RUNNING"}

(* A lock that somebody waits for is taken by somebody, again and again.    *)
(* (Not by everybody: a thread that releases a lock may take it again       *)
(* before the woken waiter runs, which then goes back to the tail.)         *)
LockGoesOn ==
  \A l \in Locks :
    (\E t \in Threads : want[t] = l /\ pc[t] = "loop")
      ~> (\E t \in Threads : want[t] = l /\ pc[t] = "own")

-----------------------------------------------------------------------------
(* What else has to be known to see that these invariants are preserved     *)
(* (SyncProof.tla).                                                         *)

(* Where a thread is tells how often it has acquired its lock.              *)
PlaceInv ==
  \A t \in Threads :
    /\ pc[t] \in {"down", "loop", "own", "count"} => depth[t] = 0
    /\ pc[t] \in {"acquire", "again"} => depth[t] < MaxNest
    /\ pc[t] \in {"again", "release"} => depth[t] > 0
    /\ pc[t] \in {"clear", "up"} => depth[t] = 1

(* The loop of __semaDown runs with IF clear, and only there a thread       *)
(* blocks; a thread not yet created has not executed anything.              *)
IntrInv ==
  \A t \in Threads :
    /\ frame[t] = "block" => pc[t] = "loop" /\ old[t] = "OFF"
    /\ pc[t] = "loop" => frame[t] = "block" \/ (t = cur /\ intr = "OFF")
    /\ status[t] = "FREE" => pc[t] = "run"

(* main() is in sync.c only while it boots, and then nobody else has run.   *)
BootInv ==
  /\ pc[Main] # "run" \/ depth[Main] > 0 => cur = Main /\ intr = "OFF"
  /\ pc[Main] = "loop" => outer[Main] = "OFF"
  /\ cur = Main /\ intr = "OFF" =>
       \A t \in Threads \ {Main} : pc[t] = "run" /\ depth[t] = 0

(* What the lock of a thread shows at each place.                           *)
HolderInv ==
  /\ \A t \in Threads :
       LET l == want[t] IN
         /\ pc[t] \in {"run", "acquire", "again", "release"} /\ depth[t] > 0 =>
              holder[l] = t /\ holderRepeatNr[l] = depth[t]
         /\ pc[t] = "own"   => holder[l] = NULL /\ holderRepeatNr[l] = 0
         /\ pc[t] = "count" => holder[l] = t    /\ holderRepeatNr[l] = 0
         /\ pc[t] = "clear" => holder[l] = NULL /\ holderRepeatNr[l] = 1
         /\ pc[t] = "up"    => holder[l] = NULL /\ holderRepeatNr[l] = 0
  /\ \A l \in Locks :
       /\ value[l] \in {0, 1}
       /\ value[l] = 1 => holder[l] = NULL /\ holderRepeatNr[l] = 0

SyncInv ==
  /\ ThreadInv
  /\ SyncTypeOK
  /\ PlaceInv
  /\ IntrInv
  /\ BootInv
  /\ HolderInv
  /\ MutualExclusion
  /\ WaitersExact
  /\ NoLostWakeup

-----------------------------------------------------------------------------
(* Semaphores and locks only use the thread API as its client may.          *)
ThreadSafety == Spec

(* A lock is a recursive mutex: taken where holder is set, given back where *)
(* it is reset.                                                             *)
Nest(l) == IF holder[l] = NULL THEN 0
           ELSE IF holderRepeatNr[l] = 0 THEN 1 ELSE holderRepeatNr[l]

M == INSTANCE Mutex WITH owner <- holder,
                         nest  <- [l \in Locks |-> Nest(l)]

(* Every step of the code of a lock is a step of the abstract mutex on its  *)
(* owner and nesting, or changes neither.                                   *)
ImplementsMutex == M!Spec
=============================================================================
