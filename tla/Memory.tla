------------------------------- MODULE Memory -------------------------------
(***************************************************************************)
(* Page allocation: src/kernel/memory.c.  Two pools of frames, pkernel and  *)
(* puser, each with a bitmap and a lock; virtual pages of the kernel's heap *)
(* (vkernel) and of every process (pcb.usrvAddr), each with a bitmap; page  *)
(* tables.  The bitmaps are those of Bitmap.tla, the locks the mutexes that *)
(* Sync.tla implements (a thread takes each lock once here).                *)
(*                                                                         *)
(* The allocators run with IF set, so an action ends where another thread   *)
(* could see or change what the next one uses: at each read and write of a  *)
(* byte of pkernel's bitmap, which __pageTableAdd uses without its lock     *)
(* (gcc -m32 without -O turns the |= of __btmpSet into a load and a store). *)
(* What only the holder of a lock or the process itself uses (the bitmaps   *)
(* of pages, the page tables) is read and written in one action.            *)
(*                                                                         *)
(* __palloc never returns NULL: on a full bitmap bitmap.c:49 stops the      *)
(* kernel before the -1 of line 52.  So its caller's tests for NULL         *)
(* (memory.c:291, 408) never succeed, and have no action here.              *)
(*                                                                         *)
(* The page tables of the kernel's part exist from the start (loader.asm)   *)
(* and are shared by all page directories (process.c:58-71).                *)
(***************************************************************************)
EXTENDS Integers, FiniteSets

CONSTANTS Threads, Procs,  \* Procs: the threads with ptvAddr # NULL
          W,               \* bits in a byte: 8
          KLen, ULen,      \* _btmpBytesLen of pkernel (and vkernel), puser
          VLen,            \* and of a process's usrvAddr
          PTPages,         \* pages in a page table: 1024
          MaxCnt,          \* bound: pages asked for in one call
          NULL

ASSUME MemoryAssumption ==
  /\ Procs \subseteq Threads /\ NULL \notin Threads
  /\ "K" \notin Threads \cup {NULL}  \* the name of the kernel's pages
  /\ {W, KLen, ULen, VLen, PTPages, MaxCnt} \subseteq Nat \ {0}
  /\ W * ULen + MaxCnt <= W * VLen  \* 32768 frames, 753592 pages at most

VARIABLES phys,    \* pkernel.bitmapPool and puser.bitmapPool, by "K" and "U"
          virt,    \* vkernel.vaddrBtmp ("K") and pcb.usrvAddr.vaddrBtmp
          pte,     \* page tables: the frame of a page, or None; the kernel's
                   \* part by "K"
          pde,     \* page directory: the frame of a page table, or None
          holder,  \* pkernel.lock and puser.lock
          call,    \* the allocation a thread is in
          raced,   \* history: a page table was taken from pkernel's bitmap
                   \* while a thread with pkernel.lock was in it
          panic

memory_vars == <<phys, virt, pte, pde, holder, call, raced, panic>>

KB == INSTANCE Bitmap WITH Len <- KLen, bits <- 0, ret <- 0
VB == INSTANCE Bitmap WITH Len <- VLen, bits <- 0, ret <- 0

None == -1
Panicked == -2
Spaces == {"K"} \cup Procs

(* A mutant of FrameCnt: vkernel's bitmap is shorter than pkernel's.         *)
FrameCntMore(pool) == W * (IF pool = "K" THEN KLen + 1 ELSE ULen)

FrameCnt(pool) == W * (IF pool = "K" THEN KLen ELSE ULen)
PageCnt(space) == W * (IF space = "K" THEN KLen ELSE VLen)
StackPage == PageCnt(NULL) - 1   \* USER_STACK3_VADDR, a process's last page
Dirs == 0 .. StackPage \div PTPages

Idle == [pc |-> "idle", kind |-> "none", base |-> None, cnt |-> 0, done |-> 0,
         pool |-> "K", bit |-> None, byte |-> <<>>, frame |-> None]

(* PF_KERNEL or PF_USER, and the bitmap of pages that it stands for.        *)
pf(t) == IF call[t].kind = "kpage" THEN "K" ELSE "U"
Space(t) == IF pf(t) = "K" THEN "K" ELSE t
Page(t) == call[t].base + call[t].done

Init ==
  /\ phys = [pool \in {"K", "U"} |-> [i \in 0..FrameCnt(pool) - 1 |-> 0]]
  /\ \E next \in {0, 1} :  \* behind vkernel.vaddrBtmp may be anything
       virt = [s \in Spaces |-> [i \in 0..PageCnt(s) |->
                 IF s = "K" /\ i = PageCnt(s) THEN next ELSE 0]]
  /\ pte = [s \in Spaces |-> [i \in 0..PageCnt(s) |-> None]]
  /\ pde = [p \in Procs |-> [d \in Dirs |-> None]]
  /\ holder = [pool \in {"K", "U"} |-> NULL]
  /\ call = [t \in Threads |-> Idle]
  /\ raced = FALSE
  /\ panic = FALSE

Stop == panic' = TRUE /\ UNCHANGED <<phys, virt, pte, pde, holder, call>>

At(t, pc) == ~panic /\ call[t].pc = pc

-----------------------------------------------------------------------------
Enter(t, kind, base, cnt) ==
  /\ At(t, "idle")
  /\ call' = [call EXCEPT ![t] = [Idle EXCEPT !.pc = "lock", !.kind = kind,
                                              !.base = base, !.cnt = cnt]]
  /\ UNCHANGED <<phys, virt, pte, pde, holder, raced, panic>>

(* Who calls what: threads are made of kernel pages; __startProcess asks    *)
(* for the stack page of the new process.  __upageAlloc has no caller yet.  *)
kpageAlloc(t, cnt) == t \notin Procs /\ Enter(t, "kpage", None, cnt)
apageAlloc(t) ==
  /\ t \in Procs /\ virt[t][StackPage] = 0
  /\ Enter(t, "apage", StackPage, 1)
upageAlloc(t, cnt) ==
  /\ t \in Procs /\ virt[t][StackPage] = 1
  /\ Enter(t, "upage", None, cnt)

(* A mutant of LockAcquire: the lock is not waited for.                     *)
LockAcquireAnyway(t) ==
  /\ At(t, "lock")
  /\ holder' = [holder EXCEPT ![pf(t)] = t]
  /\ call' = [call EXCEPT ![t].pc = IF call[t].kind = "apage" THEN "mark"
                                    ELSE "valloc"]
  /\ UNCHANGED <<phys, virt, pte, pde, raced, panic>>

LockAcquire(t) ==
  /\ At(t, "lock") /\ holder[pf(t)] = NULL
  /\ holder' = [holder EXCEPT ![pf(t)] = t]
  /\ call' = [call EXCEPT ![t].pc = IF call[t].kind = "apage" THEN "mark"
                                    ELSE "valloc"]
  /\ UNCHANGED <<phys, virt, pte, pde, raced, panic>>

(* A mutant of Taken: the pages found are not marked.                       *)
TakenNot(bitmap, base, cnt) == bitmap

Taken(bitmap, base, cnt) ==
  [i \in DOMAIN bitmap |-> IF i \in base .. base + cnt - 1 THEN 1 ELSE bitmap[i]]

(* __valloc.  The page before the last one is the highest a process gets.   *)
Valloc(t) ==
  LET cnt == call[t].cnt
      base == IF pf(t) = "K" THEN KB!btmpScan(virt["K"], cnt)
              ELSE VB!btmpScan(virt[t], cnt)
  IN
  /\ At(t, "valloc")
  /\ UNCHANGED raced
  /\ IF base = Panicked \/ (pf(t) = "U" /\ base >= StackPage) THEN Stop
     ELSE /\ call' = [call EXCEPT ![t].base = base, ![t].pool = pf(t),
                        ![t].bit = 0,
                        ![t].pc = IF base = None THEN "release" ELSE "scan"]
          /\ virt' = IF base = None THEN virt
                     ELSE [virt EXCEPT ![Space(t)] = Taken(@, base, cnt)]
          /\ UNCHANGED <<phys, pte, pde, holder, panic>>

(* memory.c:391-404: the page of the address must not be the first one.     *)
ApageMark(t) ==
  /\ At(t, "mark")
  /\ UNCHANGED raced
  /\ IF (t \in Procs) # (pf(t) = "U") \/ call[t].base <= 0 THEN Stop
     ELSE /\ virt' = [virt EXCEPT ![Space(t)] = Taken(@, call[t].base, 1)]
          /\ call' = [call EXCEPT ![t].pool = pf(t), ![t].bit = 0,
                                  ![t].pc = "scan"]
          /\ UNCHANGED <<phys, pte, pde, holder, panic>>

-----------------------------------------------------------------------------
(* __palloc: __btmpScan for one bit, then __btmpSet.                         *)

Byte(bit) == (bit \div W) * W .. (bit \div W) * W + W - 1

(* Between its first read of the bitmap of a pool and its store.            *)
InBitmap(t, pool) ==
  /\ call[t].pool = pool
  /\ \/ call[t].pc \in {"bit", "load", "store"}
     \/ call[t].pc = "scan" /\ call[t].bit > 0

(* bitmap.c:31-49: the next byte; behind the last one the ASSERT fails.     *)
ScanByte(t) ==
  LET c == call[t] IN
  /\ At(t, "scan")
  /\ raced' = (raced \/ \E u \in Threads : /\ c.pool = "K" /\ InBitmap(u, "K")
                                           /\ pf(t) # pf(u))
  /\ IF c.bit = FrameCnt(c.pool) THEN Stop
     ELSE /\ call' = IF \A i \in Byte(c.bit) : phys[c.pool][i] = 1
                     THEN [call EXCEPT ![t].bit = c.bit + W]
                     ELSE [call EXCEPT ![t].pc = "bit"]
          /\ UNCHANGED <<phys, virt, pte, pde, holder, panic>>

(* bitmap.c:56-62, which reads the byte again for each bit: up to the first *)
(* clear one or, if the byte is full by now, one behind the byte, where the *)
(* mask is 0.                                                               *)
ScanBit(t) ==
  LET c == call[t] IN
  /\ At(t, "bit")
  /\ call' = IF phys[c.pool][c.bit] = 0 THEN [call EXCEPT ![t].pc = "load"]
             ELSE [call EXCEPT ![t].bit = c.bit + 1,
                     ![t].pc = IF c.bit + 1 \in Byte(c.bit) THEN "bit" ELSE "load"]
  /\ UNCHANGED <<phys, virt, pte, pde, holder, raced, panic>>

(* A mutant of WithBit: the mask is added, not or-ed.                        *)
WithBitAdded(bitmap, byte, bit) ==
  [i \in DOMAIN bitmap |-> IF i = bit THEN byte[i] + 1
                           ELSE IF i \in Byte(bit) THEN byte[i] ELSE bitmap[i]]

(* The byte that was loaded, with the bit set, goes back.                   *)
WithBit(bitmap, byte, bit) ==
  [i \in DOMAIN bitmap |-> IF i = bit THEN 1
                           ELSE IF i \in Byte(bit) THEN byte[i] ELSE bitmap[i]]

SetLoad(t) ==
  LET c == call[t] IN
  /\ At(t, "load")
  /\ call' = [call EXCEPT ![t].byte = [i \in Byte(c.bit) |-> phys[c.pool][i]],
                          ![t].pc = "store"]
  /\ UNCHANGED <<phys, virt, pte, pde, holder, raced, panic>>

(* The frame is for the page or, once that has one, for its page table.     *)
SetStore(t) ==
  LET c == call[t] IN
  /\ At(t, "store")
  /\ phys' = [phys EXCEPT ![c.pool] = WithBit(@, c.byte, c.bit)]
  /\ call' = [call EXCEPT ![t].byte = <<>>,
                          ![t].pc = IF c.frame = None THEN "map" ELSE "table"]
  /\ UNCHANGED <<virt, pte, pde, holder, raced, panic>>
-----------------------------------------------------------------------------
(* __pageTableAdd, and the loop of __pallocN around it.                      *)

Dir(page) == page \div PTPages

(* A mutant of Mapped: the loop ends one page early.                        *)
MappedButLast(t) ==
  [call EXCEPT ![t].done = @ + 1, ![t].frame = None, ![t].pool = pf(t),
               ![t].bit = 0,
               ![t].pc = IF call[t].done + 2 < call[t].cnt THEN "scan"
                         ELSE "release"]

(* The call when its page is mapped: on to the next one, or done.            *)
Mapped(t) ==
  [call EXCEPT ![t].done = @ + 1, ![t].frame = None, ![t].pool = pf(t),
               ![t].bit = 0,
               ![t].pc = IF call[t].done + 1 < call[t].cnt THEN "scan"
                         ELSE "release"]

(* memory.c:252-261: with a page table there, the entry must be free.       *)
PageTableAdd(t) ==
  /\ At(t, "map")
  /\ UNCHANGED raced
  /\ IF pf(t) = "U" /\ pde[t][Dir(Page(t))] = None
     THEN /\ call' = [call EXCEPT ![t].frame = call[t].bit, ![t].pool = "K",
                                  ![t].bit = 0, ![t].pc = "scan"]
          /\ UNCHANGED <<phys, virt, pte, pde, holder, panic>>
     ELSE IF pte[Space(t)][Page(t)] # None THEN Stop
     ELSE /\ pte' = [pte EXCEPT ![Space(t)][Page(t)] = call[t].bit]
          /\ call' = Mapped(t)
          /\ UNCHANGED <<phys, virt, pde, holder, panic>>

(* memory.c:262-265: a new page table, cleared, with one entry.             *)
NewPageTable(t) ==
  LET d == Dir(Page(t)) IN
  /\ At(t, "table")
  /\ pde' = [pde EXCEPT ![t][d] = call[t].bit]
  /\ pte' = [pte EXCEPT ![t] = [i \in DOMAIN @ |->
                IF i = Page(t) THEN call[t].frame
                ELSE IF Dir(i) = d THEN None ELSE @[i]]]
  /\ call' = Mapped(t)
  /\ UNCHANGED <<phys, virt, holder, raced, panic>>

(* A mutant of Release: a call that got nothing returns without unlocking.  *)
ReleaseIfMapped(t) ==
  /\ At(t, "release")
  /\ UNCHANGED raced
  /\ IF call[t].kind = "upage" /\ call[t].base = None THEN Stop
     ELSE /\ holder' = IF call[t].base = None THEN holder
                       ELSE [holder EXCEPT ![pf(t)] = NULL]
          /\ call' = [call EXCEPT ![t] = Idle]
          /\ UNCHANGED <<phys, virt, pte, pde, panic>>

(* __memset, whose ASSERT stops a __upageAlloc that got nothing, and the    *)
(* end of the call.                                                         *)
Release(t) ==
  /\ At(t, "release")
  /\ UNCHANGED raced
  /\ IF call[t].kind = "upage" /\ call[t].base = None THEN Stop
     ELSE /\ holder' = [holder EXCEPT ![pf(t)] = NULL]
          /\ call' = [call EXCEPT ![t] = Idle]
          /\ UNCHANGED <<phys, virt, pte, pde, panic>>

Alloc(t) ==
  \/ \E cnt \in 1..MaxCnt : kpageAlloc(t, cnt) \/ upageAlloc(t, cnt)
  \/ apageAlloc(t)
  \/ LockAcquire(t) \/ Valloc(t) \/ ApageMark(t)
  \/ ScanByte(t) \/ ScanBit(t) \/ SetLoad(t) \/ SetStore(t)
  \/ PageTableAdd(t) \/ NewPageTable(t) \/ Release(t)

(* What a frame is used for: a page, a page table, or (None) a call that is *)
(* about to map it.                                                         *)
Uses(pool, f) ==
  (UNION {{<<s, i>> : i \in {j \in DOMAIN pte[s] : pte[s][j] = f}} :
            s \in IF pool = "K" THEN {"K"} ELSE Procs})
  \cup {x \in Procs \X Dirs : pool = "K" /\ pde[x[1]][x[2]] = f}
  \cup {<<t, None>> : t \in {u \in Threads :
           \/ /\ call[u].pc \in {"map", "table"}
              /\ call[u].pool = pool /\ call[u].bit = f
           \/ pool = "U" /\ call[u].frame = f}}

(* memory.c:289 gives each page a frame ("one for each"), and a page table  *)
(* gets its own at 261: no frame has two uses.                              *)
FramesUnshared ==
  \A pool \in {"K", "U"} : \A f \in 0..FrameCnt(pool) - 1 :
    Cardinality(Uses(pool, f)) <= 1

(* A scan whose byte another thread filled may end behind the pool's bitmap. *)
BitsInPools ==
  \A t \in Threads : call[t].pc = "load" => call[t].bit < FrameCnt(call[t].pool)

(* A frame with two uses, or of no pool, holds garbage; the model does not  *)
(* go on.                                                                   *)
Next == FramesUnshared /\ BitsInPools /\ \E t \in Threads : Alloc(t)

Spec == Init /\ [][Next]_memory_vars

-----------------------------------------------------------------------------
(* The type invariant of the bitmaps, page tables, locks and calls.         *)
MemoryTypeOK ==
  /\ \A pool \in {"K", "U"} : phys[pool] \in [0..FrameCnt(pool) - 1 -> {0, 1}]
  /\ \A s \in Spaces : virt[s] \in [0..PageCnt(s) -> {0, 1}]
  /\ \A s \in Spaces :
       pte[s] \in [0..PageCnt(s) -> None..FrameCnt("K") + FrameCnt("U")]
  /\ pde \in [Procs -> [Dirs -> None..FrameCnt("K")]]
  /\ holder \in [{"K", "U"} -> Threads \cup {NULL}]
  /\ DOMAIN call = Threads /\ raced \in BOOLEAN /\ panic \in BOOLEAN

(* As long as no page table was taken while another thread was in pkernel's *)
(* bitmap (memory.c:261, run memory_race), the bitmaps of the pools tell    *)
(* exactly which frames are used, and no frame has two uses.                *)
FramesExact ==
  ~raced => /\ FramesUnshared
            /\ \A pool \in {"K", "U"} : \A f \in 0..FrameCnt(pool) - 1 :
                  (phys[pool][f] = 1) <=> Uses(pool, f) # {}

(* Nothing is left half-way: a virtual page is taken only if it is mapped   *)
(* or a call under way is going to map it.                                  *)
PagesExact ==
  \A s \in Spaces : \A i \in 0..PageCnt(s) - 1 :
    (virt[s][i] = 1) <=>
      \/ pte[s][i] # None
      \/ \E t \in Threads : /\ call[t].pc \in {"scan", "bit", "load", "store", "map", "table"}
                             /\ Space(t) = s
                             /\ i \in call[t].base .. call[t].base + call[t].cnt - 1

(* A lock of a pool is held by a call that uses the pool, and by no other:  *)
(* every way out of an allocation gives it back.                            *)
LocksHeldByCalls ==
  \A pool \in {"K", "U"}, t \in Threads :
    holder[pool] = t <=> (call[t].pc \notin {"idle", "lock"} /\ pf(t) = pool)

(* The ASSERTs of memory.c and string.c never fail: what stops the kernel   *)
(* is an exhausted pool, at bitmap.c:49.                                    *)
StopsOnlyWhenFull ==
  panic /\ ~raced =>
    \E pool \in {"K", "U"} : \A i \in 0..FrameCnt(pool) - 1 : phys[pool][i] = 1

(* __btmpScan may find a range of pages that ends behind their bitmap       *)
(* (bitmap.c:78 goes one too far, run bitmap_past_end), and __valloc takes  *)
(* it, but the page behind a bitmap is never mapped: the kernel's heap has  *)
(* as many pages as pkernel has frames (memory.c:117), which run out first  *)
(* as long as no page table was taken in a race; a process's last page is   *)
(* its stack, which it has before it asks for others.                       *)
MappedInBitmap ==
  \A s \in Spaces : (s = "K" => ~raced) => pte[s][PageCnt(s)] = None
=============================================================================
