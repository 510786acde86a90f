----------------------------- MODULE MemoryProof -----------------------------
(***************************************************************************)
(* The page allocators keep their invariants for any number of threads and  *)
(* processes, any sizes of memory and any requests.  The inductive          *)
(* invariant MemoryInv describes every call under way: what it holds by the *)
(* place it is at (CallOK), the pages it has taken (TakenOK), the part of   *)
(* them it has mapped (MappedOK), and, as long as the page tables' race has *)
(* not happened, the frame it has found (FoundOK).                          *)
(***************************************************************************)
EXTENDS Memory, FiniteSetTheorems, FunctionTheorems, TLAPS

KP == INSTANCE BitmapProof WITH Len <- KLen, bits <- 0, ret <- 0
VP == INSTANCE BitmapProof WITH Len <- VLen, bits <- 0, ret <- 0

(* What a scan for cnt pages returns on a bitmap of size bits.              *)
Scanned(start, b, size, cnt) == KP!Scanned(start, b, size, cnt)

(* The scan of vkernel's bitmap.                                            *)
LEMMA KernelScan ==
  ASSUME NEW b \in [0..W*KLen -> {0, 1}], NEW cnt \in Nat \ {0}
  PROVE  Scanned(KB!btmpScan(b, cnt), b, W*KLen, cnt)
<1>0. KP!BitmapAssumption
  BY MemoryAssumption DEF KP!BitmapAssumption
<1>1. KP!Size = W*KLen
  BY MemoryAssumption DEF KP!Size
<1>2. b \in KP!Bitmaps
  BY <1>1 DEF KP!Bitmaps
<1>3. KP!Scanned(KP!btmpScan(b, cnt), b, W*KLen, cnt)
  BY <1>0, <1>1, <1>2, KP!ScanIsScanned
<1>4. KB!btmpScan(b, cnt) = KP!btmpScan(b, cnt)
  BY Zenon DEF KP!btmpScan, KP!idxByte, KP!idxStart, KP!bitCount, KP!btmpScanTest,
    KP!Size, KP!None, KP!Panicked, KP!Min, KB!btmpScan, KB!idxByte, KB!idxStart,
    KB!bitCount, KB!btmpScanTest, KB!Size, KB!None, KB!Panicked, KB!Min
<1> QED
  BY <1>3, <1>4, Zenon DEF Scanned

(* The scan of the bitmap of a process's pages.                             *)
LEMMA PageScan ==
  ASSUME NEW b \in [0..W*VLen -> {0, 1}], NEW cnt \in Nat \ {0}
  PROVE  Scanned(VB!btmpScan(b, cnt), b, W*VLen, cnt)
<1>0. VP!BitmapAssumption
  BY MemoryAssumption DEF VP!BitmapAssumption
<1>1. VP!Size = W*VLen
  BY MemoryAssumption DEF VP!Size
<1>2. b \in VP!Bitmaps
  BY <1>1 DEF VP!Bitmaps
<1>3. VP!Scanned(VP!btmpScan(b, cnt), b, W*VLen, cnt)
  BY <1>0, <1>1, <1>2, VP!ScanIsScanned
<1>4. VB!btmpScan(b, cnt) = VP!btmpScan(b, cnt)
  BY Zenon DEF VP!btmpScan, VP!idxByte, VP!idxStart, VP!bitCount, VP!btmpScanTest,
    VP!Size, VP!None, VP!Panicked, VP!Min, VB!btmpScan, VB!idxByte, VB!idxStart,
    VB!bitCount, VB!btmpScanTest, VB!Size, VB!None, VB!Panicked, VB!Min
<1> QED
  BY <1>3, <1>4, Zenon DEF Scanned, KP!Scanned, KP!None, KP!Panicked,
    VP!Scanned, VP!None, VP!Panicked

-----------------------------------------------------------------------------
(* The inductive invariant.                                                 *)

Pools == {"K", "U"}
Middle == {"scan", "bit", "load", "store", "map", "table"}
Pcs == {"idle", "lock", "valloc", "mark", "release"} \cup Middle

Bytes == {<<>>} \cup UNION {[Byte(bit) -> {0, 1}] : bit \in Nat}

Calls == [pc : Pcs, kind : {"none", "kpage", "apage", "upage"},
          base : {None} \cup Nat, cnt : Nat, done : Nat, pool : Pools,
          bit : {None} \cup Nat, byte : Bytes, frame : {None} \cup Nat]

(* The frames of the pool that a space's pages come from.                   *)
Frames(s) == 0 .. FrameCnt(IF s = "K" THEN "K" ELSE "U") - 1

(* The highest page a call can get: for the kernel, one behind its bitmap.  *)
Last(s) == IF s = "K" THEN PageCnt("K") ELSE StackPage

MyPages(t) == call[t].base .. call[t].base + call[t].cnt - 1

(* The call has its pages.                                                  *)
HasPages(t) == \/ call[t].pc \in Middle
               \/ call[t].pc = "release" /\ call[t].base # None

(* The types, with the pool a frame number belongs to.                      *)
StateTypes ==
  /\ DOMAIN phys = Pools
  /\ \A pool \in Pools : phys[pool] \in [0..FrameCnt(pool)-1 -> {0, 1}]
  /\ DOMAIN virt = Spaces
  /\ \A s \in Spaces : virt[s] \in [0..PageCnt(s) -> {0, 1}]
  /\ DOMAIN pte = Spaces
  /\ \A s \in Spaces : pte[s] \in [0..PageCnt(s) -> {None} \cup Frames(s)]
  /\ pde \in [Procs -> [Dirs -> {None} \cup Frames("K")]]
  /\ holder \in [Pools -> Threads \cup {NULL}]
  /\ call \in [Threads -> Calls]
  /\ raced \in BOOLEAN /\ panic \in BOOLEAN

(* The bits of a pool at which a byte begins.                               *)
ByteStart(bit) == \E k \in Nat : bit = W*k

(* Where a scan is in its pool's bitmap: past the last byte when it found   *)
(* none, or (raced) past the last bit of the byte it has chosen.            *)
BitOK(c) ==
  /\ c.pc = "scan" => c.bit \in 0..FrameCnt(c.pool) /\ ByteStart(c.bit)
  /\ c.pc = "bit" => c.bit \in 0..FrameCnt(c.pool) - 1
  /\ c.pc = "load" => c.bit \in 0..FrameCnt(c.pool)
  /\ c.pc \in {"store", "map", "table"} => c.bit \in 0..FrameCnt(c.pool) - 1

(* What the place of a call tells about its fields.                         *)
CallOK(t) ==
  LET c == call[t] IN
  /\ c.pc # "idle" =>
       /\ c.kind # "none"
       /\ c.kind = "kpage" <=> t \notin Procs
       /\ c.cnt \in 1..MaxCnt
       /\ c.kind = "apage" => c.cnt = 1 /\ c.base = StackPage
  /\ c.pc = "mark" => c.kind = "apage"
  /\ c.pc = "valloc" => c.kind # "apage"
  /\ c.pc \notin Middle => c.frame = None
  /\ c.pc \in {"lock", "mark", "valloc"} => c.done = 0
  /\ HasPages(t) => /\ c.base # None /\ c.base < PageCnt(Space(t))
                    /\ c.base + c.cnt - 1 <= Last(Space(t))
  /\ c.pc \in Middle => /\ c.done < c.cnt
                        /\ c.pool = IF c.frame = None THEN pf(t) ELSE "K"
  /\ c.pc = "release" /\ c.base # None => c.done = c.cnt
  /\ c.pc = "map" => c.frame = None
  /\ c.pc = "table" => c.frame # None
  /\ c.frame # None => /\ t \in Procs /\ c.frame \in Frames(t)
                       /\ pde[t][Dir(Page(t))] = None
  /\ BitOK(c)
  /\ c.pc = "store" => c.byte \in [Byte(c.bit) -> {0, 1}]

(* What a call has done to the bitmap of pages.                             *)
TakenOK(t) ==
  LET c == call[t] IN
  /\ c.pc \in {"lock", "mark"} /\ c.kind = "apage" => virt[t][StackPage] = 0
  /\ c.pc # "idle" /\ c.kind = "upage" => virt[t][StackPage] = 1
  /\ HasPages(t) => \A i \in MyPages(t) : virt[Space(t)][i] = 1
  /\ c.pc = "release" /\ c.kind = "upage" /\ c.base = None =>
       \A i \in 0 .. StackPage - c.cnt : virt[t][i] = 1

(* It has mapped the first pages of its range, and no others.               *)
MappedOK(t) ==
  HasPages(t) => \A i \in MyPages(t) :
    pte[Space(t)][i] # None <=> i < call[t].base + call[t].done

ThreadOK(t) == CallOK(t) /\ TakenOK(t) /\ MappedOK(t)

(* Pages are taken from the bottom, as nothing is ever given back; a        *)
(* process's last page is its stack.                                        *)
FilledUp ==
  \A s \in Spaces :
    \A i \in 0 .. (IF s = "K" THEN PageCnt("K") ELSE StackPage) - 1 : \A j \in 0..i :
      virt[s][i] = 1 => virt[s][j] = 1

(* A page that is mapped is taken, and has a page table.                    *)
MappedTaken ==
  \A s \in Spaces : \A i \in 0..PageCnt(s) :
    pte[s][i] # None =>
      /\ virt[s][i] = 1
      /\ s # "K" => i <= StackPage /\ pde[s][Dir(i)] # None

(* A page that is taken is mapped, or will be.                              *)
TakenMapped ==
  \A s \in Spaces : \A i \in 0..PageCnt(s) - 1 :
    virt[s][i] = 1 /\ pte[s][i] = None =>
      \E t \in Threads : call[t].pc \in Middle /\ Space(t) = s /\ i \in MyPages(t)

(* The page behind the bitmap of the heap comes last.                       *)
HeapMapped ==
  pte["K"][PageCnt("K")] # None => \A i \in 0..PageCnt("K")-1 : pte["K"][i] # None

(* As long as no race happened there is one thread at a time in a bitmap,   *)
(* what its scan has read is still so, the frame it found is still free,    *)
(* the byte it loaded still current.                                        *)
Alone ==
  \A t, u \in Threads : \A pool \in Pools :
    InBitmap(t, pool) /\ InBitmap(u, pool) => t = u

FoundOK(t) ==
  LET c == call[t] IN
  /\ c.pc = "scan" => \A i \in 0..c.bit-1 : phys[c.pool][i] = 1
  /\ c.pc = "bit" => \E i \in Byte(c.bit) : i >= c.bit /\ phys[c.pool][i] = 0
  /\ c.pc \in {"load", "store"} => /\ c.bit \in 0..FrameCnt(c.pool)-1
                                   /\ phys[c.pool][c.bit] = 0
  /\ c.pc = "store" => \A i \in Byte(c.bit) : c.byte[i] = phys[c.pool][i]

UsesOK ==
  \A pool \in Pools : \A f \in 0..FrameCnt(pool) - 1 :
    /\ \A x, y \in Uses(pool, f) : x = y
    /\ (phys[pool][f] = 1) <=> Uses(pool, f) # {}

FramesOK == Alone /\ (\A t \in Threads : FoundOK(t)) /\ UsesOK

(* What stops the kernel is a pool without a free frame.                    *)
Full == \E pool \in Pools : \A i \in 0..FrameCnt(pool) - 1 : phys[pool][i] = 1

MemoryInv ==
  /\ StateTypes
  /\ \A t \in Threads : ThreadOK(t)
  /\ FilledUp /\ MappedTaken /\ TakenMapped /\ HeapMapped
  /\ LocksHeldByCalls
  /\ ~raced => FramesOK
  /\ panic /\ ~raced => Full

-----------------------------------------------------------------------------
(* Sizes: a process has more pages than there are frames, by more than any  *)
(* request.                                                                 *)
LEMMA Sizes ==
  /\ W \in Nat \ {0} /\ PTPages \in Nat \ {0} /\ MaxCnt \in Nat \ {0}
  /\ FrameCnt("K") = W*KLen /\ FrameCnt("U") = W*ULen /\ PageCnt("K") = W*KLen
  /\ W*KLen \in Nat \ {0} /\ W*ULen \in Nat \ {0} /\ W*VLen \in Nat
  /\ \A p \in Procs : PageCnt(p) = W*VLen /\ p # "K"
  /\ StackPage = W*VLen - 1 /\ StackPage \in Nat \ {0}
  /\ W*ULen + MaxCnt <= W*VLen
  /\ None = -1 /\ Panicked = -2
<1>1. W \in Nat \ {0} /\ KLen \in Nat \ {0} /\ ULen \in Nat \ {0} /\ VLen \in Nat \ {0}
      /\ PTPages \in Nat \ {0} /\ MaxCnt \in Nat \ {0} /\ W*ULen + MaxCnt <= W*VLen
  BY MemoryAssumption
<1>2. W*KLen \in Nat \ {0} /\ W*ULen \in Nat \ {0} /\ W*VLen \in Nat \ {0}
  BY <1>1
<1>3. "K" # NULL /\ \A p \in Procs : p # "K"
  BY MemoryAssumption
<1>4. /\ FrameCnt("K") = W*KLen /\ FrameCnt("U") = W*ULen /\ PageCnt("K") = W*KLen
      /\ \A p \in Procs : PageCnt(p) = W*VLen
      /\ StackPage = W*VLen - 1
  BY <1>3 DEF FrameCnt, PageCnt, StackPage
<1> QED
  BY <1>1, <1>2, <1>3, <1>4 DEF None, Panicked

(* The byte of a bit that belongs to a pool lies in the pool's bitmap.      *)
LEMMA ByteInPool ==
  ASSUME NEW pool \in Pools, NEW bit \in 0..FrameCnt(pool) - 1
  PROVE  Byte(bit) \subseteq 0..FrameCnt(pool) - 1 /\ bit \in Byte(bit)
<1>1. PICK L \in Nat \ {0} : FrameCnt(pool) = W*L /\ W \in Nat \ {0}
  BY MemoryAssumption DEF Pools, FrameCnt
<1> DEFINE q == bit \div W
           r == bit % W
<1>2. bit \in Nat /\ q \in Int /\ r \in 0..W-1 /\ bit = W*q + r
  BY <1>1
<1> HIDE DEF q, r
<1>3. q >= 0
  BY <1>1, <1>2
<1>4. q < L
  <2> SUFFICES ASSUME q >= L PROVE FALSE
    BY <1>1, <1>2
  <2>1. W*q >= W*L
    BY <1>1, <1>2
  <2> QED
    BY <2>1, <1>1, <1>2
<1>5. q*W = W*q /\ W*q + W <= W*L /\ W*q \in Nat
  <2>1. W*(q+1) <= W*L
    BY <1>1, <1>2, <1>4
  <2> QED
    BY <2>1, <1>1, <1>2, <1>3
<1>6. Byte(bit) = q*W .. q*W + W - 1
  BY DEF Byte, q
<1> QED
  BY <1>1, <1>2, <1>5, <1>6

(* The page directory has an entry for every page of a process.             *)
LEMMA DirOfPage ==
  ASSUME NEW i \in 0..StackPage
  PROVE  Dir(i) \in Dirs
<1>0. StackPage \in Nat /\ PTPages \in Nat \ {0} /\ i \in Nat /\ i <= StackPage
  BY Sizes
<1> DEFINE q == i \div PTPages
           top == StackPage \div PTPages
<1>1. q \in Int /\ i = PTPages*q + (i % PTPages) /\ i % PTPages \in 0..PTPages-1
  BY <1>0
<1>2. /\ top \in Int /\ StackPage = PTPages*top + (StackPage % PTPages)
      /\ StackPage % PTPages \in 0..PTPages-1
  BY <1>0
<1> HIDE DEF q, top
<1>3. q >= 0
  BY <1>0, <1>1
<1>4. q <= top
  <2> SUFFICES ASSUME q >= top + 1 PROVE FALSE
    BY <1>1, <1>2
  <2>1. PTPages*q >= PTPages*(top + 1)
    BY <1>0, <1>1, <1>2
  <2>2. PTPages*(top + 1) = PTPages*top + PTPages
    BY <1>0, <1>2
  <2> QED
    BY <2>1, <2>2, <1>0, <1>1, <1>2
<1> QED
  BY <1>1, <1>2, <1>3, <1>4 DEF Dir, Dirs, q, top

(* The bytes of a pool's bitmap follow each other.                          *)
LEMMA NextByte ==
  ASSUME NEW pool \in Pools, NEW bit \in 0..FrameCnt(pool) - 1, ByteStart(bit)
  PROVE  /\ Byte(bit) = bit .. bit + W - 1
         /\ bit + W \in 0..FrameCnt(pool) /\ ByteStart(bit + W)
<1>1. PICK L \in Nat \ {0} : FrameCnt(pool) = W*L /\ W \in Nat \ {0}
  BY MemoryAssumption DEF Pools, FrameCnt
<1>2. PICK k \in Nat : bit = W*k
  BY DEF ByteStart
<1> DEFINE q == bit \div W
           r == bit % W
<1>3. bit \in Nat /\ q \in Int /\ r \in 0..W-1 /\ bit = W*q + r
  BY <1>1
<1> HIDE DEF q, r
<1>4. q = k
  <2>1. ASSUME q >= k + 1 PROVE FALSE
    <3>1. W*q >= W*(k + 1)
      BY <1>1, <1>2, <1>3, <2>1
    <3>2. W*(k + 1) = W*k + W
      BY <1>1, <1>2
    <3> QED
      BY <1>1, <1>2, <1>3, <3>1, <3>2
  <2>2. ASSUME k >= q + 1 PROVE FALSE
    <3>1. W*k >= W*(q + 1)
      BY <1>1, <1>2, <1>3, <2>2
    <3>2. W*(q + 1) = W*q + W
      BY <1>1, <1>3
    <3> QED
      BY <1>1, <1>2, <1>3, <3>1, <3>2
  <2> QED
    BY <1>2, <1>3, <2>1, <2>2
<1>5. k < L
  <2> SUFFICES ASSUME k >= L PROVE FALSE
    BY <1>1, <1>2
  <2>1. W*k >= W*L
    BY <1>1, <1>2
  <2> QED
    BY <1>1, <1>2, <1>3, <2>1
<1>6. W*(k + 1) <= W*L /\ W*(k + 1) = W*k + W /\ k*W = W*k /\ k + 1 \in Nat
  BY <1>1, <1>2, <1>5
<1>7. Byte(bit) = q*W .. q*W + W - 1
  BY DEF Byte, q
<1>8. ByteStart(bit + W)
  BY <1>2, <1>6 DEF ByteStart
<1> QED
  BY <1>1, <1>2, <1>3, <1>4, <1>6, <1>7, <1>8

(* Every bit of a byte has that byte.                                       *)
LEMMA SameByte ==
  ASSUME NEW bit \in Nat, NEW i \in Byte(bit)
  PROVE  Byte(i) = Byte(bit)
<1>1. W \in Nat \ {0}
  BY Sizes
<1> DEFINE q == bit \div W
           k == i \div W
<1>2. q \in Int /\ q*W \in Int /\ q*W = W*q
  BY <1>1
<1>3. Byte(bit) = q*W .. q*W + W - 1 /\ Byte(i) = k*W .. k*W + W - 1
  BY DEF Byte
<1>4. i \in Int /\ i >= W*q /\ i < W*q + W
  BY <1>1, <1>2, <1>3
<1> DEFINE r == i % W
<1>5. k \in Int /\ r \in 0..W-1 /\ i = W*k + r
  BY <1>1, <1>4
<1> HIDE DEF q, k, r
<1>6. k = q
  <2>1. ASSUME k >= q + 1 PROVE FALSE
    <3>1. W*k >= W*(q + 1) /\ W*(q + 1) = W*q + W
      BY <1>1, <1>2, <1>5, <2>1
    <3> QED
      BY <1>1, <1>2, <1>4, <1>5, <3>1
  <2>2. ASSUME q >= k + 1 PROVE FALSE
    <3>1. W*q >= W*(k + 1) /\ W*(k + 1) = W*k + W
      BY <1>1, <1>2, <1>5, <2>2
    <3> QED
      BY <1>1, <1>2, <1>4, <1>5, <3>1
  <2> QED
    BY <1>2, <1>5, <2>1, <2>2
<1> QED
  BY <1>3, <1>6

-----------------------------------------------------------------------------
(* What a frame is used for, use by use.                                    *)
HasFrame(t, pool, f) ==
  \/ call[t].pc \in {"map", "table"} /\ call[t].pool = pool /\ call[t].bit = f
  \/ pool = "U" /\ call[t].frame = f

UsedFor(pool, f, x) ==
  \/ \E s \in Spaces : \E i \in 0..PageCnt(s) :
       (pool = "K" <=> s = "K") /\ pte[s][i] = f /\ x = <<s, i>>
  \/ \E p \in Procs : \E d \in Dirs :
       pool = "K" /\ pde[p][d] = f /\ x = <<p, d>>
  \/ \E t \in Threads : HasFrame(t, pool, f) /\ x = <<t, None>>

UsesCollected ==
  \A pool \in Pools : \A f, x : x \in Uses(pool, f) <=> UsedFor(pool, f, x)

(* Uses collects these.                                                     *)
LEMMA UsesMember == StateTypes => UsesCollected
<1> SUFFICES ASSUME StateTypes, NEW pool \in Pools, NEW f, NEW x
             PROVE  x \in Uses(pool, f) <=> UsedFor(pool, f, x)
  BY DEF UsesCollected
<1> DEFINE Pages(s) == {<<s, i>> : i \in {j \in DOMAIN pte[s] : pte[s][j] = f}}
           A == UNION {Pages(s) : s \in IF pool = "K" THEN {"K"} ELSE Procs}
           B == {y \in Procs \X Dirs : pool = "K" /\ pde[y[1]][y[2]] = f}
           C == {<<t, None>> : t \in {u \in Threads : HasFrame(u, pool, f)}}
<1>1. Uses(pool, f) = A \cup B \cup C
  BY Zenon DEF Uses, HasFrame
<1>2. x \in A <=> \E s \in Spaces : \E i \in 0..PageCnt(s) :
                   (pool = "K" <=> s = "K") /\ pte[s][i] = f /\ x = <<s, i>>
  <2>1. \A s \in Spaces : DOMAIN pte[s] = 0..PageCnt(s)
    BY DEF StateTypes
  <2>2. \A s : s \in (IF pool = "K" THEN {"K"} ELSE Procs)
                <=> s \in Spaces /\ (pool = "K" <=> s = "K")
    BY Sizes DEF Spaces
  <2>3. \A s \in Spaces : x \in Pages(s) <=>
          \E i \in 0..PageCnt(s) : pte[s][i] = f /\ x = <<s, i>>
    BY <2>1
  <2> HIDE DEF Pages
  <2> QED
    BY <2>2, <2>3
<1>3. x \in B <=> \E p \in Procs : \E d \in Dirs :
                   pool = "K" /\ pde[p][d] = f /\ x = <<p, d>>
  OBVIOUS
<1>4. x \in C <=> \E t \in Threads : HasFrame(t, pool, f) /\ x = <<t, None>>
  OBVIOUS
<1> HIDE DEF A, B, C
<1> QED
  BY <1>1, <1>2, <1>3, <1>4 DEF UsedFor

(* The same of the next state.                                              *)
LEMMA UsesMemberNext == StateTypes' => UsesCollected'
BY UsesMember, PTL

(* Nothing is allocated at first.                                           *)
LEMMA MemoryInit == Init => MemoryInv
<1> SUFFICES ASSUME Init PROVE MemoryInv
  OBVIOUS
<1> USE Sizes
<1>1. StateTypes
  <2>1. Idle \in Calls
    BY DEF Idle, Calls, Bytes, Pcs, Pools
  <2>2. call \in [Threads -> Calls]
    BY <2>1 DEF Init
  <2>3. DOMAIN phys = Pools /\ \A pool \in Pools : phys[pool] \in [0..FrameCnt(pool)-1 -> {0, 1}]
    BY DEF Init, Pools
  <2>4. DOMAIN virt = Spaces /\ \A s \in Spaces : virt[s] \in [0..PageCnt(s) -> {0, 1}]
    BY DEF Init
  <2>5. /\ DOMAIN pte = Spaces
        /\ \A s \in Spaces : pte[s] \in [0..PageCnt(s) -> {None} \cup Frames(s)]
    BY DEF Init
  <2> QED
    BY <2>2, <2>3, <2>4, <2>5 DEF Init, StateTypes, Pools
<1>2. ASSUME NEW t \in Threads PROVE ThreadOK(t)
  BY DEF Init, ThreadOK, CallOK, BitOK, TakenOK, MappedOK, HasPages, Middle, Idle
<1>3. FilledUp
  BY DEF Init, FilledUp, Spaces
<1>4. MappedTaken /\ TakenMapped /\ HeapMapped
  BY DEF Init, MappedTaken, TakenMapped, HeapMapped, Spaces
<1>5. LocksHeldByCalls
  BY MemoryAssumption DEF Init, LocksHeldByCalls, Idle
<1>6. Alone /\ \A t \in Threads : FoundOK(t)
  BY DEF Init, Alone, InBitmap, FoundOK, Idle
<1>7. UsesOK
  <2>1. ASSUME NEW pool \in Pools, NEW f \in 0..FrameCnt(pool)-1, NEW x
        PROVE  ~ UsedFor(pool, f, x)
    BY DEF Init, UsedFor, HasFrame, Idle, Pools
  <2>2. \A pool \in Pools : \A f \in 0..FrameCnt(pool)-1 : phys[pool][f] = 0
    BY DEF Init, Pools
  <2> QED
    BY <1>1, <2>1, <2>2, UsesMember DEF UsesOK, UsesCollected
<1> QED
  BY <1>1, <1>2, <1>3, <1>4, <1>5, <1>6, <1>7 DEF Init, MemoryInv, FramesOK

-----------------------------------------------------------------------------
(* A call that a step does not move stays right if the pages of its space   *)
(* and the entries of its page directory do.                                *)
LEMMA OthersOK ==
  ASSUME MemoryInv, NEW u \in Threads, call'[u] = call[u],
         virt'[Space(u)] = virt[Space(u)], pte'[Space(u)] = pte[Space(u)],
         u \in Procs => pde'[u] = pde[u]
  PROVE  ThreadOK(u)'
<1>0. ThreadOK(u) /\ StateTypes
  BY DEF MemoryInv
<1>1. /\ HasPages(u)' <=> HasPages(u)
      /\ MyPages(u)' = MyPages(u) /\ Space(u)' = Space(u) /\ Page(u)' = Page(u)
      /\ pf(u)' = pf(u)
  BY DEF HasPages, MyPages, Space, pf, Page
<1>2. CallOK(u)'
  BY <1>0, <1>1 DEF ThreadOK, CallOK
<1>3. call[u].pc # "idle" /\ call[u].kind \in {"apage", "upage"} => Space(u) = u
  BY DEF Space, pf
<1>4. TakenOK(u)'
  BY <1>0, <1>1, <1>3 DEF ThreadOK, TakenOK
<1>5. MappedOK(u)'
  BY <1>0, <1>1 DEF ThreadOK, MappedOK
<1> QED
  BY <1>2, <1>4, <1>5 DEF ThreadOK

(* The frames are used as before if the tables are the same and no call got *)
(* or gave away a frame.                                                    *)
LEMMA FramesKept ==
  ASSUME MemoryInv, StateTypes', NEW t \in Threads,
         \A u \in Threads \ {t} : call'[u] = call[u],
         UNCHANGED <<phys, pte, pde>>, raced => raced',
         \A pool \in Pools : \A f \in 0..FrameCnt(pool)-1 :
           HasFrame(t, pool, f)' <=> HasFrame(t, pool, f),
         ~raced' => FoundOK(t)',
         ~raced' => \A pool \in Pools : \A u \in Threads \ {t} :
           InBitmap(t, pool)' => ~InBitmap(u, pool)
  PROVE  ~raced' => FramesOK'
<1>1. ASSUME ~raced' PROVE FramesOK'
  <2>0. FramesOK /\ StateTypes
    BY <1>1 DEF MemoryInv
  <2>1. Alone'
    BY <1>1, <2>0 DEF FramesOK, Alone, InBitmap
  <2>2. ASSUME NEW u \in Threads PROVE FoundOK(u)'
    BY <1>1, <2>0 DEF FramesOK, FoundOK
  <2>3. UsesOK'
    <3>1. ASSUME NEW pool \in Pools, NEW f \in 0..FrameCnt(pool)-1
          PROVE  Uses(pool, f)' = Uses(pool, f)
      <4>1. \A u \in Threads : HasFrame(u, pool, f)' <=> HasFrame(u, pool, f)
        BY DEF HasFrame
      <4>2. \A x : UsedFor(pool, f, x)' <=> UsedFor(pool, f, x)
        BY <4>1 DEF UsedFor
      <4>3. \A x : x \in Uses(pool, f) <=> UsedFor(pool, f, x)
        BY <2>0, UsesMember DEF UsesCollected
      <4>4. \A x : x \in Uses(pool, f)' <=> UsedFor(pool, f, x)'
        BY UsesMemberNext DEF UsesCollected
      <4> QED
        BY <4>2, <4>3, <4>4
    <3> QED
      BY <3>1, <2>0 DEF FramesOK, UsesOK
  <2> QED
    BY <2>1, <2>2, <2>3 DEF FramesOK
<1> QED
  BY <1>1

(* A step that only moves one call, and may take or give back a lock.       *)
LEMMA LocalStep ==
  ASSUME MemoryInv, NEW t \in Threads,
         call' \in [Threads -> Calls], \A u \in Threads \ {t} : call'[u] = call[u],
         UNCHANGED <<phys, virt, pte, pde, panic>>, ~panic,
         holder' \in [Pools -> Threads \cup {NULL}],
         raced' \in BOOLEAN, raced => raced',
         ThreadOK(t)', LocksHeldByCalls',
         call[t].pc \in Middle =>
           \/ call'[t].pc \in Middle /\ Space(t)' = Space(t) /\ MyPages(t)' = MyPages(t)
           \/ \A i \in MyPages(t) : pte[Space(t)][i] # None,
         \A pool \in Pools : \A f \in 0..FrameCnt(pool)-1 :
           HasFrame(t, pool, f)' <=> HasFrame(t, pool, f),
         ~raced' => FoundOK(t)',
         ~raced' => \A pool \in Pools : \A u \in Threads \ {t} :
           InBitmap(t, pool)' => ~InBitmap(u, pool)
  PROVE  MemoryInv'
<1>1. StateTypes'
  <2>1. StateTypes /\ panic' \in BOOLEAN
    BY DEF MemoryInv, StateTypes
  <2> QED
    BY <2>1 DEF StateTypes
<1>2. ASSUME NEW u \in Threads PROVE ThreadOK(u)'
  BY OthersOK
<1>3. FilledUp' /\ MappedTaken' /\ HeapMapped'
  BY DEF MemoryInv, FilledUp, MappedTaken, HeapMapped
<1>4. TakenMapped'
  <2> SUFFICES ASSUME NEW s \in Spaces, NEW i \in 0..PageCnt(s)-1,
                      virt[s][i] = 1, pte[s][i] = None
               PROVE  \E u \in Threads : call'[u].pc \in Middle /\ Space(u)' = s /\ i \in MyPages(u)'
    BY DEF TakenMapped
  <2>1. PICK u \in Threads : call[u].pc \in Middle /\ Space(u) = s /\ i \in MyPages(u)
    BY DEF MemoryInv, TakenMapped
  <2>2. CASE u = t
    BY <2>1, <2>2
  <2>3. CASE u # t
    BY <2>1, <2>3 DEF Space, pf, MyPages
  <2> QED
    BY <2>2, <2>3
<1>5. ~raced' => FramesOK'
  BY <1>1, FramesKept
<1> QED
  BY <1>1, <1>2, <1>3, <1>4, <1>5 DEF MemoryInv

(* A failed ASSERT changes nothing but panic.                               *)
LEMMA StopStep ==
  ASSUME MemoryInv, Stop, raced' \in BOOLEAN, raced => raced', ~raced' => Full
  PROVE  MemoryInv'
<1>1. StateTypes'
  <2>1. StateTypes
    BY DEF MemoryInv
  <2> QED
    BY <2>1 DEF StateTypes, Stop
<1>2. ASSUME NEW u \in Threads PROVE ThreadOK(u)'
  BY OthersOK DEF Stop
<1>3. FilledUp' /\ MappedTaken' /\ HeapMapped' /\ LocksHeldByCalls'
  BY DEF MemoryInv, FilledUp, MappedTaken, HeapMapped, LocksHeldByCalls, Stop, pf
<1>4. TakenMapped'
  BY DEF MemoryInv, TakenMapped, Stop, MyPages, Space, pf
<1>5. ~raced' => FramesOK'
  <2>1. Alone => Alone'
    BY DEF Alone, InBitmap, Stop
  <2>2. \A u \in Threads : FoundOK(u) => FoundOK(u)'
    BY DEF FoundOK, Stop
  <2>3. UsesOK => UsesOK'
    BY DEF UsesOK, Uses, Stop
  <2> QED
    BY <2>1, <2>2, <2>3 DEF MemoryInv, FramesOK
<1>6. Full => Full'
  BY DEF Full, Stop
<1> QED
  BY <1>1, <1>2, <1>3, <1>4, <1>5, <1>6 DEF MemoryInv

(* A thread that is in no call.                                             *)
LEMMA IdleIsCall ==
  /\ Idle \in Calls
  /\ Idle.pc = "idle" /\ Idle.kind = "none" /\ Idle.done = 0 /\ Idle.frame = None
  /\ Idle.base = None
BY DEF Idle, Calls, Bytes, Pcs, Pools

(* A call begins.                                                           *)
LEMMA EnterStep ==
  ASSUME MemoryInv, NEW t \in Threads, NEW kind \in {"kpage", "apage", "upage"},
         NEW base \in {None} \cup Nat, NEW cnt \in 1..MaxCnt,
         Enter(t, kind, base, cnt),
         kind = "kpage" <=> t \notin Procs,
         kind = "apage" => cnt = 1 /\ base = StackPage /\ virt[t][StackPage] = 0,
         kind = "upage" => virt[t][StackPage] = 1
  PROVE  MemoryInv'
<1>0. StateTypes /\ ThreadOK(t) /\ LocksHeldByCalls /\ call[t].pc = "idle" /\ cnt \in Nat
  BY Sizes DEF MemoryInv, Enter, At
<1> DEFINE r == [Idle EXCEPT !.pc = "lock", !.kind = kind, !.base = base, !.cnt = cnt]
<1>1. /\ r.pc = "lock" /\ r.kind = kind /\ r.base = base /\ r.cnt = cnt /\ r.done = 0
      /\ r.frame = None
  BY IdleIsCall DEF Calls
<1>2. r \in Calls
  <2>1. "lock" \in Pcs
    BY DEF Pcs
  <2> QED
    BY <1>0, <2>1, IdleIsCall DEF Calls
<1>3. call' = [call EXCEPT ![t] = r]
  BY DEF Enter
<1> HIDE DEF r
<1>4. /\ call' \in [Threads -> Calls] /\ call'[t] = r
      /\ \A u \in Threads \ {t} : call'[u] = call[u]
  BY <1>0, <1>2, <1>3 DEF StateTypes
<1>5. UNCHANGED <<phys, virt, pte, pde, holder, raced, panic>> /\ ~panic
  BY DEF Enter, At
<1>6. CallOK(t)'
  BY <1>1, <1>4, Sizes DEF CallOK, BitOK, HasPages, Middle
<1>7. TakenOK(t)' /\ MappedOK(t)'
  BY <1>1, <1>4, <1>5, Sizes DEF TakenOK, MappedOK, HasPages, Middle
<1>8. LocksHeldByCalls'
  BY <1>0, <1>1, <1>4, <1>5 DEF LocksHeldByCalls, pf
<1>9. \A pool \in Pools : \A f \in 0..FrameCnt(pool)-1 :
           HasFrame(t, pool, f)' <=> HasFrame(t, pool, f)
  BY <1>0, <1>1, <1>4, Sizes DEF HasFrame, ThreadOK, CallOK, Middle
<1>10. FoundOK(t)' /\ \A pool \in Pools : ~InBitmap(t, pool)'
  BY <1>1, <1>4 DEF FoundOK, InBitmap
<1> QED
  BY <1>0, <1>4, <1>5, <1>6, <1>7, <1>8, <1>9, <1>10, LocalStep DEF ThreadOK, StateTypes, Middle

(* __lockAcquire.                                                           *)
LEMMA LockAcquireStep ==
  ASSUME MemoryInv, NEW t \in Threads, LockAcquire(t)
  PROVE  MemoryInv'
<1>0. /\ StateTypes /\ ThreadOK(t) /\ LocksHeldByCalls
      /\ call[t].pc = "lock" /\ call[t] \in Calls /\ pf(t) \in Pools
  BY DEF MemoryInv, LockAcquire, At, StateTypes, pf, Pools
<1> DEFINE r == [call[t] EXCEPT !.pc = IF call[t].kind = "apage" THEN "mark" ELSE "valloc"]
<1>1. r \in Calls /\ r.pc \in {"mark", "valloc"} /\ (r.pc = "mark" <=> r.kind = "apage")
  <2>1. "mark" \in Pcs /\ "valloc" \in Pcs
    BY DEF Pcs
  <2> QED
    BY <1>0, <2>1 DEF Calls
<1>2. call' = [call EXCEPT ![t] = r]
  BY <1>0 DEF LockAcquire, StateTypes
<1>4. /\ r.kind = call[t].kind /\ r.base = call[t].base /\ r.cnt = call[t].cnt
      /\ r.done = call[t].done /\ r.pool = call[t].pool /\ r.bit = call[t].bit
      /\ r.frame = call[t].frame
  BY <1>0 DEF Calls
<1> HIDE DEF r
<1>3. /\ call' \in [Threads -> Calls] /\ call'[t] = r
      /\ \A u \in Threads \ {t} : call'[u] = call[u]
  BY <1>0, <1>1, <1>2 DEF StateTypes
<1>5. /\ UNCHANGED <<phys, virt, pte, pde, raced, panic>> /\ ~panic
      /\ holder' = [holder EXCEPT ![pf(t)] = t] /\ holder[pf(t)] = NULL
  BY DEF LockAcquire, At
<1>6. CallOK(t)'
  BY <1>0, <1>1, <1>3, <1>4 DEF ThreadOK, CallOK, BitOK, HasPages, Middle
<1>7. TakenOK(t)' /\ MappedOK(t)'
  BY <1>0, <1>1, <1>3, <1>4, <1>5 DEF ThreadOK, TakenOK, MappedOK, HasPages, Middle
<1>8. holder' \in [Pools -> Threads \cup {NULL}]
  BY <1>0, <1>5 DEF StateTypes
<1>9. LocksHeldByCalls'
  <2> SUFFICES ASSUME NEW pool \in Pools, NEW u \in Threads
               PROVE  holder'[pool] = u <=> (call'[u].pc \notin {"idle", "lock"} /\ pf(u)' = pool)
    BY DEF LocksHeldByCalls, Pools
  <2>1. pf(u)' = pf(u) /\ (u # t => call'[u] = call[u]) /\ NULL \notin Threads
    BY <1>3, <1>4, MemoryAssumption DEF pf
  <2>2. holder[pool] = u <=> (call[u].pc \notin {"idle", "lock"} /\ pf(u) = pool)
    BY <1>0 DEF LocksHeldByCalls, Pools
  <2>3. holder'[pool] = IF pool = pf(t) THEN t ELSE holder[pool]
    BY <1>0, <1>5 DEF StateTypes
  <2> QED
    BY <2>1, <2>2, <2>3, <1>0, <1>1, <1>3, <1>5
<1>10. \A pool \in Pools : \A f \in 0..FrameCnt(pool)-1 :
           HasFrame(t, pool, f)' <=> HasFrame(t, pool, f)
  BY <1>0, <1>1, <1>3, <1>4, Sizes DEF HasFrame
<1>11. FoundOK(t)' /\ \A pool \in Pools : ~InBitmap(t, pool)'
  BY <1>1, <1>3 DEF FoundOK, InBitmap
<1> QED
  BY <1>0, <1>3, <1>5, <1>6, <1>7, <1>8, <1>9, <1>10, <1>11, LocalStep DEF ThreadOK, StateTypes, Middle

(* What a step that keeps the lock and the kind of its call leaves alone.   *)
LEMMA CallMoves ==
  ASSUME MemoryInv, NEW t \in Threads, NEW r \in Calls,
         call' = [call EXCEPT ![t] = r], UNCHANGED holder,
         r.kind = call[t].kind,
         call[t].pc \notin {"idle", "lock"}, r.pc \notin {"idle", "lock"}
  PROVE  /\ call' \in [Threads -> Calls] /\ call'[t] = r
         /\ \A u \in Threads \ {t} : call'[u] = call[u]
         /\ \A u \in Threads : pf(u)' = pf(u) /\ Space(u)' = Space(u)
         /\ holder' \in [Pools -> Threads \cup {NULL}]
         /\ LocksHeldByCalls'
<1>0. StateTypes /\ LocksHeldByCalls
  BY DEF MemoryInv
<1>1. /\ call' \in [Threads -> Calls] /\ call'[t] = r
      /\ \A u \in Threads \ {t} : call'[u] = call[u]
  BY <1>0 DEF StateTypes
<1>2. \A u \in Threads : pf(u)' = pf(u) /\ Space(u)' = Space(u)
  BY <1>1 DEF pf, Space
<1>3. LocksHeldByCalls'
  BY <1>0, <1>1, <1>2 DEF LocksHeldByCalls
<1> QED
  BY <1>0, <1>1, <1>2, <1>3 DEF StateTypes

(* The types and the parts of the invariant that speak of one call.         *)
LEMMA OneCall ==
  ASSUME MemoryInv, NEW t \in Threads
  PROVE  /\ StateTypes /\ CallOK(t) /\ TakenOK(t) /\ MappedOK(t) /\ LocksHeldByCalls
         /\ call \in [Threads -> Calls] /\ call[t] \in Calls /\ pf(t) \in Pools
         /\ call[t].pool \in Pools
         /\ pf(t) = "K" <=> Space(t) = "K"
         /\ call[t].pc # "idle" => /\ Space(t) \in Spaces
                                   /\ Space(t) # "K" => Space(t) = t /\ t \in Procs
         /\ holder \in [Pools -> Threads \cup {NULL}]
<1>1. StateTypes /\ ThreadOK(t) /\ LocksHeldByCalls
  BY DEF MemoryInv
<1>2. call \in [Threads -> Calls] /\ call[t] \in Calls
  BY <1>1 DEF StateTypes
<1>3. call[t].pool \in Pools /\ call[t].kind \in {"none", "kpage", "apage", "upage"}
  BY <1>2 DEF Calls
<1>4. t # "K" /\ pf(t) \in Pools /\ (pf(t) = "K" <=> Space(t) = "K")
  BY MemoryAssumption DEF pf, Space, Pools
<1>5. call[t].pc # "idle" => (call[t].kind = "kpage" <=> t \notin Procs)
  BY <1>1 DEF ThreadOK, CallOK
<1>6. call[t].pc # "idle" => /\ Space(t) \in Spaces
                             /\ Space(t) # "K" => Space(t) = t /\ t \in Procs
  BY <1>5 DEF pf, Space, Spaces
<1> QED
  BY <1>1, <1>2, <1>3, <1>4, <1>6 DEF ThreadOK, StateTypes

(* A scan begins at the first byte.                                         *)
LEMMA ScanStart == ByteStart(0) /\ \A pool \in Pools : 0 \in 0..FrameCnt(pool)
<1>1. 0 = W*0
  BY Sizes
<1> QED
  BY <1>1, Sizes DEF ByteStart, Pools

(* __palloc: the scan goes on, and no other thread is in the bitmap.        *)
LEMMA ScanMoves ==
  ASSUME MemoryInv, NEW t \in Threads, ~panic, call[t].pc \in {"scan", "bit"},
         NEW r \in Calls, call' = [call EXCEPT ![t] = r],
         UNCHANGED <<phys, virt, pte, pde, holder, panic>>,
         raced' \in BOOLEAN, raced => raced',
         r.pc \in {"scan", "bit", "load"}, r.kind = call[t].kind, r.base = call[t].base,
         r.cnt = call[t].cnt, r.done = call[t].done, r.pool = call[t].pool,
         r.frame = call[t].frame, BitOK(r),
         ~raced' => FoundOK(t)',
         ~raced' => \A u \in Threads \ {t} : ~InBitmap(u, call[t].pool)
  PROVE  MemoryInv'
<1>0. StateTypes /\ CallOK(t) /\ TakenOK(t) /\ MappedOK(t)
  BY OneCall
<1>1. /\ call' \in [Threads -> Calls] /\ call'[t] = r
      /\ \A u \in Threads \ {t} : call'[u] = call[u]
      /\ \A u \in Threads : pf(u)' = pf(u) /\ Space(u)' = Space(u)
      /\ holder' \in [Pools -> Threads \cup {NULL}]
      /\ LocksHeldByCalls'
  BY CallMoves
<1>2. /\ MyPages(t)' = MyPages(t) /\ Page(t)' = Page(t) /\ HasPages(t) /\ HasPages(t)'
      /\ call[t].pc \in Middle /\ call'[t].pc \in Middle
  BY <1>1 DEF MyPages, Page, HasPages, Middle
<1>3. CallOK(t)'
  BY <1>0, <1>1, <1>2 DEF CallOK
<1>4. TakenOK(t)' /\ MappedOK(t)'
  BY <1>0, <1>1, <1>2 DEF TakenOK, MappedOK
<1>5. ~raced' => \A p \in Pools : \A u \in Threads \ {t} :
        InBitmap(t, p)' => ~InBitmap(u, p)
  BY <1>1 DEF InBitmap
<1>6. \A p \in Pools : \A f \in 0..FrameCnt(p)-1 :
        HasFrame(t, p, f)' <=> HasFrame(t, p, f)
  BY <1>1 DEF HasFrame
<1>7. ThreadOK(t)'
  BY <1>3, <1>4 DEF ThreadOK
<1> QED
  BY <1>1, <1>2, <1>5, <1>6, <1>7, LocalStep

(* __btmpScan looks at a byte.                                              *)
LEMMA ScanByteStep ==
  ASSUME MemoryInv, NEW t \in Threads, ScanByte(t)
  PROVE  MemoryInv'
<1> DEFINE c == call[t]
           pool == c.pool
           full == \A i \in Byte(c.bit) : phys[pool][i] = 1
<1>0. /\ StateTypes /\ CallOK(t) /\ LocksHeldByCalls
      /\ c \in Calls /\ c.pc = "scan" /\ pool \in Pools /\ ~panic
  BY OneCall DEF ScanByte, At
<1>1. /\ FrameCnt(pool) \in Nat /\ c.bit \in 0..FrameCnt(pool) /\ ByteStart(c.bit)
      /\ phys[pool] \in [0..FrameCnt(pool)-1 -> {0, 1}]
  BY <1>0, Sizes DEF CallOK, BitOK, Pools, StateTypes
<1>2. /\ raced' \in BOOLEAN
      /\ raced => raced'
      /\ ~raced' => ~raced /\ \A u \in Threads : pool = "K" /\ InBitmap(u, "K") => pf(t) = pf(u)
  BY <1>0 DEF ScanByte, StateTypes
<1>3. ~raced' => \A i \in 0..c.bit-1 : phys[pool][i] = 1
  BY <1>0, <1>2 DEF MemoryInv, FramesOK, FoundOK
<1>4. ASSUME ~raced', NEW u \in Threads \ {t} PROVE ~InBitmap(u, pool)
  <2> SUFFICES ASSUME InBitmap(u, pool) PROVE FALSE
    OBVIOUS
  <2>1. CallOK(u) /\ call[u].pool = pool /\ call[u].pc \in {"scan", "bit", "load", "store"}
    BY OneCall DEF InBitmap
  <2>2. pf(t) = pf(u)
    <3>1. CASE pool = "K"
      BY <3>1, <1>2, <1>4
    <3>2. CASE pool = "U"
      BY <3>2, <2>1, <1>0 DEF CallOK, Middle
    <3> QED
      BY <1>0, <3>1, <3>2 DEF Pools
  <2>3. holder[pf(t)] = t /\ holder[pf(u)] = u
    BY <1>0, <2>1 DEF LocksHeldByCalls, pf
  <2> QED
    BY <2>2, <2>3
<1>5. CASE c.bit = FrameCnt(pool)
  <2>1. Stop
    BY <1>5 DEF ScanByte
  <2>2. ~raced' => Full
    BY <1>0, <1>3, <1>5 DEF Full
  <2> QED
    BY <2>1, <2>2, <1>2, StopStep
<1>6. CASE c.bit # FrameCnt(pool) /\ full
  <2> DEFINE r == [call[t] EXCEPT !.bit = c.bit + W]
  <2>1. /\ call' = [call EXCEPT ![t] = r]
        /\ UNCHANGED <<phys, virt, pte, pde, holder, panic>>
    BY <1>0, <1>6 DEF ScanByte, StateTypes
  <2>2. /\ Byte(c.bit) = c.bit .. c.bit + W - 1 /\ W \in Nat \ {0}
        /\ c.bit + W \in 0..FrameCnt(pool) /\ ByteStart(c.bit + W)
    <3>1. c.bit \in 0..FrameCnt(pool)-1
      BY <1>1, <1>6
    <3>2. /\ Byte(c.bit) = c.bit .. c.bit + W - 1
          /\ c.bit + W \in 0..FrameCnt(pool) /\ ByteStart(c.bit + W)
      BY <1>0, <1>1, <3>1, NextByte, Zenon
    <3> QED
      BY <3>2, Sizes, Zenon
  <2>3. r \in Calls
    <3>1. c.bit + W \in Nat
      BY <1>1, <2>2
    <3> QED
      BY <1>0, <3>1 DEF Calls
  <2>4. /\ r.pc = "scan" /\ r.bit = c.bit + W /\ r.kind = c.kind /\ r.base = c.base
        /\ r.cnt = c.cnt /\ r.done = c.done /\ r.pool = pool /\ r.frame = c.frame
    BY <1>0 DEF Calls
  <2> HIDE DEF r
  <2>5. BitOK(r)
    BY <2>2, <2>4 DEF BitOK
  <2>6. ASSUME ~raced', NEW i \in 0..r.bit - 1 PROVE phys[pool][i] = 1
    <3>1. i \in 0..c.bit - 1 \/ i \in Byte(c.bit)
      BY <1>1, <2>2, <2>4
    <3> QED
      BY <1>3, <1>6, <2>6, <3>1
  <2>7. ~raced' => FoundOK(t)'
    <3>1. call'[t] = r /\ phys' = phys
      BY <1>0, <2>1 DEF StateTypes
    <3>2. call'[t].pc \notin {"bit", "load", "store"}
      BY <2>4, <3>1
    <3> QED
      BY <2>4, <2>6, <3>1, <3>2 DEF FoundOK
  <2> QED
    BY <1>0, <1>2, <1>4, <2>1, <2>3, <2>4, <2>5, <2>7, ScanMoves
<1>7. CASE c.bit # FrameCnt(pool) /\ ~full
  <2> DEFINE r == [call[t] EXCEPT !.pc = "bit"]
  <2>1. /\ call' = [call EXCEPT ![t] = r]
        /\ UNCHANGED <<phys, virt, pte, pde, holder, panic>>
    BY <1>0, <1>7 DEF ScanByte, StateTypes
  <2>2. /\ Byte(c.bit) = c.bit .. c.bit + W - 1 /\ Byte(c.bit) \subseteq 0..FrameCnt(pool)-1
        /\ c.bit \in 0..FrameCnt(pool)-1
    BY <1>0, <1>1, <1>7, NextByte, ByteInPool
  <2>3. r \in Calls
    <3>1. "bit" \in Pcs
      BY DEF Pcs, Middle
    <3> QED
      BY <1>0, <3>1 DEF Calls
  <2>4. /\ r.pc = "bit" /\ r.bit = c.bit /\ r.kind = c.kind /\ r.base = c.base
        /\ r.cnt = c.cnt /\ r.done = c.done /\ r.pool = pool /\ r.frame = c.frame
    BY <1>0 DEF Calls
  <2> HIDE DEF r
  <2>5. BitOK(r)
    BY <2>2, <2>4 DEF BitOK
  <2>6. \E i \in Byte(c.bit) : i >= c.bit /\ phys[pool][i] = 0
    <3>1. PICK i \in Byte(c.bit) : phys[pool][i] # 1
      BY <1>7
    <3>2. i \in 0..FrameCnt(pool)-1 /\ i >= c.bit
      BY <1>1, <2>2
    <3> QED
      BY <1>1, <3>1, <3>2
  <2>7. ~raced' => FoundOK(t)'
    <3>1. call'[t] = r
      BY <1>0, <2>1 DEF StateTypes
    <3> QED
      BY <2>1, <2>4, <2>6, <3>1 DEF FoundOK
  <2> QED
    BY <1>0, <1>2, <1>4, <2>1, <2>3, <2>4, <2>5, <2>7, ScanMoves
<1> QED
  BY <1>5, <1>6, <1>7

(* __btmpScan looks at a bit of the byte it has chosen.                     *)
LEMMA ScanBitStep ==
  ASSUME MemoryInv, NEW t \in Threads, ScanBit(t)
  PROVE  MemoryInv'
<1> DEFINE c == call[t]
           pool == c.pool
           more == c.bit + 1 \in Byte(c.bit)
           free == phys[pool][c.bit] = 0
           bit == IF free THEN c.bit ELSE c.bit + 1
           next == IF ~free /\ more THEN "bit" ELSE "load"
           r == [call[t] EXCEPT !.bit = bit, !.pc = next]
<1>0. /\ StateTypes /\ CallOK(t) /\ raced \in BOOLEAN
      /\ c \in Calls /\ c.pc = "bit" /\ pool \in Pools /\ ~panic /\ raced' = raced
  BY OneCall DEF ScanBit, At, StateTypes
<1>1. /\ FrameCnt(pool) \in Nat /\ c.bit \in 0..FrameCnt(pool)-1 /\ c.bit \in Nat
      /\ Byte(c.bit) \subseteq 0..FrameCnt(pool)-1
  BY <1>0, ByteInPool, Sizes DEF CallOK, BitOK, Pools
<1>2. ASSUME ~raced PROVE \E i \in Byte(c.bit) : i >= c.bit /\ phys[pool][i] = 0
  BY <1>0, <1>2 DEF MemoryInv, FramesOK, FoundOK
<1>3. ASSUME ~raced, ~free PROVE more /\ \E i \in Byte(c.bit) : i >= c.bit + 1 /\ phys[pool][i] = 0
  <2>1. PICK i \in Byte(c.bit) : i >= c.bit /\ phys[pool][i] = 0
    BY <1>2, <1>3
  <2>2. i \in Nat /\ i >= c.bit + 1
    BY <1>1, <1>3, <2>1
  <2>3. c.bit \in Byte(c.bit)
    BY <1>0, <1>1, ByteInPool
  <2>4. PICK n \in Int : Byte(c.bit) = n .. n + W - 1 /\ W \in Nat
    <3>1. W \in Nat \ {0}
      BY Sizes
    <3>2. (c.bit \div W) * W \in Int
      BY <1>1, <3>1
    <3> QED
      BY <3>1, <3>2, Zenon DEF Byte
  <2>5. more
    BY <1>1, <2>1, <2>2, <2>3, <2>4
  <2> QED
    BY <2>1, <2>2, <2>5
<1>4. /\ call' = [call EXCEPT ![t] = r]
      /\ UNCHANGED <<phys, virt, pte, pde, holder, panic>>
  <2>1. CASE free
    <3>1. call' = [call EXCEPT ![t].pc = "load"]
      BY <2>1 DEF ScanBit
    <3>2. r = [call[t] EXCEPT !.pc = "load"]
      BY <1>0, <2>1 DEF Calls
    <3> QED
      BY <1>0, <3>1, <3>2 DEF ScanBit, StateTypes
  <2>2. CASE ~free
    <3>1. call' = [call EXCEPT ![t].bit = c.bit + 1, ![t].pc = IF more THEN "bit" ELSE "load"]
      BY <2>2 DEF ScanBit
    <3> QED
      BY <1>0, <2>2, <3>1 DEF ScanBit, StateTypes
  <2> QED
    BY <2>1, <2>2
<1>5. next \in {"bit", "load"} /\ bit \in Nat /\ (next = "bit" => ~free /\ more)
  BY <1>1
<1>6. r \in Calls
  <2>1. "bit" \in Pcs /\ "load" \in Pcs
    BY DEF Pcs, Middle
  <2> QED
    BY <1>0, <1>5, <2>1 DEF Calls
<1>7. /\ r.pc = next /\ r.bit = bit /\ r.kind = c.kind /\ r.base = c.base
      /\ r.cnt = c.cnt /\ r.done = c.done /\ r.pool = pool /\ r.frame = c.frame
  BY <1>0 DEF Calls
<1>8. BitOK(r)
  <2>1. next = "bit" => bit \in 0..FrameCnt(pool)-1
    BY <1>1
  <2>2. bit \in 0..FrameCnt(pool)
    BY <1>1
  <2> HIDE DEF r, next, bit
  <2> QED
    BY <1>5, <1>7, <2>1, <2>2 DEF BitOK
<1>9. ~raced' => FoundOK(t)'
  <2> SUFFICES ASSUME ~raced PROVE FoundOK(t)'
    BY <1>0
  <2>1. call'[t] = r /\ phys' = phys
    BY <1>0, <1>4 DEF StateTypes
  <2>2. CASE free
    <3>1. next = "load" /\ bit = c.bit
      BY <2>2
    <3> HIDE DEF r, next, bit
    <3> QED
      BY <1>1, <1>7, <2>1, <2>2, <3>1 DEF FoundOK
  <2>3. CASE ~free
    <3>1. next = "bit" /\ bit = c.bit + 1 /\ bit \in Byte(c.bit)
          /\ \E i \in Byte(c.bit) : i >= bit /\ phys[pool][i] = 0
      BY <1>3, <2>3
    <3> HIDE DEF r, next, bit
    <3>2. Byte(bit) = Byte(c.bit)
      BY <1>1, <3>1, SameByte
    <3> QED
      BY <1>7, <2>1, <3>1, <3>2 DEF FoundOK
  <2> QED
    BY <2>2, <2>3
<1>10. ASSUME ~raced', NEW u \in Threads \ {t} PROVE ~InBitmap(u, pool)
  <2>1. InBitmap(t, pool) /\ Alone
    BY <1>0, <1>10 DEF InBitmap, MemoryInv, FramesOK
  <2> QED
    BY <1>0, <2>1 DEF Alone
<1> HIDE DEF r, next, bit
<1> QED
  BY <1>0, <1>4, <1>5, <1>6, <1>7, <1>8, <1>9, <1>10, ScanMoves

(* __btmpSet: the load.                                                     *)
LEMMA SetLoadStep ==
  ASSUME MemoryInv, BitsInPools, NEW t \in Threads, SetLoad(t)
  PROVE  MemoryInv'
<1> DEFINE c == call[t]
           byte == [i \in Byte(c.bit) |-> phys[c.pool][i]]
           r == [call[t] EXCEPT !.byte = byte, !.pc = "store"]
<1>0. /\ StateTypes /\ CallOK(t) /\ TakenOK(t) /\ MappedOK(t) /\ LocksHeldByCalls
      /\ call[t] \in Calls /\ call[t].pc = "load" /\ c.pool \in Pools /\ ~panic
  BY OneCall DEF SetLoad, At
<1>1. c.bit \in 0..FrameCnt(c.pool)-1 /\ FrameCnt(c.pool) \in Nat
  BY <1>0, Sizes DEF CallOK, BitOK, BitsInPools, Pools
<1>2. Byte(c.bit) \subseteq 0..FrameCnt(c.pool)-1
  BY <1>0, <1>1, ByteInPool
<1>3. byte \in [Byte(c.bit) -> {0, 1}]
  <2>1. phys[c.pool] \in [0..FrameCnt(c.pool)-1 -> {0, 1}]
    BY <1>0 DEF StateTypes
  <2> QED
    BY <2>1, <1>1, <1>2
<1>4. /\ call' = [call EXCEPT ![t] = r]
      /\ UNCHANGED <<phys, virt, pte, pde, holder, raced, panic>>
  BY <1>0 DEF SetLoad, StateTypes
<1>5. r \in Calls
  <2>1. "store" \in Pcs /\ byte \in Bytes
    BY <1>1, <1>3 DEF Pcs, Middle, Bytes
  <2> QED
    BY <1>0, <2>1 DEF Calls
<1>6. /\ r.pc = "store" /\ r.bit = c.bit /\ r.kind = c.kind /\ r.base = c.base
      /\ r.cnt = c.cnt /\ r.done = c.done /\ r.pool = c.pool
      /\ r.frame = c.frame /\ r.byte = byte
  BY <1>0 DEF Calls
<1>7. \A i \in Byte(c.bit) : byte[i] = phys[c.pool][i]
  OBVIOUS
<1> HIDE DEF r, byte
<1>8. /\ call' \in [Threads -> Calls] /\ call'[t] = r
      /\ \A u \in Threads \ {t} : call'[u] = call[u]
      /\ \A u \in Threads : pf(u)' = pf(u) /\ Space(u)' = Space(u)
      /\ holder' \in [Pools -> Threads \cup {NULL}]
      /\ LocksHeldByCalls'
  BY <1>0, <1>4, <1>5, <1>6, CallMoves
<1>9. MyPages(t)' = MyPages(t) /\ Page(t)' = Page(t) /\ HasPages(t) /\ HasPages(t)'
  BY <1>0, <1>6, <1>8 DEF MyPages, Page, HasPages, Middle
<1>10. CallOK(t)'
  BY <1>0, <1>1, <1>3, <1>4, <1>6, <1>8, <1>9 DEF CallOK, BitOK, Middle
<1>11. TakenOK(t)' /\ MappedOK(t)'
  BY <1>0, <1>4, <1>6, <1>8, <1>9 DEF TakenOK, MappedOK
<1>12. ~raced' => FoundOK(t)'
  <2>1. ~raced => FoundOK(t)
    BY DEF MemoryInv, FramesOK
  <2> QED
    BY <2>1, <1>0, <1>4, <1>6, <1>7, <1>8 DEF FoundOK
<1>13. ASSUME ~raced', NEW p \in Pools, NEW u \in Threads \ {t}, InBitmap(t, p)'
       PROVE  ~InBitmap(u, p)
  <2>1. Alone
    BY <1>4, <1>13 DEF MemoryInv, FramesOK
  <2> QED
    BY <2>1, <1>0, <1>6, <1>8, <1>13 DEF Alone, InBitmap
<1>14. \A p \in Pools : \A f \in 0..FrameCnt(p)-1 :
         HasFrame(t, p, f)' <=> HasFrame(t, p, f)
  BY <1>0, <1>6, <1>8 DEF HasFrame
<1> QED
  BY <1>0, <1>4, <1>6, <1>8, <1>9, <1>10, <1>11, <1>12, <1>13, <1>14, LocalStep
  DEF ThreadOK, Middle, StateTypes

(* __pageTableAdd: there is no page table yet, a frame is asked for.        *)
LEMMA PageTableWantedStep ==
  ASSUME MemoryInv, NEW t \in Threads, PageTableAdd(t),
         pf(t) = "U", pde[t][Dir(Page(t))] = None
  PROVE  MemoryInv'
<1> DEFINE c == call[t]
           r == [call[t] EXCEPT !.frame = c.bit, !.pool = "K", !.bit = 0, !.pc = "scan"]
<1>0. /\ StateTypes /\ CallOK(t) /\ TakenOK(t) /\ MappedOK(t) /\ LocksHeldByCalls
      /\ call[t] \in Calls /\ call[t].pc = "map" /\ ~panic
      /\ t \in Procs /\ Space(t) = t
  BY OneCall DEF PageTableAdd, At, CallOK, Space, pf
<1>1. c.frame = None /\ c.pool = "U" /\ c.bit \in 0..FrameCnt("U")-1 /\ c.bit \in Nat /\ c.bit # None
  BY <1>0, Sizes DEF CallOK, BitOK, Middle
<1>2. /\ call' = [call EXCEPT ![t] = r]
      /\ UNCHANGED <<phys, virt, pte, pde, holder, raced, panic>>
  BY <1>0 DEF PageTableAdd, StateTypes
<1>3. r \in Calls
  <2>1. "scan" \in Pcs /\ "K" \in Pools
    BY DEF Pcs, Middle, Pools
  <2> QED
    BY <1>0, <1>1, <2>1 DEF Calls
<1>4. /\ r.pc = "scan" /\ r.bit = 0 /\ r.kind = c.kind /\ r.base = c.base
      /\ r.cnt = c.cnt /\ r.done = c.done /\ r.pool = "K"
      /\ r.frame = c.bit
  BY <1>0 DEF Calls
<1> HIDE DEF r
<1>5. /\ call' \in [Threads -> Calls] /\ call'[t] = r
      /\ \A u \in Threads \ {t} : call'[u] = call[u]
      /\ \A u \in Threads : pf(u)' = pf(u) /\ Space(u)' = Space(u)
      /\ holder' \in [Pools -> Threads \cup {NULL}]
      /\ LocksHeldByCalls'
  BY <1>0, <1>2, <1>3, <1>4, CallMoves
<1>6. MyPages(t)' = MyPages(t) /\ Page(t)' = Page(t) /\ HasPages(t) /\ HasPages(t)'
  BY <1>0, <1>4, <1>5 DEF MyPages, Page, HasPages, Middle
<1>7. c.bit \in Frames(t)
  BY <1>0, <1>1, Sizes DEF Frames
<1>8. CallOK(t)'
  <2>1. BitOK(r)
    BY <1>4, ScanStart DEF BitOK, Pools
  <2> QED
    BY <1>0, <1>1, <1>2, <1>4, <1>5, <1>6, <1>7, <2>1 DEF CallOK, Middle
<1>9. TakenOK(t)' /\ MappedOK(t)'
  BY <1>0, <1>2, <1>4, <1>5, <1>6 DEF TakenOK, MappedOK
<1>10. FoundOK(t)' /\ \A p \in Pools : ~InBitmap(t, p)'
  BY <1>4, <1>5 DEF FoundOK, InBitmap
<1>11. \A p \in Pools : \A f \in 0..FrameCnt(p)-1 :
         HasFrame(t, p, f)' <=> HasFrame(t, p, f)
  BY <1>0, <1>1, <1>4, <1>5, Sizes DEF HasFrame, Pools
<1> QED
  BY <1>0, <1>2, <1>4, <1>5, <1>6, <1>8, <1>9, <1>10, <1>11, LocalStep
  DEF ThreadOK, Middle, StateTypes

(* Another thread that could be in the space of a call has no pages there.  *)
LEMMA Bystander ==
  ASSUME MemoryInv, NEW t \in Threads, call[t].pc \notin {"idle", "lock"},
         NEW u \in Threads \ {t}, Space(u) = Space(t)
  PROVE  ~HasPages(u) /\ call[u].kind = "kpage"
<1>1. /\ LocksHeldByCalls /\ pf(t) \in Pools /\ (pf(t) = "K" <=> Space(t) = "K")
      /\ pf(u) \in Pools /\ (pf(u) = "K" <=> Space(u) = "K")
  BY OneCall
<1>2. pf(u) = "K" /\ pf(t) = "K"
  BY <1>1 DEF Space, Pools
<1>3. ~(call[u].pc \notin {"idle", "lock"})
  BY <1>1, <1>2 DEF LocksHeldByCalls
<1>4. ~HasPages(u)
  BY <1>3 DEF HasPages, Middle
<1> QED
  BY <1>2, <1>4 DEF pf

(* So a step of the call in its own space leaves the other calls right.     *)
LEMMA BystanderOK ==
  ASSUME MemoryInv, NEW t \in Threads, call[t].pc \notin {"idle", "lock"},
         NEW u \in Threads \ {t}, call'[u] = call[u],
         \A s \in Spaces \ {Space(t)} : virt'[s] = virt[s] /\ pte'[s] = pte[s],
         u \in Procs => pde'[u] = pde[u]
  PROVE  ThreadOK(u)'
<1>0. StateTypes /\ CallOK(u) /\ TakenOK(u) /\ MappedOK(u)
  BY OneCall
<1>1. CASE Space(u) = Space(t)
  <2>1. ~HasPages(u) /\ call[u].kind = "kpage"
    BY <1>1, Bystander
  <2>2. ~HasPages(u)' /\ Page(u)' = Page(u)
    BY <2>1 DEF HasPages, Page
  <2>3. CallOK(u)'
    BY <1>0, <2>1, <2>2 DEF CallOK, pf, Space
  <2> QED
    BY <2>1, <2>2, <2>3 DEF ThreadOK, TakenOK, MappedOK
<1>2. CASE Space(u) # Space(t) /\ Space(u) \in Spaces
  BY <1>2, OthersOK
<1>3. CASE Space(u) \notin Spaces
  <2>1. call[u].pc = "idle"
    BY <1>3, OneCall
  <2>2. ~HasPages(u)' /\ Page(u)' = Page(u)
    BY <2>1 DEF HasPages, Middle, Page
  <2>3. CallOK(u)'
    BY <1>0, <2>1, <2>2 DEF CallOK, Middle
  <2> QED
    BY <2>1, <2>2, <2>3 DEF ThreadOK, TakenOK, MappedOK
<1> QED
  BY <1>1, <1>2, <1>3

(* What Taken does to a bitmap.                                             *)
LEMMA TakenPages ==
  ASSUME NEW n, NEW b \in [0..n -> {0, 1}], NEW base, NEW cnt
  PROVE  /\ Taken(b, base, cnt) \in [0..n -> {0, 1}]
         /\ \A i \in 0..n : Taken(b, base, cnt)[i] =
                             IF i \in base .. base + cnt - 1 THEN 1 ELSE b[i]
BY DEF Taken

(* A call takes the pages of its range, which were free.                    *)
LEMMA TakeStep ==
  ASSUME MemoryInv, NEW t \in Threads, ~panic,
         call[t].pc \in {"valloc", "mark"},
         NEW base \in Nat, NEW r \in Calls,
         call' = [call EXCEPT ![t] = r],
         r.pc = "scan", r.base = base, r.pool = pf(t),
         r.kind = call[t].kind, r.cnt = call[t].cnt, r.done = call[t].done,
         r.frame = call[t].frame, r.bit = 0,
         virt' = [virt EXCEPT ![Space(t)] = Taken(@, base, call[t].cnt)],
         UNCHANGED <<phys, pte, pde, holder, raced, panic>>,
         base < PageCnt(Space(t)), base + call[t].cnt - 1 <= Last(Space(t)),
         \A i \in base .. base + call[t].cnt - 1 : virt[Space(t)][i] = 0,
         call[t].kind = "apage" => base = StackPage,
         FilledUp'
  PROVE  MemoryInv'
<1> DEFINE c == call[t]
           s == Space(t)
           range == base .. base + c.cnt - 1
<1>0. /\ StateTypes /\ CallOK(t) /\ TakenOK(t) /\ MappedOK(t) /\ LocksHeldByCalls
      /\ call[t] \in Calls /\ s \in Spaces /\ (s # "K" => s = t /\ t \in Procs)
      /\ pf(t) \in Pools /\ (pf(t) = "K" <=> s = "K")
  BY OneCall
<1>1. c.cnt \in 1..MaxCnt /\ c.cnt \in Nat /\ c.done = 0 /\ c.frame = None
  BY <1>0, Sizes DEF CallOK, Middle
<1>2. /\ call' \in [Threads -> Calls] /\ call'[t] = r
      /\ \A u \in Threads \ {t} : call'[u] = call[u]
      /\ \A u \in Threads : pf(u)' = pf(u) /\ Space(u)' = Space(u)
      /\ holder' \in [Pools -> Threads \cup {NULL}]
      /\ LocksHeldByCalls'
  BY CallMoves
<1>3. range \subseteq 0..PageCnt(s) /\ PageCnt(s) \in Nat
  BY <1>0, <1>1, Sizes DEF Last, Spaces
<1>4. /\ virt[s] \in [0..PageCnt(s) -> {0, 1}] /\ DOMAIN virt = Spaces
      /\ virt'[s] \in [0..PageCnt(s) -> {0, 1}] /\ DOMAIN virt' = Spaces
      /\ \A i \in 0..PageCnt(s) : virt'[s][i] = IF i \in range THEN 1 ELSE virt[s][i]
      /\ \A x \in Spaces \ {s} : virt'[x] = virt[x]
  <2>1. virt[s] \in [0..PageCnt(s) -> {0, 1}] /\ DOMAIN virt = Spaces
    BY <1>0 DEF StateTypes
  <2>2. virt'[s] = Taken(virt[s], base, c.cnt)
    BY <1>0, <2>1
  <2>3. DOMAIN virt' = Spaces /\ \A x \in Spaces \ {s} : virt'[x] = virt[x]
    BY <2>1
  <2> QED
    BY <2>1, <2>2, <2>3, TakenPages
<1>5. StateTypes'
  <2>1. \A x \in Spaces : virt'[x] \in [0..PageCnt(x) -> {0, 1}]
    BY <1>0, <1>4 DEF StateTypes
  <2> QED
    BY <1>0, <1>2, <1>4, <2>1 DEF StateTypes
<1>6. MyPages(t)' = range /\ HasPages(t)'
  BY <1>2 DEF MyPages, HasPages, Middle
<1>7. \A i \in range : pte[s][i] = None
  BY <1>0, <1>3 DEF MemoryInv, MappedTaken
<1>8. ThreadOK(t)'
  <2>1. CallOK(t)'
    <3>1. base # None
      BY Sizes
    <3>2. base + c.cnt - 1 <= Last(s)
      OBVIOUS
    <3>3. /\ call'[t].base < PageCnt(Space(t)')
          /\ call'[t].base + call'[t].cnt - 1 <= Last(Space(t)')
      BY <1>2, <3>2
    <3>4. call'[t].pc = "scan" /\ call'[t].frame = None /\ call'[t].done < call'[t].cnt
      BY <1>1, <1>2
    <3>5. /\ call'[t].kind # "none"
          /\ call'[t].kind = "kpage" <=> t \notin Procs
          /\ call'[t].cnt \in 1..MaxCnt
          /\ call'[t].kind = "apage" => call'[t].cnt = 1 /\ call'[t].base = StackPage
      BY <1>0, <1>2 DEF CallOK
    <3>6. BitOK(r)
      BY <1>0, ScanStart DEF BitOK
    <3> QED
      BY <1>2, <3>1, <3>3, <3>4, <3>5, <3>6 DEF CallOK, Middle
  <2>2. TakenOK(t)'
    <3>1. call[t].kind = "upage" => virt'[t][StackPage] = 1
      <4> SUFFICES ASSUME call[t].kind = "upage" PROVE virt'[t][StackPage] = 1
        OBVIOUS
      <4>1. s = t /\ virt[t][StackPage] = 1 /\ t # "K" /\ t \in Procs
        BY <1>0, MemoryAssumption DEF TakenOK, Space, pf
      <4>2. StackPage \in 0..PageCnt(s)
        BY <4>1, Sizes
      <4> QED
        BY <4>1, <4>2, <1>4
    <3>2. \A i \in range : virt'[s][i] = 1
      BY <1>3, <1>4
    <3> QED
      BY <1>2, <1>6, <3>1, <3>2 DEF TakenOK
  <2>3. MappedOK(t)'
    BY <1>1, <1>2, <1>6, <1>7 DEF MappedOK
  <2> QED
    BY <2>1, <2>2, <2>3 DEF ThreadOK
<1>9. ASSUME NEW u \in Threads \ {t} PROVE ThreadOK(u)'
  BY <1>2, <1>4, BystanderOK
<1>10. MappedTaken'
  <2>1. MappedTaken
    BY DEF MemoryInv
  <2> SUFFICES ASSUME NEW x \in Spaces, NEW i \in 0..PageCnt(x), pte[x][i] # None
               PROVE  /\ virt'[x][i] = 1
                      /\ x # "K" => i <= StackPage /\ pde[x][Dir(i)] # None
    BY DEF MappedTaken
  <2>2. /\ virt[x][i] = 1
        /\ x # "K" => i <= StackPage /\ pde[x][Dir(i)] # None
    BY <2>1 DEF MappedTaken
  <2> QED
    BY <2>2, <1>4
<1>17. HeapMapped'
  BY DEF MemoryInv, HeapMapped
<1>11. TakenMapped'
  <2> SUFFICES ASSUME NEW x \in Spaces, NEW i \in 0..PageCnt(x)-1,
                      virt'[x][i] = 1, pte[x][i] = None
               PROVE  \E u \in Threads : call'[u].pc \in Middle /\ Space(u)' = x /\ i \in MyPages(u)'
    BY DEF TakenMapped
  <2>1. CASE x = s /\ i \in range
    <3>1. call'[t].pc \in Middle
      BY <1>2 DEF Middle
    <3> QED
      BY <2>1, <1>2, <1>6, <3>1
  <2>2. CASE ~(x = s /\ i \in range)
    <3>1. virt[x][i] = 1
      <4>1. PageCnt(x) \in Nat
        BY Sizes DEF Spaces
      <4>2. i \in 0..PageCnt(x)
        BY <4>1
      <4> QED
        BY <2>2, <4>2, <1>4
    <3>2. PICK u \in Threads : call[u].pc \in Middle /\ Space(u) = x /\ i \in MyPages(u)
      BY <3>1 DEF MemoryInv, TakenMapped
    <3>3. u # t
      BY <3>2 DEF Middle
    <3> QED
      BY <3>2, <3>3, <1>2 DEF MyPages
  <2> QED
    BY <2>1, <2>2
<1>12. ~raced' => FramesOK'
  <2>1. FoundOK(t)' /\ \A p \in Pools : ~InBitmap(t, p)'
    BY <1>2 DEF FoundOK, InBitmap
  <2>2. \A p \in Pools : \A f \in 0..FrameCnt(p)-1 :
           HasFrame(t, p, f)' <=> HasFrame(t, p, f)
    BY <1>1, <1>2, Sizes DEF HasFrame
  <2> QED
    BY <1>2, <1>5, <2>1, <2>2, FramesKept
<1> QED
  BY <1>2, <1>5, <1>8, <1>9, <1>10, <1>17, <1>11, <1>12 DEF MemoryInv

(* __apageAlloc marks the stack page of a new process, which is free.       *)
LEMMA ApageMarkStep ==
  ASSUME MemoryInv, NEW t \in Threads, ApageMark(t)
  PROVE  MemoryInv'
<1> DEFINE r == [call[t] EXCEPT !.pool = pf(t), !.bit = 0, !.pc = "scan"]
<1>0. /\ StateTypes /\ CallOK(t) /\ TakenOK(t)
      /\ call[t] \in Calls /\ pf(t) \in Pools
      /\ call[t].pc = "mark" /\ ~panic /\ raced' = raced
  BY OneCall DEF ApageMark, At
<1>1. /\ call[t].kind = "apage" /\ t \in Procs /\ t # "K" /\ pf(t) = "U" /\ Space(t) = t
      /\ call[t].cnt = 1 /\ call[t].base = StackPage /\ virt[t][StackPage] = 0
      /\ StackPage \in Nat \ {0} /\ call[t].base \in Nat
  BY <1>0, Sizes DEF CallOK, TakenOK, pf, Space
<1>2. /\ call' = [call EXCEPT ![t] = r]
      /\ virt' = [virt EXCEPT ![Space(t)] = Taken(@, call[t].base, call[t].cnt)]
      /\ UNCHANGED <<phys, pte, pde, holder, raced, panic>>
  <2>1. ~ ((t \in Procs) # (pf(t) = "U"))
    BY <1>1
  <2>2. ~ (call[t].base <= 0)
    BY <1>1
  <2>3. /\ virt' = [virt EXCEPT ![Space(t)] = Taken(@, call[t].base, 1)]
        /\ call' = [call EXCEPT ![t].pool = pf(t), ![t].bit = 0, ![t].pc = "scan"]
        /\ UNCHANGED <<phys, pte, pde, holder, raced, panic>>
    BY <2>1, <2>2 DEF ApageMark
  <2>4. virt' = [virt EXCEPT ![Space(t)] = Taken(@, call[t].base, call[t].cnt)]
    BY <2>3, <1>1
  <2>5. call' = [call EXCEPT ![t] = r]
    BY <2>3, <1>0 DEF StateTypes
  <2> QED
    BY <2>3, <2>4, <2>5
<1>3. r \in Calls
  <2>1. "scan" \in Pcs
    BY DEF Pcs, Middle
  <2> QED
    BY <1>0, <2>1 DEF Calls
<1>4. /\ r.pc = "scan" /\ r.base = call[t].base /\ r.pool = pf(t)
      /\ r.kind = call[t].kind /\ r.cnt = call[t].cnt /\ r.done = call[t].done
      /\ r.frame = call[t].frame /\ r.bit = 0
  BY <1>0 DEF Calls
<1> HIDE DEF r
<1>5. \A i \in call[t].base .. call[t].base + call[t].cnt - 1 : i = StackPage
  BY <1>1
<1>6. call[t].base < PageCnt(Space(t)) /\ call[t].base + call[t].cnt - 1 <= Last(Space(t))
  <2>1. PageCnt(t) = StackPage + 1
    BY <1>1, Sizes
  <2> QED
    BY <1>1, <2>1 DEF Last
<1>7. FilledUp'
  <2>1. t \in Spaces /\ virt[t] \in [0..PageCnt(t) -> {0, 1}] /\ DOMAIN virt = Spaces
    BY <1>0, <1>1 DEF StateTypes, Spaces
  <2>2. \A i \in 0..StackPage-1 : virt'[t][i] = virt[t][i]
    <3>1. virt'[t] = Taken(virt[t], call[t].base, call[t].cnt)
      BY <1>1, <1>2, <2>1
    <3>2. \A i \in 0..StackPage-1 : i \in 0..PageCnt(t)
      BY <1>1, Sizes
    <3>3. \A i \in 0..PageCnt(t) : virt'[t][i] =
            IF i \in call[t].base .. call[t].base + call[t].cnt - 1 THEN 1 ELSE virt[t][i]
      BY <2>1, <3>1 DEF Taken
    <3>4. \A i \in 0..StackPage-1 : i # StackPage
      BY <1>1
    <3> QED
      BY <1>5, <3>2, <3>3, <3>4
  <2>3. \A x \in Spaces \ {t} : virt'[x] = virt[x]
    BY <1>1, <1>2, <2>1
  <2>4. FilledUp
    BY DEF MemoryInv
  <2> SUFFICES ASSUME NEW s \in Spaces,
                      NEW i \in 0 .. (IF s = "K" THEN PageCnt("K") ELSE StackPage) - 1,
                      NEW j \in 0..i, virt'[s][i] = 1
               PROVE  virt'[s][j] = 1
    BY DEF FilledUp
  <2>5. CASE s = t
    <3>1. i \in 0..StackPage-1 /\ j \in 0..StackPage-1
      BY <2>5, <1>1
    <3> QED
      BY <2>2, <2>4, <2>5, <3>1, <1>1 DEF FilledUp
  <2>6. CASE s # t
    BY <2>3, <2>4, <2>6 DEF FilledUp
  <2> QED
    BY <2>5, <2>6
<1>8. \A i \in call[t].base .. call[t].base + call[t].cnt - 1 : virt[Space(t)][i] = 0
  BY <1>1, <1>5
<1> QED
  BY <1>0, <1>1, <1>2, <1>3, <1>4, <1>6, <1>7, <1>8, TakeStep

(* How many numbers there are below n.                                      *)
LEMMA Below ==
  ASSUME NEW n \in Nat
  PROVE  IsFiniteSet(0..n-1) /\ Cardinality(0..n-1) = n
<1>1. n - 1 \in Int /\ 0 \in Int
  OBVIOUS
<1>2. /\ IsFiniteSet(0..n-1)
      /\ Cardinality(0..n-1) = IF 0 > n-1 THEN 0 ELSE (n-1)-0+1
  BY <1>1, FS_Interval
<1> QED
  BY <1>2

(* An injection fills a set that is no larger.                              *)
LEMMA Pigeonhole ==
  ASSUME NEW S, NEW T, IsFiniteSet(S), IsFiniteSet(T), NEW g \in [S -> T],
         \A x, y \in S : g[x] = g[y] => x = y
  PROVE  /\ Cardinality(S) <= Cardinality(T)
         /\ Cardinality(S) = Cardinality(T) => \A y \in T : \E x \in S : g[x] = y
<1>1. g \in Injection(S, T)
  BY Fun_IsInj
<1>2. /\ Cardinality(S) <= Cardinality(T)
      /\ Cardinality(S) = Cardinality(T) <=> g \in Surjection(S, T)
  BY <1>1, FS_Injection
<1> QED
  BY <1>2 DEF Surjection

(* Two pages of a space do not have one frame.                              *)
LEMMA DistinctFrames ==
  ASSUME MemoryInv, ~raced, NEW s \in Spaces,
         NEW i \in 0..PageCnt(s), NEW j \in 0..PageCnt(s),
         pte[s][i] # None, pte[s][i] = pte[s][j]
  PROVE  i = j
<1> DEFINE pool == IF s = "K" THEN "K" ELSE "U"
           f == pte[s][i]
<1>1. StateTypes /\ UsesOK
  BY DEF MemoryInv, FramesOK
<1>2. pool \in Pools /\ f \in 0..FrameCnt(pool)-1 /\ (pool = "K" <=> s = "K")
  BY <1>1 DEF StateTypes, Frames, Pools
<1>3. UsedFor(pool, f, <<s, i>>) /\ UsedFor(pool, f, <<s, j>>)
  BY <1>2 DEF UsedFor
<1>4. <<s, i>> \in Uses(pool, f) /\ <<s, j>> \in Uses(pool, f)
  BY <1>1, <1>2, <1>3, UsesMember DEF UsesCollected
<1>5. <<s, i>> = <<s, j>>
  BY <1>1, <1>2, <1>4 DEF UsesOK
<1> QED
  BY <1>5

(* While a call holds the lock of a space's pool, a taken page of the space *)
(* that is not one the call is about to map is mapped.                      *)
LEMMA TakenIsMapped ==
  ASSUME MemoryInv, NEW t \in Threads, call[t].pc \notin {"idle", "lock"},
         NEW i \in 0..PageCnt(Space(t))-1, virt[Space(t)][i] = 1,
         call[t].pc \in Middle => i \notin MyPages(t)
  PROVE  pte[Space(t)][i] # None
<1> SUFFICES ASSUME pte[Space(t)][i] = None PROVE FALSE
  OBVIOUS
<1>1. Space(t) \in Spaces
  BY OneCall
<1>2. PICK u \in Threads : call[u].pc \in Middle /\ Space(u) = Space(t) /\ i \in MyPages(u)
  BY <1>1 DEF MemoryInv, TakenMapped
<1>3. u # t /\ HasPages(u)
  BY <1>2 DEF HasPages
<1> QED
  BY <1>2, <1>3, Bystander

(* n mapped pages of a space have n frames, and if the pool has no more     *)
(* than n it is full.                                                       *)
LEMMA PagesHaveFrames ==
  ASSUME MemoryInv, ~raced, NEW s \in Spaces, NEW n \in Nat,
         NEW g \in [0..n-1 -> 0..PageCnt(s)],
         \A i, j \in 0..n-1 : g[i] = g[j] => i = j,
         \A i \in 0..n-1 : pte[s][g[i]] # None
  PROVE  /\ n <= FrameCnt(IF s = "K" THEN "K" ELSE "U")
         /\ n = FrameCnt(IF s = "K" THEN "K" ELSE "U") => Full
<1> DEFINE pool == IF s = "K" THEN "K" ELSE "U"
           h == [i \in 0..n-1 |-> pte[s][g[i]]]
<1>1. StateTypes /\ UsesOK
  BY DEF MemoryInv, FramesOK
<1>2. pool \in Pools /\ FrameCnt(pool) \in Nat /\ (pool = "K" <=> s = "K")
  BY Sizes DEF Pools
<1>3. Frames(s) = 0..FrameCnt(pool)-1
  BY DEF Frames
<1> HIDE DEF pool
<1>4. h \in [0..n-1 -> 0..FrameCnt(pool)-1]
  <2>1. pte[s] \in [0..PageCnt(s) -> {None} \cup 0..FrameCnt(pool)-1]
    BY <1>1, <1>3 DEF StateTypes
  <2> QED
    BY <2>1
<1>5. ASSUME NEW i \in 0..n-1, NEW j \in 0..n-1, h[i] = h[j] PROVE i = j
  <2>1. g[i] \in 0..PageCnt(s) /\ g[j] \in 0..PageCnt(s)
        /\ pte[s][g[i]] = pte[s][g[j]] /\ pte[s][g[i]] # None
    BY <1>5
  <2>2. g[i] = g[j]
    BY <2>1, DistinctFrames
  <2> QED
    BY <2>2
<1>6. \A f \in 0..FrameCnt(pool)-1 : (\E i \in 0..n-1 : h[i] = f) => phys[pool][f] = 1
  <2> SUFFICES ASSUME NEW f \in 0..FrameCnt(pool)-1, NEW i \in 0..n-1, h[i] = f
               PROVE  phys[pool][f] = 1
    OBVIOUS
  <2>1. UsedFor(pool, f, <<s, g[i]>>)
    BY <1>2 DEF UsedFor
  <2>2. Uses(pool, f) # {}
    BY <1>1, <1>2, <2>1, UsesMember DEF UsesCollected
  <2> QED
    BY <1>1, <1>2, <2>2 DEF UsesOK
<1> HIDE DEF h
<1>7. /\ n <= FrameCnt(pool)
      /\ n = FrameCnt(pool) => \A f \in 0..FrameCnt(pool)-1 : \E i \in 0..n-1 : h[i] = f
  <2> DEFINE S == 0..n-1
             T == 0..FrameCnt(pool)-1
  <2>1. /\ IsFiniteSet(S) /\ Cardinality(S) = n
        /\ IsFiniteSet(T) /\ Cardinality(T) = FrameCnt(pool)
    BY <1>2, Below
  <2>2. h \in [S -> T] /\ \A i, j \in S : h[i] = h[j] => i = j
    BY <1>4, <1>5
  <2> HIDE DEF S, T
  <2>3. /\ Cardinality(S) <= Cardinality(T)
        /\ Cardinality(S) = Cardinality(T) => \A f \in T : \E i \in S : h[i] = f
    BY <2>1, <2>2, Pigeonhole
  <2> QED
    BY <2>1, <2>3 DEF S, T
<1> QED
  BY <1>2, <1>6, <1>7 DEF Full, pool

(* A process never runs out of pages before puser runs out of frames.       *)
LEMMA PagesLeft ==
  ASSUME MemoryInv, ~raced, NEW p \in Procs, NEW cnt \in 1..MaxCnt,
         \A i \in 0..StackPage - cnt : pte[p][i] # None, pte[p][StackPage] # None
  PROVE  FALSE
<1>0. /\ StackPage \in Nat \ {0} /\ cnt \in Nat \ {0} /\ cnt <= MaxCnt /\ MaxCnt \in Nat
      /\ PageCnt(p) = StackPage + 1 /\ p # "K" /\ p \in Spaces
      /\ FrameCnt("U") = W*ULen /\ W*ULen \in Nat \ {0} /\ W*ULen + MaxCnt <= StackPage + 1
  BY Sizes DEF Spaces
<1> DEFINE top == StackPage
           n == top - cnt + 2
           g == [i \in 0..n-1 |-> IF i = n-1 THEN top ELSE i]
<1> HIDE DEF top
<1>1. top = StackPage
  BY DEF top
<1>2. n \in Nat /\ n > W*ULen
  BY <1>0, <1>1
<1>3. g \in [0..n-1 -> 0..PageCnt(p)]
  BY <1>0, <1>1, <1>2
<1>4. \A i, j \in 0..n-1 : g[i] = g[j] => i = j
  BY <1>0, <1>1, <1>2
<1>5. \A i \in 0..n-1 : pte[p][g[i]] # None
  BY <1>0, <1>1, <1>2
<1> HIDE DEF g, n
<1>6. n <= FrameCnt("U")
  BY <1>0, <1>2, <1>3, <1>4, <1>5, PagesHaveFrames
<1> QED
  BY <1>0, <1>2, <1>6

(* A kernel's heap without a free page has all frames of pkernel.           *)
LEMMA HeapFull ==
  ASSUME MemoryInv, ~raced, \A i \in 0..PageCnt("K")-1 : pte["K"][i] # None
  PROVE  Full /\ pte["K"][PageCnt("K")] = None
<1> DEFINE size == W*KLen
<1>0. /\ PageCnt("K") = size /\ FrameCnt("K") = size /\ size \in Nat \ {0} /\ "K" \in Spaces
  BY Sizes DEF Spaces
<1> HIDE DEF size
<1>1. Full
  <2> DEFINE g == [i \in 0..size-1 |-> i]
  <2>1. /\ g \in [0..size-1 -> 0..PageCnt("K")]
        /\ \A i, j \in 0..size-1 : g[i] = g[j] => i = j
        /\ \A i \in 0..size-1 : pte["K"][g[i]] # None
    BY <1>0
  <2> HIDE DEF g
  <2> QED
    BY <1>0, <2>1, PagesHaveFrames
<1>2. ASSUME pte["K"][PageCnt("K")] # None PROVE FALSE
  <2> DEFINE n == size + 1
             g == [i \in 0..n-1 |-> i]
  <2>1. n \in Nat /\ n > size
    BY <1>0
  <2>2. /\ g \in [0..n-1 -> 0..PageCnt("K")]
        /\ \A i, j \in 0..n-1 : g[i] = g[j] => i = j
        /\ \A i \in 0..n-1 : pte["K"][g[i]] # None
    BY <1>0, <1>2
  <2> HIDE DEF g, n
  <2>3. n <= FrameCnt("K")
    BY <1>0, <2>1, <2>2, PagesHaveFrames
  <2> QED
    BY <1>0, <2>1, <2>3
<1> QED
  BY <1>1, <1>2

(* __valloc: the bitmap of pages has no free byte.                          *)
LEMMA VallocPanics ==
  ASSUME MemoryInv, NEW t \in Threads, call[t].pc = "valloc", ~raced,
         \A i \in 0..PageCnt(Space(t))-1 : virt[Space(t)][i] = 1
  PROVE  Full
<1>0. Space(t) \in Spaces /\ (Space(t) # "K" => Space(t) = t /\ t \in Procs)
  BY OneCall
<1>1. \A i \in 0..PageCnt(Space(t))-1 : pte[Space(t)][i] # None
  BY TakenIsMapped DEF Middle
<1>2. CASE Space(t) = "K"
  BY <1>1, <1>2, HeapFull
<1>3. CASE Space(t) # "K"
  <2>1. 1 \in 1..MaxCnt /\ PageCnt(t) = StackPage + 1 /\ StackPage \in Nat
    BY <1>0, <1>3, Sizes
  <2>2. (\A i \in 0..StackPage-1 : pte[t][i] # None) /\ pte[t][StackPage] # None
    BY <1>0, <1>1, <1>3, <2>1
  <2> QED
    BY <1>0, <1>3, <2>1, <2>2, PagesLeft
<1> QED
  BY <1>2, <1>3

(* What __btmpScan finds in the bitmap of pages of a call's space.          *)
VallocBase(t) ==
  IF pf(t) = "K" THEN KB!btmpScan(virt["K"], call[t].cnt)
  ELSE VB!btmpScan(virt[t], call[t].cnt)

LastPage(s) == (IF s = "K" THEN PageCnt("K") ELSE StackPage) - 1

(* The range is free and the lowest free one, and ends below the stack of a *)
(* process and, at most one page, behind the kernel's bitmap.  If there is  *)
(* none, all pages but the last cnt - 1 are taken.                          *)
LEMMA VallocScanned ==
  ASSUME MemoryInv, NEW t \in Threads, call[t].pc = "valloc"
  PROVE  LET s == Space(t)
             cnt == call[t].cnt
             base == VallocBase(t)
         IN  /\ base = Panicked => \A i \in 0..PageCnt(s)-1 : virt[s][i] = 1
             /\ base = None => \A i \in 0 .. LastPage(s) + 1 - cnt : virt[s][i] = 1
             /\ base \notin {None, Panicked} =>
                  /\ base \in Nat /\ base <= LastPage(s)
                  /\ base + cnt - 1 <= Last(s)
                  /\ \A i \in base .. base + cnt - 1 : virt[s][i] = 0
                  /\ \A i \in 0..base-1 : virt[s][i] = 1
<1> DEFINE s == Space(t)
           cnt == call[t].cnt
           base == VallocBase(t)
           b == virt[s]
           size == PageCnt(s)
           last == LastPage(s)
<1>0. /\ StateTypes /\ CallOK(t) /\ TakenOK(t) /\ FilledUp
      /\ s \in Spaces /\ (s # "K" => s = t /\ t \in Procs)
      /\ pf(t) \in Pools /\ (pf(t) = "K" <=> s = "K")
  BY OneCall DEF MemoryInv
<1>1. cnt \in Nat \ {0}
  BY <1>0, Sizes DEF CallOK
<1>2. b \in [0..size -> {0, 1}] /\ size \in Nat \ {0}
  <2>1. \A x \in Spaces : PageCnt(x) \in Nat \ {0}
    BY Sizes DEF Spaces
  <2> QED
    BY <1>0, <2>1 DEF StateTypes
<1>3. Scanned(base, b, size, cnt)
  <2>1. CASE s = "K"
    BY <1>0, <1>1, <1>2, <2>1, Sizes, KernelScan DEF VallocBase
  <2>2. CASE s # "K"
    BY <1>0, <1>1, <1>2, <2>2, Sizes, PageScan DEF VallocBase
  <2> QED
    BY <2>1, <2>2
<1>4. /\ last \in Int /\ last < size /\ Last(s) \in Nat
      /\ last = IF s = "K" THEN size - 1 ELSE size - 2
      /\ s = "K" => Last(s) = size
      /\ s # "K" => Last(s) = size - 1
  BY <1>0, Sizes DEF LastPage, Last, Spaces
<1>5. \A i \in 0..last : \A j \in 0..i : b[i] = 1 => b[j] = 1
  BY <1>0 DEF FilledUp, LastPage
<1>6. ASSUME s # "K" PROVE b[size-1] = 1
  <2>1. s = t /\ t \in Procs /\ size - 1 = StackPage
    BY <1>0, <1>6, Sizes
  <2>2. call[t].kind = "upage"
    BY <1>0, <1>6 DEF CallOK, Space, pf, StateTypes, Calls
  <2> QED
    BY <1>0, <2>1, <2>2 DEF TakenOK
<1> HIDE DEF s, cnt, base, b, size, last
<1>7. /\ base \in {None, Panicked} \cup 0..size-1
      /\ base = Panicked <=> \A i \in 0..size-1 : b[i] = 1
      /\ cnt = 1 => base # None
      /\ base \notin {None, Panicked} =>
           /\ base + cnt - 1 <= size
           /\ cnt = 1 => base <= size - 1
           /\ \A i \in base .. base + cnt - 1 : b[i] = 0
      /\ \A f \in 0 .. size-cnt :
           (\A i \in f .. f+cnt-1 : b[i] = 0) => base \in 0..f
  BY <1>3 DEF Scanned, KP!Scanned, KP!None, KP!Panicked, None, Panicked
<1>8. ASSUME NEW j \in 0..size-1, b[j] = 0, j + cnt - 1 <= last
      PROVE  base \in 0..j
  <2>1. \A i \in j .. j + cnt - 1 : i \in 0..last /\ j \in 0..i
    BY <1>1, <1>2, <1>4, <1>8
  <2>2. \A i \in j .. j + cnt - 1 : b[i] = 0
    BY <1>2, <1>4, <1>5, <1>8, <2>1
  <2>3. j \in 0 .. size-cnt
    BY <1>1, <1>2, <1>4, <1>8
  <2> QED
    BY <1>7, <2>2, <2>3
<1>9. ASSUME base = None PROVE \A i \in 0 .. last + 1 - cnt : b[i] = 1
  <2> SUFFICES ASSUME NEW i \in 0 .. last + 1 - cnt, b[i] # 1 PROVE FALSE
    OBVIOUS
  <2>1. i \in 0..size-1 /\ b[i] = 0 /\ i + cnt - 1 <= last
    BY <1>1, <1>2, <1>4
  <2>2. base \in 0..i
    BY <1>8, <2>1
  <2> QED
    BY <1>9, <2>2, Sizes
<1>10. ASSUME base \notin {None, Panicked}
       PROVE  /\ base \in Nat /\ base <= last
              /\ base + cnt - 1 <= Last(s)
              /\ \A i \in base .. base + cnt - 1 : b[i] = 0
              /\ \A i \in 0..base-1 : b[i] = 1
  <2>1. /\ base \in Nat /\ base <= size - 1 /\ base + cnt - 1 <= size
        /\ \A i \in base .. base + cnt - 1 : b[i] = 0
    BY <1>2, <1>7, <1>10
  <2>2. s # "K" => ~(size - 1 \in base .. base + cnt - 1)
    BY <1>6, <2>1
  <2>3. s # "K" => base + cnt - 1 < size - 1
    BY <1>1, <1>2, <2>1, <2>2
  <2>4. base <= last /\ base + cnt - 1 <= Last(s)
    BY <1>1, <1>2, <1>4, <2>1, <2>3
  <2>5. ASSUME NEW i \in 0..base-1, b[i] # 1 PROVE FALSE
    <3>1. i \in 0..size-1 /\ b[i] = 0
      <4>1. i \in 0..size-1 /\ i \in 0..size
        BY <1>2, <2>1
      <4> QED
        BY <1>2, <2>5, <4>1
    <3>2. i + cnt - 1 <= last
      <4>1. i + cnt - 1 < base + cnt - 1
        BY <1>1, <2>1
      <4> QED
        BY <1>1, <1>2, <1>4, <2>1, <2>3, <4>1
    <3>3. base \in 0..i
      BY <1>8, <3>1, <3>2
    <3> QED
      BY <2>1, <3>3
  <2> QED
    BY <2>1, <2>4, <2>5
<1> QED
  BY <1>7, <1>9, <1>10 DEF s, cnt, base, b, size, last

(* __valloc.                                                                *)
LEMMA VallocStep ==
  ASSUME MemoryInv, NEW t \in Threads, Valloc(t)
  PROVE  MemoryInv'
<1> DEFINE s == Space(t)
           cnt == call[t].cnt
           base == VallocBase(t)
<1>0. /\ StateTypes /\ CallOK(t) /\ TakenOK(t) /\ MappedOK(t) /\ LocksHeldByCalls
      /\ call[t] \in Calls /\ pf(t) \in Pools /\ (pf(t) = "K" <=> s = "K")
      /\ s \in Spaces /\ (s # "K" => s = t /\ t \in Procs)
      /\ call[t].pc = "valloc" /\ ~panic /\ raced' = raced /\ FilledUp
  BY OneCall DEF Valloc, At, MemoryInv
<1>1. IF base = Panicked \/ (pf(t) = "U" /\ base >= StackPage) THEN Stop
      ELSE /\ call' = [call EXCEPT ![t].base = base, ![t].pool = pf(t),
                         ![t].bit = 0,
                         ![t].pc = IF base = None THEN "release" ELSE "scan"]
           /\ virt' = IF base = None THEN virt
                      ELSE [virt EXCEPT ![Space(t)] = Taken(@, base, call[t].cnt)]
           /\ UNCHANGED <<phys, pte, pde, holder, panic>>
  BY Zenon DEF Valloc, VallocBase
<1>2. /\ base = Panicked => \A i \in 0..PageCnt(s)-1 : virt[s][i] = 1
      /\ base = None => \A i \in 0 .. LastPage(s) + 1 - cnt : virt[s][i] = 1
      /\ base \notin {None, Panicked} =>
           /\ base \in Nat /\ base <= LastPage(s)
           /\ base + cnt - 1 <= Last(s)
           /\ \A i \in base .. base + cnt - 1 : virt[s][i] = 0
           /\ \A i \in 0..base-1 : virt[s][i] = 1
  BY <1>0, VallocScanned
<1>3. cnt \in 1..MaxCnt /\ cnt \in Nat \ {0} /\ call[t].done = 0 /\ call[t].frame = None
  BY <1>0, Sizes DEF CallOK, Middle
<1> HIDE DEF base
<1>4. CASE base = Panicked
  <2>1. Stop
    BY <1>1, <1>4
  <2>2. ~raced => Full
    BY <1>0, <1>2, <1>4, VallocPanics
  <2>3. raced \in BOOLEAN
    BY <1>0 DEF StateTypes
  <2> QED
    BY <1>0, <2>1, <2>2, <2>3, StopStep
<1>5. CASE base = None
  <2> DEFINE r == [call[t] EXCEPT !.base = None, !.pool = pf(t), !.bit = 0, !.pc = "release"]
  <2>1. call' = [call EXCEPT ![t] = r] /\ UNCHANGED <<phys, virt, pte, pde, holder, raced, panic>>
    <3>1. ~(base = Panicked \/ (pf(t) = "U" /\ base >= StackPage))
      BY <1>5, Sizes
    <3>2. /\ call' = [call EXCEPT ![t].base = None, ![t].pool = pf(t), ![t].bit = 0,
                                 ![t].pc = "release"]
          /\ UNCHANGED <<phys, virt, pte, pde, holder, raced, panic>>
      BY <1>0, <1>1, <1>5, <3>1
    <3> QED
      BY <1>0, <3>2 DEF StateTypes
  <2>2. r \in Calls
    <3>1. "release" \in Pcs
      BY DEF Pcs
    <3> QED
      BY <1>0, <3>1 DEF Calls
  <2>3. /\ r.pc = "release" /\ r.base = None /\ r.kind = call[t].kind /\ r.cnt = cnt
        /\ r.done = 0 /\ r.frame = None
    BY <1>0, <1>3 DEF Calls
  <2> HIDE DEF r
  <2>4. /\ call' \in [Threads -> Calls] /\ call'[t] = r
        /\ \A u \in Threads \ {t} : call'[u] = call[u]
        /\ \A u \in Threads : pf(u)' = pf(u) /\ Space(u)' = Space(u)
        /\ holder' \in [Pools -> Threads \cup {NULL}]
        /\ LocksHeldByCalls'
    BY <1>0, <2>1, <2>2, <2>3, CallMoves
  <2>5. ~HasPages(t)'
    BY <2>3, <2>4 DEF HasPages, Middle
  <2>6. CallOK(t)'
    BY <1>0, <2>3, <2>4, <2>5 DEF CallOK, BitOK, Middle
  <2>7. TakenOK(t)'
    <3>1. ASSUME call[t].kind = "upage" PROVE s = t /\ LastPage(s) = StackPage - 1 /\ StackPage \in Nat
      <4>1. s = t /\ t # "K"
        BY <3>1, MemoryAssumption DEF Space, pf
      <4>2. LastPage(t) = StackPage - 1 /\ StackPage \in Nat
        BY <4>1, Sizes DEF LastPage
      <4> QED
        BY <4>1, <4>2
    <3>2. call[t].kind = "upage" => \A i \in 0 .. StackPage - cnt : virt[t][i] = 1
      <4>1. \A i \in 0 .. LastPage(s) + 1 - cnt : virt[s][i] = 1
        BY <1>2, <1>5
      <4>2. ASSUME call[t].kind = "upage" PROVE \A i \in 0 .. StackPage - cnt : virt[t][i] = 1
        <5>1. s = t /\ LastPage(s) = StackPage - 1 /\ StackPage \in Nat /\ cnt \in Nat
          BY <1>3, <3>1, <4>2
        <5> HIDE DEF s, cnt
        <5>2. 0 .. LastPage(s) + 1 - cnt = 0 .. StackPage - cnt
          BY <5>1
        <5> QED
          BY <4>1, <5>1, <5>2
      <4> QED
        BY <4>2
    <3> QED
      BY <1>0, <2>1, <2>3, <2>4, <2>5, <3>2 DEF TakenOK
  <2>8. MappedOK(t)'
    BY <2>5 DEF MappedOK
  <2>9. \A p \in Pools : \A f \in 0..FrameCnt(p)-1 :
           HasFrame(t, p, f)' <=> HasFrame(t, p, f)
    BY <1>0, <1>3, <2>3, <2>4 DEF HasFrame
  <2>10. FoundOK(t)' /\ \A p \in Pools : ~InBitmap(t, p)'
    BY <2>3, <2>4 DEF FoundOK, InBitmap
  <2> QED
    BY <1>0, <2>1, <2>4, <2>6, <2>7, <2>8, <2>9, <2>10, LocalStep
    DEF ThreadOK, Middle, StateTypes
<1>6. CASE base \notin {None, Panicked}
  <2> DEFINE r == [call[t] EXCEPT !.base = base, !.pool = pf(t), !.bit = 0, !.pc = "scan"]
  <2>0. /\ base \in Nat /\ base <= LastPage(s)
        /\ base + cnt - 1 <= Last(s)
        /\ \A i \in base .. base + cnt - 1 : virt[s][i] = 0
        /\ \A i \in 0..base-1 : virt[s][i] = 1
    BY <1>2, <1>6
  <2>1. ~(pf(t) = "U" /\ base >= StackPage)
    BY <1>0, <2>0, Sizes DEF LastPage
  <2>2. /\ call' = [call EXCEPT ![t] = r]
        /\ virt' = [virt EXCEPT ![s] = Taken(@, base, cnt)]
        /\ UNCHANGED <<phys, pte, pde, holder, raced, panic>>
    BY <1>0, <1>1, <1>6, <2>1 DEF StateTypes
  <2>3. r \in Calls
    <3>1. "scan" \in Pcs
      BY DEF Pcs, Middle
    <3> QED
      BY <1>0, <2>0, <3>1 DEF Calls
  <2>4. /\ r.pc = "scan" /\ r.base = base /\ r.pool = pf(t)
        /\ r.kind = call[t].kind /\ r.cnt = cnt /\ r.done = call[t].done
        /\ r.frame = call[t].frame /\ r.bit = 0
    BY <1>0 DEF Calls
  <2> HIDE DEF r
  <2>5. FilledUp'
    <3> SUFFICES ASSUME NEW x \in Spaces, NEW i \in 0 .. LastPage(x), NEW j \in 0..i,
                        virt'[x][i] = 1
                 PROVE  virt'[x][j] = 1
      BY DEF FilledUp, LastPage
    <3>1. CASE x = s
      <4>1. virt[s] \in [0..PageCnt(s) -> {0, 1}] /\ DOMAIN virt = Spaces
        BY <1>0 DEF StateTypes
      <4>2. virt'[s] = Taken(virt[s], base, cnt)
        BY <1>0, <2>2, <4>1
      <4>3. \A k \in 0..PageCnt(s) : virt'[s][k] =
              IF k \in base .. base + cnt - 1 THEN 1 ELSE virt[s][k]
        BY <4>1, <4>2 DEF Taken
      <4>4. LastPage(s) \in Int /\ PageCnt(s) \in Nat /\ LastPage(s) < PageCnt(s)
        BY <1>0, Sizes DEF LastPage, Spaces
      <4>5. i \in 0..PageCnt(s) /\ j \in 0..PageCnt(s) /\ i \in Nat /\ j \in Nat /\ j <= i
        BY <3>1, <4>4
      <4>6. CASE i \in base .. base + cnt - 1
        <5>1. j \in base .. base + cnt - 1 \/ j \in 0..base-1
          BY <1>3, <2>0, <4>5, <4>6
        <5> QED
          BY <2>0, <3>1, <4>3, <4>5, <5>1
      <4>7. CASE ~(i \in base .. base + cnt - 1)
        <5>1. virt[s][i] = 1
          BY <3>1, <4>3, <4>5, <4>7
        <5>2. virt[s][j] = 1
          BY <1>0, <3>1, <5>1 DEF FilledUp, LastPage
        <5> QED
          BY <3>1, <4>3, <4>5, <5>2
      <4> QED
        BY <4>6, <4>7
    <3>2. CASE x # s
      <4>1. virt'[x] = virt[x]
        BY <1>0, <2>2, <3>2 DEF StateTypes
      <4> QED
        BY <1>0, <4>1 DEF FilledUp, LastPage
    <3> QED
      BY <3>1, <3>2
  <2>6. call[t].kind = "apage" => base = StackPage
    BY <1>0 DEF CallOK
  <2>7. base < PageCnt(s)
    BY <1>0, <2>0, Sizes DEF LastPage, Spaces
  <2> QED
    BY <1>0, <2>7, <2>0, <2>2, <2>3, <2>4, <2>5, <2>6, TakeStep
<1> QED
  BY <1>4, <1>5, <1>6

(* The end of a call.                                                       *)
LEMMA ReleaseStep ==
  ASSUME MemoryInv, NEW t \in Threads, Release(t)
  PROVE  MemoryInv'
<1>0. /\ StateTypes /\ CallOK(t) /\ TakenOK(t) /\ MappedOK(t) /\ LocksHeldByCalls
      /\ call[t] \in Calls /\ pf(t) \in Pools
      /\ call[t].pc = "release" /\ ~panic /\ raced' = raced
  BY OneCall DEF Release, At, MemoryInv
<1>1. CASE call[t].kind = "upage" /\ call[t].base = None
  <2>1. /\ t \in Procs /\ Space(t) = t /\ call[t].cnt \in 1..MaxCnt
        /\ StackPage \in Nat /\ PageCnt(t) = StackPage + 1 /\ call[t].cnt \in Nat \ {0}
    BY <1>0, <1>1, Sizes, MemoryAssumption DEF CallOK, Space, pf
  <2>2. /\ virt[t][StackPage] = 1
        /\ \A i \in 0 .. StackPage - call[t].cnt : virt[t][i] = 1
    BY <1>0, <1>1 DEF TakenOK
  <2>3. /\ pte[t][StackPage] # None
        /\ \A i \in 0 .. StackPage - call[t].cnt : pte[t][i] # None
    BY <1>0, <2>1, <2>2, TakenIsMapped DEF Middle
  <2>4. ~raced => FALSE
    BY <2>1, <2>3, PagesLeft
  <2>5. Stop
    BY <1>1 DEF Release
  <2>6. raced \in BOOLEAN
    BY <1>0 DEF StateTypes
  <2> QED
    BY <1>0, <2>4, <2>5, <2>6, StopStep
<1>2. CASE ~(call[t].kind = "upage" /\ call[t].base = None)
  <2>1. /\ call' = [call EXCEPT ![t] = Idle] /\ holder' = [holder EXCEPT ![pf(t)] = NULL]
        /\ UNCHANGED <<phys, virt, pte, pde, raced, panic>>
    BY <1>2 DEF Release
  <2>2. /\ call' \in [Threads -> Calls] /\ call'[t] = Idle
        /\ \A u \in Threads \ {t} : call'[u] = call[u]
        /\ holder' \in [Pools -> Threads \cup {NULL}]
    BY <1>0, <2>1, IdleIsCall DEF StateTypes
  <2>3. ~HasPages(t)'
    BY <2>2, IdleIsCall DEF HasPages, Middle
  <2>4. ThreadOK(t)'
    BY <2>2, <2>3, IdleIsCall DEF ThreadOK, CallOK, BitOK, TakenOK, MappedOK, Middle
  <2>5. LocksHeldByCalls'
    <3> SUFFICES ASSUME NEW pool \in Pools, NEW u \in Threads
                 PROVE  holder'[pool] = u <=> (call'[u].pc \notin {"idle", "lock"} /\ pf(u)' = pool)
      BY DEF LocksHeldByCalls, Pools
    <3>1. NULL \notin Threads
      BY MemoryAssumption
    <3>2. holder[pool] = u <=> (call[u].pc \notin {"idle", "lock"} /\ pf(u) = pool)
      BY <1>0 DEF LocksHeldByCalls, Pools
    <3>3. holder'[pool] = IF pool = pf(t) THEN NULL ELSE holder[pool]
      BY <1>0, <2>1 DEF StateTypes
    <3>4. holder[pf(t)] = t
      BY <1>0 DEF LocksHeldByCalls, Pools
    <3>5. u # t => pf(u)' = pf(u) /\ call'[u] = call[u]
      BY <2>2 DEF pf
    <3> QED
      BY <1>0, <2>2, <3>1, <3>2, <3>3, <3>4, <3>5, IdleIsCall
  <2>6. call[t].frame = None
    BY <1>0 DEF CallOK, Middle
  <2>7. \A p \in Pools : \A f \in 0..FrameCnt(p)-1 :
           HasFrame(t, p, f)' <=> HasFrame(t, p, f)
    BY <1>0, <2>2, <2>6, IdleIsCall DEF HasFrame
  <2>8. FoundOK(t)' /\ \A p \in Pools : ~InBitmap(t, p)'
    BY <2>2, IdleIsCall DEF FoundOK, InBitmap
  <2> QED
    BY <1>0, <2>1, <2>2, <2>4, <2>5, <2>7, <2>8, LocalStep DEF Middle, StateTypes
<1> QED
  BY <1>1, <1>2

(* A step keeps the bitmaps exact if it leaves the uses of a frame alone,   *)
(* or leaves the frame with one use and its bit set.                        *)
LEMMA UsesOKStep ==
  ASSUME StateTypes, StateTypes', UsesOK,
         \A pool \in Pools : \A f \in 0..FrameCnt(pool)-1 :
           \/ /\ phys'[pool][f] = phys[pool][f]
              /\ \A x : UsedFor(pool, f, x)' <=> UsedFor(pool, f, x)
           \/ /\ phys'[pool][f] = 1
              /\ \E y : \A x : UsedFor(pool, f, x)' <=> x = y
  PROVE  UsesOK'
<1> SUFFICES ASSUME NEW pool \in Pools, NEW f \in 0..FrameCnt(pool)-1
             PROVE  /\ \A x, y \in Uses(pool, f)' : x = y
                    /\ (phys'[pool][f] = 1) <=> Uses(pool, f)' # {}
  BY DEF UsesOK
<1>1. /\ \A x : x \in Uses(pool, f) <=> UsedFor(pool, f, x)
      /\ \A x : x \in Uses(pool, f)' <=> UsedFor(pool, f, x)'
  BY UsesMember, UsesMemberNext DEF UsesCollected
<1>2. CASE /\ phys'[pool][f] = phys[pool][f]
           /\ \A x : UsedFor(pool, f, x)' <=> UsedFor(pool, f, x)
  <2>1. Uses(pool, f)' = Uses(pool, f)
    BY <1>1, <1>2
  <2> QED
    BY <1>2, <2>1 DEF UsesOK
<1>3. CASE /\ phys'[pool][f] = 1
           /\ \E y : \A x : UsedFor(pool, f, x)' <=> x = y
  <2>1. PICK y : \A x : UsedFor(pool, f, x)' <=> x = y
    BY <1>3
  <2>2. \A x : x \in Uses(pool, f)' <=> x = y
    BY <1>1, <2>1
  <2> QED
    BY <1>3, <2>2
<1> QED
  BY <1>2, <1>3

(* __btmpSet: the store.                                                    *)
LEMMA SetStoreStep ==
  ASSUME MemoryInv, NEW t \in Threads, SetStore(t)
  PROVE  MemoryInv'
<1> DEFINE c == call[t]
           pool == c.pool
           next == IF c.frame = None THEN "map" ELSE "table"
           r == [call[t] EXCEPT !.byte = <<>>, !.pc = next]
<1>0. /\ StateTypes /\ CallOK(t) /\ TakenOK(t) /\ MappedOK(t) /\ LocksHeldByCalls
      /\ call[t] \in Calls /\ pf(t) \in Pools /\ pool \in Pools /\ DOMAIN phys = Pools
      /\ call[t].pc = "store" /\ ~panic
  BY OneCall DEF SetStore, At, StateTypes
<1>1. /\ call' = [call EXCEPT ![t] = r]
      /\ phys' = [phys EXCEPT ![pool] = WithBit(@, c.byte, c.bit)]
      /\ UNCHANGED <<virt, pte, pde, holder, raced, panic>>
  BY <1>0 DEF SetStore, StateTypes
<1>2. next \in {"map", "table"} /\ (next = "map" <=> c.frame = None)
  OBVIOUS
<1>3. r \in Calls
  <2>1. next \in Pcs /\ <<>> \in Bytes
    BY DEF Pcs, Middle, Bytes
  <2> QED
    BY <1>0, <2>1 DEF Calls
<1>4. /\ r.pc = next /\ r.bit = c.bit /\ r.kind = c.kind /\ r.base = c.base
      /\ r.cnt = c.cnt /\ r.done = c.done /\ r.pool = pool
      /\ r.frame = c.frame
  BY <1>0 DEF Calls
<1> HIDE DEF r, next
<1>5. /\ call' \in [Threads -> Calls] /\ call'[t] = r
      /\ \A u \in Threads \ {t} : call'[u] = call[u]
      /\ \A u \in Threads : pf(u)' = pf(u) /\ Space(u)' = Space(u)
      /\ holder' \in [Pools -> Threads \cup {NULL}]
      /\ LocksHeldByCalls'
  BY <1>0, <1>1, <1>2, <1>3, <1>4, CallMoves
<1>6. MyPages(t)' = MyPages(t) /\ Page(t)' = Page(t) /\ HasPages(t) /\ HasPages(t)'
      /\ call'[t].pc \in Middle
  BY <1>0, <1>2, <1>4, <1>5 DEF MyPages, Page, HasPages, Middle
<1>7. /\ c.bit \in 0..FrameCnt(pool)-1 /\ c.byte \in [Byte(c.bit) -> {0, 1}]
      /\ Byte(c.bit) \subseteq 0..FrameCnt(pool)-1 /\ FrameCnt(pool) \in Nat
  BY <1>0, ByteInPool, Sizes DEF CallOK, BitOK, Pools
<1>8. /\ phys'[pool] \in [0..FrameCnt(pool)-1 -> {0, 1}] /\ DOMAIN phys' = Pools
      /\ \A i \in 0..FrameCnt(pool)-1 : phys'[pool][i] =
           IF i = c.bit THEN 1 ELSE IF i \in Byte(c.bit) THEN c.byte[i] ELSE phys[pool][i]
      /\ \A p \in Pools \ {pool} : phys'[p] = phys[p]
  <2>1. phys[pool] \in [0..FrameCnt(pool)-1 -> {0, 1}]
    BY <1>0 DEF StateTypes
  <2>2. phys'[pool] = WithBit(phys[pool], c.byte, c.bit)
    BY <1>0, <1>1
  <2>3. DOMAIN phys' = Pools /\ \A p \in Pools \ {pool} : phys'[p] = phys[p]
    BY <1>0, <1>1
  <2>4. \A i \in 0..FrameCnt(pool)-1 : phys'[pool][i] =
           IF i = c.bit THEN 1 ELSE IF i \in Byte(c.bit) THEN c.byte[i] ELSE phys[pool][i]
    BY <2>1, <2>2 DEF WithBit
  <2>5. phys'[pool] \in [0..FrameCnt(pool)-1 -> {0, 1}]
    BY <1>7, <2>1, <2>2 DEF WithBit
  <2> QED
    BY <2>3, <2>4, <2>5
<1>9. StateTypes'
  <2>1. \A p \in Pools : phys'[p] \in [0..FrameCnt(p)-1 -> {0, 1}]
    BY <1>0, <1>8 DEF StateTypes
  <2> QED
    BY <1>0, <1>1, <1>5, <1>8, <2>1 DEF StateTypes
<1>10. ThreadOK(t)'
  <2>1. CallOK(t)'
    BY <1>0, <1>1, <1>2, <1>4, <1>5, <1>6 DEF CallOK, BitOK, Middle
  <2>2. TakenOK(t)' /\ MappedOK(t)'
    BY <1>0, <1>1, <1>2, <1>4, <1>5, <1>6 DEF TakenOK, MappedOK
  <2> QED
    BY <2>1, <2>2 DEF ThreadOK
<1>11. ASSUME NEW u \in Threads \ {t} PROVE ThreadOK(u)'
  BY <1>1, <1>5, OthersOK
<1>12. FilledUp' /\ MappedTaken' /\ HeapMapped'
  BY <1>1 DEF MemoryInv, FilledUp, MappedTaken, HeapMapped
<1>13. TakenMapped'
  <2> SUFFICES ASSUME NEW s \in Spaces, NEW i \in 0..PageCnt(s)-1,
                      virt[s][i] = 1, pte[s][i] = None
               PROVE  \E u \in Threads : call'[u].pc \in Middle /\ Space(u)' = s /\ i \in MyPages(u)'
    BY <1>1 DEF TakenMapped
  <2>1. PICK u \in Threads : call[u].pc \in Middle /\ Space(u) = s /\ i \in MyPages(u)
    BY DEF MemoryInv, TakenMapped
  <2>2. CASE u = t
    BY <1>5, <1>6, <2>1, <2>2
  <2>3. CASE u # t
    BY <1>5, <2>1, <2>3 DEF MyPages
  <2> QED
    BY <2>2, <2>3
<1>14. ASSUME ~raced' PROVE FramesOK'
  <2>0. FramesOK /\ FoundOK(t)
    BY <1>1, <1>14 DEF MemoryInv, FramesOK
  <2>1. phys[pool][c.bit] = 0 /\ \A i \in Byte(c.bit) : c.byte[i] = phys[pool][i]
    BY <1>0, <2>0 DEF FoundOK
  <2>2. \A p \in Pools : \A i \in 0..FrameCnt(p)-1 :
          phys'[p][i] = IF p = pool /\ i = c.bit THEN 1 ELSE phys[p][i]
    BY <1>8, <2>1
  <2>3. Alone'
    BY <1>2, <1>4, <1>5, <2>0 DEF FramesOK, Alone, InBitmap
  <2>4. FoundOK(t)'
    BY <1>2, <1>4, <1>5 DEF FoundOK
  <2>5. ASSUME NEW u \in Threads \ {t} PROVE FoundOK(u)'
    <3>1. FoundOK(u) /\ call'[u] = call[u]
      BY <1>5, <2>0 DEF FramesOK
    <3> SUFFICES ASSUME InBitmap(u, call[u].pool) PROVE FoundOK(u)'
      <4>1. call[u].bit \in {None} \cup Nat
        BY OneCall DEF Calls
      <4> QED
        BY <3>1, <4>1, Sizes DEF FoundOK, InBitmap
    <3>2. InBitmap(u, call[u].pool) /\ InBitmap(t, pool)
      BY <1>0 DEF InBitmap
    <3>3. call[u].pool \in Pools /\ call[u].pool # pool
      BY <1>0, <2>0, <3>2, OneCall DEF FramesOK, Alone
    <3>4. phys'[call[u].pool] = phys[call[u].pool]
      BY <1>8, <3>3
    <3> QED
      BY <3>1, <3>4 DEF FoundOK
  <2>6. UsesOK'
    <3>1. ASSUME NEW p \in Pools, NEW f \in 0..FrameCnt(p)-1, ~(p = pool /\ f = c.bit)
          PROVE  /\ phys'[p][f] = phys[p][f]
                 /\ \A x : UsedFor(p, f, x)' <=> UsedFor(p, f, x)
      <4>2. \A u \in Threads : HasFrame(u, p, f)' <=> HasFrame(u, p, f)
        BY <1>0, <1>2, <1>4, <1>5, <3>1 DEF HasFrame
      <4> QED
        BY <1>1, <2>2, <3>1, <4>2 DEF UsedFor
    <3>2. ASSUME NEW p \in Pools, NEW f \in 0..FrameCnt(p)-1, p = pool, f = c.bit
          PROVE  /\ phys'[p][f] = 1
                 /\ \E y : \A x : UsedFor(p, f, x)' <=> x = y
      <4>1. phys'[p][f] = 1 /\ phys[p][f] = 0
        BY <1>7, <1>8, <2>1, <3>2
      <4>2. Uses(p, f) = {}
        BY <2>0, <4>1 DEF FramesOK, UsesOK
      <4>3. \A x : ~UsedFor(p, f, x)
        BY <1>0, <4>2, UsesMember DEF UsesCollected
      <4>4. ASSUME NEW u \in Threads PROVE HasFrame(u, p, f)' <=> u = t
        <5>1. HasFrame(t, p, f)'
          BY <1>2, <1>4, <1>5, <3>2 DEF HasFrame
        <5>2. ~HasFrame(u, p, f)
          <6> SUFFICES ASSUME HasFrame(u, p, f) PROVE FALSE
            OBVIOUS
          <6>1. UsedFor(p, f, <<u, None>>)
            BY DEF UsedFor
          <6> QED
            BY <4>3, <6>1
        <5>3. u # t => ~HasFrame(u, p, f)'
          BY <1>5, <5>2 DEF HasFrame
        <5> QED
          BY <5>1, <5>3
      <4>5. ASSUME NEW s \in Spaces, NEW i \in 0..PageCnt(s), p = "K" <=> s = "K"
            PROVE  pte[s][i] # f
        <5> SUFFICES ASSUME pte[s][i] = f PROVE FALSE
          OBVIOUS
        <5>1. UsedFor(p, f, <<s, i>>)
          BY <4>5 DEF UsedFor
        <5> QED
          BY <4>3, <5>1
      <4>6. ASSUME NEW q \in Procs, NEW d \in Dirs, p = "K" PROVE pde[q][d] # f
        <5> SUFFICES ASSUME pde[q][d] = f PROVE FALSE
          OBVIOUS
        <5>1. UsedFor(p, f, <<q, d>>)
          BY <4>6 DEF UsedFor
        <5> QED
          BY <4>3, <5>1
      <4>7. \A x : UsedFor(p, f, x)' <=> x = <<t, None>>
        BY <1>1, <4>4, <4>5, <4>6 DEF UsedFor
      <4> QED
        BY <4>1, <4>7, Zenon DEF UsedFor, HasFrame
    <3>5. \A p \in Pools : \A f \in 0..FrameCnt(p)-1 :
            \/ /\ phys'[p][f] = phys[p][f]
               /\ \A x : UsedFor(p, f, x)' <=> UsedFor(p, f, x)
            \/ /\ phys'[p][f] = 1
               /\ \E y : \A x : UsedFor(p, f, x)' <=> x = y
      BY <3>1, <3>2, Zenon
    <3>6. UsesOK
      BY <2>0 DEF FramesOK
    <3> QED
      BY <1>0, <1>9, <3>5, <3>6, UsesOKStep, Zenon
  <2> QED
    BY <2>3, <2>4, <2>5, <2>6 DEF FramesOK
<1> QED
  BY <1>0, <1>1, <1>5, <1>9, <1>10, <1>11, <1>12, <1>13, <1>14 DEF MemoryInv

-----------------------------------------------------------------------------
(* A function of functions changed in one place.                            *)
LEMMA OneEntry ==
  ASSUME NEW D, NEW F, DOMAIN F = D, NEW s \in D, NEW S, NEW T, F[s] \in [S -> T],
         NEW x \in S, NEW y \in T
  PROVE  LET G == [F EXCEPT ![s][x] = y]
         IN  /\ DOMAIN G = D /\ G[s] \in [S -> T] /\ G[s][x] = y
             /\ \A i \in S : i # x => G[s][i] = F[s][i]
             /\ \A z \in D \ {s} : G[z] = F[z]
OBVIOUS

(* A call maps its next page: all of the invariant but the uses of frames.  *)
LEMMA MapStep ==
  ASSUME MemoryInv, NEW t \in Threads, ~panic,
         call[t].pc \in {"map", "table"}, call' = Mapped(t),
         NEW frame \in Frames(Space(t)),
         pte' = [pte EXCEPT ![Space(t)][Page(t)] = frame],
         UNCHANGED <<phys, virt, holder, raced, panic>>,
         pde' \in [Procs -> [Dirs -> {None} \cup Frames("K")]],
         \A p \in Procs \ {t} : pde'[p] = pde[p],
         \A p \in Procs : \A d \in Dirs : pde[p][d] # None => pde'[p][d] # None,
         Space(t) # "K" => pde'[t][Dir(Page(t))] # None
  PROVE  /\ StateTypes'
         /\ (~raced => UsesOK') => MemoryInv'
<1> DEFINE c == call[t]
           s == Space(t)
           page == Page(t)
           next == IF c.done + 1 < c.cnt THEN "scan" ELSE "release"
           r == [call[t] EXCEPT !.done = c.done + 1, !.frame = None, !.pool = pf(t),
                            !.bit = 0, !.pc = next]
<1>0. /\ StateTypes /\ CallOK(t) /\ TakenOK(t) /\ MappedOK(t) /\ LocksHeldByCalls
      /\ call[t] \in Calls /\ pf(t) \in Pools
      /\ s \in Spaces /\ (s # "K" => s = t /\ t \in Procs)
      /\ c.done \in Nat /\ c.cnt \in Nat /\ c.base \in {None} \cup Nat
      /\ c.pc \in Middle /\ HasPages(t)
  BY OneCall DEF Calls, Middle, HasPages
<1>1. /\ c.base \in Nat /\ c.done < c.cnt
      /\ c.base < PageCnt(s) /\ c.base + c.cnt - 1 <= Last(s)
  BY <1>0 DEF CallOK
<1>2. /\ next \in {"scan", "release"} /\ (next = "scan" <=> c.done + 1 < c.cnt)
      /\ next = "release" => c.done + 1 = c.cnt
  <2>1. c.done + 1 < c.cnt \/ c.done + 1 = c.cnt
    BY <1>0, <1>1
  <2>2. ~(c.done + 1 < c.cnt /\ c.done + 1 = c.cnt)
    BY <1>0
  <2>3. "scan" # "release"
    OBVIOUS
  <2> QED
    BY <2>1, <2>2, <2>3, Zenon
<1>3. call' = [call EXCEPT ![t] = r]
  BY <1>0 DEF Mapped, StateTypes
<1>4. r \in Calls
  <2>1. next \in Pcs /\ c.done + 1 \in Nat
    BY <1>0 DEF Pcs, Middle
  <2> QED
    BY <1>0, <2>1 DEF Calls
<1>5. /\ r.pc = next /\ r.kind = c.kind /\ r.base = c.base
      /\ r.cnt = c.cnt /\ r.done = c.done + 1 /\ r.pool = pf(t)
      /\ r.frame = None /\ r.bit = 0
  BY <1>0 DEF Calls
<1> HIDE DEF r, next
<1>6. /\ call' \in [Threads -> Calls] /\ call'[t] = r
      /\ \A u \in Threads \ {t} : call'[u] = call[u]
      /\ \A u \in Threads : pf(u)' = pf(u) /\ Space(u)' = Space(u)
      /\ holder' \in [Pools -> Threads \cup {NULL}]
      /\ LocksHeldByCalls'
  BY <1>0, <1>2, <1>3, <1>4, <1>5, CallMoves DEF Middle
<1>7. MyPages(t)' = MyPages(t) /\ HasPages(t)'
  <2>1. call'[t].base # None /\ call'[t].pc \in {"scan", "release"}
    BY <1>1, <1>2, <1>5, <1>6, Sizes
  <2>2. HasPages(t)'
    BY <2>1 DEF HasPages, Middle
  <2>3. MyPages(t)' = MyPages(t)
    BY <1>5, <1>6 DEF MyPages
  <2> QED
    BY <2>2, <2>3
<1>8. /\ page = c.base + c.done /\ page \in MyPages(t) /\ page <= Last(s)
      /\ page \in 0..PageCnt(s) /\ (s # "K" => page \in 0..StackPage)
  <2>1. page = c.base + c.done /\ page \in MyPages(t) /\ page <= Last(s) /\ page \in Nat
    BY <1>0, <1>1, Sizes DEF Page, MyPages, Last
  <2>2. s = "K" => page \in 0..PageCnt(s)
    BY <2>1, Sizes DEF Last
  <2>3. s # "K" => page \in 0..PageCnt(s) /\ page \in 0..StackPage
    BY <1>0, <2>1, Sizes DEF Last
  <2> QED
    BY <2>1, <2>2, <2>3
<1>9. /\ pte[s] \in [0..PageCnt(s) -> {None} \cup Frames(s)] /\ DOMAIN pte = Spaces
      /\ pte'[s] \in [0..PageCnt(s) -> {None} \cup Frames(s)] /\ DOMAIN pte' = Spaces
      /\ \A i \in 0..PageCnt(s) : pte'[s][i] = IF i = page THEN frame ELSE pte[s][i]
      /\ \A x \in Spaces \ {s} : pte'[x] = pte[x]
  <2>1. /\ pte[s] \in [0..PageCnt(s) -> {None} \cup Frames(s)] /\ DOMAIN pte = Spaces
        /\ frame \in {None} \cup Frames(s) /\ page \in 0..PageCnt(s) /\ s \in Spaces
    BY <1>0, <1>8 DEF StateTypes
  <2> DEFINE G == [pte EXCEPT ![s][page] = frame]
  <2>2. /\ DOMAIN G = Spaces /\ G[s] \in [0..PageCnt(s) -> {None} \cup Frames(s)]
        /\ G[s][page] = frame
        /\ \A i \in 0..PageCnt(s) : i # page => G[s][i] = pte[s][i]
        /\ \A x \in Spaces \ {s} : G[x] = pte[x]
    BY <2>1, OneEntry, Zenon
  <2>3. G = pte'
    OBVIOUS
  <2> HIDE DEF G
  <2> QED
    BY <2>1, <2>2, <2>3
<1>10. frame # None
  BY <1>0, Sizes DEF Frames
<1> HIDE DEF s, page
<1>11. StateTypes'
  <2>1. \A x \in Spaces : pte'[x] \in [0..PageCnt(x) -> {None} \cup Frames(x)]
    BY <1>0, <1>9 DEF StateTypes
  <2> QED
    BY <1>0, <1>6, <1>9, <2>1 DEF StateTypes
<1>12. ThreadOK(t)'
  <2>1. CallOK(t)'
    <3>1. /\ call'[t].base < PageCnt(Space(t)')
          /\ call'[t].base + call'[t].cnt - 1 <= Last(Space(t)')
      BY <1>1, <1>5, <1>6 DEF s
    <3>2. /\ call'[t].kind # "none"
          /\ call'[t].kind = "kpage" <=> t \notin Procs
          /\ call'[t].cnt \in 1..MaxCnt
          /\ call'[t].kind = "apage" => call'[t].cnt = 1 /\ call'[t].base = StackPage
      BY <1>0, <1>5, <1>6 DEF CallOK, Middle
    <3>3. call'[t].base # None
      BY <1>1, <1>5, <1>6, Sizes
    <3>4. BitOK(r)
      BY <1>0, <1>2, <1>5, ScanStart DEF BitOK
    <3> QED
      BY <1>0, <1>2, <1>5, <1>6, <3>1, <3>2, <3>3, <3>4 DEF CallOK, Middle
  <2>2. TakenOK(t)'
    <3>1. call'[t].base # None /\ call'[t].pc \in {"scan", "release"}
      BY <1>1, <1>2, <1>5, <1>6, Sizes
    <3> QED
      BY <1>0, <1>5, <1>6, <1>7, <3>1 DEF TakenOK, Middle
  <2>3. MappedOK(t)'
    <3> SUFFICES ASSUME NEW i \in MyPages(t)
                 PROVE  pte'[s][i] # None <=> i < c.base + (c.done + 1)
      BY <1>5, <1>6, <1>7 DEF MappedOK, s
    <3>1. i \in 0..PageCnt(s)
      <4>1. i \in Nat /\ i <= Last(s)
        <5>1. Last(s) \in Nat
          BY Sizes DEF Last
        <5> QED
          BY <1>0, <1>1, <5>1 DEF MyPages
      <4> QED
        BY <1>0, <4>1, Sizes DEF Last, Spaces
    <3>2. pte[s][i] # None <=> i < c.base + c.done
      BY <1>0 DEF MappedOK, s
    <3>3. i \in Int /\ page = c.base + c.done /\ c.base \in Nat /\ c.done \in Nat
      BY <1>0, <1>1, <1>8 DEF MyPages
    <3>4. CASE i = page
      BY <1>9, <1>10, <3>1, <3>3, <3>4
    <3>5. CASE i # page
      <4>1. pte'[s][i] = pte[s][i]
        BY <1>9, <3>1, <3>5
      <4>2. i < c.base + (c.done + 1) <=> i < c.base + c.done
        BY <3>3, <3>5
      <4> QED
        BY <3>2, <4>1, <4>2
    <3> QED
      BY <3>4, <3>5
  <2> QED
    BY <2>1, <2>2, <2>3 DEF ThreadOK
<1>13. ASSUME NEW u \in Threads \ {t} PROVE ThreadOK(u)'
  <2>1. \A x \in Spaces \ {Space(t)} : virt'[x] = virt[x] /\ pte'[x] = pte[x]
    BY <1>9 DEF s
  <2> QED
    BY <1>0, <1>6, <2>1, BystanderOK DEF Middle
<1>14. FilledUp'
  BY DEF MemoryInv, FilledUp
<1>15. MappedTaken'
  <2> SUFFICES ASSUME NEW x \in Spaces, NEW i \in 0..PageCnt(x), pte'[x][i] # None
               PROVE  /\ virt[x][i] = 1
                      /\ x # "K" => i <= StackPage /\ pde'[x][Dir(i)] # None
    BY DEF MappedTaken
  <2>1. CASE x = s /\ i = page
    <3>1. virt[x][i] = 1
      BY <1>0, <1>8, <2>1 DEF TakenOK, s
    <3>2. x # "K" => i <= StackPage /\ pde'[x][Dir(i)] # None
      BY <1>0, <1>8, <2>1, Sizes DEF s, page
    <3> QED
      BY <3>1, <3>2
  <2>2. CASE ~(x = s /\ i = page)
    <3>1. pte[x][i] # None
      BY <1>9, <2>2
    <3>2. /\ virt[x][i] = 1
          /\ x # "K" => i <= StackPage /\ pde[x][Dir(i)] # None
      BY <3>1 DEF MemoryInv, MappedTaken
    <3>3. x # "K" => x \in Procs /\ Dir(i) \in Dirs
      <4>1. PageCnt(x) \in Nat
        BY Sizes DEF Spaces
      <4> QED
        BY <3>2, <4>1, DirOfPage, Sizes DEF Spaces
    <3> QED
      BY <3>2, <3>3
  <2> QED
    BY <2>1, <2>2
<1>16. TakenMapped'
  <2> SUFFICES ASSUME NEW x \in Spaces, NEW i \in 0..PageCnt(x)-1,
                      virt[x][i] = 1, pte'[x][i] = None
               PROVE  \E u \in Threads : call'[u].pc \in Middle /\ Space(u)' = x /\ i \in MyPages(u)'
    BY DEF TakenMapped
  <2>1. pte[x][i] = None
    <3>1. i \in 0..PageCnt(x)
      BY Sizes DEF Spaces
    <3> QED
      BY <1>9, <1>10, <3>1
  <2>2. PICK u \in Threads : call[u].pc \in Middle /\ Space(u) = x /\ i \in MyPages(u)
    BY <2>1 DEF MemoryInv, TakenMapped
  <2>3. CASE u = t
    <3>1. pte'[s][i] # None <=> i < c.base + (c.done + 1)
      BY <1>5, <1>6, <1>7, <1>12, <2>2, <2>3 DEF ThreadOK, MappedOK, s
    <3>2. ~(i < c.base + (c.done + 1)) /\ i \in MyPages(t)
      BY <2>2, <2>3, <3>1 DEF s
    <3>3. c.done + 1 < c.cnt
      BY <1>0, <1>1, <3>2 DEF MyPages
    <3>4. call'[t].pc \in Middle
      BY <1>2, <1>5, <1>6, <3>3 DEF Middle
    <3> QED
      BY <1>6, <1>7, <2>2, <2>3, <3>4
  <2>4. CASE u # t
    BY <1>6, <2>2, <2>4 DEF MyPages
  <2> QED
    BY <2>3, <2>4
<1>19. HeapMapped'
  <2>1. "K" \in Spaces /\ PageCnt("K") \in Nat \ {0}
    BY Sizes DEF Spaces
  <2>2. CASE s # "K"
    <3>1. pte'["K"] = pte["K"]
      BY <1>9, <2>1, <2>2
    <3> QED
      BY <3>1 DEF MemoryInv, HeapMapped
  <2>3. CASE s = "K" /\ page # PageCnt("K")
    <3>1. pte'["K"][PageCnt("K")] = pte["K"][PageCnt("K")]
      BY <1>9, <2>1, <2>3
    <3>2. \A i \in 0..PageCnt("K")-1 : pte["K"][i] # None => pte'["K"][i] # None
      BY <1>9, <1>10, <2>1, <2>3
    <3> QED
      BY <3>1, <3>2 DEF MemoryInv, HeapMapped
  <2>4. CASE s = "K" /\ page = PageCnt("K")
    <3> SUFFICES ASSUME NEW i \in 0..PageCnt("K")-1 PROVE pte'["K"][i] # None
      BY DEF HeapMapped
    <3>0. i \in 0..PageCnt("K") /\ i # page /\ i \in Nat /\ i < page
      BY <2>1, <2>4
    <3>1. CASE i \in MyPages(t)
      BY <1>0, <1>8, <1>9, <2>4, <3>0, <3>1 DEF MappedOK, s
    <3>2. CASE i \notin MyPages(t)
      <4>1. i < c.base /\ c.base \in 0..PageCnt("K")-1 /\ i \in 0..c.base
        BY <1>0, <1>1, <1>8, <2>4, <3>0, <3>2 DEF MyPages
      <4>2. c.base \in MyPages(t)
        BY <1>0, <1>1 DEF MyPages
      <4>3. virt["K"][c.base] = 1
        BY <1>0, <2>4, <4>2 DEF TakenOK, s
      <4>4. virt["K"][i] = 1
        BY <2>1, <4>1, <4>3 DEF MemoryInv, FilledUp
      <4>5. pte["K"][i] # None
        BY <1>0, <2>4, <3>2, <4>4, TakenIsMapped DEF s, Middle
      <4> QED
        BY <1>9, <2>4, <3>0, <4>5
    <3> QED
      BY <3>1, <3>2
  <2> QED
    BY <2>2, <2>3, <2>4
<1>17. ASSUME ~raced, UsesOK' PROVE FramesOK'
  <2>1. FramesOK
    BY <1>17 DEF MemoryInv
  <2>2. Alone' /\ FoundOK(t)'
    BY <1>2, <1>5, <1>6, <2>1 DEF FramesOK, Alone, InBitmap, FoundOK
  <2>3. ASSUME NEW u \in Threads \ {t} PROVE FoundOK(u)'
    BY <1>6, <2>1 DEF FramesOK, FoundOK
  <2> QED
    BY <1>17, <2>2, <2>3 DEF FramesOK
<1>18. (~raced => UsesOK') => MemoryInv'
  BY <1>6, <1>11, <1>12, <1>13, <1>14, <1>15, <1>16, <1>17, <1>19 DEF MemoryInv
<1> QED
  BY <1>11, <1>18

(* __pageTableAdd: the page gets the frame in the page table there is.      *)
LEMMA MapPageStep ==
  ASSUME MemoryInv, NEW t \in Threads, PageTableAdd(t),
         ~(pf(t) = "U" /\ pde[t][Dir(Page(t))] = None)
  PROVE  MemoryInv'
<1> DEFINE c == call[t]
           s == Space(t)
           page == Page(t)
<1>0. /\ StateTypes /\ CallOK(t) /\ TakenOK(t) /\ MappedOK(t) /\ LocksHeldByCalls
      /\ call[t] \in Calls /\ pf(t) \in Pools /\ (pf(t) = "K" <=> s = "K")
      /\ s \in Spaces /\ (s # "K" => s = t /\ t \in Procs)
      /\ c.pc = "map" /\ ~panic /\ raced' = raced
      /\ c.done \in Nat /\ c.cnt \in Nat /\ c.base \in {None} \cup Nat
      /\ HasPages(t)
  BY OneCall DEF Calls, Middle, HasPages, PageTableAdd, At
<1>1. /\ c.base \in Nat /\ c.done < c.cnt /\ page \in MyPages(t)
      /\ c.frame = None /\ c.pool = pf(t) /\ c.bit \in 0..FrameCnt(pf(t))-1
      /\ page = c.base + c.done /\ page <= Last(s)
  <2>1. /\ c.base \in Nat /\ c.done < c.cnt /\ c.base + c.cnt - 1 <= Last(s)
        /\ c.frame = None /\ c.pool = pf(t) /\ c.bit \in 0..FrameCnt(pf(t))-1
    BY <1>0 DEF CallOK, BitOK, Middle
  <2>2. Last(s) \in Nat /\ page = c.base + c.done
    BY Sizes DEF Last, Page
  <2> QED
    BY <1>0, <2>1, <2>2 DEF MyPages
<1>2. pte[s][page] = None
  BY <1>0, <1>1 DEF MappedOK
<1>3. c.bit \in Frames(s) /\ FrameCnt(pf(t)) \in Nat /\ c.bit # None
  BY <1>0, <1>1, Sizes DEF Frames, Pools
<1>4. /\ call' = Mapped(t)
      /\ pte' = [pte EXCEPT ![s][page] = c.bit]
      /\ UNCHANGED <<phys, virt, pde, holder, raced, panic>>
  BY <1>2 DEF PageTableAdd
<1>5. s # "K" => pde'[t][Dir(page)] # None
  BY <1>0, <1>4 DEF Pools
<1>6. StateTypes' /\ ((~raced => UsesOK') => MemoryInv')
  <2>1. pde' \in [Procs -> [Dirs -> {None} \cup Frames("K")]]
    BY <1>0, <1>4 DEF StateTypes
  <2> QED
    BY <1>0, <1>3, <1>4, <1>5, <2>1, MapStep
<1>7. ASSUME ~raced PROVE UsesOK'
  <2>0. UsesOK
    BY <1>7 DEF MemoryInv, FramesOK
  <2>1. page \in 0..PageCnt(s)
    BY <1>0, <1>1, Sizes DEF Last
  <2>2. /\ DOMAIN pte = Spaces /\ pte[s] \in [0..PageCnt(s) -> {None} \cup Frames(s)]
    BY <1>0 DEF StateTypes
  <2>3. /\ pte'[s][page] = c.bit
        /\ \A i \in 0..PageCnt(s) : i # page => pte'[s][i] = pte[s][i]
        /\ \A x \in Spaces \ {s} : pte'[x] = pte[x]
    <3> DEFINE G == [pte EXCEPT ![s][page] = c.bit]
    <3>1. c.bit \in {None} \cup Frames(s)
      BY <1>3
    <3>2. /\ G[s][page] = c.bit
          /\ \A i \in 0..PageCnt(s) : i # page => G[s][i] = pte[s][i]
          /\ \A x \in Spaces \ {s} : G[x] = pte[x]
      BY <1>0, <2>1, <2>2, <3>1, OneEntry, Zenon
    <3>3. G = pte'
      BY <1>4
    <3> HIDE DEF G
    <3> QED
      BY <3>2, <3>3
  <2>4. /\ call'[t].pc \in {"scan", "release"} /\ call'[t].frame = None
        /\ \A u \in Threads \ {t} : call'[u] = call[u]
    <3>1. call' = [call EXCEPT ![t] = [call[t] EXCEPT !.done = c.done + 1, !.frame = None,
                    !.pool = pf(t), !.bit = 0, !.pc = IF c.done + 1 < c.cnt THEN "scan" ELSE "release"]]
      BY <1>0, <1>4 DEF Mapped, StateTypes
    <3> QED
      BY <1>0, <3>1 DEF StateTypes, Calls
  <2>5. ASSUME NEW p \in Pools, NEW f \in 0..FrameCnt(p)-1
        PROVE  /\ ~HasFrame(t, p, f)'
               /\ HasFrame(t, p, f) <=> p = pf(t) /\ f = c.bit
               /\ \A u \in Threads \ {t} : HasFrame(u, p, f)' <=> HasFrame(u, p, f)
               /\ f # None
    <3>1. f # None
      BY Sizes DEF Pools
    <3> QED
      BY <1>0, <1>1, <2>4, <3>1 DEF HasFrame
  <2>6. \A p \in Pools : \A f \in 0..FrameCnt(p)-1 :
          \/ /\ phys'[p][f] = phys[p][f]
             /\ \A x : UsedFor(p, f, x)' <=> UsedFor(p, f, x)
          \/ /\ phys'[p][f] = 1
             /\ \E y : \A x : UsedFor(p, f, x)' <=> x = y
    <3>1. ASSUME NEW p \in Pools, NEW f \in 0..FrameCnt(p)-1, ~(p = pf(t) /\ f = c.bit)
          PROVE  /\ phys'[p][f] = phys[p][f]
                 /\ \A x : UsedFor(p, f, x)' <=> UsedFor(p, f, x)
      <4>1. \A z \in Spaces : \A i \in 0..PageCnt(z) :
              (p = "K" <=> z = "K") => (pte'[z][i] = f <=> pte[z][i] = f)
        BY <1>0, <1>2, <2>3, <2>5, <3>1 DEF Pools
      <4>2. \A u \in Threads : HasFrame(u, p, f)' <=> HasFrame(u, p, f)
        BY <2>5, <3>1
      <4> QED
        BY <1>4, <4>1, <4>2 DEF UsedFor
    <3>2. ASSUME NEW p \in Pools, NEW f \in 0..FrameCnt(p)-1, p = pf(t), f = c.bit
          PROVE  /\ phys'[p][f] = 1
                 /\ \E y : \A x : UsedFor(p, f, x)' <=> x = y
      <4>1. HasFrame(t, p, f)
        BY <2>5, <3>2
      <4>2. UsedFor(p, f, <<t, None>>)
        BY <4>1 DEF UsedFor
      <4>3. <<t, None>> \in Uses(p, f)
        BY <1>0, <4>2, UsesMember DEF UsesCollected
      <4>4. phys[p][f] = 1 /\ \A x \in Uses(p, f) : x = <<t, None>>
        BY <2>0, <4>3 DEF UsesOK
      <4>5. \A x : UsedFor(p, f, x) => x = <<t, None>>
        BY <1>0, <4>4, UsesMember DEF UsesCollected
      <4>6. ASSUME NEW u \in Threads PROVE ~HasFrame(u, p, f)'
        <5>1. CASE u = t
          BY <2>5, <5>1
        <5>2. CASE u # t
          <6> SUFFICES ASSUME HasFrame(u, p, f) PROVE FALSE
            BY <2>5, <5>2
          <6>1. UsedFor(p, f, <<u, None>>)
            BY DEF UsedFor
          <6>2. <<u, None>> = <<t, None>>
            BY <4>5, <6>1
          <6> QED
            BY <5>2, <6>2
        <5> QED
          BY <5>1, <5>2
      <4>7. ASSUME NEW z \in Spaces, NEW i \in 0..PageCnt(z), p = "K" <=> z = "K"
            PROVE  pte[z][i] # f
        <5> SUFFICES ASSUME pte[z][i] = f PROVE FALSE
          OBVIOUS
        <5>1. UsedFor(p, f, <<z, i>>)
          BY <4>7 DEF UsedFor
        <5>2. <<z, i>> = <<t, None>>
          BY <4>5, <5>1
        <5> QED
          BY <5>2, Sizes DEF Spaces
      <4>8. ASSUME NEW q \in Procs, NEW d \in Dirs, p = "K" PROVE pde[q][d] # f
        <5> SUFFICES ASSUME pde[q][d] = f PROVE FALSE
          OBVIOUS
        <5>1. UsedFor(p, f, <<q, d>>)
          BY <4>8 DEF UsedFor
        <5>2. <<q, d>> = <<t, None>>
          BY <4>5, <5>1
        <5> QED
          BY <5>2, Sizes DEF Dirs
      <4>9. \A z \in Spaces : \A i \in 0..PageCnt(z) :
              (p = "K" <=> z = "K") => (pte'[z][i] = f <=> z = s /\ i = page)
        BY <1>0, <2>3, <3>2, <4>7
      <4>10. \A x : UsedFor(p, f, x)' <=> x = <<s, page>>
        BY <1>0, <1>4, <2>1, <3>2, <4>6, <4>8, <4>9 DEF UsedFor
      <4> QED
        BY <1>4, <4>4, <4>10, Zenon DEF UsedFor, HasFrame
    <3> QED
      BY <3>1, <3>2, Zenon
  <2> QED
    BY <1>0, <1>6, <2>0, <2>6, UsesOKStep, Zenon
<1> QED
  BY <1>6, <1>7

(* __pageTableAdd: the page gets its frame in a page table that is new.     *)
LEMMA NewPageTableStep ==
  ASSUME MemoryInv, NEW t \in Threads, NewPageTable(t)
  PROVE  MemoryInv'
<1> DEFINE c == call[t]
           page == Page(t)
           d == Dir(Page(t))
<1>0. /\ StateTypes /\ CallOK(t) /\ TakenOK(t) /\ MappedOK(t) /\ MappedTaken
      /\ call[t] \in Calls /\ c.pc = "table" /\ ~panic
      /\ c.done \in Nat /\ c.cnt \in Nat /\ c.base \in {None} \cup Nat
      /\ HasPages(t)
  BY OneCall DEF Calls, Middle, HasPages, NewPageTable, At, MemoryInv
<1>1. /\ c.frame # None /\ t \in Procs /\ c.frame \in Frames(t) /\ pde[t][d] = None
      /\ c.pool = "K" /\ c.bit \in 0..FrameCnt("K")-1
      /\ c.kind # "kpage" /\ pf(t) = "U" /\ Space(t) = t /\ t # "K" /\ t \in Spaces
  BY <1>0, Sizes DEF CallOK, BitOK, Middle, pf, Space, Spaces
<1>2. page \in MyPages(t) /\ page = c.base + c.done /\ page \in 0..StackPage /\ d \in Dirs
  <2>1. /\ c.base \in Nat /\ c.done < c.cnt /\ c.base + c.cnt - 1 <= StackPage
    BY <1>0, <1>1 DEF CallOK, Middle, Last
  <2>2. StackPage \in Nat /\ page = c.base + c.done
    BY Sizes DEF Page
  <2>3. page \in MyPages(t) /\ page \in 0..StackPage
    BY <1>0, <2>1, <2>2 DEF MyPages
  <2> QED
    BY <2>2, <2>3, DirOfPage
<1>3. /\ PageCnt(t) = StackPage + 1 /\ page \in 0..PageCnt(t) /\ Frames(t) = 0..FrameCnt("U")-1
      /\ FrameCnt("U") \in Nat /\ FrameCnt("K") \in Nat /\ Frames("K") = 0..FrameCnt("K")-1
  BY <1>1, <1>2, Sizes DEF Frames
<1>4. /\ DOMAIN pte = Spaces /\ pte[t] \in [0..PageCnt(t) -> {None} \cup Frames(t)]
      /\ pde \in [Procs -> [Dirs -> {None} \cup Frames("K")]] /\ raced \in BOOLEAN
  BY <1>0, <1>1 DEF StateTypes
<1>5. pte[t][page] = None
  BY <1>0, <1>1, <1>2 DEF MappedOK
<1>6. \A i \in 0..PageCnt(t) : Dir(i) = d => pte[t][i] = None
  BY <1>0, <1>1 DEF MappedTaken
<1>7. /\ call' = Mapped(t)
      /\ pde' = [pde EXCEPT ![t][d] = c.bit]
      /\ pte' = [pte EXCEPT ![t] = [i \in DOMAIN @ |->
                   IF i = page THEN c.frame ELSE IF Dir(i) = d THEN None ELSE @[i]]]
      /\ UNCHANGED <<phys, virt, holder, raced, panic>>
  BY DEF NewPageTable
<1>8. pte' = [pte EXCEPT ![t][page] = c.frame]
  <2>1. [i \in DOMAIN pte[t] |->
           IF i = page THEN c.frame ELSE IF Dir(i) = d THEN None ELSE pte[t][i]]
        = [pte[t] EXCEPT ![page] = c.frame]
    <3>1. DOMAIN pte[t] = 0..PageCnt(t)
      BY <1>4
    <3>2. \A i \in DOMAIN pte[t] : Dir(i) = d => pte[t][i] = None
      BY <1>6, <3>1
    <3> QED
      BY <1>3, <3>1, <3>2, Zenon
  <2> QED
    BY <1>7, <2>1, Zenon
<1>9. /\ pte'[t][page] = c.frame
      /\ \A i \in 0..PageCnt(t) : i # page => pte'[t][i] = pte[t][i]
      /\ \A x \in Spaces \ {t} : pte'[x] = pte[x]
  <2> DEFINE G == [pte EXCEPT ![t][page] = c.frame]
  <2>1. c.frame \in {None} \cup Frames(t)
    BY <1>1
  <2>2. /\ G[t][page] = c.frame
        /\ \A i \in 0..PageCnt(t) : i # page => G[t][i] = pte[t][i]
        /\ \A x \in Spaces \ {t} : G[x] = pte[x]
    BY <1>1, <1>3, <1>4, <2>1, OneEntry, Zenon
  <2>3. G = pte'
    BY <1>8
  <2> HIDE DEF G
  <2> QED
    BY <2>2, <2>3
<1>10. /\ pde' \in [Procs -> [Dirs -> {None} \cup Frames("K")]]
       /\ pde'[t][d] = c.bit
       /\ \A e \in Dirs : e # d => pde'[t][e] = pde[t][e]
       /\ \A q \in Procs \ {t} : pde'[q] = pde[q]
  <2> DEFINE G == [pde EXCEPT ![t][d] = c.bit]
  <2>1. /\ c.bit \in {None} \cup Frames("K") /\ DOMAIN pde = Procs
        /\ pde[t] \in [Dirs -> {None} \cup Frames("K")]
    BY <1>1, <1>3, <1>4
  <2>2. /\ DOMAIN G = Procs
        /\ G[t] \in [Dirs -> {None} \cup Frames("K")]
        /\ G[t][d] = c.bit
        /\ \A e \in Dirs : e # d => G[t][e] = pde[t][e]
        /\ \A q \in Procs \ {t} : G[q] = pde[q]
    BY <1>1, <1>2, <2>1, OneEntry, Zenon
  <2>3. G \in [Procs -> [Dirs -> {None} \cup Frames("K")]]
    BY <1>1, <1>2, <1>3, <1>4
  <2>4. G = pde'
    BY <1>7
  <2> HIDE DEF G
  <2> QED
    BY <2>2, <2>3, <2>4
<1>11. c.bit # None
  BY <1>1, <1>3, Sizes
<1>12. StateTypes' /\ ((~raced => UsesOK') => MemoryInv')
  <2>1. \A q \in Procs : \A e \in Dirs : pde[q][e] # None => pde'[q][e] # None
    BY <1>1, <1>10, <1>11
  <2>2. pte' = [pte EXCEPT ![Space(t)][Page(t)] = c.frame]
    BY <1>1, <1>8
  <2>3. pde'[t][Dir(Page(t))] # None
    BY <1>10, <1>11
  <2>4. c.frame \in Frames(Space(t))
    BY <1>1
  <2> QED
    BY <1>0, <1>7, <1>10, <2>1, <2>2, <2>3, <2>4, MapStep
<1>13. ASSUME ~raced PROVE UsesOK'
  <2>0. UsesOK
    BY <1>13 DEF MemoryInv, FramesOK
  <2>1. /\ call'[t].pc \in {"scan", "release"} /\ call'[t].frame = None
        /\ \A u \in Threads \ {t} : call'[u] = call[u]
    <3>1. call' = [call EXCEPT ![t] = [call[t] EXCEPT !.done = c.done + 1, !.frame = None,
                    !.pool = pf(t), !.bit = 0, !.pc = IF c.done + 1 < c.cnt THEN "scan" ELSE "release"]]
      BY <1>0, <1>7 DEF Mapped, StateTypes
    <3> QED
      BY <1>0, <3>1 DEF StateTypes, Calls
  <2>2. ASSUME NEW p \in Pools, NEW f \in 0..FrameCnt(p)-1
        PROVE  /\ ~HasFrame(t, p, f)'
               /\ HasFrame(t, p, f) <=> (p = "K" /\ f = c.bit) \/ (p = "U" /\ f = c.frame)
               /\ \A u \in Threads \ {t} : HasFrame(u, p, f)' <=> HasFrame(u, p, f)
               /\ f # None
    <3>1. f # None
      BY Sizes DEF Pools
    <3> QED
      BY <1>0, <1>1, <2>1, <3>1 DEF HasFrame, Pools
  <2>3. ASSUME NEW p \in Pools, NEW f \in 0..FrameCnt(p)-1,
               (p = "K" /\ f = c.bit) \/ (p = "U" /\ f = c.frame)
        PROVE  /\ phys'[p][f] = 1
               /\ \A u \in Threads : ~HasFrame(u, p, f)'
               /\ \A z \in Spaces : \A i \in 0..PageCnt(z) : (p = "K" <=> z = "K") => pte[z][i] # f
               /\ \A q \in Procs : \A e \in Dirs : p = "K" => pde[q][e] # f
    <3>1. HasFrame(t, p, f)
      BY <2>2, <2>3
    <3>2. UsedFor(p, f, <<t, None>>)
      BY <3>1 DEF UsedFor
    <3>3. <<t, None>> \in Uses(p, f)
      BY <1>0, <3>2, UsesMember DEF UsesCollected
    <3>4. phys[p][f] = 1 /\ \A x \in Uses(p, f) : x = <<t, None>>
      BY <2>0, <3>3 DEF UsesOK
    <3>5. \A x : UsedFor(p, f, x) => x = <<t, None>>
      BY <1>0, <3>4, UsesMember DEF UsesCollected
    <3>6. ASSUME NEW u \in Threads PROVE ~HasFrame(u, p, f)'
      <4>1. CASE u = t
        BY <2>2, <4>1
      <4>2. CASE u # t
        <5> SUFFICES ASSUME HasFrame(u, p, f) PROVE FALSE
          BY <2>2, <4>2
        <5>1. UsedFor(p, f, <<u, None>>)
          BY DEF UsedFor
        <5>2. <<u, None>> = <<t, None>>
          BY <3>5, <5>1
        <5> QED
          BY <4>2, <5>2
      <4> QED
        BY <4>1, <4>2
    <3>7. ASSUME NEW z \in Spaces, NEW i \in 0..PageCnt(z), p = "K" <=> z = "K"
          PROVE  pte[z][i] # f
      <4> SUFFICES ASSUME pte[z][i] = f PROVE FALSE
        OBVIOUS
      <4>1. UsedFor(p, f, <<z, i>>)
        BY <3>7 DEF UsedFor
      <4>2. <<z, i>> = <<t, None>>
        BY <3>5, <4>1
      <4> QED
        BY <4>2, Sizes DEF Spaces
    <3>8. ASSUME NEW q \in Procs, NEW e \in Dirs, p = "K" PROVE pde[q][e] # f
      <4> SUFFICES ASSUME pde[q][e] = f PROVE FALSE
        OBVIOUS
      <4>1. UsedFor(p, f, <<q, e>>)
        BY <3>8 DEF UsedFor
      <4>2. <<q, e>> = <<t, None>>
        BY <3>5, <4>1
      <4> QED
        BY <4>2, Sizes DEF Dirs
    <3> QED
      BY <1>7, <3>4, <3>6, <3>7, <3>8
  <2>4. ASSUME NEW p \in Pools, NEW f \in 0..FrameCnt(p)-1, p = "K", f = c.bit
        PROVE  /\ phys'[p][f] = 1
               /\ \E y : \A x : UsedFor(p, f, x)' <=> x = y
    <3>1. \A z \in Spaces : \A i \in 0..PageCnt(z) : (p = "K" <=> z = "K") => pte'[z][i] # f
      BY <1>1, <1>9, <2>3, <2>4
    <3>2. \A q \in Procs : \A e \in Dirs : pde'[q][e] = f <=> q = t /\ e = d
      BY <1>2, <1>10, <2>3, <2>4
    <3>3. \A x : UsedFor(p, f, x)' <=> x = <<t, d>>
      BY <1>1, <1>2, <2>3, <2>4, <3>1, <3>2 DEF UsedFor
    <3> QED
      BY <2>3, <2>4, <3>3, Zenon DEF UsedFor, HasFrame
  <2>5. ASSUME NEW p \in Pools, NEW f \in 0..FrameCnt(p)-1, p = "U", f = c.frame
        PROVE  /\ phys'[p][f] = 1
               /\ \E y : \A x : UsedFor(p, f, x)' <=> x = y
    <3>1. \A z \in Spaces : \A i \in 0..PageCnt(z) :
            (p = "K" <=> z = "K") => (pte'[z][i] = f <=> z = t /\ i = page)
      BY <1>1, <1>3, <1>9, <2>3, <2>5
    <3>2. \A x : UsedFor(p, f, x)' <=> x = <<t, page>>
      BY <1>1, <1>3, <2>3, <2>5, <3>1 DEF UsedFor
    <3> QED
      BY <2>3, <2>5, <3>2, Zenon DEF UsedFor, HasFrame
  <2>6. ASSUME NEW p \in Pools, NEW f \in 0..FrameCnt(p)-1,
               ~(p = "K" /\ f = c.bit), ~(p = "U" /\ f = c.frame)
        PROVE  /\ phys'[p][f] = phys[p][f]
               /\ \A x : UsedFor(p, f, x)' <=> UsedFor(p, f, x)
    <3>1. \A z \in Spaces : \A i \in 0..PageCnt(z) :
            (p = "K" <=> z = "K") => (pte'[z][i] = f <=> pte[z][i] = f)
      BY <1>1, <1>5, <1>9, <2>2, <2>6 DEF Pools
    <3>2. \A q \in Procs : \A e \in Dirs : p = "K" => (pde'[q][e] = f <=> pde[q][e] = f)
      BY <1>1, <1>2, <1>10, <2>2, <2>6
    <3>3. \A u \in Threads : HasFrame(u, p, f)' <=> HasFrame(u, p, f)
      BY <2>2, <2>6
    <3> QED
      BY <1>7, <3>1, <3>2, <3>3 DEF UsedFor
  <2>7. \A p \in Pools : \A f \in 0..FrameCnt(p)-1 :
          \/ /\ phys'[p][f] = phys[p][f]
             /\ \A x : UsedFor(p, f, x)' <=> UsedFor(p, f, x)
          \/ /\ phys'[p][f] = 1
             /\ \E y : \A x : UsedFor(p, f, x)' <=> x = y
    BY <2>4, <2>5, <2>6, Zenon
  <2> QED
    BY <1>0, <1>12, <2>0, <2>7, UsesOKStep, Zenon
<1> QED
  BY <1>7, <1>12, <1>13

-----------------------------------------------------------------------------
(* A step of the rest of the kernel changes nothing here.                   *)
LEMMA StutterStep == MemoryInv /\ UNCHANGED memory_vars => MemoryInv'
<1> SUFFICES ASSUME MemoryInv, UNCHANGED memory_vars PROVE MemoryInv'
  OBVIOUS
<1>0. UNCHANGED <<phys, virt, pte, pde, holder, call, raced, panic>>
  BY DEF memory_vars
<1>1. StateTypes'
  BY <1>0 DEF MemoryInv, StateTypes
<1>2. ASSUME NEW u \in Threads PROVE ThreadOK(u)'
  BY <1>0, OthersOK
<1>3. FilledUp' /\ MappedTaken' /\ HeapMapped' /\ LocksHeldByCalls'
  BY <1>0 DEF MemoryInv, FilledUp, MappedTaken, HeapMapped, LocksHeldByCalls, pf
<1>4. TakenMapped'
  BY <1>0 DEF MemoryInv, TakenMapped, MyPages, Space, pf
<1>5. ~raced' => FramesOK'
  <2>1. Alone => Alone'
    BY <1>0 DEF Alone, InBitmap
  <2>2. \A u \in Threads : FoundOK(u) => FoundOK(u)'
    BY <1>0 DEF FoundOK
  <2>3. UsesOK => UsesOK'
    BY <1>0 DEF UsesOK, Uses
  <2> QED
    BY <1>0, <2>1, <2>2, <2>3 DEF MemoryInv, FramesOK
<1>6. Full => Full'
  BY <1>0 DEF Full
<1> QED
  BY <1>0, <1>1, <1>2, <1>3, <1>4, <1>5, <1>6 DEF MemoryInv

(* Every step keeps the invariant.                                          *)
LEMMA MemoryStep == MemoryInv /\ [Next]_memory_vars => MemoryInv'
<1> SUFFICES ASSUME MemoryInv, BitsInPools, NEW t \in Threads, Alloc(t) PROVE MemoryInv'
  BY StutterStep DEF Next
<1>0. StackPage \in Nat /\ MaxCnt \in Nat /\ 1 \in 1..MaxCnt
  BY Sizes
<1>1. ASSUME NEW cnt \in 1..MaxCnt, kpageAlloc(t, cnt) PROVE MemoryInv'
  BY <1>1, EnterStep DEF kpageAlloc
<1>2. ASSUME NEW cnt \in 1..MaxCnt, upageAlloc(t, cnt) PROVE MemoryInv'
  BY <1>2, EnterStep DEF upageAlloc
<1>3. CASE apageAlloc(t)
  BY <1>0, <1>3, EnterStep DEF apageAlloc
<1>4. CASE LockAcquire(t)
  BY <1>4, LockAcquireStep
<1>5. CASE Valloc(t)
  BY <1>5, VallocStep
<1>6. CASE ApageMark(t)
  BY <1>6, ApageMarkStep
<1>7. CASE ScanByte(t)
  BY <1>7, ScanByteStep
<1>13. CASE ScanBit(t)
  BY <1>13, ScanBitStep
<1>8. CASE SetLoad(t)
  BY <1>8, SetLoadStep
<1>9. CASE SetStore(t)
  BY <1>9, SetStoreStep
<1>10. CASE PageTableAdd(t)
  BY <1>10, PageTableWantedStep, MapPageStep
<1>11. CASE NewPageTable(t)
  BY <1>11, NewPageTableStep
<1>12. CASE Release(t)
  BY <1>12, ReleaseStep
<1> QED
  BY <1>1, <1>2, <1>3, <1>4, <1>5, <1>6, <1>7, <1>13, <1>8, <1>9, <1>10, <1>11, <1>12 DEF Alloc

(* The allocators keep the invariant, whatever threads, processes and       *)
(* memory there are (memory.c).                                             *)
THEOREM MemoryInvariant == Spec => []MemoryInv
BY MemoryInit, MemoryStep, PTL DEF Spec

(* The bitmaps, page tables, locks and calls keep their types.              *)
THEOREM MemoryTypes == Spec => []MemoryTypeOK
<1>1. MemoryInv => MemoryTypeOK
  <2> SUFFICES ASSUME StateTypes PROVE MemoryTypeOK
    BY DEF MemoryInv
  <2>0. /\ FrameCnt("K") \in Nat /\ FrameCnt("U") \in Nat /\ None = -1
        /\ \A s : Frames(s) \subseteq None..FrameCnt("K") + FrameCnt("U")
        /\ Frames("K") \subseteq None..FrameCnt("K")
        /\ None \in None..FrameCnt("K") /\ None \in None..FrameCnt("K") + FrameCnt("U")
    BY Sizes DEF Frames
  <2>1. \A s \in Spaces : pte[s] \in [0..PageCnt(s) -> None..FrameCnt("K") + FrameCnt("U")]
    BY <2>0 DEF StateTypes
  <2>2. pde \in [Procs -> [Dirs -> None..FrameCnt("K")]]
    BY <2>0 DEF StateTypes
  <2> QED
    BY <2>1, <2>2 DEF StateTypes, MemoryTypeOK, Pools
<1> QED
  BY <1>1, MemoryInvariant, PTL

(* Every way out of an allocation gives the lock back, and no call takes    *)
(* the other pool's (memory.c:358-416).                                     *)
THEOREM LocksAreGivenBack == Spec => []LocksHeldByCalls
<1>1. MemoryInv => LocksHeldByCalls
  BY DEF MemoryInv
<1> QED
  BY <1>1, MemoryInvariant, PTL

(* A virtual page is taken exactly if it is mapped or a call that has it is *)
(* about to map it (memory.c:272-352).                                      *)
THEOREM PagesAreExact == Spec => []PagesExact
<1>1. MemoryInv => PagesExact
  <2> SUFFICES ASSUME MemoryInv, NEW s \in Spaces, NEW i \in 0..PageCnt(s)-1
               PROVE  (virt[s][i] = 1) <=>
                        \/ pte[s][i] # None
                        \/ \E t \in Threads : call[t].pc \in Middle /\ Space(t) = s /\ i \in MyPages(t)
    BY DEF PagesExact, Middle, MyPages
  <2>0. PageCnt(s) \in Nat /\ i \in 0..PageCnt(s)
    BY Sizes DEF Spaces
  <2>1. pte[s][i] # None => virt[s][i] = 1
    BY <2>0 DEF MemoryInv, MappedTaken
  <2>2. ASSUME NEW t \in Threads, call[t].pc \in Middle, Space(t) = s, i \in MyPages(t)
        PROVE  virt[s][i] = 1
    BY <2>2, OneCall DEF TakenOK, HasPages
  <2>3. virt[s][i] = 1 /\ pte[s][i] = None =>
          \E t \in Threads : call[t].pc \in Middle /\ Space(t) = s /\ i \in MyPages(t)
    BY DEF MemoryInv, TakenMapped
  <2> QED
    BY <2>1, <2>2, <2>3
<1> QED
  BY <1>1, MemoryInvariant, PTL

(* A set whose elements are all the same has at most one.                   *)
LEMMA AtMostOne ==
  ASSUME NEW S, \A x, y \in S : x = y
  PROVE  Cardinality(S) <= 1
<1>1. CASE S = {}
  BY <1>1, FS_EmptySet
<1>2. CASE S # {}
  <2>1. PICK x : x \in S
    BY <1>2
  <2>2. S = {x}
    BY <2>1
  <2> QED
    BY <2>2, FS_Singleton
<1> QED
  BY <1>1, <1>2

(* Without the race of memory.c:261 the bitmaps of the pools tell exactly   *)
(* which frames are used, and no frame has two uses.                        *)
THEOREM FramesAreExact == Spec => []FramesExact
<1>1. MemoryInv => FramesExact
  <2> SUFFICES ASSUME UsesOK
               PROVE  /\ FramesUnshared
                      /\ \A pool \in Pools : \A f \in 0..FrameCnt(pool)-1 :
                           (phys[pool][f] = 1) <=> Uses(pool, f) # {}
    BY DEF MemoryInv, FramesOK, FramesExact, Pools
  <2>1. FramesUnshared
    BY AtMostOne DEF UsesOK, FramesUnshared, Pools
  <2> QED
    BY <2>1 DEF UsesOK
<1> QED
  BY <1>1, MemoryInvariant, PTL

(* Without that race only an exhausted pool stops the kernel: the other     *)
(* ASSERTs of memory.c and the one of __memset never fail.                  *)
THEOREM OnlyFullPoolsStop == Spec => []StopsOnlyWhenFull
<1>1. MemoryInv => StopsOnlyWhenFull
  BY DEF MemoryInv, StopsOnlyWhenFull, Full, Pools
<1> QED
  BY <1>1, MemoryInvariant, PTL

(* The page behind a bitmap is never mapped, though __btmpScan may find it  *)
(* (bitmap.c:78) and __valloc may hand it out (memory.c:171-193): in the    *)
(* kernel's heap as long as that race has not happened, in a process's      *)
(* space in any case.                                                       *)
THEOREM OnlyBitmapsAreMapped == Spec => []MappedInBitmap
<1>1. MemoryInv => MappedInBitmap
  <2> SUFFICES ASSUME MemoryInv, NEW s \in Spaces, s = "K" => ~raced,
                      pte[s][PageCnt(s)] # None
               PROVE  FALSE
    BY DEF MappedInBitmap
  <2>1. CASE s = "K"
    <3>1. \A i \in 0..PageCnt("K")-1 : pte["K"][i] # None
      BY <2>1 DEF MemoryInv, HeapMapped
    <3> QED
      BY <2>1, <3>1, HeapFull
  <2>2. CASE s # "K"
    <3>1. PageCnt(s) = StackPage + 1 /\ StackPage \in Nat
      BY <2>2, Sizes DEF Spaces
    <3>2. PageCnt(s) <= StackPage
      BY <2>2, <3>1 DEF MemoryInv, MappedTaken
    <3> QED
      BY <3>1, <3>2
  <2> QED
    BY <2>1, <2>2
<1> QED
  BY <1>1, MemoryInvariant, PTL
=============================================================================
