------------------------------- MODULE Bitmap -------------------------------
(***************************************************************************)
(* The bitmaps of src/lib/kernel/bitmap.c, which say which pages of a pool  *)
(* are taken, and how __valloc (src/kernel/memory.c) takes pages from one.  *)
(*                                                                         *)
(* A bitmap is followed in memory by something else: the next bitmap, for   *)
(* the pools (memory.c:68-118), or the rest of its last page, for a         *)
(* process.  Position Len * W is the first bit of what follows.             *)
(***************************************************************************)
EXTENDS Integers, FiniteSetsExt

CONSTANTS W,    \* bits in a byte: 8
          Len   \* _btmpBytesLen

ASSUME BitmapAssumption == W \in Nat \ {0} /\ Len \in Nat \ {0}

VARIABLES bits,  \* _bits, and the bit that follows the bitmap
          ret    \* the last __valloc: how many pages, and the scan's result

bitmap_vars == <<bits, ret>>

Size == Len * W

None == -1       \* the scan's "not found"
Panicked == -2   \* the scan's ASSERT failed: the kernel has stopped
NoCall == [cnt |-> 0, start |-> None]

(* The type invariant of the bits and of the last call.                     *)
BitmapTypeOK ==
  /\ bits \in [0..Size -> {0, 1}]
  /\ ret \in [cnt : 0..Size, start : {None, Panicked} \cup 0..Size]

(* __btmpInit; what follows the bitmap may be anything.                     *)
Init ==
  /\ \E next \in {0, 1} : bits = [i \in 0..Size |-> IF i = Size THEN next ELSE 0]
  /\ ret = NoCall

(* __btmpScanTest                                                          *)
btmpScanTest(b, bitIndex) == b[bitIndex] # 0

(* bitmap.c:30-34: the first byte that is not 0xff, or Len.                 *)
idxByte(b) ==
  Min({Len} \cup {k \in 0..Len - 1 : \E i \in k * W .. k * W + W - 1 : b[i] = 0})

(* bitmap.c:55-62: the first bit in that byte that is 0.                    *)
idxStart(b) ==
  Min({i \in idxByte(b) * W .. idxByte(b) * W + W - 1 : ~btmpScanTest(b, i)})

(* Mutants of bitCount: the first bit does not count; a taken bit does not  *)
(* start the count again.                                                   *)
bitCountFromZero(b) ==
  LET count[n \in idxStart(b)..Size] ==
        IF n = idxStart(b) THEN 0
        ELSE IF btmpScanTest(b, n) THEN 0 ELSE count[n - 1] + 1
  IN count

bitCountKept(b) ==
  LET count[n \in idxStart(b)..Size] ==
        IF n = idxStart(b) THEN 1
        ELSE IF btmpScanTest(b, n) THEN count[n - 1] ELSE count[n - 1] + 1
  IN count

(* bitmap.c:73-84: bitCount after bit n was looked at.  bitRests lets the   *)
(* loop go on to bit Size, the first one behind the bitmap.                 *)
bitCount(b) ==
  LET count[n \in idxStart(b)..Size] ==
        IF n = idxStart(b) THEN 1
        ELSE IF btmpScanTest(b, n) THEN 0 ELSE count[n - 1] + 1
  IN count

(* __btmpScan: the loop ends where bitCount reaches cnt (bitmap.c:85-89).   *)
btmpScan(b, cnt) ==
  IF idxByte(b) = Len THEN Panicked
  ELSE IF cnt = 1 THEN idxStart(b)
  ELSE LET count == bitCount(b)
           hits == {n \in idxStart(b) + 1 .. Size : count[n] = cnt}
       IN IF hits = {} THEN None ELSE Min(hits) - cnt + 1

(* A mutant of btmpSet: the mask is added, not or-ed, to the byte.           *)
btmpSetAdds(b, bitIndex, value) == [b EXCEPT ![bitIndex] = @ + value]

(* __btmpSet                                                               *)
btmpSet(b, bitIndex, value) == [b EXCEPT ![bitIndex] = value]

-----------------------------------------------------------------------------
(* __valloc on the bitmap of virtual addresses, and __palloc (cnt = 1).     *)
Valloc(cnt) ==
  LET start == btmpScan(bits, cnt) IN
  /\ ret.start # Panicked
  /\ ret' = [cnt |-> cnt, start |-> start]
  /\ bits' = IF start \in {None, Panicked} THEN bits
             ELSE [i \in 0..Size |-> IF i \in start .. start + cnt - 1
                                     THEN 1 ELSE bits[i]]

(* __apageAlloc marks the page of an address that it is given, taken or not *)
(* (memory.c:395-397); it refuses page 0.                                   *)
Mark(bitIndex) ==
  /\ ret.start # Panicked
  /\ bits' = btmpSet(bits, bitIndex, 1)
  /\ ret' = NoCall

Next ==
  \/ \E cnt \in 1..Size : Valloc(cnt)
  \/ \E i \in 1..Size - 1 : Mark(i)

Spec == Init /\ [][Next]_bitmap_vars

-----------------------------------------------------------------------------
Pages(start, cnt) == start .. start + cnt - 1

(* The places in the bitmap where cnt pages in a row are free.              *)
Fits(b, cnt) == {s \in 0 .. Size - cnt : \A i \in Pages(s, cnt) : b[i] = 0}

(* As long as there are cnt free pages in a row, a call gets the lowest     *)
(* ones, whatever is taken before them and wherever bytes begin and end.    *)
FirstFit ==
  [][LET cnt == ret'.cnt IN
     cnt > 0 /\ Fits(bits, cnt) # {} => ret' = ret \/ ret'.start = Min(Fits(bits, cnt))
    ]_bitmap_vars

(* A page is never handed out twice: a call returns pages that were all     *)
(* free, takes exactly those, and takes none when it fails.                 *)
HandedOutOnce ==
  [][ret'.cnt > 0 /\ ret' # ret =>
       LET taken == IF ret'.start \in {None, Panicked} THEN {}
                    ELSE Pages(ret'.start, ret'.cnt)
       IN /\ \A i \in taken : bits[i] = 0
          /\ {i \in 0..Size : bits'[i] # bits[i]} = taken
    ]_bitmap_vars

(* bitmap.c:29 promises cnt free bits "in the bitmap": no page of the range *)
(* that is returned lies behind it.                                         *)
FoundInBitmap == ret.start >= 0 => ret.start + ret.cnt <= Size
=============================================================================
