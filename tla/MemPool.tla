------------------------------- MODULE MemPool ------------------------------
(***************************************************************************)
(* Where __initMemPool (src/kernel/memory.c) puts the pools and their       *)
(* bitmaps.  Addresses of memory are counted in pages, those of the bitmaps *)
(* in bytes.                                                               *)
(***************************************************************************)
EXTENDS Integers

PG_SIZE == 4096
Pages4G == 1048576
HEAP_KERNEL_BASE == 256      \* 0xc0100000, counted from 0xc0000000
KernelPages == 255 * 1024    \* what the 255 page tables of the loader map
BITMAP_MEM_BASE == 630784    \* 0x9a000
MAIN_PCB == 647168           \* 0x9e000
usedMem == 256 + 256         \* 256 page tables and the first megabyte

(* A mutant of uint16: the count is not cut.                                *)
uint16Wide(n) == n

uint16(n) == n % 65536

initMemPool(memPages) ==
  LET freePage == uint16((memPages - usedMem) % Pages4G)
      freePageKernel == freePage \div 2
      freePageUser == freePage - freePageKernel
      kLen == freePageKernel \div 8
      uLen == freePageUser \div 8
  IN [kBase |-> usedMem, kPages |-> freePageKernel, kLen |-> kLen,
      uBase |-> usedMem + freePageKernel, uPages |-> freePageUser, uLen |-> uLen,
      kBits |-> BITMAP_MEM_BASE, uBits |-> BITMAP_MEM_BASE + kLen,
      vBits |-> BITMAP_MEM_BASE + kLen + uLen, vLen |-> kLen]

(* The frames that the bitmaps of the two pools stand for lie in memory and *)
(* in one pool; the three bitmaps end below the pcb of main (which is so    *)
(* only because the count is cut to 16 bits); the page tables of the        *)
(* kernel's heap exist; and up to 258 MB no more than 14 frames are lost to *)
(* rounding (beyond, the cut loses whole multiples of 256 MB).              *)
PoolsFit(memPages) ==
  LET m == initMemPool(memPages) IN
  /\ m.kBase + 8 * m.kLen <= m.uBase
  /\ m.uBase + 8 * m.uLen <= memPages
  /\ m.vBits + m.vLen <= MAIN_PCB
  /\ HEAP_KERNEL_BASE + 8 * m.vLen <= KernelPages
  /\ memPages < usedMem + 65536 => memPages - usedMem - 8 * (m.kLen + m.uLen) <= 14
=============================================================================
