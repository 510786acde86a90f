----------------------------- MODULE MCInterrupt -----------------------------
EXTENDS Interrupt

CONSTANTS main, a, p

(* Around the sizes at which a count crosses a multiple of 8 or of 65536.   *)
MCMemSizes ==
  LET Near(n) == n - 2 .. n + 18
  IN (Near(usedMem + 3) \cup Near(8192) \cup Near(usedMem + 65536)
       \cup Near(usedMem + 32768) \cup Near(524288) \cup Near(Pages4G - 19))
     \ (0..usedMem)
=============================================================================
