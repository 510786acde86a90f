--------------------------- MODULE InterruptProof ----------------------------
(***************************************************************************)
(* Interrupts find the handler that is meant for them, and the code they    *)
(* interrupt finds its registers and its stack again, for any threads and   *)
(* processes, any balanced exceptions and any requests of the devices.  The *)
(* inductive invariant says what the words of every kernel stack are: how   *)
(* the thread goes on from there (Runs, Handles, Waits).                    *)
(***************************************************************************)
EXTENDS Interrupt, SequenceTheorems, TLAPS

-----------------------------------------------------------------------------
(* The pools.                                                              *)

(* The arithmetic of __initMemPool, for f free pages.                       *)
LEMMA Halves ==
  ASSUME NEW f \in Nat, f <= 65535,
         NEW k \in Nat, k = f \div 2, NEW u \in Nat, u = f - k,
         NEW kLen \in Nat, kLen = k \div 8, NEW uLen \in Nat, uLen = u \div 8
  PROVE  /\ 8 * kLen <= k /\ k <= 8 * kLen + 7 /\ kLen <= 4095
         /\ 8 * uLen <= u /\ u <= 8 * uLen + 7 /\ uLen <= 4096
         /\ k + u = f
<1>1. k <= 32767 /\ u <= 32768 /\ k + u = f
  BY SMT
<1>2. 8 * kLen <= k /\ k <= 8 * kLen + 7
  BY SMT
<1>3. 8 * uLen <= u /\ u <= 8 * uLen + 7
  BY SMT
<1> QED
  BY <1>1, <1>2, <1>3, SMT

(* The sizes that the layout starts from.                                   *)
LEMMA Bounds == usedMem = 512 /\ Pages4G \in Nat /\ Pages4G > 66048
  BY SMT DEF usedMem, Pages4G

(* Where the bitmaps lie and how far the kernel's page tables reach.        *)
LEMMA Layout ==
  /\ BITMAP_MEM_BASE \in Nat /\ MAIN_PCB = BITMAP_MEM_BASE + 16384
  /\ HEAP_KERNEL_BASE = 256 /\ KernelPages \in Nat /\ KernelPages >= 65280
BY SMT DEF BITMAP_MEM_BASE, MAIN_PCB, HEAP_KERNEL_BASE, KernelPages

(* The count of free pages, cut to 32 and to 16 bits.                       *)
LEMMA Cut ==
  ASSUME NEW n \in Nat, NEW m \in Nat, 512 < n, n < m
  PROVE  /\ (n - 512) % m = n - 512
         /\ (n - 512) % 65536 \in Nat /\ (n - 512) % 65536 <= 65535
         /\ (n - 512) % 65536 <= n - 512
         /\ n < 512 + 65536 => (n - 512) % 65536 = n - 512
<1>1. (n - 512) % m = n - 512
  BY SMT
<1>2. PICK d \in Nat : d = n - 512
  OBVIOUS
<1>3. d % 65536 \in Nat /\ d % 65536 <= 65535 /\ d % 65536 <= d
  BY SMT
<1>4. d < 65536 => d % 65536 = d
  BY SMT
<1> QED
  BY <1>1, <1>2, <1>3, <1>4, SMT

(* Where pools of k and u frames end.                                       *)
LEMMA Fitting ==
  ASSUME NEW n \in Nat, NEW f \in Nat, NEW k \in Nat, NEW u \in Nat,
         NEW kLen \in Nat, NEW uLen \in Nat,
         f <= n - 512, k + u = f, n < 512 + 65536 => f = n - 512,
         8 * kLen <= k, k <= 8 * kLen + 7, kLen <= 4095,
         8 * uLen <= u, u <= 8 * uLen + 7, uLen <= 4096
  PROVE  /\ 512 + 8 * kLen <= 512 + k
         /\ 512 + k + 8 * uLen <= n
         /\ kLen + uLen + kLen <= 16384
         /\ 256 + 8 * kLen <= 65280
         /\ n < 512 + 65536 => n - 512 - 8 * (kLen + uLen) <= 14
BY SMT

(* Whatever the size of memory, what __initMemPool lays out fits.           *)
LEMMA PoolsAlwaysFit ==
  ASSUME NEW n \in usedMem + 1 .. Pages4G - 1
  PROVE  PoolsFit(n)
<1>0. n \in Nat /\ n > 512 /\ n < Pages4G
  BY Bounds
<1>1. PICK f \in Nat : f = (n - 512) % 65536
  BY <1>0, Bounds, Cut
<1>2. PICK k \in Nat : k = f \div 2
  OBVIOUS
<1>3. PICK u \in Nat : u = f - k
  BY <1>2
<1>4. PICK kLen \in Nat : kLen = k \div 8
  OBVIOUS
<1>5. PICK uLen \in Nat : uLen = u \div 8
  OBVIOUS
<1>6. uint16((n - usedMem) % Pages4G) = f
  BY <1>0, <1>1, Bounds, Cut DEF uint16
<1> DEFINE m ==
        [kBase |-> usedMem, kPages |-> k, kLen |-> kLen,
         uBase |-> usedMem + k, uPages |-> u, uLen |-> uLen,
         kBits |-> BITMAP_MEM_BASE, uBits |-> BITMAP_MEM_BASE + kLen,
         vBits |-> BITMAP_MEM_BASE + kLen + uLen, vLen |-> kLen]
<1>7. initMemPool(n) = m
  BY <1>2, <1>3, <1>4, <1>5, <1>6, Zenon DEF initMemPool
<1>8. f <= 65535 /\ f <= n - 512 /\ (n < 512 + 65536 => f = n - 512)
  BY <1>0, <1>1, Bounds, Cut
<1>9. /\ 8 * kLen <= k /\ k <= 8 * kLen + 7 /\ kLen <= 4095
      /\ 8 * uLen <= u /\ u <= 8 * uLen + 7 /\ uLen <= 4096
      /\ k + u = f
  BY <1>2, <1>3, <1>4, <1>5, <1>8, Halves
<1>10. /\ 512 + 8 * kLen <= 512 + k
       /\ 512 + k + 8 * uLen <= n
       /\ kLen + uLen + kLen <= 16384
       /\ 256 + 8 * kLen <= 65280
       /\ n < 512 + 65536 => n - 512 - 8 * (kLen + uLen) <= 14
  BY <1>0, <1>8, <1>9, Fitting
<1>11. usedMem + 8 * kLen <= usedMem + k /\ usedMem + k + 8 * uLen <= n
  BY <1>10, Bounds
<1>12. n < usedMem + 65536 => n - usedMem - 8 * (kLen + uLen) <= 14
  BY <1>10, Bounds
<1>13. BITMAP_MEM_BASE + kLen + uLen + kLen <= MAIN_PCB
  BY <1>10, Layout
<1>14. HEAP_KERNEL_BASE + 8 * kLen <= KernelPages
  BY <1>10, Layout
<1>15. /\ m.kBase = usedMem /\ m.kLen = kLen /\ m.uBase = usedMem + k /\ m.uLen = uLen
       /\ m.vBits = BITMAP_MEM_BASE + kLen + uLen /\ m.vLen = kLen
  OBVIOUS
<1> HIDE DEF m
<1>16. /\ m.kBase + 8 * m.kLen <= m.uBase
       /\ m.uBase + 8 * m.uLen <= n
  BY <1>15, <1>11
<1>17. m.vBits + m.vLen <= MAIN_PCB /\ HEAP_KERNEL_BASE + 8 * m.vLen <= KernelPages
  BY <1>15, <1>13, <1>14
<1>18. n < usedMem + 65536 => n - usedMem - 8 * (m.kLen + m.uLen) <= 14
  BY <1>15, <1>12
<1> QED
  BY <1>7, <1>16, <1>17, <1>18 DEF PoolsFit

-----------------------------------------------------------------------------
(* The 8259A.                                                              *)

Pics == [m : Chip, s : Chip]

NothingServed(p) == p.m.isr = {} /\ p.s.isr = {}

(* What __initPic leaves: vectors from 0x20 on, only line 0 open.           *)
Programmed(p) ==
  /\ p.m.icw = 0 /\ p.m.base = 32 /\ p.m.mask = 1..7
  /\ p.s.icw = 0 /\ p.s.mask = 0..7

(* The bits of the bytes that are written.                                  *)
LEMMA BitsOfBytes ==
  /\ 4 \in Bits(17) /\ 4 \notin Bits(32)
  /\ Bits(254) = 1..7 /\ Bits(255) = 0..7
<1>1. /\ Weight[1] = 1 /\ Weight[2] = 2 /\ Weight[3] = 4 /\ Weight[4] = 8
      /\ Weight[5] = 16 /\ Weight[6] = 32 /\ Weight[7] = 64 /\ Weight[8] = 128
  BY DEF Weight
<1>2. 4 \in Bits(17) /\ 4 \notin Bits(32)
  BY <1>1 DEF Bits
<1>3. \A i \in 0..7 : i \in {0, 1, 2, 3, 4, 5, 6, 7}
  OBVIOUS
<1>4. \A i \in 0..7 : (254 \div Weight[i+1]) % 2 = 1 <=> i # 0
  BY <1>1, <1>3
<1>5. \A i \in 0..7 : (255 \div Weight[i+1]) % 2 = 1
  BY <1>1, <1>3
<1>6. Bits(254) = 1..7
  BY <1>4 DEF Bits
<1>7. Bits(255) = 0..7
  BY <1>5 DEF Bits
<1> QED
  BY <1>2, <1>6, <1>7

(* The least of one number.                                                 *)
LEMMA MinOfOne == ASSUME NEW x \in Int PROVE Min({x}) = x
BY DEF Min

(* The EOI takes the only interrupt out of service, or does nothing.        *)
LEMMA EoiDone ==
  ASSUME NEW c \in Chip, NEW x \in Int, c.isr \subseteq {x}
  PROVE  /\ Control(c, 32) \in Chip
         /\ Control(c, 32) = [c EXCEPT !.isr = {}]
<1>1. Control(c, 32) = Eoi(c)
  BY BitsOfBytes DEF Control
<1>2. c.isr = {} \/ c.isr = {x}
  OBVIOUS
<1>3. Eoi(c) = [c EXCEPT !.isr = {}]
  <2>1. CASE c.isr = {}
    BY <2>1 DEF Eoi
  <2>2. CASE c.isr = {x}
    <3>1. c.isr \ (IF c.isr = {} THEN {} ELSE {Min(c.isr)}) = {}
      BY <2>2, MinOfOne
    <3> QED
      BY <3>1 DEF Eoi
  <2> QED
    BY <1>2, <2>1, <2>2
<1>4. [c EXCEPT !.isr = {}] \in Chip
  BY DEF Chip
<1> QED
  BY <1>1, <1>3, <1>4

(* What the words of the initialization do to a chip.                       *)
LEMMA FirstWord ==
  ASSUME NEW c \in Chip
  PROVE  /\ Control(c, 17) \in Chip
         /\ Control(c, 17).icw = 2 /\ Control(c, 17).isr = {}
BY BitsOfBytes DEF Control, Chip

(* ICW2: the vector base.                                                   *)
LEMMA SecondWord ==
  ASSUME NEW c \in Chip, c.icw = 2, NEW b \in {32, 40}
  PROVE  /\ Data(c, b) \in Chip
         /\ Data(c, b).icw = 3 /\ Data(c, b).base = b /\ Data(c, b).isr = c.isr
<1>1. Data(c, b) = [c EXCEPT !.icw = 3, !.base = b - (b % 8)]
  BY DEF Data
<1>2. b - (b % 8) = b /\ b \in 0..255
  OBVIOUS
<1> DEFINE d == [c EXCEPT !.icw = 3, !.base = b]
<1>3. Data(c, b) = d
  BY <1>1, <1>2
<1>4. d \in Chip /\ d.icw = 3 /\ d.base = b /\ d.isr = c.isr
  BY <1>2 DEF Chip
<1> HIDE DEF d
<1> QED
  BY <1>3, <1>4

(* ICW3: how the chips are connected.                                       *)
LEMMA ThirdWord ==
  ASSUME NEW c \in Chip, c.icw = 3, NEW b \in 0..255
  PROVE  /\ Data(c, b) \in Chip
         /\ Data(c, b).icw = 4 /\ Data(c, b).base = c.base /\ Data(c, b).isr = c.isr
<1> DEFINE d == [c EXCEPT !.icw = 4, !.link = b]
<1>1. c.icw # 2
  OBVIOUS
<1>2. Data(c, b) = d
  BY <1>1 DEF Data
<1>3. d \in Chip /\ d.icw = 4 /\ d.base = c.base /\ d.isr = c.isr
  BY DEF Chip
<1> HIDE DEF d
<1> QED
  BY <1>2, <1>3

(* ICW4.                                                                    *)
LEMMA FourthWord ==
  ASSUME NEW c \in Chip, c.icw = 4, NEW b
  PROVE  /\ Data(c, b) \in Chip
         /\ Data(c, b).icw = 0 /\ Data(c, b).base = c.base /\ Data(c, b).isr = c.isr
<1> DEFINE d == [c EXCEPT !.icw = 0]
<1>1. c.icw # 2 /\ c.icw # 3
  OBVIOUS
<1>2. Data(c, b) = d
  BY <1>1, Zenon DEF Data
<1>3. d \in Chip /\ d.icw = 0 /\ d.base = c.base /\ d.isr = c.isr
  BY DEF Chip
<1> HIDE DEF d
<1> QED
  BY <1>2, <1>3

(* OCW1: the mask.                                                          *)
LEMMA MaskWord ==
  ASSUME NEW c \in Chip, c.icw = 0, NEW b
  PROVE  /\ Data(c, b) \in Chip
         /\ Data(c, b).icw = 0 /\ Data(c, b).base = c.base /\ Data(c, b).isr = c.isr
         /\ Data(c, b).mask = Bits(b)
<1> DEFINE d == [c EXCEPT !.mask = Bits(b)]
<1>1. c.icw # 2 /\ c.icw # 3 /\ c.icw # 4
  OBVIOUS
<1>2. Data(c, b) = d
  BY <1>1, Zenon DEF Data
<1>3. Bits(b) \subseteq 0..7
  BY DEF Bits
<1>4. d \in Chip /\ d.icw = 0 /\ d.base = c.base /\ d.isr = c.isr /\ d.mask = Bits(b)
  BY <1>3 DEF Chip
<1> HIDE DEF d
<1> QED
  BY <1>2, <1>4

(* __initPic leaves a chip ready, nothing in service.                       *)
LEMMA ChipInitialized ==
  ASSUME NEW c \in Chip, NEW b \in {32, 40}, NEW l \in 0..255, NEW k
  PROVE  \E d \in Chip : /\ Initialized(c, b, l, k) = d
                         /\ d.icw = 0 /\ d.base = b /\ d.isr = {} /\ d.mask = Bits(k)
<1> DEFINE c1 == Control(c, 17)     c2 == Data(c1, b)    c3 == Data(c2, l)
           c4 == Data(c3, 1)        c5 == Data(c4, k)
<1>1. c1 \in Chip /\ c1.icw = 2 /\ c1.isr = {}
  BY FirstWord
<1> HIDE DEF c1
<1>2. c2 \in Chip /\ c2.icw = 3 /\ c2.isr = {} /\ c2.base = b
  BY <1>1, SecondWord
<1> HIDE DEF c2
<1>3. c3 \in Chip /\ c3.icw = 4 /\ c3.isr = {} /\ c3.base = b
  BY <1>2, ThirdWord
<1> HIDE DEF c3
<1>4. c4 \in Chip /\ c4.icw = 0 /\ c4.isr = {} /\ c4.base = b
  BY <1>3, FourthWord
<1> HIDE DEF c4
<1>5. /\ c5 \in Chip /\ c5.icw = 0 /\ c5.isr = {} /\ c5.base = b
      /\ c5.mask = Bits(k)
  BY <1>4, MaskWord
<1> HIDE DEF c5
<1>6. Initialized(c, b, l, k) = c5
  BY Zenon DEF Initialized, c1, c2, c3, c4, c5
<1> QED
  BY <1>5, <1>6

(* The master: only line 0 open.                                            *)
LEMMA MasterInitialized ==
  ASSUME NEW c \in Chip
  PROVE  \E d \in Chip : /\ Initialized(c, 32, 4, 254) = d
                         /\ d.icw = 0 /\ d.base = 32 /\ d.isr = {} /\ d.mask = Bits(254)
BY ChipInitialized

(* The slave: no line open.                                                 *)
LEMMA SlaveInitialized ==
  ASSUME NEW c \in Chip
  PROVE  \E d \in Chip : /\ Initialized(c, 40, 2, 255) = d
                         /\ d.icw = 0 /\ d.base = 40 /\ d.isr = {} /\ d.mask = Bits(255)
BY ChipInitialized

(* The end of interrupt leaves the chips as they were, nothing in service.  *)
LEMMA EoiSent ==
  ASSUME NEW p \in Pics, p.m.isr \subseteq {0}, p.s.isr = {}
  PROVE  /\ Sent(p) \in Pics /\ NothingServed(Sent(p))
         /\ Programmed(p) => Programmed(Sent(p))
<1>1. Control(p.m, 32) \in Chip /\ Control(p.m, 32) = [p.m EXCEPT !.isr = {}]
  BY EoiDone DEF Pics
<1>2. Control(p.s, 32) \in Chip /\ Control(p.s, 32) = [p.s EXCEPT !.isr = {}]
  BY EoiDone DEF Pics
<1>3. Sent(p).m = Control(p.m, 32) /\ Sent(p).s = Control(p.s, 32) /\ Sent(p) \in Pics
  BY <1>1, <1>2 DEF Sent, Pics
<1>4. /\ Sent(p).m.isr = {} /\ Sent(p).m.icw = p.m.icw /\ Sent(p).m.base = p.m.base
      /\ Sent(p).m.mask = p.m.mask
  BY <1>1, <1>3 DEF Pics, Chip
<1>5. Sent(p).s.isr = {} /\ Sent(p).s.icw = p.s.icw /\ Sent(p).s.mask = p.s.mask
  BY <1>2, <1>3 DEF Pics, Chip
<1> QED
  BY <1>3, <1>4, <1>5 DEF Programmed, NothingServed

(* The clock is the only line that gets through.                            *)
LEMMA OnlyTheClockAsks ==
  ASSUME NEW p \in Pics, Programmed(p), NothingServed(p), Asking(p) # {}
  PROVE  /\ Winner(p) = 0 /\ Vector(p, 0) = 32
         /\ Acknowledged(p, 0) \in Pics /\ Programmed(Acknowledged(p, 0))
         /\ Acknowledged(p, 0).m.isr = {0} /\ Acknowledged(p, 0).s.isr = {}
<1>1. Open(p.m) \subseteq {0}
  BY DEF Open, Programmed
<1>2. Cascade(p) = {}
  <2>1. Open(p.s) = {}
    BY DEF Open, Programmed
  <2> QED
    BY <2>1 DEF Cascade
<1>3. Asking(p) = {0}
  BY <1>1 DEF Asking
<1>4. Winner(p) = 0
  BY <1>2, <1>3, MinOfOne DEF Winner
<1>5. Vector(p, 0) = 32
  BY DEF Vector, Programmed
<1> DEFINE c1 == [p.m EXCEPT !.irr = p.m.irr \ {0}]
           c == [c1 EXCEPT !.isr = c1.isr \cup {0}]
<1>6. Acknowledged(p, 0) = [p EXCEPT !.m = c]
  <2>1. Acknowledged(p, 0) = [p EXCEPT !.m = InService(p.m, 0)]
    BY DEF Acknowledged
  <2>2. InService(p.m, 0) = c
    BY DEF InService, Pics, Chip
  <2> QED
    BY <2>1, <2>2
<1>7. c \in Chip /\ c.icw = p.m.icw /\ c.base = p.m.base /\ c.mask = p.m.mask /\ c.isr = {0}
  <2>1. /\ c1 \in Chip /\ c1.icw = p.m.icw /\ c1.base = p.m.base /\ c1.mask = p.m.mask
        /\ c1.isr = {}
    BY DEF Pics, Chip, NothingServed
  <2> HIDE DEF c1
  <2> QED
    BY <2>1 DEF Chip
<1> HIDE DEF c
<1>8. /\ Acknowledged(p, 0) \in Pics
      /\ Acknowledged(p, 0).m = c /\ Acknowledged(p, 0).s = p.s
  BY <1>6, <1>7 DEF Pics
<1> QED
  BY <1>4, <1>5, <1>7, <1>8 DEF Programmed, NothingServed

(* A request changes what is requested, and nothing else.                   *)
LEMMA RaisedOnly ==
  ASSUME NEW p \in Pics, NEW line \in 0..15
  PROVE  /\ Raised(p, line) \in Pics
         /\ NothingServed(p) => NothingServed(Raised(p, line))
         /\ Programmed(p) => Programmed(Raised(p, line))
<1>1. CASE line < 8
  <2> DEFINE c == [p.m EXCEPT !.irr = @ \cup {line}]
  <2>1. Raised(p, line) = [p EXCEPT !.m = c]
    BY <1>1 DEF Raised, Pics, Chip
  <2>2. /\ c \in Chip /\ c.icw = p.m.icw /\ c.base = p.m.base /\ c.mask = p.m.mask
        /\ c.isr = p.m.isr
    BY <1>1 DEF Pics, Chip
  <2> HIDE DEF c
  <2>3. /\ Raised(p, line) \in Pics /\ Raised(p, line).m = c /\ Raised(p, line).s = p.s
    BY <2>1, <2>2 DEF Pics
  <2> QED
    BY <2>2, <2>3 DEF Programmed, NothingServed
<1>2. CASE ~(line < 8)
  <2> DEFINE c == [p.s EXCEPT !.irr = @ \cup {line - 8}]
  <2>1. Raised(p, line) = [p EXCEPT !.s = c]
    BY <1>2 DEF Raised, Pics, Chip
  <2>2. c \in Chip /\ c.icw = p.s.icw /\ c.mask = p.s.mask /\ c.isr = p.s.isr
    BY <1>2 DEF Pics, Chip
  <2> HIDE DEF c
  <2>3. /\ Raised(p, line) \in Pics /\ Raised(p, line).m = p.m /\ Raised(p, line).s = c
    BY <2>1, <2>2 DEF Pics
  <2> QED
    BY <2>2, <2>3 DEF Programmed, NothingServed
<1> QED
  BY <1>1, <1>2

-----------------------------------------------------------------------------
(* The words of a stack.                                                   *)

Places == {"boot", "own", "timer", "general", "keyboard", "intrext", "timerReturn",
           "blockReturn", "thdKernel", "startProcess"}
Names == Places \cup General
  \cup {"K", "U", "video", "IF", "0", "scratch", "return", "cur", "next", "vector",
        "error", "esp", "arg", "unwritten"}

Word == {<<p>> : p \in Names} \cup {<<t, r>> : t \in Threads, r \in Names}
          \cup {<<t, r, "second">> : t \in Threads, r \in Names}

(* s without its first n words.                                             *)
Under(s, n) == SubSeq(s, n + 1, Len(s))

(* The words that the model names.                                          *)
LEMMA WordsNamed ==
  /\ \A p \in Names : <<p>> \in Word
  /\ {K, U, Video, On, Zero, Scratch} \subseteq Word
  /\ \A t \in Threads, r \in Names : <<t, r>> \in Word /\ <<t, r, "second">> \in Word
<1>1. \A p \in Names : <<p>> \in Word
  <2> SUFFICES ASSUME NEW p \in Names PROVE <<p>> \in Word
    OBVIOUS
  <2>1. <<p>> \in {<<q>> : q \in Names}
    OBVIOUS
  <2> QED
    BY <2>1 DEF Word
<1>2. {K, U, Video, On, Zero, Scratch} \subseteq Word
  <2>1. {"K", "U", "video", "IF", "0", "scratch"} \subseteq Names
    BY DEF Names
  <2>2. K \in Word /\ U \in Word /\ Video \in Word
    BY <1>1, <2>1 DEF K, U, Video
  <2>3. On \in Word /\ Zero \in Word /\ Scratch \in Word
    BY <1>1, <2>1 DEF On, Zero, Scratch
  <2> QED
    BY <2>2, <2>3
<1>3. \A t \in Threads, r \in Names : <<t, r>> \in Word
  <2> SUFFICES ASSUME NEW t \in Threads, NEW r \in Names PROVE <<t, r>> \in Word
    OBVIOUS
  <2>1. <<t, r>> \in {<<q, p>> : q \in Threads, p \in Names}
    OBVIOUS
  <2> QED
    BY <2>1 DEF Word
<1>4. \A t \in Threads, r \in Names : <<t, r, "second">> \in Word
  <2> SUFFICES ASSUME NEW t \in Threads, NEW r \in Names PROVE <<t, r, "second">> \in Word
    OBVIOUS
  <2>1. <<t, r, "second">> \in {<<q, p, "second">> : q \in Threads, p \in Names}
    OBVIOUS
  <2> QED
    BY <2>1 DEF Word
<1> QED
  BY <1>1, <1>2, <1>3, <1>4

(* What is pushed comes off again.                                          *)
LEMMA Pushed ==
  ASSUME NEW s \in Seq(Word), NEW b \in Seq(Word)
  PROVE  /\ s \o b \in Seq(Word) /\ Len(s \o b) = Len(s) + Len(b)
         /\ \A i \in 1..Len(s) : (s \o b)[i] = s[i]
         /\ Under(s \o b, Len(s)) = b
<1>1. /\ s \o b \in Seq(Word) /\ Len(s \o b) = Len(s) + Len(b)
      /\ \A i \in 1 .. Len(s) + Len(b) :
            (s \o b)[i] = IF i <= Len(s) THEN s[i] ELSE b[i - Len(s)]
  BY ConcatProperties
<1> DEFINE n == Len(s)  c == s \o b  u == Under(c, n)
<1>2. n \in Nat /\ Len(b) \in Nat
  BY LenProperties
<1>3. \A i \in n + 1 .. Len(c) : c[i] = b[i - n]
  BY <1>1, <1>2
<1>4. \A i \in n + 1 .. Len(c) : c[i] \in Word
  BY <1>1, <1>2, ElementOfSeq
<1> HIDE DEF c
<1>5. /\ u \in Seq(Word) /\ Len(u) = IF n + 1 <= Len(c) THEN Len(c) - (n + 1) + 1 ELSE 0
      /\ \A i \in 1 .. Len(c) - (n + 1) + 1 : u[i] = c[(n + 1) + i - 1]
  <2>1. n + 1 \in Int /\ Len(c) \in Int
    BY <1>1, <1>2 DEF c
  <2> HIDE DEF n
  <2> QED
    BY <1>4, <2>1, SubSeqProperties DEF Under
<1>6. Len(c) = n + Len(b)
  BY <1>1 DEF c
<1> HIDE DEF n, u
<1>7. Len(u) = Len(b)
  BY <1>2, <1>5, <1>6
<1>8. \A i \in 1 .. Len(u) : u[i] = b[i]
  <2> SUFFICES ASSUME NEW i \in 1 .. Len(u) PROVE u[i] = b[i]
    OBVIOUS
  <2>1. i \in 1 .. Len(c) - (n + 1) + 1 /\ n + i \in n + 1 .. Len(c)
    BY <1>2, <1>6, <1>7
  <2>2. u[i] = c[n + i]
    <3>1. (n + 1) + i - 1 = n + i
      BY <1>2, <2>1
    <3> QED
      BY <1>5, <2>1, <3>1
  <2>3. c[n + i] = b[(n + i) - n] /\ (n + i) - n = i
    BY <1>2, <1>3, <2>1
  <2> QED
    BY <2>2, <2>3
<1>9. u = b
  BY <1>5, <1>7, <1>8, SeqEqual
<1> QED
  BY <1>1, <1>2, <1>9 DEF c, n, u

(* Words under words.                                                       *)
LEMMA UnderIs ==
  ASSUME NEW s \in Seq(Word), NEW n \in Nat, n <= Len(s)
  PROVE  /\ Under(s, n) \in Seq(Word) /\ Len(Under(s, n)) = Len(s) - n
         /\ \A i \in 1 .. Len(s) - n : Under(s, n)[i] = s[n + i]
<1>1. Len(s) \in Nat
  BY LenProperties
<1>2. \A i \in n + 1 .. Len(s) : s[i] \in Word
  BY <1>1, ElementOfSeq
<1> DEFINE u == Under(s, n)
<1>3. /\ u \in Seq(Word) /\ Len(u) = IF n + 1 <= Len(s) THEN Len(s) - (n + 1) + 1 ELSE 0
      /\ \A i \in 1 .. Len(s) - (n + 1) + 1 : u[i] = s[(n + 1) + i - 1]
  <2>1. n + 1 \in Int /\ Len(s) \in Int
    BY <1>1
  <2> QED
    BY <1>2, <2>1, SubSeqProperties DEF Under
<1> HIDE DEF u
<1>4. Len(u) = Len(s) - n /\ Len(s) - (n + 1) + 1 = Len(s) - n
  BY <1>1, <1>3
<1>5. \A i \in 1 .. Len(s) - n : u[i] = s[n + i]
  BY <1>1, <1>3, <1>4
<1> QED
  BY <1>3, <1>4, <1>5 DEF u

(* Taking words off twice.                                                  *)
LEMMA UnderUnder ==
  ASSUME NEW s \in Seq(Word), NEW m \in Nat, NEW n \in Nat, m + n <= Len(s)
  PROVE  Under(Under(s, m), n) = Under(s, m + n)
<1>0. Len(s) \in Nat
  BY LenProperties
<1> DEFINE u == Under(s, m)  v == Under(u, n)  w == Under(s, m + n)
<1>1. /\ u \in Seq(Word) /\ Len(u) = Len(s) - m
      /\ \A i \in 1 .. Len(s) - m : u[i] = s[m + i]
  <2>1. m <= Len(s)
    BY <1>0
  <2> QED
    BY <2>1, UnderIs, Zenon
<1> HIDE DEF u
<1>2. /\ v \in Seq(Word) /\ Len(v) = Len(u) - n
      /\ \A i \in 1 .. Len(u) - n : v[i] = u[n + i]
  <2>1. n <= Len(u)
    BY <1>0, <1>1
  <2>2. u \in Seq(Word) /\ n \in Nat
    BY <1>1
  <2> QED
    BY <2>1, <2>2, UnderIs
<1>3. /\ w \in Seq(Word) /\ Len(w) = Len(s) - (m + n)
      /\ \A i \in 1 .. Len(s) - (m + n) : w[i] = s[(m + n) + i]
  <2> DEFINE k == m + n
  <2>1. k \in Nat /\ k <= Len(s)
    OBVIOUS
  <2> HIDE DEF k
  <2>2. /\ Under(s, k) \in Seq(Word) /\ Len(Under(s, k)) = Len(s) - k
        /\ \A i \in 1 .. Len(s) - k : Under(s, k)[i] = s[k + i]
    BY <2>1, UnderIs, Zenon
  <2> QED
    BY <2>2, Zenon DEF k
<1> HIDE DEF v, w
<1>4. Len(v) = Len(w)
  BY <1>0, <1>1, <1>2, <1>3
<1>5. \A i \in 1 .. Len(v) : v[i] = w[i]
  <2> SUFFICES ASSUME NEW i \in 1 .. Len(v) PROVE v[i] = w[i]
    OBVIOUS
  <2>1. v[i] = u[n + i] /\ n + i \in 1 .. Len(s) - m
    BY <1>0, <1>1, <1>2
  <2>2. u[n + i] = s[m + (n + i)]
    BY <1>1, <2>1
  <2>3. w[i] = s[(m + n) + i]
    BY <1>3, <1>4
  <2>4. m + (n + i) = (m + n) + i
    BY <2>1
  <2> QED
    BY <2>1, <2>2, <2>3, <2>4
<1> QED
  BY <1>2, <1>3, <1>4, <1>5, SeqEqual DEF u, v, w

(* Everything is under nothing.                                             *)
LEMMA UnderNothing ==
  ASSUME NEW s \in Seq(Word)
  PROVE  Under(s, Len(s)) = <<>>
<1>1. Len(s) \in Nat
  BY LenProperties
<1> QED
  BY <1>1, SubSeqEmpty DEF Under

-----------------------------------------------------------------------------
(* The words that an interrupt leaves on the stack.                        *)

(* Where a register lies in them, and all that __intrext takes from there.  *)
Place(r) == CHOOSE i \in 1..17 : PopOrder[i] = r
Popped(s) == [r \in Registers |-> s[Place(r)]]
FrameLen(s) == IF s[16] = U THEN 19 ELSE 17
Framed(s) == Len(s) >= 17 /\ Len(s) >= FrameLen(s)
Below(s) == Under(s, FrameLen(s))

(* Words that tell modes apart.                                             *)
LEMMA Distinct ==
  /\ K # U /\ On # Zero /\ K # Video /\ Zero # Video
BY DEF K, U, On, Zero, Video

(* Where __intrext looks for each register.                                 *)
LEMMA PlacesFound ==
  /\ Place("edi") = 2 /\ Place("esi") = 3 /\ Place("ebp") = 4 /\ Place("ebx") = 6
  /\ Place("edx") = 7 /\ Place("ecx") = 8 /\ Place("eax") = 9 /\ Place("gs") = 10
  /\ Place("fs") = 11 /\ Place("es") = 12 /\ Place("ds") = 13 /\ Place("eip") = 15
  /\ Place("cs") = 16 /\ Place("eflags") = 17
<1> DEFINE P == PopOrder
<1>1. /\ P[1] = "vecNo" /\ P[2] = "edi" /\ P[3] = "esi" /\ P[4] = "ebp" /\ P[5] = "espDummy"
      /\ P[6] = "ebx" /\ P[7] = "edx" /\ P[8] = "ecx" /\ P[9] = "eax" /\ P[10] = "gs"
      /\ P[11] = "fs" /\ P[12] = "es" /\ P[13] = "ds" /\ P[14] = "err_code"
      /\ P[15] = "eip" /\ P[16] = "cs" /\ P[17] = "eflags"
  BY DEF PopOrder
<1> HIDE DEF P
<1>2. \A i \in 1..17 : i \in {1, 2, 3, 4, 5, 6, 7, 8, 9, 10, 11, 12, 13, 14, 15, 16, 17}
  OBVIOUS
<1>3. \A i \in 1..17 : /\ P[i] = "edi" <=> i = 2
                       /\ P[i] = "esi" <=> i = 3
                       /\ P[i] = "ebp" <=> i = 4
                       /\ P[i] = "ebx" <=> i = 6
                       /\ P[i] = "edx" <=> i = 7
                       /\ P[i] = "ecx" <=> i = 8
                       /\ P[i] = "eax" <=> i = 9
  BY <1>1, <1>2
<1>4. \A i \in 1..17 : /\ P[i] = "gs" <=> i = 10
                       /\ P[i] = "fs" <=> i = 11
                       /\ P[i] = "es" <=> i = 12
                       /\ P[i] = "ds" <=> i = 13
                       /\ P[i] = "eip" <=> i = 15
                       /\ P[i] = "cs" <=> i = 16
                       /\ P[i] = "eflags" <=> i = 17
  BY <1>1, <1>2
<1>5. ASSUME NEW n \in 1..17, NEW r, \A i \in 1..17 : P[i] = r <=> i = n
      PROVE  Place(r) = n
  BY <1>5 DEF Place, P
<1> QED
  BY <1>3, <1>4, <1>5

(* The three words that it skips are no register's.                         *)
LEMMA PlacesAre == \A r \in Registers : Place(r) \in 1..17 /\ Place(r) \notin {1, 5, 14}
BY PlacesFound DEF Registers, General, Segments

(* What __intrext loads.                                                    *)
LEMMA PoppedIsLoaded ==
  ASSUME NEW s
  PROVE  LET popped == [r \in Range(PopOrder) |->
                          s[CHOOSE i \in 1..17 : PopOrder[i] = r]]
         IN With(popped) = Popped(s) /\ popped["cs"] = Popped(s)["cs"]
<1>1. Registers \subseteq Range(PopOrder)
  BY DEF Registers, General, Segments, Range, PopOrder
<1>2. "cs" \in Registers
  BY DEF Registers
<1> QED
  BY <1>1, <1>2 DEF With, Popped, Place

(* Vectors of which the stub and the processor agree.                       *)
Agreed == {vec \in 0..47 : vec \in CpuErrorCode <=> vec \in StubKnows}

(* One word lies between the registers and the return address.              *)
LEMMA OneErrorCode ==
  ASSUME NEW vec \in Agreed
  PROVE  \E w \in Word : ErrorCode(vec) = <<w>>
<1>1. <<"error">> \in Word /\ Zero \in Word
  BY WordsNamed DEF Names
<1>2. CASE vec \in CpuErrorCode
  <2>1. ErrorCode(vec) = <<>> \o << <<"error">> >>
    BY <1>2 DEF ErrorCode, Agreed
  <2>2. << <<"error">> >> \in Seq(Word)
    BY <1>1
  <2>3. <<>> \o << <<"error">> >> = << <<"error">> >>
    BY <2>2, ConcatEmptySeq
  <2> QED
    BY <1>1, <2>1, <2>3
<1>3. CASE vec \notin CpuErrorCode
  <2>1. ErrorCode(vec) = <<Zero>> \o <<>>
    BY <1>3 DEF ErrorCode, Agreed
  <2>2. <<Zero>> \in Seq(Word)
    BY <1>1
  <2>3. <<Zero>> \o <<>> = <<Zero>>
    BY <2>2, ConcatEmptySeq
  <2> QED
    BY <1>1, <2>1, <2>3
<1> QED
  BY <1>2, <1>3

(* The twelve registers that the stub pushes, and where __intrext looks for *)
(* them.                                                                    *)
LEMMA TwelvePushed ==
  ASSUME regs \in [Registers -> Word],
         NEW a, a = [i \in 1..12 |-> IF SaveOrder[i] = "esp" THEN <<"esp">>
                                     ELSE regs[SaveOrder[i]]]
  PROVE  /\ a \in Seq(Word) /\ Len(a) = 12
         /\ \A r \in General \cup Segments : a[Place(r) - 1] = regs[r]
<1>1. \A i \in 1..12 : i \in {1, 2, 3, 4, 5, 6, 7, 8, 9, 10, 11, 12}
  OBVIOUS
<1>2. /\ SaveOrder[1] = "edi" /\ SaveOrder[2] = "esi" /\ SaveOrder[3] = "ebp"
      /\ SaveOrder[4] = "esp" /\ SaveOrder[5] = "ebx" /\ SaveOrder[6] = "edx"
      /\ SaveOrder[7] = "ecx" /\ SaveOrder[8] = "eax" /\ SaveOrder[9] = "gs"
      /\ SaveOrder[10] = "fs" /\ SaveOrder[11] = "es" /\ SaveOrder[12] = "ds"
  BY DEF SaveOrder
<1>3. /\ a[1] = regs["edi"] /\ a[2] = regs["esi"] /\ a[3] = regs["ebp"]
      /\ a[4] = <<"esp">> /\ a[5] = regs["ebx"] /\ a[6] = regs["edx"]
      /\ a[7] = regs["ecx"] /\ a[8] = regs["eax"] /\ a[9] = regs["gs"]
      /\ a[10] = regs["fs"] /\ a[11] = regs["es"] /\ a[12] = regs["ds"]
  BY <1>2
<1>4. <<"esp">> \in Word /\ \A r \in General \cup Segments : regs[r] \in Word
  BY WordsNamed DEF Names, Registers
<1>5. \A i \in 1..12 : a[i] \in Word
  BY <1>1, <1>3, <1>4 DEF General, Segments
<1>6. a \in [1..12 -> Word]
  BY <1>5
<1>7. a \in Seq(Word) /\ Len(a) = 12
  BY <1>6
<1>8. \A r \in General : a[Place(r) - 1] = regs[r]
  BY <1>3, PlacesFound DEF General
<1>9. \A r \in Segments : a[Place(r) - 1] = regs[r]
  BY <1>3, PlacesFound DEF Segments
<1> QED
  BY <1>7, <1>8, <1>9

(* What is pushed in two parts.                                             *)
LEMMA Joined ==
  ASSUME NEW s \in Seq(Word), NEW b \in Seq(Word)
  PROVE  /\ s \o b \in Seq(Word) /\ Len(s \o b) = Len(s) + Len(b)
         /\ \A i \in 1..Len(s) : (s \o b)[i] = s[i]
         /\ \A i \in 1..Len(b) : (s \o b)[Len(s) + i] = b[i]
<1>0. Len(s) \in Nat /\ Len(b) \in Nat
  BY LenProperties
<1>1. /\ s \o b \in Seq(Word) /\ Len(s \o b) = Len(s) + Len(b)
      /\ \A i \in 1 .. Len(s) + Len(b) :
           (s \o b)[i] = IF i <= Len(s) THEN s[i] ELSE b[i - Len(s)]
  BY ConcatProperties
<1>2. \A i \in 1..Len(s) : (s \o b)[i] = s[i]
  BY <1>0, <1>1
<1>3. \A i \in 1..Len(b) : (s \o b)[Len(s) + i] = b[i]
  <2> SUFFICES ASSUME NEW i \in 1..Len(b) PROVE (s \o b)[Len(s) + i] = b[i]
    OBVIOUS
  <2>1. /\ Len(s) + i \in 1 .. Len(s) + Len(b) /\ ~(Len(s) + i <= Len(s))
        /\ (Len(s) + i) - Len(s) = i
    BY <1>0
  <2> QED
    BY <1>1, <2>1
<1> QED
  BY <1>1, <1>2, <1>3

(* What the entry pushes is what the exit looks for.                        *)
LEMMA SavedIs ==
  ASSUME regs \in [Registers -> Word], NEW vec \in Agreed
  PROVE  /\ Saved(vec) \in Seq(Word)
         /\ Len(Saved(vec)) = IF regs["cs"] = U THEN 19 ELSE 17
         /\ \A r \in Registers : Saved(vec)[Place(r)] = regs[r]
<1> DEFINE a0 == << <<"vector">> >>
           a1 == [i \in 1..12 |-> IF SaveOrder[i] = "esp" THEN <<"esp">>
                                  ELSE regs[SaveOrder[i]]]
           a3 == <<regs["eip"], regs["cs"], regs["eflags"]>>
           a4 == Ring3Stack(regs["cs"])
           b1 == a0 \o a1
<1>0. /\ regs["eip"] \in Word /\ regs["cs"] \in Word /\ regs["eflags"] \in Word
      /\ <<"vector">> \in Word /\ <<"esp">> \in Word /\ U \in Word
  BY WordsNamed DEF Registers, Names
<1>1. PICK w \in Word : ErrorCode(vec) = <<w>>
  BY OneErrorCode
<1> DEFINE a2 == <<w>>   b2 == b1 \o a2   b3 == b2 \o a3   b4 == b3 \o a4
<1>2. a0 \in Seq(Word) /\ Len(a0) = 1
  BY <1>0
<1>3. /\ a1 \in Seq(Word) /\ Len(a1) = 12
      /\ \A r \in General \cup Segments : a1[Place(r) - 1] = regs[r]
  BY TwelvePushed
<1>4. a2 \in Seq(Word) /\ Len(a2) = 1
  BY <1>1
<1>5. /\ a3 \in Seq(Word) /\ Len(a3) = 3
      /\ a3[1] = regs["eip"] /\ a3[2] = regs["cs"] /\ a3[3] = regs["eflags"]
  BY <1>0
<1>6. a4 \in Seq(Word) /\ Len(a4) = IF regs["cs"] = U THEN 2 ELSE 0
  <2>1. CASE regs["cs"] = U
    <3>1. a4 = << <<"esp">>, U >>
      BY <2>1 DEF Ring3Stack
    <3>2. << <<"esp">>, U >> \in Seq(Word) /\ Len(<< <<"esp">>, U >>) = 2
      BY <1>0
    <3> QED
      BY <2>1, <3>1, <3>2
  <2>2. CASE regs["cs"] # U
    <3>1. a4 = <<>>
      BY <2>2 DEF Ring3Stack
    <3> QED
      BY <2>2, <3>1, EmptySeq
  <2> QED
    BY <2>1, <2>2
<1>7. Saved(vec) = b4
  BY <1>1, Zenon DEF Saved
<1> HIDE DEF a0, a1, a2, a3, a4
<1>8. /\ b1 \in Seq(Word) /\ Len(b1) = 13
      /\ \A i \in 1..12 : b1[1 + i] = a1[i]
  <2>1. /\ b1 \in Seq(Word) /\ Len(b1) = Len(a0) + Len(a1)
        /\ \A i \in 1..Len(a0) : b1[i] = a0[i]
        /\ \A i \in 1..Len(a1) : b1[Len(a0) + i] = a1[i]
    BY <1>2, <1>3, Joined
  <2> HIDE DEF b1
  <2> QED
    BY <1>2, <1>3, <2>1
<1> HIDE DEF b1
<1>9. /\ b2 \in Seq(Word) /\ Len(b2) = 14
      /\ \A i \in 1..13 : b2[i] = b1[i]
  <2>1. /\ b2 \in Seq(Word) /\ Len(b2) = Len(b1) + Len(a2)
        /\ \A i \in 1..Len(b1) : b2[i] = b1[i]
        /\ \A i \in 1..Len(a2) : b2[Len(b1) + i] = a2[i]
    BY <1>4, <1>8, Joined
  <2> HIDE DEF b2
  <2> QED
    BY <1>4, <1>8, <2>1
<1> HIDE DEF b2
<1>10. /\ b3 \in Seq(Word) /\ Len(b3) = 17
       /\ \A i \in 1..14 : b3[i] = b2[i]
       /\ \A i \in 1..3 : b3[14 + i] = a3[i]
  <2>1. /\ b3 \in Seq(Word) /\ Len(b3) = Len(b2) + Len(a3)
        /\ \A i \in 1..Len(b2) : b3[i] = b2[i]
        /\ \A i \in 1..Len(a3) : b3[Len(b2) + i] = a3[i]
    BY <1>5, <1>9, Joined
  <2> HIDE DEF b3
  <2> QED
    BY <1>5, <1>9, <2>1
<1> HIDE DEF b3
<1>11. /\ b4 \in Seq(Word) /\ Len(b4) = IF regs["cs"] = U THEN 19 ELSE 17
       /\ \A i \in 1..17 : b4[i] = b3[i]
  <2>1. /\ b4 \in Seq(Word) /\ Len(b4) = Len(b3) + Len(a4)
        /\ \A i \in 1..Len(b3) : b4[i] = b3[i]
        /\ \A i \in 1..Len(a4) : b4[Len(b3) + i] = a4[i]
    BY <1>6, <1>10, Joined
  <2> HIDE DEF b4
  <2> QED
    BY <1>6, <1>10, <2>1
<1> HIDE DEF b4
<1>12. \A i \in 2..13 : b4[i] = a1[i - 1]
  <2> SUFFICES ASSUME NEW i \in 2..13 PROVE b4[i] = a1[i - 1]
    OBVIOUS
  <2>0. i \in 1..13 /\ i \in 1..14 /\ i \in 1..17
    OBVIOUS
  <2>1. b4[i] = b3[i] /\ b3[i] = b2[i] /\ b2[i] = b1[i]
    BY <2>0, <1>9, <1>10, <1>11
  <2>2. i - 1 \in 1..12 /\ 1 + (i - 1) = i
    OBVIOUS
  <2>3. b1[1 + (i - 1)] = a1[i - 1]
    BY <1>8, <2>2
  <2> QED
    BY <2>1, <2>2, <2>3
<1>13. b4[15] = regs["eip"] /\ b4[16] = regs["cs"] /\ b4[17] = regs["eflags"]
  <2>1. b4[15] = b3[14 + 1] /\ b4[16] = b3[14 + 2] /\ b4[17] = b3[14 + 3]
    BY <1>11
  <2>2. b3[14 + 1] = a3[1] /\ b3[14 + 2] = a3[2] /\ b3[14 + 3] = a3[3]
    BY <1>10
  <2> QED
    BY <1>5, <2>1, <2>2
<1>14. \A r \in General \cup Segments : Place(r) \in 2..13
  BY PlacesFound DEF General, Segments
<1>15. \A r \in General \cup Segments : b4[Place(r)] = regs[r]
  BY <1>3, <1>12, <1>14
<1>16. \A r \in {"eip", "cs", "eflags"} : b4[Place(r)] = regs[r]
  BY <1>13, PlacesFound
<1> QED
  BY <1>7, <1>11, <1>15, <1>16 DEF Registers

(* The frame of an interrupt, taken off again.                              *)
LEMMA FrameOnTop ==
  ASSUME regs \in [Registers -> Word], NEW vec \in Agreed, NEW b \in Seq(Word)
  PROVE  LET s == Saved(vec) \o b
         IN s \in Seq(Word) /\ Framed(s) /\ Popped(s) = regs /\ Below(s) = b
<1> DEFINE f == Saved(vec)  s == f \o b
<1>1. /\ f \in Seq(Word) /\ Len(f) = IF regs["cs"] = U THEN 19 ELSE 17
      /\ \A r \in Registers : f[Place(r)] = regs[r]
  BY SavedIs
<1> HIDE DEF f
<1>2. /\ s \in Seq(Word) /\ Len(s) = Len(f) + Len(b)
      /\ \A i \in 1..Len(f) : s[i] = f[i]
      /\ Under(s, Len(f)) = b
  BY <1>1, Pushed
<1> HIDE DEF s
<1>3. Len(b) \in Nat
  BY LenProperties
<1>4. \A r \in Registers : s[Place(r)] = regs[r]
  <2>0. Len(f) \in Nat /\ 17 <= Len(f)
    BY <1>1
  <2>1. \A r \in Registers : Place(r) \in 1..Len(f)
    <3> SUFFICES ASSUME NEW r \in Registers PROVE Place(r) \in 1..Len(f)
      OBVIOUS
    <3>1. Place(r) \in 1..17
      BY PlacesAre
    <3> QED
      BY <2>0, <3>1
  <2> QED
    BY <1>1, <1>2, <2>1
<1>5. s[16] = regs["cs"]
  BY <1>4, PlacesFound DEF Registers
<1>6. FrameLen(s) = Len(f)
  BY <1>1, <1>5 DEF FrameLen
<1>7. Framed(s) /\ Below(s) = b
  BY <1>1, <1>2, <1>3, <1>6 DEF Framed, Below
<1>8. Popped(s) = regs
  BY <1>4 DEF Popped
<1> QED
  BY <1>2, <1>7, <1>8 DEF s, f

-----------------------------------------------------------------------------
(* What a thread has in its registers c and on its stack b, by where it is; *)
(* k is its phase.                                                          *)

Selectors(c) == \A r \in {"ds", "es", "fs"} : c[r] \in {K, U}

(* What lies under everything on the stack of a thread's own code.          *)
Bottom(t) == IF t \in Procs \cup {Main} THEN <<>>
             ELSE << <<"return">>, <<t, "arg">>, Zero, <<"own">>, <<t, "arg">> >>

ProcFrame == [i \in 1..19 |-> procStack[IntrStackOrder[i]]]

(* It is in its own code: a process in ring 3, or a thread of ring 0.       *)
InRing3(t, k, c) ==
  /\ t \in Procs /\ k > 0 /\ c["cs"] = U /\ c["gs"] = Zero /\ c["eflags"] = On
  /\ c["ds"] = U /\ c["es"] = U /\ c["fs"] = U
InRing0(t, k, c) ==
  /\ t \notin Procs /\ c["cs"] = K /\ c["eflags"] \in {On, Zero}
  /\ k = 3 => c["gs"] = Video /\ c["eflags"] = On
OwnCode(t, k, c, b) ==
  /\ c["eip"] = <<"own">> /\ b = Bottom(t) /\ (InRing3(t, k, c) \/ InRing0(t, k, c))
  /\ k > 0 => \A r \in General : c[r] = Own(t, k)[r]

(* It is on its way to ring 3 for the first time.                           *)
Starting(t, k, c, b) ==
  /\ t \in Procs /\ c["cs"] = K /\ c["eflags"] = On
  /\ \/ c["eip"] = <<"startProcess">> /\ k = 0
     \/ c["eip"] = <<"intrext">> /\ k = 1 /\ b = ProcFrame

Runs(t, k, c, b) == Selectors(c) /\ (OwnCode(t, k, c, b) \/ Starting(t, k, c, b))

Interrupted(t, k, s) == Framed(s) /\ Runs(t, k, Popped(s), Below(s))

(* It is in a handler, which has interrupted that.                          *)
InHandler(c) == Selectors(c) /\ c["cs"] = K /\ c["eflags"] = Zero
Handles(t, k, c, b) ==
  /\ InHandler(c) /\ Interrupted(t, k, b)
  /\ c["eip"] \in {<<"timer">>, <<"general">>, <<"keyboard">>, <<"intrext">>}

(* It handles an exception of the clock's handler.                          *)
HandlesNested(t, k, c, b) ==
  /\ InHandler(c) /\ c["eip"] \in {<<"general">>, <<"intrext">>}
  /\ Framed(b) /\ Handles(t, k, Popped(b), Below(b)) /\ Popped(b)["eip"] = <<"timer">>

(* __switchTo has just come back to it.                                     *)
AfterTimer(t, k, s) == Interrupted(t, k, s) /\ (t \in Procs => k > 0)
AfterBlock(t, k, s) == s = Bottom(t) /\ t \notin Procs /\ k # 3
Resumed(t, k, c, b) ==
  /\ InHandler(c)
  /\ \/ c["eip"] = <<"timerReturn">> /\ Len(b) >= 2 /\ AfterTimer(t, k, Under(b, 2))
     \/ c["eip"] = <<"thdKernel">> /\ b = Under(createThread(t), 5) /\ t # Main /\ k = 0
     \/ /\ c["eip"] = <<"blockReturn">> /\ Len(b) >= 2 /\ AfterBlock(t, k, Under(b, 2))
        /\ k > 0 => \A r \in CalleeSaved : c[r] = Own(t, k)[r]

Proceeds(t, k, c, b) ==
  Runs(t, k, c, b) \/ Handles(t, k, c, b) \/ HandlesNested(t, k, c, b) \/ Resumed(t, k, c, b)

(* It is switched off, and this is what __switchTo finds on its stack.      *)
Waits(t, k, s) ==
  \/ s = createThread(t) /\ t # Main /\ k = 0
  \/ Len(s) >= 7 /\ s[5] = <<"timerReturn">> /\ AfterTimer(t, k, Under(s, 7))
  \/ /\ Len(s) >= 7 /\ s[5] = <<"blockReturn">> /\ AfterBlock(t, k, Under(s, 7))
     /\ k > 0 => /\ s[1] = Own(t, k)["ebp"] /\ s[2] = Own(t, k)["ebx"]
                 /\ s[3] = Own(t, k)["edi"] /\ s[4] = Own(t, k)["esi"]

-----------------------------------------------------------------------------
(* The inductive invariant.                                                *)

Types ==
  /\ boot \in 0..7 /\ pic \in Pics /\ memPages \in MemSizes \cup {0}
  /\ hdlr \in [0..47 -> {"none", "general", "timer", "keyboard"}]
  /\ cur \in Threads /\ phase \in [Threads -> 0..3]
  /\ regs \in [Registers -> Word] /\ stack \in [Threads -> Seq(Word)]

(* Nothing is in service, and what the boot has registered stays.           *)
Served == {<<"none", "none">>, <<"clock", "timer">>, <<"spurious", "general">>,
           <<"exception", "general">>}
Controllers ==
  /\ NothingServed(pic) /\ <<served.line, served.by>> \in Served
  /\ boot >= 1 => Programmed(pic) /\ \A v \in 0..31 \cup {39} : hdlr[v] = "general"
  /\ boot >= 2 => hdlr[32] = "timer"

(* main() boots on its stack, with IF clear, and nothing else runs.         *)
Boots ==
  /\ boot < 7 /\ At("boot") /\ cur = Main /\ InHandler(regs)
  /\ phase = [t \in Threads |-> 0]
  /\ stack = [t \in Threads |-> IF t = Main \/ boot < 6 THEN <<>> ELSE createThread(t)]

(* The threads run: one proceeds, the others wait.                          *)
Running ==
  /\ boot = 7 /\ Proceeds(cur, phase[cur], regs, stack[cur])
  /\ \A t \in Threads \ {cur} : Waits(t, phase[t], stack[t])

Flow == Boots \/ Running

InterruptInv == Types /\ Controllers /\ Flow

-----------------------------------------------------------------------------
(* Steps of the processor.                                                 *)

(* What With loads.                                                         *)
LEMMA WithIs ==
  ASSUME NEW new
  PROVE  /\ \A r \in Registers :
              With(new)[r] = IF r \in DOMAIN new THEN new[r] ELSE regs[r]
         /\ (/\ regs \in [Registers -> Word]
             /\ \A r \in Registers : r \in DOMAIN new => new[r] \in Word)
              => With(new) \in [Registers -> Word]
<1>1. \A r \in Registers : With(new)[r] = IF r \in DOMAIN new THEN new[r] ELSE regs[r]
  BY DEF With
<1>2. ASSUME regs \in [Registers -> Word],
             \A r \in Registers : r \in DOMAIN new => new[r] \in Word
      PROVE  With(new) \in [Registers -> Word]
  BY <1>2 DEF With
<1> QED
  BY <1>1, <1>2

(* Which of its places a thread is at.                                      *)
LEMMA Modes ==
  ASSUME NEW t, NEW k, NEW c, NEW b, Proceeds(t, k, c, b)
  PROVE  /\ c["eip"] # <<"boot">>
         /\ c["eip"] = <<"own">> => Selectors(c) /\ OwnCode(t, k, c, b)
         /\ c["eip"] = <<"startProcess">> =>
              Selectors(c) /\ t \in Procs /\ k = 0 /\ c["cs"] = K /\ c["eflags"] = On
         /\ c["eip"] = <<"timer">> => Handles(t, k, c, b)
         /\ c["eip"] \in {<<"general">>, <<"keyboard">>} =>
              Handles(t, k, c, b) \/ HandlesNested(t, k, c, b)
         /\ c["eip"] = <<"intrext">> =>
              \/ Handles(t, k, c, b) \/ HandlesNested(t, k, c, b)
              \/ /\ t \in Procs /\ k = 1 /\ b = ProcFrame
                 /\ Selectors(c) /\ c["cs"] = K /\ c["eflags"] = On
         /\ c["eip"] = <<"timerReturn">> =>
              InHandler(c) /\ Len(b) >= 2 /\ AfterTimer(t, k, Under(b, 2))
         /\ c["eip"] = <<"thdKernel">> =>
              InHandler(c) /\ b = Under(createThread(t), 5) /\ t # Main /\ k = 0
         /\ c["eip"] = <<"blockReturn">> =>
              /\ InHandler(c) /\ Len(b) >= 2 /\ AfterBlock(t, k, Under(b, 2))
              /\ k > 0 => \A r \in CalleeSaved : c[r] = Own(t, k)[r]
         /\ c["eflags"] = On => Runs(t, k, c, b)
<1> DEFINE e == c["eip"]
<1>1. ASSUME Runs(t, k, c, b)
      PROVE  \/ e = <<"own">> /\ Selectors(c) /\ OwnCode(t, k, c, b)
             \/ /\ e = <<"startProcess">> /\ Selectors(c) /\ t \in Procs /\ k = 0
                /\ c["cs"] = K /\ c["eflags"] = On
             \/ /\ e = <<"intrext">> /\ t \in Procs /\ k = 1 /\ b = ProcFrame
                /\ Selectors(c) /\ c["cs"] = K /\ c["eflags"] = On
  BY <1>1 DEF Runs, OwnCode, Starting
<1>2. ASSUME Handles(t, k, c, b)
      PROVE  e \in {<<"timer">>, <<"general">>, <<"keyboard">>, <<"intrext">>}
             /\ c["eflags"] = Zero
  BY <1>2 DEF Handles, InHandler
<1>3. ASSUME HandlesNested(t, k, c, b)
      PROVE  e \in {<<"general">>, <<"intrext">>} /\ c["eflags"] = Zero
  BY <1>3 DEF HandlesNested, InHandler
<1>4. ASSUME Resumed(t, k, c, b)
      PROVE  /\ c["eflags"] = Zero /\ InHandler(c)
             /\ \/ /\ e = <<"timerReturn">> /\ Len(b) >= 2
                   /\ AfterTimer(t, k, Under(b, 2))
                \/ /\ e = <<"thdKernel">> /\ b = Under(createThread(t), 5) /\ t # Main
                   /\ k = 0
                \/ /\ e = <<"blockReturn">> /\ Len(b) >= 2 /\ AfterBlock(t, k, Under(b, 2))
                   /\ k > 0 => \A r \in CalleeSaved : c[r] = Own(t, k)[r]
  BY <1>4 DEF Resumed, InHandler
<1> HIDE DEF e
<1>5. CASE Runs(t, k, c, b)
  BY <1>1, <1>5 DEF e
<1>6. CASE Handles(t, k, c, b)
  BY <1>2, <1>6, Distinct DEF e
<1>7. CASE HandlesNested(t, k, c, b)
  BY <1>3, <1>7, Distinct DEF e
<1>8. CASE Resumed(t, k, c, b)
  BY <1>4, <1>8, Distinct DEF e
<1> QED
  BY <1>5, <1>6, <1>7, <1>8 DEF Proceeds

(* What ++ puts together.                                                   *)
LEMMA Together ==
  ASSUME NEW f, NEW g
  PROVE  /\ DOMAIN (f ++ g) = DOMAIN f \cup DOMAIN g
         /\ \A x \in DOMAIN f : (f ++ g)[x] = f[x]
         /\ \A x \in DOMAIN g : x \notin DOMAIN f => (f ++ g)[x] = g[x]
BY DEF ++

(* The entry of an interrupt.                                               *)
LEMMA Entered ==
  ASSUME Types, NEW vec \in Agreed, hdlr[vec] \in {"timer", "general", "keyboard"},
         NEW line, NEW p, Enter(vec, line, p), Selectors(regs)
  PROVE  /\ regs' \in [Registers -> Word] /\ stack' \in [Threads -> Seq(Word)]
         /\ InHandler(regs') /\ regs'["eip"] = <<hdlr[vec]>>
         /\ Framed(stack'[cur]) /\ Popped(stack'[cur]) = regs
         /\ Below(stack'[cur]) = stack[cur]
         /\ \A t \in Threads \ {cur} : stack'[t] = stack[t]
<1> DEFINE last == [eip |-> <<hdlr[vec]>>, cs |-> K, eflags |-> Zero]
           loaded == With(last)
<1>1. /\ regs' = [r \in Registers |-> IF r \in General THEN Scratch ELSE loaded[r]]
      /\ stack' = [stack EXCEPT ![cur] = Saved(vec) \o @]
  BY DEF Enter
<1>2. /\ DOMAIN last = {"eip", "cs", "eflags"}
      /\ last["eip"] = <<hdlr[vec]>> /\ last["cs"] = K /\ last["eflags"] = Zero
  OBVIOUS
<1> HIDE DEF last
<1>3. \A r \in Registers : loaded[r] = IF r \in DOMAIN last THEN last[r] ELSE regs[r]
  BY WithIs
<1> HIDE DEF loaded
<1>4. <<hdlr[vec]>> \in Word
  BY WordsNamed DEF Names, Places
<1>5. \A r \in Registers : loaded[r] \in Word
  BY <1>2, <1>3, <1>4, WordsNamed DEF Types
<1>6. regs' \in [Registers -> Word]
  BY <1>1, <1>5, WordsNamed
<1>7. regs'["eip"] = <<hdlr[vec]>> /\ regs'["cs"] = K /\ regs'["eflags"] = Zero
  BY <1>1, <1>2, <1>3 DEF Registers, General
<1>8. \A r \in Segments : regs'[r] = regs[r]
  <2>1. \A r \in Segments : r \in Registers /\ r \notin General /\ r \notin DOMAIN last
    BY <1>2 DEF Segments, General, Registers
  <2> QED
    BY <1>1, <1>3, <2>1
<1>9. Selectors(regs')
  BY <1>8 DEF Selectors, Segments
<1> DEFINE s == Saved(vec) \o stack[cur]
<1>10. stack[cur] \in Seq(Word) /\ cur \in Threads /\ regs \in [Registers -> Word]
  BY DEF Types
<1>11. s \in Seq(Word) /\ Framed(s) /\ Popped(s) = regs /\ Below(s) = stack[cur]
  BY <1>10, FrameOnTop
<1> HIDE DEF s
<1>12. stack' = [stack EXCEPT ![cur] = s]
  BY <1>1 DEF s
<1>13. /\ stack' \in [Threads -> Seq(Word)] /\ stack'[cur] = s
       /\ \A t \in Threads \ {cur} : stack'[t] = stack[t]
  BY <1>10, <1>11, <1>12 DEF Types
<1> QED
  BY <1>6, <1>7, <1>9, <1>11, <1>13 DEF InHandler

(* Whoever is interrupted is then in a handler that leads back to him.      *)
LEMMA EnterStep ==
  ASSUME Types, Running, NEW vec \in Agreed,
         hdlr[vec] \in {"timer", "general", "keyboard"},
         NEW line, NEW p, Sent(p) \in Pics, Enter(vec, line, p),
         \/ Runs(cur, phase[cur], regs, stack[cur])
         \/ At("timer") /\ hdlr[vec] = "general"
  PROVE  Types' /\ Running'
<1> DEFINE k == phase[cur]
<1>1. /\ cur' = cur /\ phase' = phase /\ boot' = boot /\ hdlr' = hdlr
      /\ memPages' = memPages /\ pic' = Sent(p)
  BY DEF Enter
<1>2. At("timer") => Handles(cur, k, regs, stack[cur])
  BY Modes DEF Running, At
<1>3. Selectors(regs)
  BY <1>2 DEF Runs, Handles, InHandler
<1>4. /\ regs' \in [Registers -> Word] /\ stack' \in [Threads -> Seq(Word)]
      /\ InHandler(regs') /\ regs'["eip"] = <<hdlr[vec]>>
      /\ Framed(stack'[cur]) /\ Popped(stack'[cur]) = regs
      /\ Below(stack'[cur]) = stack[cur]
      /\ \A t \in Threads \ {cur} : stack'[t] = stack[t]
  BY <1>3, Entered
<1>5. Types'
  BY <1>1, <1>4 DEF Types
<1>6. CASE Runs(cur, k, regs, stack[cur])
  <2>1. Interrupted(cur, k, stack'[cur])
    BY <1>4, <1>6 DEF Interrupted
  <2>2. Handles(cur, k, regs', stack'[cur])
    BY <1>4, <2>1 DEF Handles
  <2> QED
    BY <1>1, <1>4, <1>5, <2>2 DEF Running, Proceeds
<1>7. CASE At("timer") /\ hdlr[vec] = "general"
  <2>1. Handles(cur, k, regs, stack[cur]) /\ regs["eip"] = <<"timer">>
    BY <1>2, <1>7 DEF At
  <2>2. HandlesNested(cur, k, regs', stack'[cur])
    BY <1>4, <1>7, <2>1 DEF HandlesNested
  <2> QED
    BY <1>1, <1>4, <1>5, <2>2 DEF Running, Proceeds
<1> QED
  BY <1>6, <1>7

(* What is on while IF is set.                                              *)
LEMMA IfSet ==
  ASSUME Flow, regs["eflags"] = On
  PROVE  Running /\ Runs(cur, phase[cur], regs, stack[cur])
<1>1. ~Boots
  BY Distinct DEF Boots, InHandler
<1> QED
  BY <1>1, Modes DEF Flow, Running

(* A request finds __intrTimer.                                             *)
LEMMA ExternalStep ==
  ASSUME InterruptInv, External
  PROVE  InterruptInv'
<1> USE DEF InterruptInv
<1>1. regs["eflags"] = On /\ Asking(pic) # {}
  BY DEF External, Acknowledges
<1>2. Running /\ Runs(cur, phase[cur], regs, stack[cur])
  BY <1>1, IfSet
<1>3. /\ pic \in Pics /\ Programmed(pic) /\ NothingServed(pic) /\ hdlr[32] = "timer"
      /\ \A v \in 0..31 \cup {39} : hdlr[v] = "general"
  BY <1>2 DEF Types, Controllers, Running
<1> DEFINE p == Acknowledged(pic, 0)
<1>4. /\ Winner(pic) = 0 /\ Vector(pic, 0) = 32 /\ p \in Pics /\ Programmed(p)
      /\ p.m.isr = {0} /\ p.s.isr = {}
  BY <1>1, <1>3, OnlyTheClockAsks
<1>5. Enter(32, "clock", p)
  BY <1>4 DEF External
<1> HIDE DEF p
<1>6. Sent(p) \in Pics /\ NothingServed(Sent(p)) /\ Programmed(Sent(p))
  BY <1>4, EoiSent
<1>7. 32 \in Agreed
  BY DEF Agreed, CpuErrorCode, StubKnows
<1>8. Types' /\ Running'
  BY <1>2, <1>3, <1>5, <1>6, <1>7, EnterStep
<1>9. /\ pic' = Sent(p) /\ hdlr' = hdlr /\ boot' = boot
      /\ served' = [line |-> "clock", by |-> "timer"]
  BY <1>3, <1>5 DEF Enter
<1>10. <<served'.line, served'.by>> \in Served
  BY <1>9 DEF Served
<1>11. Controllers'
  BY <1>3, <1>6, <1>9, <1>10 DEF Controllers
<1> QED
  BY <1>8, <1>11 DEF Flow

(* Noise on a line finds __intrGeneral.                                     *)
LEMMA SpuriousStep ==
  ASSUME InterruptInv, Spurious
  PROVE  InterruptInv'
<1> USE DEF InterruptInv
<1>1. regs["eflags"] = On
  BY DEF Spurious
<1>2. Running /\ Runs(cur, phase[cur], regs, stack[cur])
  BY <1>1, IfSet
<1>3. /\ pic \in Pics /\ Programmed(pic) /\ NothingServed(pic) /\ hdlr[39] = "general"
      /\ \A v \in 0..31 \cup {39} : hdlr[v] = "general"
  BY <1>2 DEF Types, Controllers, Running
<1>4. Vector(pic, 7) = 39
  BY <1>3 DEF Vector, Programmed
<1>5. Enter(39, "spurious", pic)
  BY <1>4 DEF Spurious
<1>6. Sent(pic) \in Pics /\ NothingServed(Sent(pic)) /\ Programmed(Sent(pic))
  BY <1>3, EoiSent DEF NothingServed
<1>7. 39 \in Agreed
  BY DEF Agreed, CpuErrorCode, StubKnows
<1>8. Types' /\ Running'
  BY <1>2, <1>3, <1>5, <1>6, <1>7, EnterStep
<1>9. /\ pic' = Sent(pic) /\ hdlr' = hdlr /\ boot' = boot
      /\ served' = [line |-> "spurious", by |-> "general"]
  BY <1>3, <1>5 DEF Enter
<1>10. <<served'.line, served'.by>> \in Served
  BY <1>9 DEF Served
<1>11. Controllers'
  BY <1>2, <1>3, <1>6, <1>9, <1>10 DEF Controllers, Running
<1> QED
  BY <1>8, <1>11 DEF Flow

(* An exception finds __intrGeneral.                                        *)
LEMMA ExceptionStep ==
  ASSUME InterruptInv, Exception
  PROVE  InterruptInv'
<1> USE DEF InterruptInv
<1>1. PICK vec \in Exceptions : Enter(vec, "exception", pic)
  BY DEF Exception
<1>2. At("own") \/ At("timer")
  BY DEF Exception
<1>3. vec \in Agreed /\ vec \in 0..31
  BY InterruptAssumption DEF Agreed
<1>4. Running
  BY <1>2 DEF Flow, Boots, At
<1>5. At("own") => Runs(cur, phase[cur], regs, stack[cur])
  BY <1>4, Modes DEF Running, At, Runs
<1>6. /\ pic \in Pics /\ Programmed(pic) /\ NothingServed(pic) /\ hdlr[vec] = "general"
      /\ \A v \in 0..31 \cup {39} : hdlr[v] = "general"
  <2>1. /\ pic \in Pics /\ Programmed(pic) /\ NothingServed(pic)
        /\ \A v \in 0..31 \cup {39} : hdlr[v] = "general"
    BY <1>4 DEF Types, Controllers, Running
  <2> QED
    BY <1>3, <2>1
<1>7. Sent(pic) \in Pics /\ NothingServed(Sent(pic)) /\ Programmed(Sent(pic))
  BY <1>6, EoiSent DEF NothingServed
<1>8. Types' /\ Running'
  BY <1>1, <1>2, <1>3, <1>4, <1>5, <1>6, <1>7, EnterStep
<1>9. /\ pic' = Sent(pic) /\ hdlr' = hdlr /\ boot' = boot
      /\ served' = [line |-> "exception", by |-> "general"]
  BY <1>1, <1>6 DEF Enter
<1>10. <<served'.line, served'.by>> \in Served
  BY <1>9 DEF Served
<1>11. Controllers'
  BY <1>4, <1>6, <1>7, <1>9, <1>10 DEF Controllers, Running
<1> QED
  BY <1>8, <1>11 DEF Flow

-----------------------------------------------------------------------------
(* The code of the handlers and of the threads.                            *)

(* Only the thread that runs moves.                                         *)
LEMMA GoesOn ==
  ASSUME Types, Running, Types', boot' = boot, cur' = cur,
         Proceeds(cur, phase'[cur], regs', stack'[cur]),
         \A t \in Threads \ {cur} : stack'[t] = stack[t] /\ phase'[t] = phase[t]
  PROVE  Running'
BY DEF Running

(* The controllers and the table of handlers stay.                          *)
LEMMA SameControllers ==
  ASSUME Controllers, UNCHANGED <<boot, pic, hdlr, served>>
  PROVE  Controllers'
<1>1. boot' = boot /\ pic' = pic /\ hdlr' = hdlr /\ served' = served
  OBVIOUS
<1> QED
  BY <1>1 DEF Controllers

(* A jump changes eip.                                                      *)
LEMMA GotoIs ==
  ASSUME regs \in [Registers -> Word], NEW place \in Places, Goto(place)
  PROVE  /\ regs' \in [Registers -> Word] /\ regs'["eip"] = <<place>>
         /\ \A r \in Registers \ {"eip"} : regs'[r] = regs[r]
         /\ Selectors(regs) => Selectors(regs')
         /\ InHandler(regs) => InHandler(regs')
<1> DEFINE new == [eip |-> <<place>>]
<1>1. regs' = With(new)
  BY DEF Goto
<1>2. DOMAIN new = {"eip"} /\ new["eip"] = <<place>>
  OBVIOUS
<1>3. <<place>> \in Word
  BY WordsNamed DEF Names
<1> HIDE DEF new
<1>4. regs' \in [Registers -> Word]
  BY <1>1, <1>2, <1>3, WithIs
<1>5. regs'["eip"] = <<place>> /\ \A r \in Registers \ {"eip"} : regs'[r] = regs[r]
  BY <1>1, <1>2, WithIs DEF Registers
<1>6. {"ds", "es", "fs", "cs", "eflags"} \subseteq Registers \ {"eip"}
  BY DEF Registers, Segments
<1>7. Selectors(regs) => Selectors(regs')
  BY <1>5, <1>6 DEF Selectors
<1>8. InHandler(regs) => InHandler(regs')
  BY <1>5, <1>6, <1>7 DEF InHandler
<1> QED
  BY <1>4, <1>5, <1>7, <1>8

(* What lies below the return address and the arguments.                    *)
LEMMA DropIs ==
  ASSUME Types, NEW n \in Nat, n <= Len(stack[cur]), Drop(n)
  PROVE  /\ stack' \in [Threads -> Seq(Word)] /\ stack'[cur] = Under(stack[cur], n)
         /\ \A t \in Threads \ {cur} : stack'[t] = stack[t]
<1> DEFINE s == Under(stack[cur], n)
<1>1. stack' = [stack EXCEPT ![cur] = s]
  BY DEF Drop, Under
<1>2. s \in Seq(Word)
  BY UnderIs DEF Types
<1> HIDE DEF s
<1> QED
  BY <1>1, <1>2 DEF Types, s

(* Outside the boot, some place of a thread.                                *)
LEMMA NotBooting ==
  ASSUME Flow, NEW e, At(e), e # "boot"
  PROVE  Running
BY DEF Flow, Boots, At

(* The handlers end.                                                        *)
LEMMA HandlerStep ==
  ASSUME InterruptInv, TimerGoesOn \/ Handler
  PROVE  InterruptInv'
<1> USE DEF InterruptInv
<1>1. /\ At("timer") \/ At("general") \/ At("keyboard")
      /\ Goto("intrext") /\ UNCHANGED <<boot, pic, hdlr, memPages, cur, stack, phase, served>>
  BY DEF TimerGoesOn, Handler
<1>2. Running
  BY <1>1, NotBooting
<1>3. /\ regs' \in [Registers -> Word] /\ regs'["eip"] = <<"intrext">>
      /\ InHandler(regs) => InHandler(regs')
  BY <1>1, GotoIs DEF Types, Places
<1>4. Types' /\ Controllers'
  BY <1>1, <1>3, SameControllers DEF Types
<1>5. \/ Handles(cur, phase[cur], regs, stack[cur])
      \/ HandlesNested(cur, phase[cur], regs, stack[cur])
  BY <1>1, <1>2, Modes DEF Running, At
<1>6. Proceeds(cur, phase[cur], regs', stack[cur])
  BY <1>3, <1>5 DEF Proceeds, Handles, HandlesNested
<1>7. Running'
  BY <1>1, <1>2, <1>4, <1>6, GoesOn
<1> QED
  BY <1>4, <1>7 DEF Flow

(* The clock's handler ends in the thread that __switchTo has come back to. *)
LEMMA TimerReturnStep ==
  ASSUME InterruptInv, TimerReturn
  PROVE  InterruptInv'
<1> USE DEF InterruptInv
<1>1. /\ At("timerReturn") /\ Drop(2)
      /\ Goto("intrext") /\ UNCHANGED <<boot, pic, hdlr, memPages, cur, phase, served>>
  BY DEF TimerReturn
<1>2. Running
  BY <1>1, NotBooting
<1>3. /\ InHandler(regs) /\ Len(stack[cur]) >= 2
      /\ AfterTimer(cur, phase[cur], Under(stack[cur], 2))
  BY <1>1, <1>2, Modes DEF Running, At
<1>4. /\ regs' \in [Registers -> Word] /\ regs'["eip"] = <<"intrext">>
      /\ InHandler(regs')
  BY <1>1, <1>3, GotoIs DEF Types, Places
<1>5. /\ stack' \in [Threads -> Seq(Word)] /\ stack'[cur] = Under(stack[cur], 2)
      /\ \A t \in Threads \ {cur} : stack'[t] = stack[t]
  <2>1. Len(stack[cur]) \in Nat
    BY LenProperties DEF Types
  <2> QED
    BY <1>1, <1>3, <2>1, DropIs
<1>6. Types' /\ Controllers'
  BY <1>1, <1>4, <1>5, SameControllers DEF Types
<1>7. Handles(cur, phase[cur], regs', stack'[cur])
  BY <1>3, <1>4, <1>5 DEF Handles, AfterTimer
<1>8. Running'
  BY <1>1, <1>2, <1>5, <1>6, <1>7, GoesOn DEF Proceeds
<1> QED
  BY <1>6, <1>8 DEF Flow

(* The values of the frame that __startProcess builds.                      *)
LEMMA ProcStackIs ==
  /\ \A r \in {"vecNo", "espDummy", "err_code"} : procStack[r] = <<"unwritten">>
  /\ \A r \in General \cup {"gs"} : procStack[r] = Zero
  /\ \A r \in {"ds", "es", "fs", "cs", "ss"} : procStack[r] = U
  /\ procStack["eip"] = <<"own">> /\ procStack["eflags"] = On
  /\ procStack["esp"] = <<"esp">>
<1> DEFINE a == [r \in {"vecNo", "espDummy", "err_code"} |-> <<"unwritten">>]
           b == [r \in General \cup {"gs"} |-> Zero]
           c == [ds |-> U, es |-> U, fs |-> U, eip |-> <<"own">>, cs |-> U, eflags |-> On,
                 esp |-> <<"esp">>, ss |-> U]
           ab == a ++ b
<1>1. /\ DOMAIN a = {"vecNo", "espDummy", "err_code"}
      /\ \A r \in DOMAIN a : a[r] = <<"unwritten">>
      /\ DOMAIN b = General \cup {"gs"} /\ \A r \in DOMAIN b : b[r] = Zero
  OBVIOUS
<1>2. /\ DOMAIN c = {"ds", "es", "fs", "eip", "cs", "eflags", "esp", "ss"}
      /\ \A r \in {"ds", "es", "fs", "cs", "ss"} : c[r] = U
      /\ c["eip"] = <<"own">> /\ c["eflags"] = On /\ c["esp"] = <<"esp">>
  OBVIOUS
<1>3. procStack = ab ++ c
  BY Zenon DEF procStack
<1> HIDE DEF a, b, c
<1>4. DOMAIN ab = DOMAIN a \cup DOMAIN b
  BY Together, Zenon
<1>5. /\ \A x \in DOMAIN a : ab[x] = a[x]
      /\ \A x \in DOMAIN b : x \notin DOMAIN a => ab[x] = b[x]
  BY Together, Zenon
<1> HIDE DEF ab
<1>6. /\ \A x \in DOMAIN ab : procStack[x] = ab[x]
      /\ \A x \in DOMAIN c : x \notin DOMAIN ab => procStack[x] = c[x]
  <2>1. /\ \A x \in DOMAIN ab : (ab ++ c)[x] = ab[x]
        /\ \A x \in DOMAIN c : x \notin DOMAIN ab => (ab ++ c)[x] = c[x]
    BY Together, Zenon
  <2> QED
    BY <1>3, <2>1, Zenon
<1>7. /\ \A x \in DOMAIN a : procStack[x] = a[x]
      /\ \A x \in DOMAIN b : x \notin DOMAIN a => procStack[x] = b[x]
      /\ \A x \in DOMAIN c : x \notin DOMAIN a \cup DOMAIN b => procStack[x] = c[x]
  BY <1>4, <1>5, <1>6
<1>8. \A r \in General \cup {"gs"} : r \notin DOMAIN a
  BY <1>1 DEF General
<1>9. \A r \in DOMAIN c : r \notin DOMAIN a \cup DOMAIN b
  BY <1>1, <1>2 DEF General
<1> QED
  BY <1>1, <1>2, <1>7, <1>8, <1>9

(* The frame that __startProcess builds is one that __intrext takes off.    *)
LEMMA ProcFrameIs ==
  /\ ProcFrame \in Seq(Word) /\ Framed(ProcFrame) /\ Below(ProcFrame) = <<>>
  /\ \A r \in Registers : Popped(ProcFrame)[r] = procStack[r]
<1> DEFINE O == IntrStackOrder    f == ProcFrame
<1>1. /\ O[1] = "vecNo" /\ O[2] = "edi" /\ O[3] = "esi" /\ O[4] = "ebp" /\ O[5] = "espDummy"
      /\ O[6] = "ebx" /\ O[7] = "edx" /\ O[8] = "ecx" /\ O[9] = "eax" /\ O[10] = "gs"
      /\ O[11] = "fs" /\ O[12] = "es" /\ O[13] = "ds" /\ O[14] = "err_code"
      /\ O[15] = "eip" /\ O[16] = "cs" /\ O[17] = "eflags" /\ O[18] = "esp" /\ O[19] = "ss"
  BY DEF IntrStackOrder
<1>2. \A i \in 1..19 : f[i] = procStack[O[i]]
  BY DEF ProcFrame
<1>3. DOMAIN f = 1..19
  BY DEF ProcFrame
<1>4. f = [i \in 1..19 |-> f[i]]
  BY DEF ProcFrame
<1> HIDE DEF O, f
<1>5. \A i \in 1..19 : i \in {1, 2, 3, 4, 5, 6, 7, 8, 9, 10, 11, 12, 13, 14, 15, 16, 17, 18, 19}
  OBVIOUS
<1>6. Zero \in Word /\ U \in Word /\ On \in Word /\ <<"own">> \in Word /\ <<"esp">> \in Word
      /\ <<"unwritten">> \in Word
  BY WordsNamed DEF Names, Places
<1>7. \A i \in 1..19 :
        O[i] \in {"vecNo", "espDummy", "err_code", "eip", "eflags", "esp", "gs"} \cup General
                   \cup {"ds", "es", "fs", "cs", "ss"}
  BY <1>1, <1>5 DEF General
<1>8. \A i \in 1..19 : f[i] \in Word
  <2>1. \A r \in {"vecNo", "espDummy", "err_code", "eip", "eflags", "esp", "gs"} \cup General
                   \cup {"ds", "es", "fs", "cs", "ss"} : procStack[r] \in Word
    BY <1>6, ProcStackIs
  <2> QED
    BY <1>2, <1>7, <2>1
<1>9. f \in Seq(Word) /\ Len(f) = 19
  BY <1>4, <1>8
<1>10. \A r \in Registers : O[Place(r)] = r /\ Place(r) \in 1..19
  BY <1>1, PlacesFound DEF Registers, General, Segments
<1>11. \A r \in Registers : Popped(f)[r] = procStack[r]
  BY <1>2, <1>10 DEF Popped
<1>12. f[16] = U
  BY <1>1, <1>2, ProcStackIs
<1>13. FrameLen(f) = 19 /\ Framed(f)
  BY <1>9, <1>12 DEF FrameLen, Framed
<1>14. Below(f) = <<>>
  BY <1>9, <1>13, UnderNothing DEF Below
<1> QED
  BY <1>9, <1>11, <1>13, <1>14 DEF f

(* The exit of an interrupt takes off what is popped.                       *)
LEMMA ExitIs ==
  ASSUME Types, IntrExit, Framed(stack[cur])
  PROVE  /\ regs' = Popped(stack[cur]) /\ regs' \in [Registers -> Word]
         /\ stack'[cur] = Below(stack[cur]) /\ stack' \in [Threads -> Seq(Word)]
         /\ \A t \in Threads \ {cur} : stack'[t] = stack[t]
<1> DEFINE s == stack[cur]
           popped == [r \in Range(PopOrder) |-> s[CHOOSE i \in 1..17 : PopOrder[i] = r]]
           n == 17 + Len(Ring3Stack(popped["cs"]))
<1>1. /\ regs' = With(popped)
      /\ stack' = [stack EXCEPT ![cur] =
                     SubSeq(s, 18 + Len(Ring3Stack(popped["cs"])), Len(s))]
  BY DEF IntrExit
<1>2. With(popped) = Popped(s) /\ popped["cs"] = Popped(s)["cs"]
  BY PoppedIsLoaded
<1> HIDE DEF popped
<1>3. Popped(s)["cs"] = s[16]
  BY PlacesFound DEF Popped, Registers
<1>4. Len(Ring3Stack(s[16])) = IF s[16] = U THEN 2 ELSE 0
  <2>1. CASE s[16] = U
    BY <2>1 DEF Ring3Stack
  <2>2. CASE s[16] # U
    BY <2>2 DEF Ring3Stack
  <2> QED
    BY <2>1, <2>2
<1>5. FrameLen(s) \in Nat /\ 18 + Len(Ring3Stack(popped["cs"])) = FrameLen(s) + 1
  BY <1>2, <1>3, <1>4 DEF FrameLen
<1>6. stack' = [stack EXCEPT ![cur] = Below(s)]
  BY <1>1, <1>5 DEF Below, Under
<1>7. s \in Seq(Word) /\ Len(s) \in Nat /\ Len(s) >= 17 /\ FrameLen(s) <= Len(s)
  BY <1>5, LenProperties DEF Types, Framed
<1>8. Below(s) \in Seq(Word)
  BY <1>5, <1>7, UnderIs DEF Below
<1>9. Popped(s) \in [Registers -> Word]
  <2>1. \A r \in Registers : Place(r) \in 1..Len(s)
    <3> SUFFICES ASSUME NEW r \in Registers PROVE Place(r) \in 1..Len(s)
      OBVIOUS
    <3>1. Place(r) \in 1..17
      BY PlacesAre
    <3> QED
      BY <1>7, <3>1
  <2>2. \A r \in Registers : s[Place(r)] \in Word
    BY <1>7, <2>1, ElementOfSeq
  <2> QED
    BY <2>2 DEF Popped
<1> QED
  BY <1>1, <1>2, <1>6, <1>8, <1>9 DEF Types

(* A new process leaves __startProcess for ring 3.                          *)
LEMMA ProcStarts ==
  ASSUME NEW t \in Procs
  PROVE  Runs(t, 1, Popped(ProcFrame), Below(ProcFrame))
<1> DEFINE c == Popped(ProcFrame)
<1>1. \A r \in Registers : c[r] = procStack[r]
  BY ProcFrameIs
<1> HIDE DEF c
<1>2. /\ c["cs"] = U /\ c["ds"] = U /\ c["es"] = U /\ c["fs"] = U /\ c["gs"] = Zero
      /\ c["eflags"] = On /\ c["eip"] = <<"own">> /\ \A r \in General : c[r] = Zero
  BY <1>1, ProcStackIs DEF Registers, Segments
<1>3. \A r \in General : Own(t, 1)[r] = Zero
  BY DEF Own
<1>4. Below(ProcFrame) = Bottom(t)
  BY ProcFrameIs DEF Bottom
<1>5. Selectors(c) /\ InRing3(t, 1, c)
  BY <1>2 DEF Selectors, InRing3
<1> QED
  BY <1>2, <1>3, <1>4, <1>5 DEF Runs, OwnCode, c

(* The exit of an interrupt brings back what was interrupted.               *)
LEMMA IntrExitStep ==
  ASSUME InterruptInv, IntrExit
  PROVE  InterruptInv'
<1> USE DEF InterruptInv
<1> DEFINE s == stack[cur]  k == phase[cur]
<1>1. At("intrext") /\ UNCHANGED <<boot, pic, hdlr, memPages, cur, phase, served>>
  BY DEF IntrExit
<1>2. Running
  BY <1>1, NotBooting
<1>3. \/ Handles(cur, k, regs, s) \/ HandlesNested(cur, k, regs, s)
      \/ cur \in Procs /\ k = 1 /\ s = ProcFrame
  BY <1>1, <1>2, Modes DEF Running, At
<1>4. Framed(s) /\ Proceeds(cur, k, Popped(s), Below(s))
  <2>1. CASE Handles(cur, k, regs, s)
    BY <2>1 DEF Handles, Interrupted, Proceeds
  <2>2. CASE HandlesNested(cur, k, regs, s)
    BY <2>2 DEF HandlesNested, Proceeds
  <2>3. CASE cur \in Procs /\ k = 1 /\ s = ProcFrame
    BY <2>3, ProcFrameIs, ProcStarts DEF Proceeds
  <2> QED
    BY <1>3, <2>1, <2>2, <2>3
<1>5. /\ regs' = Popped(s) /\ regs' \in [Registers -> Word]
      /\ stack'[cur] = Below(s) /\ stack' \in [Threads -> Seq(Word)]
      /\ \A t \in Threads \ {cur} : stack'[t] = stack[t]
  BY <1>4, ExitIs
<1>6. Types' /\ Controllers'
  BY <1>1, <1>5, SameControllers DEF Types
<1>7. Running'
  BY <1>1, <1>2, <1>4, <1>5, <1>6, GoesOn
<1> QED
  BY <1>6, <1>7 DEF Flow

-----------------------------------------------------------------------------
(* Switching.                                                              *)

(* The words of a new thread.                                               *)
LEMMA CreatedIs ==
  ASSUME NEW t \in Threads
  PROVE  LET s == createThread(t)
         IN /\ s \in Seq(Word) /\ Len(s) = 8
            /\ s[1] = Zero /\ s[2] = Zero /\ s[3] = Zero /\ s[4] = Zero
            /\ s[5] = <<"thdKernel">> /\ s[6] = Zero
            /\ s[7] = (IF t \in Procs THEN <<"startProcess">> ELSE <<"own">>)
            /\ s[8] = <<t, "arg">>
<1> DEFINE s == createThread(t)  O == ThdStackOrder  d == thdStack(t)
<1>1. /\ O[1] = "ebp" /\ O[2] = "ebx" /\ O[3] = "edi" /\ O[4] = "esi" /\ O[5] = "eip"
      /\ O[6] = "unused" /\ O[7] = "function" /\ O[8] = "funcArg"
  BY DEF ThdStackOrder
<1>2. /\ d["ebp"] = Zero /\ d["ebx"] = Zero /\ d["edi"] = Zero /\ d["esi"] = Zero
      /\ d["eip"] = <<"thdKernel">> /\ d["unused"] = Zero
      /\ d["function"] = (IF t \in Procs THEN <<"startProcess">> ELSE <<"own">>)
      /\ d["funcArg"] = <<t, "arg">>
  BY DEF thdStack
<1>3. s = [i \in 1..8 |-> d[O[i]]]
  BY Zenon DEF createThread
<1> HIDE DEF O, d
<1>4. /\ s[1] = Zero /\ s[2] = Zero /\ s[3] = Zero /\ s[4] = Zero
      /\ s[5] = <<"thdKernel">> /\ s[6] = Zero
      /\ s[7] = (IF t \in Procs THEN <<"startProcess">> ELSE <<"own">>)
      /\ s[8] = <<t, "arg">> /\ s = [i \in 1..8 |-> s[i]]
  <2>1. \A i \in 1..8 : s[i] = d[O[i]]
    BY <1>3
  <2>2. s = [i \in 1..8 |-> s[i]]
    BY <1>3
  <2> HIDE DEF s
  <2> QED
    BY <1>1, <1>2, <2>1, <2>2
<1>5. /\ Zero \in Word /\ <<"thdKernel">> \in Word /\ <<"startProcess">> \in Word
      /\ <<"own">> \in Word /\ <<t, "arg">> \in Word
  BY WordsNamed DEF Names, Places
<1> HIDE DEF s
<1>6. \A i \in 1..8 : i \in {1, 2, 3, 4, 5, 6, 7, 8}
  OBVIOUS
<1>7. s[7] \in Word
  BY <1>4, <1>5
<1>8. \A i \in 1..8 : s[i] \in Word
  BY <1>4, <1>5, <1>6, <1>7
<1>9. s \in Seq(Word) /\ Len(s) = 8
  BY <1>4, <1>8
<1> QED
  BY <1>4, <1>9 DEF s

(* A thread that waits goes on where __switchTo has left it.                *)
LEMMA WaitsResumed ==
  ASSUME NEW t \in Threads, NEW k, NEW s \in Seq(Word), Waits(t, k, s),
         NEW c, InHandler(c), c["ebp"] = s[1], c["ebx"] = s[2], c["edi"] = s[3],
         c["esi"] = s[4], c["eip"] = s[5]
  PROVE  Resumed(t, k, c, Under(s, 5))
<1>1. CASE s = createThread(t) /\ t # Main /\ k = 0
  <2>1. c["eip"] = <<"thdKernel">>
    BY <1>1, CreatedIs
  <2> QED
    BY <1>1, <2>1 DEF Resumed
<1>2. ASSUME Len(s) >= 7
      PROVE  Len(Under(s, 5)) >= 2 /\ Under(Under(s, 5), 2) = Under(s, 7)
  <2>0. Len(s) \in Nat
    BY LenProperties
  <2>1. Len(Under(s, 5)) = Len(s) - 5
    BY <1>2, <2>0, UnderIs
  <2>2. Under(Under(s, 5), 2) = Under(s, 5 + 2)
    BY <1>2, <2>0, UnderUnder
  <2> QED
    BY <1>2, <2>0, <2>1, <2>2
<1>3. CASE Len(s) >= 7 /\ s[5] = <<"timerReturn">> /\ AfterTimer(t, k, Under(s, 7))
  BY <1>2, <1>3 DEF Resumed
<1>4. CASE /\ Len(s) >= 7 /\ s[5] = <<"blockReturn">> /\ AfterBlock(t, k, Under(s, 7))
           /\ k > 0 => /\ s[1] = Own(t, k)["ebp"] /\ s[2] = Own(t, k)["ebx"]
                       /\ s[3] = Own(t, k)["edi"] /\ s[4] = Own(t, k)["esi"]
  <2>1. k > 0 => \A r \in CalleeSaved : c[r] = Own(t, k)[r]
    BY <1>4 DEF CalleeSaved
  <2> QED
    BY <1>2, <1>4, <2>1 DEF Resumed
<1> QED
  BY <1>1, <1>3, <1>4 DEF Waits

(* There are always seven words on the stack of a thread that waits.        *)
LEMMA WaitsLong ==
  ASSUME NEW t \in Threads, NEW k, NEW s \in Seq(Word), Waits(t, k, s)
  PROVE  Len(s) >= 7
BY CreatedIs DEF Waits

(* What __switchTo pushes.                                                  *)
Seven(return) == <<regs["ebp"], regs["ebx"], regs["edi"], regs["esi"],
                   <<return>>, <<"cur">>, <<"next">> >>

(* They lie over what was there, in the order in which they come off.       *)
LEMMA SevenIs ==
  ASSUME Types, NEW return \in {"timerReturn", "blockReturn"}, NEW b \in Seq(Word)
  PROVE  LET s == Seven(return) \o b
         IN /\ s \in Seq(Word) /\ Len(s) >= 7 /\ Under(s, 7) = b
            /\ s[1] = regs["ebp"] /\ s[2] = regs["ebx"] /\ s[3] = regs["edi"]
            /\ s[4] = regs["esi"] /\ s[5] = <<return>>
<1> DEFINE a == Seven(return)  s == a \o b
<1>1. /\ regs["ebp"] \in Word /\ regs["ebx"] \in Word /\ regs["edi"] \in Word
      /\ regs["esi"] \in Word /\ <<return>> \in Word /\ <<"cur">> \in Word
      /\ <<"next">> \in Word
  BY WordsNamed DEF Types, Registers, General, Names, Places
<1>2. /\ a \in Seq(Word) /\ Len(a) = 7
      /\ a[1] = regs["ebp"] /\ a[2] = regs["ebx"] /\ a[3] = regs["edi"]
      /\ a[4] = regs["esi"] /\ a[5] = <<return>>
  BY <1>1 DEF Seven
<1> HIDE DEF a
<1>3. /\ s \in Seq(Word) /\ Len(s) = Len(a) + Len(b)
      /\ \A i \in 1..Len(a) : s[i] = a[i]
      /\ Under(s, Len(a)) = b
  BY <1>2, Pushed
<1>4. Len(b) \in Nat
  BY LenProperties
<1> HIDE DEF s
<1> QED
  BY <1>2, <1>3, <1>4 DEF s, a

(* The registers that __switchTo pops.                                      *)
LEMMA SwitchedRegs ==
  ASSUME regs \in [Registers -> Word], NEW s \in Seq(Word), Len(s) >= 7,
         regs' = With([ebp |-> s[1], ebx |-> s[2], edi |-> s[3], esi |-> s[4],
                       eip |-> s[5], eax |-> Scratch, ecx |-> Scratch, edx |-> Scratch])
  PROVE  /\ regs' \in [Registers -> Word]
         /\ InHandler(regs) => InHandler(regs')
         /\ regs'["ebp"] = s[1] /\ regs'["ebx"] = s[2] /\ regs'["edi"] = s[3]
         /\ regs'["esi"] = s[4] /\ regs'["eip"] = s[5]
<1> DEFINE new == [ebp |-> s[1], ebx |-> s[2], edi |-> s[3], esi |-> s[4],
                   eip |-> s[5], eax |-> Scratch, ecx |-> Scratch, edx |-> Scratch]
<1>1. /\ DOMAIN new = {"ebp", "ebx", "edi", "esi", "eip", "eax", "ecx", "edx"}
      /\ new["ebp"] = s[1] /\ new["ebx"] = s[2] /\ new["edi"] = s[3] /\ new["esi"] = s[4]
      /\ new["eip"] = s[5]
      /\ new["eax"] = Scratch /\ new["ecx"] = Scratch /\ new["edx"] = Scratch
  OBVIOUS
<1>2. regs' = With(new)
  OBVIOUS
<1> HIDE DEF new
<1>3. Len(s) \in Nat
  BY LenProperties
<1>4. /\ s[1] \in Word /\ s[2] \in Word /\ s[3] \in Word /\ s[4] \in Word /\ s[5] \in Word
      /\ Scratch \in Word
  BY <1>3, ElementOfSeq, WordsNamed
<1>5. \A r \in DOMAIN new : new[r] \in Word
  BY <1>1, <1>4
<1>6. regs' \in [Registers -> Word]
  <2>1. (/\ regs \in [Registers -> Word]
         /\ \A r \in Registers : r \in DOMAIN new => new[r] \in Word)
          => With(new) \in [Registers -> Word]
    BY WithIs, Zenon
  <2> QED
    BY <1>2, <1>5, <2>1
<1>7. /\ regs'["ebp"] = s[1] /\ regs'["ebx"] = s[2] /\ regs'["edi"] = s[3]
      /\ regs'["esi"] = s[4] /\ regs'["eip"] = s[5]
  BY <1>1, <1>2, WithIs DEF Registers, General
<1>8. \A r \in {"ds", "es", "fs", "cs", "eflags"} : regs'[r] = regs[r]
  BY <1>1, <1>2, WithIs DEF Registers, Segments
<1> QED
  BY <1>6, <1>7, <1>8 DEF InHandler, Selectors

(* __switchTo puts one thread aside and takes up another, or the same.      *)
LEMMA SwitchStep ==
  ASSUME InterruptInv, Running, InHandler(regs),
         NEW next \in Threads, NEW return \in {"timerReturn", "blockReturn"},
         SwitchTo(next, return),
         Waits(cur, phase[cur], Seven(return) \o stack[cur])
  PROVE  InterruptInv'
<1> USE DEF InterruptInv
<1> DEFINE a == Seven(return) \o stack[cur]
           pushed == [stack EXCEPT ![cur] = a]
           s == pushed[next]
<1>1. /\ cur \in Threads /\ regs \in [Registers -> Word] /\ stack \in [Threads -> Seq(Word)]
      /\ phase \in [Threads -> 0..3]
  BY DEF Types
<1>2. /\ cur' = next
      /\ regs' = With([ebp |-> s[1], ebx |-> s[2], edi |-> s[3], esi |-> s[4],
                       eip |-> s[5], eax |-> Scratch, ecx |-> Scratch, edx |-> Scratch])
      /\ stack' = [pushed EXCEPT ![next] = Under(s, 5)]
      /\ UNCHANGED <<boot, pic, hdlr, memPages, phase, served>>
  <2>1. /\ cur' = next
        /\ regs' = With([ebp |-> s[1], ebx |-> s[2], edi |-> s[3], esi |-> s[4],
                         eip |-> s[5], eax |-> Scratch, ecx |-> Scratch, edx |-> Scratch])
        /\ stack' = [pushed EXCEPT ![next] = SubSeq(s, 6, Len(s))]
        /\ UNCHANGED <<boot, pic, hdlr, memPages, phase, served>>
    BY DEF SwitchTo, Seven
  <2>2. SubSeq(s, 6, Len(s)) = Under(s, 5)
    <3>1. 5 + 1 = 6
      OBVIOUS
    <3> QED
      BY <3>1, Zenon DEF Under
  <2> QED
    BY <2>1, <2>2, Zenon
<1>3. a \in Seq(Word)
  BY <1>1, SevenIs
<1>4. Waits(cur, phase[cur], a)
  OBVIOUS
<1>5. \A t \in Threads \ {cur} : Waits(t, phase[t], stack[t])
  BY DEF Running
<1> HIDE DEF a
<1>6. /\ pushed \in [Threads -> Seq(Word)]
      /\ \A t \in Threads : Waits(t, phase[t], pushed[t])
  BY <1>1, <1>3, <1>4, <1>5
<1> HIDE DEF pushed
<1>7. s \in Seq(Word) /\ Waits(next, phase[next], s)
  BY <1>6
<1>8. Len(s) >= 7 /\ Len(s) \in Nat
  BY <1>7, WaitsLong, LenProperties
<1>9. /\ regs' \in [Registers -> Word] /\ InHandler(regs')
      /\ regs'["ebp"] = s[1] /\ regs'["ebx"] = s[2] /\ regs'["edi"] = s[3]
      /\ regs'["esi"] = s[4] /\ regs'["eip"] = s[5]
  BY <1>1, <1>2, <1>7, <1>8, SwitchedRegs
<1> HIDE DEF s
<1>10. Resumed(next, phase[next], regs', Under(s, 5))
  BY <1>7, <1>9, WaitsResumed, Zenon
<1>11. Under(s, 5) \in Seq(Word)
  BY <1>7, <1>8, UnderIs
<1>12. /\ stack' \in [Threads -> Seq(Word)] /\ stack'[next] = Under(s, 5)
       /\ \A t \in Threads \ {next} : stack'[t] = pushed[t]
  BY <1>2, <1>6, <1>11
<1>13. Types' /\ Controllers'
  BY <1>2, <1>9, <1>12, SameControllers DEF Types
<1>14. Running'
  <2>1. Proceeds(cur', phase'[cur'], regs', stack'[cur'])
    BY <1>2, <1>10, <1>12 DEF Proceeds
  <2>2. \A t \in Threads \ {cur'} : Waits(t, phase'[t], stack'[t])
    BY <1>2, <1>6, <1>12
  <2>3. boot' = 7
    BY <1>2 DEF Running
  <2> QED
    BY <2>1, <2>2, <2>3 DEF Running
<1> QED
  BY <1>13, <1>14 DEF Flow

(* The clock's handler has __schedule pick a thread.                        *)
LEMMA TimerSchedulesStep ==
  ASSUME InterruptInv, TimerSchedules
  PROVE  InterruptInv'
<1> USE DEF InterruptInv
<1>1. PICK next \in Threads : At("timer") /\ SwitchTo(next, "timerReturn")
  BY DEF TimerSchedules
<1>2. Running
  BY <1>1, NotBooting
<1>3. Handles(cur, phase[cur], regs, stack[cur])
  BY <1>1, <1>2, Modes DEF Running, At
<1>4. cur \in Procs => phase[cur] > 0
  BY <1>1 DEF SwitchTo
<1>5. AfterTimer(cur, phase[cur], stack[cur]) /\ InHandler(regs)
  BY <1>3, <1>4 DEF AfterTimer, Handles
<1> DEFINE s == Seven("timerReturn") \o stack[cur]
<1>6. Len(s) >= 7 /\ Under(s, 7) = stack[cur] /\ s[5] = <<"timerReturn">>
  BY SevenIs DEF Types
<1> HIDE DEF s
<1>7. Waits(cur, phase[cur], s)
  BY <1>5, <1>6 DEF Waits
<1> QED
  BY <1>1, <1>2, <1>5, <1>7, SwitchStep DEF s

(* A thread blocks.                                                         *)
LEMMA BlockStep ==
  ASSUME InterruptInv, Block
  PROVE  InterruptInv'
<1> USE DEF InterruptInv
<1>1. PICK next \in Threads : SwitchTo(next, "blockReturn")
  BY DEF Block
<1>2. At("own") /\ regs["eflags"] = Zero
  BY DEF Block
<1>3. Running
  BY <1>2, NotBooting
<1> DEFINE k == phase[cur]
<1>4. Selectors(regs) /\ OwnCode(cur, k, regs, stack[cur])
  BY <1>2, <1>3, Modes DEF Running, At
<1>5. InRing0(cur, k, regs)
  BY <1>2, <1>4, Distinct DEF OwnCode, InRing3
<1>6. InHandler(regs) /\ AfterBlock(cur, k, stack[cur])
  BY <1>2, <1>4, <1>5, Distinct DEF InHandler, AfterBlock, InRing0, OwnCode
<1>7. k > 0 => /\ regs["ebp"] = Own(cur, k)["ebp"] /\ regs["ebx"] = Own(cur, k)["ebx"]
               /\ regs["edi"] = Own(cur, k)["edi"] /\ regs["esi"] = Own(cur, k)["esi"]
  BY <1>4 DEF OwnCode, General
<1> DEFINE s == Seven("blockReturn") \o stack[cur]
<1>8. /\ Len(s) >= 7 /\ Under(s, 7) = stack[cur] /\ s[5] = <<"blockReturn">>
      /\ s[1] = regs["ebp"] /\ s[2] = regs["ebx"] /\ s[3] = regs["edi"]
      /\ s[4] = regs["esi"]
  BY SevenIs DEF Types
<1> HIDE DEF s
<1>9. Waits(cur, k, s)
  BY <1>6, <1>7, <1>8 DEF Waits
<1> QED
  BY <1>1, <1>3, <1>6, <1>9, SwitchStep DEF s

-----------------------------------------------------------------------------
(* A thread starts, works, and comes back from blocking.                    *)

(* Loading eflags, and eip with it or not.                                  *)
LEMMA LoadIs ==
  ASSUME regs \in [Registers -> Word], NEW new,
         regs' = With(new), "eflags" \in DOMAIN new, DOMAIN new \subseteq {"eflags", "eip"},
         new["eflags"] \in {On, Zero}, "eip" \in DOMAIN new => new["eip"] \in Word
  PROVE  /\ regs' \in [Registers -> Word]
         /\ regs'["eflags"] = new["eflags"]
         /\ regs'["eip"] = IF "eip" \in DOMAIN new THEN new["eip"] ELSE regs["eip"]
         /\ \A r \in Registers \ {"eflags", "eip"} : regs'[r] = regs[r]
         /\ Selectors(regs) => Selectors(regs')
<1>1. \A r \in Registers : regs'[r] = IF r \in DOMAIN new THEN new[r] ELSE regs[r]
  BY WithIs
<1>2. \A r \in Registers : r \in DOMAIN new => new[r] \in Word
  BY WordsNamed
<1>3. regs' \in [Registers -> Word]
  <2>1. (/\ regs \in [Registers -> Word]
         /\ \A r \in Registers : r \in DOMAIN new => new[r] \in Word)
          => With(new) \in [Registers -> Word]
    BY WithIs, Zenon
  <2> QED
    BY <1>2, <2>1
<1>4. \A r \in Registers \ {"eflags", "eip"} : regs'[r] = regs[r]
  BY <1>1
<1>5. {"ds", "es", "fs"} \subseteq Registers \ {"eflags", "eip"}
  BY DEF Registers, Segments
<1>6. "eflags" \in Registers /\ "eip" \in Registers
  BY DEF Registers
<1> QED
  BY <1>1, <1>3, <1>4, <1>5, <1>6 DEF Selectors

(* What __thdKernel finds and leaves on the stack.                          *)
LEMMA KernelWords ==
  ASSUME NEW t \in Threads, NEW s, s = Under(createThread(t), 5)
  PROVE  LET b == << <<"return">>, s[3]>> \o s
         IN /\ b \in Seq(Word)
            /\ s[2] = (IF t \in Procs THEN <<"startProcess">> ELSE <<"own">>)
            /\ b = << <<"return">>, <<t, "arg">>, Zero, s[2], <<t, "arg">> >>
<1> DEFINE c == createThread(t)  a == << <<"return">>, s[3]>>  b == a \o s
           d == << <<"return">>, <<t, "arg">>, Zero, s[2], <<t, "arg">> >>
<1>1. /\ c \in Seq(Word) /\ Len(c) = 8 /\ c[6] = Zero /\ c[8] = <<t, "arg">>
      /\ c[7] = (IF t \in Procs THEN <<"startProcess">> ELSE <<"own">>)
  BY CreatedIs
<1> HIDE DEF c
<1>2. s \in Seq(Word) /\ Len(s) = 3 /\ \A i \in 1..3 : s[i] = c[5 + i]
  <2>1. /\ Under(c, 5) \in Seq(Word) /\ Len(Under(c, 5)) = Len(c) - 5
        /\ \A i \in 1 .. Len(c) - 5 : Under(c, 5)[i] = c[5 + i]
    <3>1. 5 \in Nat /\ 5 <= Len(c)
      BY <1>1
    <3> QED
      BY <1>1, <3>1, UnderIs, Zenon
  <2>2. s = Under(c, 5)
    BY Zenon DEF c
  <2> QED
    BY <1>1, <2>1, <2>2
<1>3. s[1] = Zero /\ s[2] = c[7] /\ s[3] = <<t, "arg">>
  <2>1. s[1] = c[5 + 1] /\ s[2] = c[5 + 2] /\ s[3] = c[5 + 3]
    BY <1>2
  <2> QED
    BY <1>1, <2>1
<1>4. <<"return">> \in Word /\ <<t, "arg">> \in Word /\ Zero \in Word /\ s[2] \in Word
  <2>1. s[2] \in Word
    BY <1>2, ElementOfSeq
  <2> QED
    BY <2>1, WordsNamed DEF Names
<1>5. /\ a \in Seq(Word) /\ Len(a) = 2 /\ a[1] = <<"return">> /\ a[2] = <<t, "arg">>
  BY <1>3, <1>4
<1>6. /\ d \in Seq(Word) /\ Len(d) = 5 /\ d[1] = <<"return">> /\ d[2] = <<t, "arg">>
      /\ d[3] = Zero /\ d[4] = s[2] /\ d[5] = <<t, "arg">>
  BY <1>4
<1> HIDE DEF a, d
<1>7. /\ b \in Seq(Word) /\ Len(b) = Len(a) + Len(s)
      /\ \A i \in 1..Len(a) : b[i] = a[i]
      /\ \A i \in 1..Len(s) : b[Len(a) + i] = s[i]
  BY <1>2, <1>5, Joined
<1> HIDE DEF b
<1>8. b[1] = a[1] /\ b[2] = a[2]
  BY <1>5, <1>7
<1>9. b[3] = s[1] /\ b[4] = s[2] /\ b[5] = s[3]
  <2>1. b[2 + 1] = s[1] /\ b[2 + 2] = s[2] /\ b[2 + 3] = s[3]
    BY <1>2, <1>5, <1>7
  <2> QED
    BY <2>1
<1>10. \A i \in 1..5 : i \in {1, 2, 3, 4, 5}
  OBVIOUS
<1>11. \A i \in 1..5 : b[i] = d[i]
  BY <1>3, <1>5, <1>6, <1>8, <1>9, <1>10
<1>12. Len(b) = 5
  BY <1>2, <1>5, <1>7
<1>13. b = d
  BY <1>6, <1>7, <1>11, <1>12, SeqEqual
<1> QED
  BY <1>1, <1>3, <1>7, <1>13 DEF b, a, d

(* __thdKernel calls the function of the thread.                            *)
LEMMA ThdKernelStep ==
  ASSUME InterruptInv, ThdKernel
  PROVE  InterruptInv'
<1> USE DEF InterruptInv
<1> DEFINE s == stack[cur]  b == << <<"return">>, s[3]>> \o s
           new == [eflags |-> On, eip |-> s[2]]
<1>1. /\ At("thdKernel") /\ UNCHANGED <<boot, pic, hdlr, memPages, cur, phase, served>>
      /\ regs' = With(new) /\ stack' = [stack EXCEPT ![cur] = b]
  BY DEF ThdKernel
<1>2. Running
  BY <1>1, NotBooting
<1>3. /\ cur \in Threads /\ regs \in [Registers -> Word] /\ stack \in [Threads -> Seq(Word)]
      /\ phase \in [Threads -> 0..3]
  BY DEF Types
<1>4. InHandler(regs) /\ s = Under(createThread(cur), 5) /\ cur # Main /\ phase[cur] = 0
  BY <1>1, <1>2, Modes DEF Running, At
<1>5. /\ b \in Seq(Word)
      /\ s[2] = (IF cur \in Procs THEN <<"startProcess">> ELSE <<"own">>)
      /\ b = << <<"return">>, <<cur, "arg">>, Zero, s[2], <<cur, "arg">> >>
  BY <1>3, <1>4, KernelWords
<1> HIDE DEF b
<1>6. s[2] \in Word
  BY <1>5, WordsNamed DEF Names, Places
<1>7. /\ DOMAIN new = {"eflags", "eip"} /\ new["eflags"] = On /\ new["eip"] = s[2]
  OBVIOUS
<1> HIDE DEF new
<1>8. /\ regs' \in [Registers -> Word] /\ regs'["eflags"] = On /\ regs'["eip"] = s[2]
      /\ \A r \in Registers \ {"eflags", "eip"} : regs'[r] = regs[r]
      /\ Selectors(regs) => Selectors(regs')
  BY <1>1, <1>3, <1>6, <1>7, LoadIs
<1>9. Selectors(regs') /\ regs'["cs"] = K
  BY <1>4, <1>8 DEF InHandler, Registers
<1>10. Runs(cur, phase[cur], regs', b)
  <2>1. CASE cur \in Procs
    BY <1>4, <1>5, <1>8, <1>9, <2>1 DEF Runs, Starting
  <2>2. CASE cur \notin Procs
    <3>1. b = Bottom(cur)
      BY <1>4, <1>5, <2>2 DEF Bottom
    <3> QED
      BY <1>4, <1>5, <1>8, <1>9, <2>2, <3>1 DEF Runs, OwnCode, InRing0
  <2> QED
    BY <2>1, <2>2
<1>11. /\ stack' \in [Threads -> Seq(Word)] /\ stack'[cur] = b
       /\ \A t \in Threads \ {cur} : stack'[t] = stack[t]
  BY <1>1, <1>3, <1>5
<1>12. Types' /\ Controllers'
  BY <1>1, <1>8, <1>11, SameControllers DEF Types
<1>13. Running'
  BY <1>1, <1>2, <1>10, <1>11, <1>12, GoesOn DEF Proceeds
<1> QED
  BY <1>12, <1>13 DEF Flow

(* __startProcess sets up the way to ring 3.                                *)
LEMMA StartProcessStep ==
  ASSUME InterruptInv, StartProcess
  PROVE  InterruptInv'
<1> USE DEF InterruptInv
<1>1. /\ At("startProcess") /\ UNCHANGED <<boot, pic, hdlr, memPages, cur, served>>
      /\ stack' = [stack EXCEPT ![cur] = ProcFrame] /\ phase' = [phase EXCEPT ![cur] = 1]
      /\ Goto("intrext")
  BY DEF StartProcess, ProcFrame
<1>2. Running
  BY <1>1, NotBooting
<1>3. Selectors(regs) /\ cur \in Procs /\ regs["cs"] = K /\ regs["eflags"] = On
  BY <1>1, <1>2, Modes DEF Running, At
<1>4. /\ cur \in Threads /\ regs \in [Registers -> Word] /\ stack \in [Threads -> Seq(Word)]
      /\ phase \in [Threads -> 0..3]
  BY DEF Types
<1>5. /\ regs' \in [Registers -> Word] /\ regs'["eip"] = <<"intrext">>
      /\ \A r \in Registers \ {"eip"} : regs'[r] = regs[r]
      /\ Selectors(regs')
  BY <1>1, <1>3, <1>4, GotoIs DEF Places
<1>6. regs'["cs"] = K /\ regs'["eflags"] = On
  BY <1>3, <1>5 DEF Registers
<1>7. ProcFrame \in Seq(Word)
  BY ProcFrameIs
<1>8. /\ stack' \in [Threads -> Seq(Word)] /\ stack'[cur] = ProcFrame
      /\ \A t \in Threads \ {cur} : stack'[t] = stack[t]
      /\ phase' \in [Threads -> 0..3] /\ phase'[cur] = 1
      /\ \A t \in Threads \ {cur} : phase'[t] = phase[t]
  BY <1>1, <1>4, <1>7
<1>9. Runs(cur, 1, regs', ProcFrame)
  BY <1>3, <1>5, <1>6 DEF Runs, Starting
<1>10. Types' /\ Controllers'
  BY <1>1, <1>5, <1>8, SameControllers DEF Types
<1>11. Running'
  BY <1>1, <1>2, <1>8, <1>9, <1>10, GoesOn DEF Proceeds
<1> QED
  BY <1>10, <1>11 DEF Flow

(* The values of a thread's registers are words.                            *)
LEMMA OwnIs ==
  ASSUME NEW t \in Threads, NEW k \in 1..3
  PROVE  DOMAIN Own(t, k) = General /\ \A r \in General : Own(t, k)[r] \in Word
<1>1. DOMAIN Own(t, k) = General
  BY DEF Own
<1>2. SUFFICES ASSUME NEW r \in General PROVE Own(t, k)[r] \in Word
  BY <1>1
<1>3. Own(t, k)[r] = CASE k = 1 -> Zero [] k = 2 -> <<t, r>> [] k = 3 -> <<t, r, "second">>
  BY Zenon DEF Own
<1>4. Zero \in Word /\ <<t, r>> \in Word /\ <<t, r, "second">> \in Word
  BY WordsNamed DEF Names
<1>5. CASE k = 1
  BY <1>3, <1>4, <1>5
<1>6. CASE k = 2
  BY <1>3, <1>4, <1>6
<1>7. CASE k = 3
  BY <1>3, <1>4, <1>7
<1> QED
  BY <1>5, <1>6, <1>7

(* A thread computes.                                                       *)
LEMMA WorkStep ==
  ASSUME InterruptInv, Work
  PROVE  InterruptInv'
<1> USE DEF InterruptInv
<1>1. At("own") /\ regs["eflags"] = On
  BY DEF Work
<1>2. PICK k \in {2, 3} :
        /\ phase' = [phase EXCEPT ![cur] = k]
        /\ regs' = [r \in Registers |->
                     IF r \in General THEN Own(cur, k)[r]
                     ELSE IF r = "gs" /\ k = 3 /\ cur \notin Procs THEN Video ELSE regs[r]]
  BY DEF Work
<1>3. UNCHANGED <<boot, pic, hdlr, memPages, cur, stack, served>>
  BY DEF Work
<1>4. /\ cur \in Threads /\ regs \in [Registers -> Word] /\ phase \in [Threads -> 0..3]
  BY DEF Types
<1>5. Running
  BY <1>1, NotBooting
<1>6. Selectors(regs) /\ OwnCode(cur, phase[cur], regs, stack[cur])
  BY <1>1, <1>5, Modes DEF Running, At
<1>7. \A r \in General : Own(cur, k)[r] \in Word
  BY <1>4, OwnIs
<1>8. regs' \in [Registers -> Word]
  BY <1>2, <1>4, <1>7, WordsNamed
<1>9. \A r \in General : regs'[r] = Own(cur, k)[r]
  BY <1>2 DEF Registers
<1>10. \A r \in {"ds", "es", "fs", "cs", "eip", "eflags"} : regs'[r] = regs[r]
  BY <1>2 DEF General, Registers, Segments
<1>11. regs'["gs"] = IF k = 3 /\ cur \notin Procs THEN Video ELSE regs["gs"]
  BY <1>2 DEF General, Registers, Segments
<1>12. Selectors(regs')
  BY <1>6, <1>10 DEF Selectors
<1>13. InRing3(cur, k, regs') \/ InRing0(cur, k, regs')
  <2>1. CASE InRing3(cur, phase[cur], regs)
    BY <1>10, <1>11, <2>1 DEF InRing3
  <2>2. CASE InRing0(cur, phase[cur], regs)
    BY <1>1, <1>10, <1>11, <2>2 DEF InRing0
  <2> QED
    BY <1>6, <2>1, <2>2 DEF OwnCode
<1>14. OwnCode(cur, k, regs', stack[cur])
  BY <1>6, <1>9, <1>10, <1>13 DEF OwnCode
<1>15. phase' \in [Threads -> 0..3] /\ phase'[cur] = k
       /\ \A t \in Threads \ {cur} : phase'[t] = phase[t]
  BY <1>2, <1>4
<1>16. Types' /\ Controllers'
  BY <1>3, <1>8, <1>15, SameControllers DEF Types
<1>17. Proceeds(cur, phase'[cur], regs', stack'[cur])
  BY <1>3, <1>12, <1>14, <1>15 DEF Proceeds, Runs
<1>18. Running'
  BY <1>3, <1>5, <1>15, <1>16, <1>17, GoesOn
<1> QED
  BY <1>16, <1>18 DEF Flow

(* A thread of ring 0 clears or sets IF.                                    *)
LEMMA SetIFStep ==
  ASSUME InterruptInv, SetIF(On, Zero) \/ SetIF(Zero, On)
  PROVE  InterruptInv'
<1> USE DEF InterruptInv
<1>1. PICK to \in {On, Zero} : regs' = With([eflags |-> to])
  BY DEF SetIF
<1>2. /\ At("own") /\ regs["cs"] = K /\ ~Printing(cur)
      /\ UNCHANGED <<boot, pic, hdlr, memPages, cur, stack, phase, served>>
  BY DEF SetIF
<1>3. Running
  BY <1>2, NotBooting
<1> DEFINE k == phase[cur]  new == [eflags |-> to]
<1>4. Selectors(regs) /\ OwnCode(cur, k, regs, stack[cur]) /\ regs \in [Registers -> Word]
  BY <1>2, <1>3, Modes DEF Running, At, Types
<1>5. DOMAIN new = {"eflags"} /\ new["eflags"] = to /\ regs' = With(new)
  BY <1>1
<1> HIDE DEF new
<1>6. /\ regs' \in [Registers -> Word] /\ regs'["eflags"] = to /\ regs'["eip"] = regs["eip"]
      /\ \A r \in Registers \ {"eflags", "eip"} : regs'[r] = regs[r]
      /\ Selectors(regs')
  BY <1>4, <1>5, LoadIs
<1>7. InRing0(cur, k, regs) /\ k # 3
  BY <1>2, <1>4, Distinct DEF OwnCode, InRing3, InRing0, Printing
<1>8. regs'["cs"] = K /\ \A r \in General : regs'[r] = regs[r]
  BY <1>2, <1>6 DEF Registers, General
<1>9. InRing0(cur, k, regs')
  BY <1>6, <1>7, <1>8 DEF InRing0
<1>10. OwnCode(cur, k, regs', stack[cur])
  BY <1>4, <1>6, <1>8, <1>9 DEF OwnCode
<1>11. Types' /\ Controllers'
  BY <1>2, <1>6, SameControllers DEF Types
<1>12. Running'
  BY <1>2, <1>3, <1>6, <1>10, <1>11, GoesOn DEF Proceeds, Runs
<1> QED
  BY <1>11, <1>12 DEF Flow

(* A thread comes back from blocking.                                       *)
LEMMA BlockReturnStep ==
  ASSUME InterruptInv, BlockReturn
  PROVE  InterruptInv'
<1> USE DEF InterruptInv
<1> DEFINE k == phase[cur]
           a == [r \in General \ CalleeSaved |-> IF k = 0 THEN Zero ELSE Own(cur, k)[r]]
           e == [eflags |-> On, eip |-> <<"own">>]
           new == a ++ e
<1>1. /\ At("blockReturn") /\ Drop(2) /\ regs' = With(new)
      /\ UNCHANGED <<boot, pic, hdlr, memPages, cur, phase, served>>
  BY DEF BlockReturn
<1>2. Running
  BY <1>1, NotBooting
<1>3. /\ InHandler(regs) /\ Len(stack[cur]) >= 2
      /\ AfterBlock(cur, k, Under(stack[cur], 2))
      /\ k > 0 => \A r \in CalleeSaved : regs[r] = Own(cur, k)[r]
  BY <1>1, <1>2, Modes DEF Running, At
<1>4. /\ cur \in Threads /\ regs \in [Registers -> Word] /\ phase \in [Threads -> 0..3]
  BY DEF Types
<1>5. /\ DOMAIN a = General \ CalleeSaved
      /\ \A r \in DOMAIN a : a[r] = IF k = 0 THEN Zero ELSE Own(cur, k)[r]
      /\ DOMAIN e = {"eflags", "eip"} /\ e["eflags"] = On /\ e["eip"] = <<"own">>
  OBVIOUS
<1>6. k \in 0..3
  BY <1>4
<1> HIDE DEF a, e, k
<1>7. /\ DOMAIN new = DOMAIN a \cup DOMAIN e
      /\ \A x \in DOMAIN a : new[x] = a[x]
      /\ \A x \in DOMAIN e : x \notin DOMAIN a => new[x] = e[x]
  BY Together, Zenon
<1> HIDE DEF new
<1>8. new["eflags"] = On /\ new["eip"] = <<"own">>
  BY <1>5, <1>7 DEF General
<1>9. /\ On \in Word /\ <<"own">> \in Word /\ Zero \in Word
      /\ k > 0 => \A r \in General : Own(cur, k)[r] \in Word
  <2>1. k > 0 => k \in 1..3
    BY <1>6
  <2> QED
    BY <1>4, <2>1, OwnIs, WordsNamed DEF Names, Places
<1>10. \A r \in DOMAIN a : a[r] \in Word
  BY <1>5, <1>6, <1>9
<1>11. \A r \in DOMAIN new : new[r] \in Word
  BY <1>5, <1>7, <1>8, <1>9, <1>10
<1>12. \A r \in Registers : regs'[r] = IF r \in DOMAIN new THEN new[r] ELSE regs[r]
  BY <1>1, WithIs
<1>13. regs' \in [Registers -> Word]
  <2>1. (/\ regs \in [Registers -> Word]
         /\ \A r \in Registers : r \in DOMAIN new => new[r] \in Word)
          => With(new) \in [Registers -> Word]
    BY WithIs, Zenon
  <2> QED
    BY <1>1, <1>4, <1>11, <2>1
<1>14. regs'["eip"] = <<"own">> /\ regs'["eflags"] = On
  BY <1>5, <1>7, <1>8, <1>12 DEF Registers
<1>15. \A r \in {"ds", "es", "fs", "cs"} : regs'[r] = regs[r]
  BY <1>5, <1>7, <1>12 DEF General, Registers, Segments
<1>16. k > 0 => \A r \in General : regs'[r] = Own(cur, k)[r]
  <2> SUFFICES ASSUME k > 0, NEW r \in General PROVE regs'[r] = Own(cur, k)[r]
    OBVIOUS
  <2>1. r \in Registers /\ r \notin DOMAIN e
    BY <1>5 DEF Registers, General
  <2>2. CASE r \in CalleeSaved
    BY <1>3, <1>5, <1>7, <1>12, <2>1, <2>2 DEF k
  <2>3. CASE r \notin CalleeSaved
    BY <1>5, <1>6, <1>7, <1>12, <2>1, <2>3
  <2> QED
    BY <2>2, <2>3
<1>17. Selectors(regs') /\ regs'["cs"] = K
  BY <1>3, <1>15 DEF InHandler, Selectors
<1>18. /\ stack' \in [Threads -> Seq(Word)] /\ stack'[cur] = Under(stack[cur], 2)
       /\ \A t \in Threads \ {cur} : stack'[t] = stack[t]
  <2>1. Len(stack[cur]) \in Nat
    BY LenProperties DEF Types
  <2> QED
    BY <1>1, <1>3, <2>1, DropIs
<1>19. OwnCode(cur, k, regs', stack'[cur])
  BY <1>3, <1>14, <1>16, <1>17, <1>18 DEF OwnCode, AfterBlock, InRing0
<1>20. Types' /\ Controllers'
  BY <1>1, <1>13, <1>18, SameControllers DEF Types
<1>21. Running'
  BY <1>1, <1>2, <1>17, <1>18, <1>19, <1>20, GoesOn DEF Proceeds, Runs, k
<1> QED
  BY <1>20, <1>21 DEF Flow

-----------------------------------------------------------------------------
(* Booting.                                                                *)

(* A device asks.                                                           *)
LEMMA RaiseStep ==
  ASSUME InterruptInv, NEW line \in Lines, Raise(line)
  PROVE  InterruptInv'
<1> USE DEF InterruptInv
<1>1. /\ pic' = Raised(pic, line)
      /\ UNCHANGED <<boot, hdlr, memPages, cur, regs, stack, phase, served>>
  BY DEF Raise
<1>2. pic \in Pics /\ line \in 0..15
  BY InterruptAssumption DEF Types
<1>3. /\ pic' \in Pics
      /\ NothingServed(pic) => NothingServed(pic')
      /\ Programmed(pic) => Programmed(pic')
  BY <1>1, <1>2, RaisedOnly
<1>4. Types'
  BY <1>1, <1>3 DEF Types
<1>5. Controllers'
  BY <1>1, <1>3 DEF Controllers
<1>6. Flow'
  BY <1>1 DEF Flow, Boots, Running, At
<1> QED
  BY <1>4, <1>5, <1>6

(* Which call of __initAll comes next.                                      *)
LEMMA CallOrder ==
  ASSUME NEW b \in 0..6
  PROVE  /\ InitOrder[b + 1] = "initIdt" <=> b = 0
         /\ InitOrder[b + 1] = "initTimer" <=> b = 1
         /\ InitOrder[b + 1] = "initMem" <=> b = 2
         /\ InitOrder[b + 1] = "initThreadMulti" <=> b = 3
         /\ InitOrder[b + 1] = "initKeyboard" <=> b = 4
         /\ InitOrder[b + 1] = "startThreads" <=> b = 5
         /\ InitOrder[b + 1] = "intrEnable" <=> b = 6
<1> DEFINE O == InitOrder
<1>1. /\ O[1] = "initIdt" /\ O[2] = "initTimer" /\ O[3] = "initMem"
      /\ O[4] = "initThreadMulti" /\ O[5] = "initKeyboard" /\ O[6] = "startThreads"
      /\ O[7] = "intrEnable"
  BY DEF InitOrder
<1> HIDE DEF O
<1>2. b \in {0, 1, 2, 3, 4, 5, 6}
  OBVIOUS
<1>3. /\ O[b + 1] = "initIdt" <=> b = 0
      /\ O[b + 1] = "initTimer" <=> b = 1
      /\ O[b + 1] = "initMem" <=> b = 2
      /\ O[b + 1] = "initThreadMulti" <=> b = 3
      /\ O[b + 1] = "initKeyboard" <=> b = 4
      /\ O[b + 1] = "startThreads" <=> b = 5
      /\ O[b + 1] = "intrEnable" <=> b = 6
  BY <1>1, <1>2
<1> QED
  BY <1>3 DEF O

(* Only main() boots.                                                       *)
LEMMA BootIsMain ==
  ASSUME Flow, Types, At("boot")
  PROVE  Boots /\ boot \in 0..6
<1>1. ~Running
  BY Modes DEF Running, At
<1> QED
  BY <1>1 DEF Flow, Types, Boots

(* A call of __initAll that returns keeps the stacks as they are.           *)
LEMMA BootsOn ==
  ASSUME Boots, Types, boot' = boot + 1, boot < 5,
         UNCHANGED <<cur, regs, stack, phase>>
  PROVE  Flow'
<1>1. boot' < 7 /\ boot \in Nat /\ boot < 6 /\ boot' < 6
  BY DEF Types
<1>2. stack = [t \in Threads |-> <<>>]
  BY <1>1 DEF Boots
<1>3. stack' = [t \in Threads |-> IF t = Main \/ boot' < 6 THEN <<>> ELSE createThread(t)]
  BY <1>1, <1>2
<1> QED
  BY <1>1, <1>3 DEF Flow, Boots, At

(* __initIdt.                                                               *)
LEMMA InitIdtStep ==
  ASSUME InterruptInv, InitIdt
  PROVE  InterruptInv'
<1> USE DEF InterruptInv
<1>1. /\ At("boot") /\ InitOrder[boot + 1] = "initIdt" /\ boot' = boot + 1
      /\ hdlr' = intrSpecify
      /\ pic' = [m |-> Initialized(pic.m, 32, 4, 254), s |-> Initialized(pic.s, 40, 2, 255)]
      /\ UNCHANGED <<memPages, cur, regs, stack, phase, served>>
  BY DEF InitIdt, Calls
<1>2. Boots /\ boot = 0
  BY <1>1, BootIsMain, CallOrder
<1>3. PICK m \in Chip : /\ Initialized(pic.m, 32, 4, 254) = m
                        /\ m.icw = 0 /\ m.base = 32 /\ m.isr = {} /\ m.mask = Bits(254)
  <2>1. pic.m \in Chip
    BY DEF Types, Pics
  <2> QED
    BY <2>1, MasterInitialized
<1>4. PICK s \in Chip : /\ Initialized(pic.s, 40, 2, 255) = s
                        /\ s.icw = 0 /\ s.base = 40 /\ s.isr = {} /\ s.mask = Bits(255)
  <2>1. pic.s \in Chip
    BY DEF Types, Pics
  <2> QED
    BY <2>1, SlaveInitialized
<1>5. pic' = [m |-> m, s |-> s]
  BY <1>1, <1>3, <1>4
<1>6. pic' \in Pics /\ pic'.m = m /\ pic'.s = s
  BY <1>5 DEF Pics
<1>7. NothingServed(pic') /\ Programmed(pic')
  BY <1>3, <1>4, <1>6, BitsOfBytes DEF NothingServed, Programmed
<1>8. /\ hdlr' \in [0..47 -> {"none", "general", "timer", "keyboard"}]
      /\ \A v \in 0..31 \cup {39} : hdlr'[v] = "general"
  BY <1>1 DEF intrSpecify
<1>9. Types'
  <2>1. boot' \in 0..7
    BY <1>1, <1>2
  <2> QED
    BY <1>1, <1>6, <1>8, <2>1 DEF Types
<1>10. Controllers'
  BY <1>1, <1>2, <1>7, <1>8 DEF Controllers
<1>11. Flow'
  BY <1>1, <1>2, BootsOn
<1> QED
  BY <1>9, <1>10, <1>11

(* A handler is registered.                                                 *)
LEMMA RegisterStep ==
  ASSUME InterruptInv, InitTimer \/ InitKeyboard
  PROVE  InterruptInv'
<1> USE DEF InterruptInv
<1>1. /\ At("boot") /\ boot' = boot + 1
      /\ UNCHANGED <<pic, memPages, cur, regs, stack, phase, served>>
      /\ \/ /\ InitOrder[boot + 1] = "initTimer"
            /\ hdlr' = [hdlr EXCEPT ![32] = "timer"]
         \/ /\ InitOrder[boot + 1] = "initKeyboard"
            /\ hdlr' = [hdlr EXCEPT ![33] = "keyboard"]
  BY DEF InitTimer, InitKeyboard, Calls, registerIntr
<1>2. Boots /\ boot \in 0..6
  BY <1>1, BootIsMain
<1>3. \/ boot = 1 /\ hdlr' = [hdlr EXCEPT ![32] = "timer"]
      \/ boot = 4 /\ hdlr' = [hdlr EXCEPT ![33] = "keyboard"]
  BY <1>1, <1>2, CallOrder
<1>4. hdlr \in [0..47 -> {"none", "general", "timer", "keyboard"}]
  BY DEF Types
<1>5. /\ hdlr' \in [0..47 -> {"none", "general", "timer", "keyboard"}]
      /\ \A v \in 0..31 \cup {39} : hdlr'[v] = hdlr[v]
      /\ boot = 1 => hdlr'[32] = "timer"
      /\ boot = 4 => hdlr'[32] = hdlr[32]
  BY <1>3, <1>4
<1>6. Types'
  <2>1. boot' \in 0..7
    BY <1>1, <1>3
  <2> QED
    BY <1>1, <1>5, <2>1 DEF Types
<1>7. Controllers'
  BY <1>1, <1>3, <1>5 DEF Controllers
<1>8. Flow'
  BY <1>1, <1>2, <1>3, BootsOn
<1> QED
  BY <1>6, <1>7, <1>8

(* __initMem, and what does not touch the interrupts.                       *)
LEMMA InitMemStep ==
  ASSUME InterruptInv, InitMem \/ InitMemReturn \/ InitThreadMulti
  PROVE  InterruptInv'
<1> USE DEF InterruptInv
<1>1. /\ At("boot") /\ UNCHANGED <<pic, hdlr, cur, regs, stack, phase, served>>
      /\ memPages' \in MemSizes \cup {0}
      /\ \/ boot' = boot
         \/ /\ boot' = boot + 1
            /\ InitOrder[boot + 1] \in {"initMem", "initThreadMulti"}
  BY DEF InitMem, InitMemReturn, InitThreadMulti, Calls, Types
<1>2. Boots /\ boot \in 0..6
  BY <1>1, BootIsMain
<1>3. boot' = boot \/ (boot' = boot + 1 /\ boot \in {2, 3})
  <2>1. /\ InitOrder[boot + 1] = "initMem" => boot = 2
        /\ InitOrder[boot + 1] = "initThreadMulti" => boot = 3
    BY <1>2, CallOrder
  <2> QED
    BY <1>1, <2>1
<1>4. Types'
  <2>1. boot' \in 0..7
    BY <1>2, <1>3
  <2> QED
    BY <1>1, <2>1 DEF Types
<1>5. Controllers'
  BY <1>1, <1>2, <1>3 DEF Controllers
<1>6. CASE boot' = boot
  <2>1. Boots'
    BY <1>1, <1>2, <1>6 DEF Boots, At
  <2> QED
    BY <1>4, <1>5, <2>1 DEF Flow
<1>7. CASE boot' = boot + 1 /\ boot \in {2, 3}
  <2>1. Flow'
    BY <1>1, <1>2, <1>7, BootsOn
  <2> QED
    BY <1>4, <1>5, <2>1
<1> QED
  BY <1>3, <1>6, <1>7

(* __startThread for each thread.                                           *)
LEMMA StartThreadsStep ==
  ASSUME InterruptInv, StartThreads
  PROVE  InterruptInv'
<1> USE DEF InterruptInv
<1>1. /\ At("boot") /\ boot' = boot + 1 /\ InitOrder[boot + 1] = "startThreads"
      /\ stack' = [t \in Threads |-> IF t = Main THEN stack[t] ELSE createThread(t)]
      /\ UNCHANGED <<pic, hdlr, memPages, cur, regs, phase, served>>
  BY DEF StartThreads, Calls
<1>2. Boots /\ boot = 5
  BY <1>1, BootIsMain, CallOrder
<1>3. stack[Main] = <<>>
  BY InterruptAssumption, <1>2 DEF Boots
<1>4. stack' = [t \in Threads |-> IF t = Main \/ boot' < 6 THEN <<>> ELSE createThread(t)]
  <2>1. ~(boot' < 6)
    BY <1>1, <1>2
  <2> QED
    BY <1>1, <1>3, <2>1
<1>5. stack' \in [Threads -> Seq(Word)]
  <2>1. \A t \in Threads : createThread(t) \in Seq(Word)
    BY CreatedIs
  <2>2. <<>> \in Seq(Word)
    BY EmptySeq
  <2> QED
    BY <1>1, <1>3, <2>1, <2>2
<1>6. Types'
  <2>1. boot' \in 0..7
    BY <1>1, <1>2
  <2> QED
    BY <1>1, <1>5, <2>1 DEF Types
<1>7. Controllers'
  BY <1>1, <1>2 DEF Controllers
<1>8. Boots'
  BY <1>1, <1>2, <1>4 DEF Boots, At
<1> QED
  BY <1>6, <1>7, <1>8 DEF Flow

(* main() sets IF: the threads run.                                         *)
LEMMA IntrEnableStep ==
  ASSUME InterruptInv, IntrEnable
  PROVE  InterruptInv'
<1> USE DEF InterruptInv
<1> DEFINE new == [eflags |-> On, eip |-> <<"own">>]
<1>1. /\ At("boot") /\ boot' = boot + 1 /\ InitOrder[boot + 1] = "intrEnable"
      /\ regs' = With(new)
      /\ UNCHANGED <<pic, hdlr, memPages, cur, stack, phase, served>>
  BY DEF IntrEnable, Calls
<1>2. Boots /\ boot = 6
  BY <1>1, BootIsMain, CallOrder
<1>3. DOMAIN new = {"eflags", "eip"} /\ new["eflags"] = On /\ new["eip"] = <<"own">>
  OBVIOUS
<1> HIDE DEF new
<1>4. /\ cur = Main /\ Main \in Threads /\ Main \notin Procs /\ InHandler(regs)
      /\ phase = [t \in Threads |-> 0] /\ regs \in [Registers -> Word]
      /\ stack = [t \in Threads |-> IF t = Main \/ boot < 6 THEN <<>> ELSE createThread(t)]
  BY <1>2, InterruptAssumption DEF Boots, Types
<1>5. /\ regs' \in [Registers -> Word] /\ regs'["eflags"] = On /\ regs'["eip"] = <<"own">>
      /\ \A r \in Registers \ {"eflags", "eip"} : regs'[r] = regs[r]
      /\ Selectors(regs')
  <2>1. <<"own">> \in Word
    BY WordsNamed DEF Names, Places
  <2> QED
    BY <1>1, <1>3, <1>4, <2>1, LoadIs DEF InHandler
<1>6. stack[Main] = <<>> /\ \A t \in Threads \ {Main} : stack[t] = createThread(t)
  BY <1>2, <1>4
<1>7. OwnCode(Main, 0, regs', stack[Main])
  <2>1. stack[Main] = Bottom(Main)
    BY <1>6 DEF Bottom
  <2>2. InRing0(Main, 0, regs')
    BY <1>4, <1>5 DEF InRing0, InHandler, Registers
  <2> QED
    BY <1>5, <2>1, <2>2 DEF OwnCode
<1>8. Proceeds(Main, 0, regs', stack[Main])
  BY <1>5, <1>7 DEF Proceeds, Runs
<1>9. \A t \in Threads \ {Main} : Waits(t, 0, stack[t])
  BY <1>6 DEF Waits
<1>10. Types'
  <2>1. boot' \in 0..7
    BY <1>1, <1>2
  <2> QED
    BY <1>1, <1>5, <2>1 DEF Types
<1>11. Controllers'
  BY <1>1, <1>2 DEF Controllers
<1>12. Running'
  BY <1>1, <1>2, <1>4, <1>8, <1>9 DEF Running
<1> QED
  BY <1>10, <1>11, <1>12 DEF Flow

-----------------------------------------------------------------------------
(* The invariant and what follows from it.                                  *)

(* The invariant holds before the first call of __initAll.                  *)
LEMMA InterruptInitially == Init => InterruptInv
<1> SUFFICES ASSUME Init PROVE InterruptInv
  OBVIOUS
<1> USE DEF Init
<1>1. regs \in [Registers -> Word]
  <2>1. K \in Word /\ Zero \in Word /\ <<"boot">> \in Word
    BY WordsNamed DEF Names, Places
  <2> QED
    BY <2>1
<1>2. stack \in [Threads -> Seq(Word)]
  <2>1. <<>> \in Seq(Word)
    BY EmptySeq
  <2> QED
    BY <2>1
<1>3. pic \in Pics /\ pic.m.isr = {} /\ pic.s.isr = {}
  <2>1. [icw |-> 0, base |-> 8, mask |-> {}, irr |-> {}, isr |-> {}, link |-> 4] \in Chip
    BY DEF Chip
  <2>2. [icw |-> 0, base |-> 112, mask |-> {}, irr |-> {}, isr |-> {}, link |-> 2] \in Chip
    BY DEF Chip
  <2> QED
    BY <2>1, <2>2 DEF Pics
<1>4. Types
  <2>1. boot \in 0..7 /\ memPages \in MemSizes \cup {0} /\ cur \in Threads
    BY InterruptAssumption
  <2>2. phase \in [Threads -> 0..3]
    OBVIOUS
  <2>3. hdlr \in [0..47 -> {"none", "general", "timer", "keyboard"}]
    OBVIOUS
  <2> QED
    BY <1>1, <1>2, <1>3, <2>1, <2>2, <2>3, Zenon DEF Types
<1>5. Controllers
  <2>1. ~(boot >= 1) /\ ~(boot >= 2)
    OBVIOUS
  <2>2. served.line = "none" /\ served.by = "none"
    OBVIOUS
  <2>3. <<served.line, served.by>> \in Served
    BY <2>2 DEF Served
  <2> QED
    BY <1>3, <2>1, <2>3, Zenon DEF Controllers, NothingServed
<1>6. InHandler(regs) /\ At("boot")
  BY DEF InHandler, Selectors, At, Registers, Segments
<1>7. Boots
  BY <1>6 DEF Boots
<1> QED
  BY <1>4, <1>5, <1>7 DEF InterruptInv, Flow

(* Every step keeps it.                                                     *)
LEMMA InterruptInductive ==
  ASSUME InterruptInv, [Next]_vars
  PROVE  InterruptInv'
<1>1. CASE Booting
  BY <1>1, InitIdtStep, RegisterStep, InitMemStep, StartThreadsStep, IntrEnableStep
  DEF Booting
<1>2. CASE External
  BY <1>2, ExternalStep
<1>3. CASE Spurious
  BY <1>3, SpuriousStep
<1>4. CASE Exception
  BY <1>4, ExceptionStep
<1>5. CASE Code
  BY <1>4, <1>5, HandlerStep, TimerSchedulesStep, TimerReturnStep, IntrExitStep,
     ThdKernelStep, StartProcessStep, WorkStep, SetIFStep, BlockStep, BlockReturnStep
  DEF Code
<1>6. CASE \E line \in Lines : Raise(line)
  BY <1>6, RaiseStep
<1>7. CASE UNCHANGED vars
  <2>1. UNCHANGED <<boot, pic, hdlr, memPages, cur, regs, stack, phase, served>>
    BY <1>7 DEF vars
  <2>2. Types'
    BY <2>1 DEF InterruptInv, Types
  <2>3. Controllers'
    BY <2>1, SameControllers DEF InterruptInv
  <2>4. Flow'
    BY <2>1 DEF InterruptInv, Flow, Boots, Running, At
  <2> QED
    BY <2>2, <2>3, <2>4 DEF InterruptInv
<1> QED
  BY <1>1, <1>2, <1>3, <1>5, <1>6, <1>7 DEF Next, Processor

(* In every reachable state the words of every kernel stack are those that  *)
(* its thread goes on with, and the controllers are ready for the clock.    *)
THEOREM InterruptInvariant == Spec => []InterruptInv
BY InterruptInitially, InterruptInductive, PTL DEF Spec

(* The types of the booting machine.                                        *)
THEOREM InterruptTypes == Spec => []InterruptTypeOK
<1>1. InterruptInv => InterruptTypeOK
  <2> SUFFICES ASSUME Types PROVE InterruptTypeOK
    BY DEF InterruptInv
  <2>1. Len(InitOrder) = 7
    BY DEF InitOrder
  <2> QED
    BY <2>1 DEF Types, Pics, InterruptTypeOK
<1> QED
  BY <1>1, InterruptInvariant, PTL

(* While IF is set nothing is in service: every interrupt that was taken    *)
(* has got its EOI, whatever its handler does and whoever it switches to.   *)
THEOREM NothingStaysInService == Spec => []NothingInService
<1>1. InterruptInv => NothingInService
  BY DEF InterruptInv, Controllers, NothingServed, NothingInService
<1> QED
  BY <1>1, InterruptInvariant, PTL

(* The clock finds __intrTimer and nothing else does.                       *)
THEOREM LinesFindHandlers == Spec => []HandlerOfLine
<1>1. InterruptInv => HandlerOfLine
  BY DEF InterruptInv, Controllers, Served, HandlerOfLine
<1> QED
  BY <1>1, InterruptInvariant, PTL

(* Whatever the size of memory, the pools and their bitmaps fit.            *)
THEOREM PoolsFitMemory == Spec => []PoolLayout
<1>1. InterruptInv => PoolLayout
  <2> SUFFICES ASSUME Types, memPages # 0 PROVE PoolsFit(memPages)
    BY DEF InterruptInv, PoolLayout
  <2>1. memPages \in usedMem + 1 .. Pages4G - 1
    BY InterruptAssumption DEF Types
  <2> QED
    BY <2>1, PoolsAlwaysFit
<1> QED
  BY <1>1, InterruptInvariant, PTL

(* The code of a thread finds its own registers, selectors and stack again, *)
(* whatever interrupts, exceptions and switches came in between.            *)
THEOREM ContextIsKept == Spec => []OwnContext
<1>1. ASSUME InterruptInv PROVE OwnContext
  <2>1. ASSUME At("own"), phase[cur] > 0
        PROVE  /\ \A r \in General : regs[r] = Own(cur, phase[cur])[r]
               /\ IF cur \in Procs
                  THEN regs["cs"] = U /\ regs["gs"] = Zero
                  ELSE regs["cs"] = K /\ (Printing(cur) => regs["gs"] = Video)
               /\ \A r \in {"ds", "es", "fs"} :
                    regs[r] = U \/ (regs[r] = K /\ cur \notin Procs)
               /\ stack[cur] = IF cur \in Procs \cup {Main} THEN <<>>
                               ELSE << <<"return">>, <<cur, "arg">>, Zero, <<"own">>,
                                       <<cur, "arg">> >>
    <3>1. Running
      BY <1>1, <2>1, NotBooting DEF InterruptInv
    <3>2. Selectors(regs) /\ OwnCode(cur, phase[cur], regs, stack[cur])
      BY <2>1, <3>1, Modes DEF Running, At
    <3>3. stack[cur] = Bottom(cur)
      BY <3>2 DEF OwnCode
    <3>4. CASE InRing3(cur, phase[cur], regs)
      BY <2>1, <3>2, <3>3, <3>4 DEF OwnCode, InRing3, Bottom
    <3>5. CASE InRing0(cur, phase[cur], regs)
      BY <2>1, <3>2, <3>3, <3>5 DEF OwnCode, InRing0, Bottom, Printing, Selectors
    <3> QED
      BY <3>2, <3>4, <3>5 DEF OwnCode
  <2>2. ASSUME At("blockReturn"), phase[cur] > 0
        PROVE  \A r \in CalleeSaved : regs[r] = Own(cur, phase[cur])[r]
    <3>1. Running
      BY <1>1, <2>2, NotBooting DEF InterruptInv
    <3> QED
      BY <2>2, <3>1, Modes DEF Running, At
  <2> QED
    BY <2>1, <2>2 DEF OwnContext
<1> QED
  BY <1>1, InterruptInvariant, PTL
=============================================================================
