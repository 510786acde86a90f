----------------------------- MODULE BitmapProof -----------------------------
(***************************************************************************)
(* What __btmpScan returns, for every bitmap, width of its bytes and        *)
(* request.  Its three loops are functions defined by recursion over the    *)
(* position; what they compute is shown by looking at a least position      *)
(* where it would be something else.  Scanned is the contract that          *)
(* MemoryProof.tla uses.                                                    *)
(***************************************************************************)
EXTENDS Bitmap, WellFoundedInduction, TLAPS

(* A set of natural numbers that is not empty has a least element; the      *)
(* proofs by induction below look at a least counterexample.                *)
LEMMA NatLeast ==
  ASSUME NEW S, S \subseteq Nat, S # {}
  PROVE  \E n \in S : \A m \in S : n <= m
<1> DEFINE R == OpToRel(<, Nat)
<1>1. \E x \in S : \A y \in S : ~ (<<y, x>> \in R)
  BY NatLessThanWellFounded, WFMin, Zenon
<1>2. \A x, y \in Nat : <<y, x>> \in R <=> y < x
  BY DEF OpToRel
<1> HIDE DEF R
<1>3. PICK n \in S : \A m \in S : ~ (<<m, n>> \in R)
  BY <1>1
<1>4. ASSUME NEW m \in S PROVE n <= m
  <2>1. m \in Nat /\ n \in Nat /\ ~ (<<m, n>> \in R)
    BY <1>3
  <2>2. ~ (m < n)
    BY <2>1, <1>2, Zenon
  <2> QED
    BY <2>1, <2>2
<1> QED
  BY <1>4

(* What Min returns.                                                        *)
LEMMA MinOfNats ==
  ASSUME NEW S, S \subseteq Nat, S # {}
  PROVE  Min(S) \in S /\ \A m \in S : Min(S) <= m
BY NatLeast, Zenon DEF Min

(* Every bit is in a byte.                                                  *)
LEMMA BitInByte ==
  ASSUME NEW i \in 0..Size-1
  PROVE  \E k \in 0..Len-1 : i \in k * W .. k * W + W - 1
<1>0. W \in Nat /\ W > 0 /\ Len \in Nat /\ Size = Len * W /\ Size \in Nat /\ i \in Nat
  BY BitmapAssumption DEF Size
<1> DEFINE S == {k \in Nat : i < k * W + W}
<1>1. i \in S
  BY <1>0
<1>2. PICK k \in S : \A m \in S : k <= m
  BY <1>1, NatLeast, Zenon
<1>3. k * W <= i
  <2>1. CASE k = 0
    BY <2>1, <1>0
  <2>2. CASE k # 0
    <3>1. k - 1 \in Nat /\ (k-1) \notin S
      BY <2>2, <1>2
    <3>2. (k - 1) * W + W = k * W
      BY <1>0, <1>2
    <3> QED
      BY <3>1, <3>2, <1>0
  <2> QED
    BY <2>1, <2>2
<1>4. k < Len
  <2> SUFFICES ASSUME k >= Len PROVE FALSE
    BY <1>0
  <2>1. k * W >= Len * W
    BY <1>0
  <2> QED
    BY <2>1, <1>0, <1>3
<1> QED
  BY <1>2, <1>3, <1>4, <1>0

Bitmaps == [0..Size -> {0, 1}]

(* idxByte is the first byte with a free bit, or Len.                       *)
LEMMA FirstByte ==
  ASSUME NEW b \in Bitmaps
  PROVE  /\ idxByte(b) \in 0..Len
         /\ idxByte(b) # Len =>
              \E i \in idxByte(b) * W .. idxByte(b) * W + W - 1 : b[i] = 0
         /\ \A i \in 0..Size-1 : i < idxByte(b) * W => b[i] = 1
<1>0. W \in Nat /\ W > 0 /\ Len \in Nat /\ Size = Len * W /\ Size \in Nat
  BY BitmapAssumption DEF Size
<1> DEFINE F == {k \in 0..Len-1 : \E i \in k * W .. k * W + W - 1 : b[i] = 0}
           T == {Len} \cup F
<1>1. T \subseteq Nat /\ T # {} /\ T \subseteq 0..Len
  BY <1>0
<1>2. idxByte(b) = Min(T)
  BY DEF idxByte
<1> HIDE DEF T
<1>3. Min(T) \in T /\ \A m \in T : Min(T) <= m
  BY <1>1, MinOfNats
<1>4. ASSUME NEW i \in 0..Size-1, i < idxByte(b) * W
      PROVE  b[i] = 1
  <2>1. PICK k \in 0..Len-1 : i \in k * W .. k * W + W - 1
    BY BitInByte
  <2>2. SUFFICES ASSUME b[i] = 0 PROVE FALSE
    BY <1>0 DEF Bitmaps
  <2>3. k \in T
    BY <2>1, <2>2 DEF T
  <2>4. idxByte(b) <= k /\ idxByte(b) \in Nat /\ k \in Nat
    BY <2>3, <1>1, <1>2, <1>3
  <2>5. idxByte(b) * W <= k * W
    BY <2>4, <1>0
  <2> QED
    BY <2>1, <2>4, <2>5, <1>4, <1>0
<1>5. idxByte(b) # Len => idxByte(b) \in F
  BY <1>2, <1>3 DEF T
<1> QED
  BY <1>1, <1>2, <1>3, <1>4, <1>5

(* The scan stops the kernel when no bit of the bitmap is free; otherwise   *)
(* idxStart is the lowest free bit.                                         *)
LEMMA FirstFree ==
  ASSUME NEW b \in Bitmaps
  PROVE  /\ idxByte(b) = Len <=> \A i \in 0..Size-1 : b[i] = 1
         /\ idxByte(b) # Len =>
              /\ idxStart(b) \in 0..Size-1
              /\ b[idxStart(b)] = 0
              /\ \A i \in 0..Size-1 : i < idxStart(b) => b[i] = 1
<1>0. W \in Nat /\ W > 0 /\ Len \in Nat /\ Size = Len * W /\ Size \in Nat
  BY BitmapAssumption DEF Size
<1> DEFINE k == idxByte(b)
           Z == {i \in k * W .. k * W + W - 1 : ~btmpScanTest(b, i)}
<1>1. k = Len => \A i \in 0..Size-1 : b[i] = 1
  <2> SUFFICES ASSUME k = Len, NEW i \in 0..Size-1 PROVE b[i] = 1
    OBVIOUS
  <2>1. i < k * W
    BY <1>0
  <2> QED
    BY <2>1, FirstByte
<1>2. ASSUME k # Len
      PROVE  /\ idxStart(b) \in 0..Size-1
             /\ b[idxStart(b)] = 0
             /\ \A i \in 0..Size-1 : i < idxStart(b) => b[i] = 1
  <2>1. k \in 0..Len-1
    BY <1>2, <1>0, FirstByte
  <2>2. k * W \in Nat /\ k * W + W - 1 <= Size - 1
    <3>1. (k + 1) * W <= Len * W
      BY <2>1, <1>0
    <3>2. (k + 1) * W = k * W + W
      BY <2>1, <1>0
    <3> QED
      BY <3>1, <3>2, <2>1, <1>0
  <2>3. Z \subseteq Nat /\ Z \subseteq 0..Size-1
    BY <2>2, <1>0
  <2>4. Z # {}
    BY <1>2, FirstByte DEF btmpScanTest
  <2>5. idxStart(b) = Min(Z)
    BY DEF idxStart
  <2>6. \A i \in Z : b[i] = 0
    BY <2>3, <1>0 DEF btmpScanTest, Bitmaps
  <2>7. Min(Z) \in Z /\ \A m \in Z : Min(Z) <= m
    BY <2>3, <2>4, MinOfNats
  <2>8. ASSUME NEW i \in 0..Size-1, i < idxStart(b) PROVE b[i] = 1
    <3>1. CASE i < k * W
      BY <3>1, FirstByte
    <3>2. CASE i >= k * W
      <4>0. idxStart(b) \in Z
        BY <2>5, <2>7
      <4>1. i \in k * W .. k * W + W - 1
        BY <4>0, <3>2, <2>2, <2>3, <2>8, <1>0
      <4>2. i \notin Z
        BY <2>3, <2>5, <2>7, <2>8, <1>0
      <4> QED
        BY <4>1, <4>2, <1>0 DEF btmpScanTest, Bitmaps
    <3> QED
      BY <3>1, <3>2, <2>2
  <2> QED
    BY <2>3, <2>5, <2>6, <2>7, <2>8
<1>3. (\A i \in 0..Size-1 : b[i] = 1) => k = Len
  <2> SUFFICES ASSUME \A i \in 0..Size-1 : b[i] = 1, k # Len PROVE FALSE
    OBVIOUS
  <2> QED
    BY <1>2
<1> QED
  BY <1>1, <1>2, <1>3

(* The recursion of bitCount has a solution: the number of free bits that   *)
(* end at n, counted from the first free one.                               *)
LEMMA BitCountRecursion ==
  ASSUME NEW b \in Bitmaps, idxByte(b) # Len
  PROVE  bitCount(b) = [n \in idxStart(b)..Size |->
           IF n = idxStart(b) THEN 1
           ELSE IF btmpScanTest(b, n) THEN 0 ELSE bitCount(b)[n-1] + 1]
<1> DEFINE s == idxStart(b)
           Step(f) == [n \in s..Size |->
                        IF n = s THEN 1
                        ELSE IF btmpScanTest(b, n) THEN 0 ELSE f[n-1] + 1]
           S(n) == {j \in 0 .. n-s+1 : j = n-s+1 \/ (n-j > s /\ b[n-j] # 0)}
           g == [n \in s..Size |-> Min(S(n))]
<1>0. s \in Nat /\ Size \in Nat /\ s < Size /\ b[s] = 0
  BY FirstFree, BitmapAssumption DEF Size
<1> HIDE DEF s
<1>1. ASSUME NEW n \in s..Size
      PROVE  Min(S(n)) \in S(n) /\ \A m \in S(n) : Min(S(n)) <= m
  <2>1. S(n) \subseteq Nat
    OBVIOUS
  <2>2. n-s+1 \in S(n)
    BY <1>0
  <2> HIDE DEF S
  <2> QED
    BY <2>1, <2>2, MinOfNats
<1>2. ASSUME NEW n \in s..Size
      PROVE  g[n] = IF n = s THEN 1
                    ELSE IF btmpScanTest(b, n) THEN 0 ELSE g[n-1] + 1
  <2>0. g[n] = Min(S(n)) /\ n \in Nat /\ Min(S(n)) \in Nat
    BY <1>1, <1>0
  <2>1. CASE n = s
    <3>1. S(n) = {1}
      BY <2>1, <1>0
    <3> QED
      BY <3>1, <2>0, <2>1, <1>1
  <2>2. CASE n # s /\ b[n] # 0
    <3>1. 0 \in S(n)
      BY <2>2, <1>0
    <3> QED
      BY <3>1, <2>0, <2>2, <1>1 DEF btmpScanTest
  <2>3. CASE n # s /\ b[n] = 0
    <3>0. n-1 \in s..Size /\ g[n-1] = Min(S(n-1))
      BY <2>3, <1>0
    <3>1. \A j \in S(n) : j # 0 /\ j-1 \in S(n-1)
      <4> SUFFICES ASSUME NEW j \in S(n) PROVE j # 0 /\ j-1 \in S(n-1)
        OBVIOUS
      <4>1. j # 0
        BY <2>3, <1>0
      <4>2. n-j = (n-1)-(j-1)
        BY <1>0
      <4> QED
        BY <4>1, <4>2, <1>0, <2>3
    <3>2. \A j \in S(n-1) : j+1 \in S(n)
      <4> SUFFICES ASSUME NEW j \in S(n-1) PROVE j+1 \in S(n)
        OBVIOUS
      <4>2. n-(j+1) = (n-1)-j
        BY <1>0
      <4> QED
        BY <4>2, <1>0, <2>3
    <3>3. \A j \in S(n) \cup S(n-1) : j \in Nat
      OBVIOUS
    <3>4. Min(S(n-1)) \in S(n-1) /\ \A m \in S(n-1) : Min(S(n-1)) <= m
      BY <1>1, <3>0
    <3>5. Min(S(n)) \in S(n) /\ \A m \in S(n) : Min(S(n)) <= m
      BY <1>1
    <3> HIDE DEF S
    <3>6. Min(S(n)) <= Min(S(n-1)) + 1
      BY <3>2, <3>4, <3>5
    <3>7. Min(S(n-1)) <= Min(S(n)) - 1
      BY <3>1, <3>4, <3>5
    <3>8. Min(S(n)) = Min(S(n-1)) + 1
      BY <3>3, <3>4, <3>5, <3>6, <3>7
    <3> QED
      BY <3>8, <2>0, <2>3, <3>0 DEF btmpScanTest
  <2> QED
    BY <2>1, <2>2, <2>3
<1>3. g = Step(g)
  <2> HIDE DEF g
  <2>1. g = [n \in s..Size |-> g[n]]
    BY DEF g
  <2> QED
    BY <2>1, <1>2, Zenon
<1> HIDE DEF g, S
<1>4. bitCount(b) = CHOOSE f : f = Step(f)
  BY Zenon DEF bitCount, s
<1>5. bitCount(b) = Step(bitCount(b))
  <2> HIDE DEF Step
  <2> QED
    BY <1>3, <1>4, Zenon
<1> QED
  BY <1>5, Zenon DEF s

(* bitCount counts free bits in a row that end at bit n, none of them       *)
(* before the first free one.                                               *)
LEMMA CountedAreFree ==
  ASSUME NEW b \in Bitmaps, idxByte(b) # Len, NEW n \in idxStart(b)..Size
  PROVE  /\ bitCount(b)[n] \in 0 .. n - idxStart(b) + 1
         /\ \A i \in n - bitCount(b)[n] + 1 .. n : b[i] = 0
<1> DEFINE s == idxStart(b)
           c == bitCount(b)
           Good(k) == /\ c[k] \in 0 .. k-s+1
                      /\ \A i \in k - c[k] + 1 .. k : b[i] = 0
           Bad == {k \in s..Size : ~Good(k)}
<1>0. s \in Nat /\ Size \in Nat /\ s < Size /\ b[s] = 0
  BY FirstFree, BitmapAssumption DEF Size
<1>1. \A k \in s..Size : c[k] = IF k = s THEN 1
                                ELSE IF btmpScanTest(b, k) THEN 0 ELSE c[k-1] + 1
  BY BitCountRecursion
<1> HIDE DEF s, c
<1>2. ASSUME NEW k \in s..Size, k # s => Good(k-1)
      PROVE  Good(k)
  <2>1. CASE k = s
    <3>1. c[k] = 1
      BY <2>1, <1>1
    <3> QED
      BY <3>1, <2>1, <1>0
  <2>2. CASE k # s /\ b[k] # 0
    <3>1. c[k] = 0
      BY <2>2, <1>1 DEF btmpScanTest
    <3> QED
      BY <3>1, <2>2, <1>0
  <2>3. CASE k # s /\ b[k] = 0
    <3>1. c[k] = c[k-1] + 1
      BY <2>3, <1>1 DEF btmpScanTest
    <3>2. c[k-1] \in 0 .. k-s /\ \A i \in k-1 - c[k-1] + 1 .. k-1 : b[i] = 0
      BY <2>3, <1>2, <1>0
    <3>3. k - c[k] + 1 = k-1 - c[k-1] + 1
      BY <3>1, <3>2, <1>0
    <3> QED
      BY <3>1, <3>2, <3>3, <2>3, <1>0
  <2> QED
    BY <2>1, <2>2, <2>3
<1>3. Bad = {}
  <2> SUFFICES ASSUME Bad # {} PROVE FALSE
    OBVIOUS
  <2>1. Bad \subseteq Nat
    BY <1>0
  <2>2. PICK k \in Bad : \A m \in Bad : k <= m
    BY <2>1, NatLeast
  <2>3. k # s => k-1 \in s..Size /\ k-1 \notin Bad
    BY <2>2, <1>0
  <2> QED
    BY <2>2, <2>3, <1>2
<1> QED
  BY <1>3 DEF s, c

(* It counts all free bits in a row.                                        *)
LEMMA FreeAreCounted ==
  ASSUME NEW b \in Bitmaps, idxByte(b) # Len,
         NEW m \in idxStart(b)..Size, NEW n \in m..Size,
         \A i \in m..n : b[i] = 0
  PROVE  bitCount(b)[n] >= n - m + 1
<1> DEFINE s == idxStart(b)
           c == bitCount(b)
           Bad == {k \in m..n : ~ (c[k] >= k - m + 1)}
<1>0. s \in Nat /\ Size \in Nat /\ s < Size /\ m \in Nat /\ n \in Nat
  BY FirstFree, BitmapAssumption DEF Size
<1>1. \A k \in s..Size : c[k] = IF k = s THEN 1
                                ELSE IF btmpScanTest(b, k) THEN 0 ELSE c[k-1] + 1
  BY BitCountRecursion
<1>2. \A k \in s..Size : c[k] \in Nat
  BY CountedAreFree, <1>0
<1> HIDE DEF c
<1>3. Bad = {}
  <2> SUFFICES ASSUME Bad # {} PROVE FALSE
    OBVIOUS
  <2>0. Bad \subseteq Nat
    BY <1>0
  <2>1. PICK k \in Bad : \A j \in Bad : k <= j
    BY <2>0, NatLeast
  <2>2. k \in s..Size /\ b[k] = 0
    BY <2>1, <1>0
  <2>3. CASE k = m
    BY <2>1, <2>2, <2>3, <1>0, <1>1, <1>2 DEF btmpScanTest
  <2>4. CASE k # m
    <3>1. k-1 \in m..n /\ k-1 \notin Bad
      BY <2>1, <2>4, <1>0
    <3>2. c[k-1] >= k-1 - m + 1
      BY <3>1
    <3>3. c[k] = c[k-1] + 1
      BY <2>2, <2>4, <3>1, <1>0, <1>1 DEF btmpScanTest
    <3> QED
      BY <3>2, <3>3, <3>1, <2>1, <2>2, <1>0, <1>2
  <2> QED
    BY <2>3, <2>4
<1> QED
  BY <1>3, <1>0 DEF c

(* __btmpScan returns pages that are all free, at most one of them behind   *)
(* the bitmap, and the lowest such range in the bitmap if there is one.     *)
LEMMA ScanResult ==
  ASSUME NEW b \in Bitmaps, NEW cnt \in Nat \ {0}
  PROVE  LET start == btmpScan(b, cnt) IN
         /\ start \in {None, Panicked} \cup 0..Size-1
         /\ start = Panicked <=> \A i \in 0..Size-1 : b[i] = 1
         /\ cnt = 1 => start # None
         /\ start \notin {None, Panicked} =>
              /\ start + cnt - 1 <= Size
              /\ cnt = 1 => start <= Size - 1
              /\ \A i \in Pages(start, cnt) : b[i] = 0
              /\ \A i \in 0..start-1 : cnt = 1 => b[i] = 1
         /\ cnt <= Size /\ Fits(b, cnt) # {} => start = Min(Fits(b, cnt))
<1> DEFINE start == btmpScan(b, cnt)
           s == idxStart(b)
<1>0. Size \in Nat /\ Size > 0 /\ None = -1 /\ Panicked = -2
  BY BitmapAssumption DEF Size, None, Panicked
<1>a. Fits(b, cnt) \subseteq Nat
  BY DEF Fits
<1>b. Fits(b, cnt) # {} => /\ Min(Fits(b, cnt)) \in Fits(b, cnt)
                           /\ \A m \in Fits(b, cnt) : Min(Fits(b, cnt)) <= m
  BY <1>a, MinOfNats
<1>1. CASE idxByte(b) = Len
  <2>1. start = Panicked
    BY <1>1 DEF btmpScan
  <2>2. \A i \in 0..Size-1 : b[i] = 1
    BY <1>1, FirstFree
  <2>3. Fits(b, cnt) = {}
    <3> SUFFICES ASSUME NEW f \in Fits(b, cnt) PROVE FALSE
      OBVIOUS
    <3>1. f \in 0..Size-1 /\ f \in Pages(f, cnt)
      BY <1>0 DEF Fits, Pages
    <3> QED
      BY <3>1, <2>2 DEF Fits
  <2> QED
    BY <2>1, <2>2, <2>3, <1>0
<1>2. CASE idxByte(b) # Len
  <2>0. /\ s \in 0..Size-1 /\ b[s] = 0
        /\ \A i \in 0..Size-1 : i < s => b[i] = 1
    BY <1>2, FirstFree
  <2>1. ~ \A i \in 0..Size-1 : b[i] = 1
    BY <2>0
  <2>2. \A f \in Fits(b, cnt) : f \in Nat /\ f >= s /\ f + cnt <= Size
    <3> SUFFICES ASSUME NEW f \in Fits(b, cnt)
                 PROVE  f \in Nat /\ f >= s /\ f + cnt <= Size
      OBVIOUS
    <3>1. f \in 0..Size-1 /\ b[f] = 0 /\ f + cnt <= Size
      BY <1>0 DEF Fits, Pages
    <3> QED
      BY <3>1, <2>0
  <2>3. CASE cnt = 1
    <3>1. start = s
      BY <1>2, <2>3 DEF btmpScan
    <3>2. Pages(s, cnt) = {s}
      BY <2>0, <2>3 DEF Pages
    <3>3. s \in Fits(b, cnt)
      BY <3>2, <2>0, <2>3, <1>0 DEF Fits
    <3>4. s = Min(Fits(b, cnt))
      <4>1. Min(Fits(b, cnt)) <= s /\ Min(Fits(b, cnt)) >= s
        BY <3>3, <1>b, <2>2
      <4>2. Min(Fits(b, cnt)) \in Nat
        BY <3>3, <1>b, <2>2
      <4> QED
        BY <4>1, <4>2, <2>0
    <3> QED
      BY <3>1, <3>2, <3>4, <2>0, <2>1, <2>3, <1>0
  <2>4. CASE cnt # 1
    <3> DEFINE c == bitCount(b)
               hits == {n \in s+1..Size : c[n] = cnt}
    <3>1. start = IF hits = {} THEN None ELSE Min(hits) - cnt + 1
      BY <1>2, <2>4 DEF btmpScan
    <3>2. hits \subseteq Nat /\ \A n \in hits : n \in s..Size
      BY <2>0
    <3>3. ASSUME NEW n \in hits
          PROVE  n - cnt + 1 >= s /\ \A i \in Pages(n - cnt + 1, cnt) : b[i] = 0
      <4>1. cnt \in 0 .. n-s+1 /\ \A i \in n-cnt+1 .. n : b[i] = 0
        BY <3>2, <1>2, CountedAreFree
      <4>2. (n-cnt+1) + cnt - 1 = n
        BY <3>2
      <4> QED
        BY <4>1, <4>2, <3>2, <2>0 DEF Pages
    <3>4. ASSUME NEW f \in Fits(b, cnt)
          PROVE  \E m \in Fits(b, cnt), n \in hits : n <= m+cnt-1 /\ m <= f
      <4> DEFINE m == Min(Fits(b, cnt))
                 n == m+cnt-1
      <4>1. m \in Fits(b, cnt) /\ m <= f
        BY <1>b
      <4>2. m \in Nat /\ m >= s /\ m+cnt <= Size
        BY <4>1, <2>2
      <4> HIDE DEF m
      <4>3. n \in s+1..Size /\ n \in m..Size
        BY <4>2, <2>4, <2>0, <1>0
      <4>4. \A i \in m..n : b[i] = 0
        BY <4>1 DEF Fits, Pages
      <4>5. c[n] >= cnt
        <5>1. n - m + 1 = cnt
          BY <4>2
        <5>2. m \in s..Size
          BY <4>2, <2>0, <1>0
        <5> QED
          BY <5>1, <5>2, <4>3, <4>4, <1>2, FreeAreCounted
      <4>6. c[n] \in 0 .. n-s+1 /\ \A i \in n-c[n]+1 .. n : b[i] = 0
        BY <4>3, <1>2, <2>0, CountedAreFree
      <4>7. SUFFICES ASSUME c[n] > cnt PROVE FALSE
        BY <4>1, <4>2, <4>3, <4>5, <4>6
      <4>8. n-c[n]+1 \in Fits(b, cnt)
        <5>1. n-c[n]+1 \in 0 .. Size-cnt
          BY <4>2, <4>3, <4>6, <4>7, <2>0, <1>0
        <5>2. Pages(n-c[n]+1, cnt) \subseteq n-c[n]+1 .. n
          BY <4>2, <4>6, <4>7 DEF Pages
        <5> QED
          BY <5>1, <5>2, <4>6 DEF Fits
      <4>9. m <= n-c[n]+1
        BY <4>8, <1>b DEF m
      <4> QED
        BY <4>9, <4>2, <4>6, <4>7
    <3>5. CASE hits = {}
      <4>1. Fits(b, cnt) = {}
        BY <3>4, <3>5
      <4> QED
        BY <4>1, <3>1, <3>5, <2>1, <2>4, <1>0
    <3>6. CASE hits # {}
      <4> DEFINE h == Min(hits)
      <4>1. h \in hits /\ \A n \in hits : h <= n
        BY <3>2, <3>6, MinOfNats
      <4>2. h \in s+1..Size /\ h \in Nat
        BY <4>1, <3>2
      <4>3. start = h - cnt + 1
        BY <3>1, <3>6
      <4>4. start >= s /\ \A i \in Pages(start, cnt) : b[i] = 0
        BY <4>1, <4>3, <3>3
      <4> HIDE DEF h, hits, start
      <4>5. start \in 0..Size-1 /\ start + cnt - 1 <= Size
        BY <4>2, <4>3, <4>4, <2>0, <2>4, <1>0
      <4>6. ASSUME Fits(b, cnt) # {} PROVE start = Min(Fits(b, cnt))
        <5>1. PICK m \in Fits(b, cnt), n \in hits :
                     n <= m+cnt-1 /\ m <= Min(Fits(b, cnt))
          BY <4>6, <1>b, <3>4
        <5>2. m = Min(Fits(b, cnt)) /\ m \in Nat /\ m + cnt <= Size
          BY <5>1, <4>6, <1>b, <2>2
        <5>3. h <= m+cnt-1
          BY <5>1, <5>2, <4>1, <4>2, <3>2
        <5>4. start \in Fits(b, cnt)
          <6>1. start + cnt <= Size
            BY <5>2, <5>3, <4>2, <4>3, <1>0
          <6> QED
            BY <6>1, <4>4, <4>5, <1>0 DEF Fits
        <5>5. m <= start
          BY <5>2, <5>4, <1>b
        <5>6. start = m
          <6>1. m \in Nat
            BY <5>2
          <6>2. start <= m
            BY <6>1, <5>3, <4>2, <4>3
          <6> QED
            BY <6>1, <6>2, <5>5, <4>5, <1>0
        <5> QED
          BY <5>6, <5>2
      <4> QED
        BY <4>4, <4>5, <4>6, <2>1, <2>4, <1>0 DEF start
    <3> QED
      BY <3>5, <3>6
  <2> QED
    BY <2>3, <2>4
<1> QED
  BY <1>1, <1>2

(* The result of a scan for cnt pages on a bitmap of size bits, as its      *)
(* callers need it.                                                         *)
Scanned(start, b, size, cnt) ==
  /\ start \in {None, Panicked} \cup 0..size-1
  /\ start = Panicked <=> \A i \in 0..size-1 : b[i] = 1
  /\ cnt = 1 => start # None
  /\ start \notin {None, Panicked} =>
       /\ start + cnt - 1 <= size
       /\ cnt = 1 => start <= size - 1
       /\ \A i \in start .. start + cnt - 1 : b[i] = 0
  /\ \A f \in 0 .. size-cnt :
       (\A i \in f .. f+cnt-1 : b[i] = 0) => start \in 0..f

(* __btmpScan returns such a result.                                        *)
LEMMA ScanIsScanned ==
  ASSUME NEW b \in Bitmaps, NEW cnt \in Nat \ {0}
  PROVE  Scanned(btmpScan(b, cnt), b, Size, cnt)
<1> DEFINE start == btmpScan(b, cnt)
<1>0. Size \in Nat /\ \A lo : Pages(lo, cnt) = lo .. lo + cnt - 1
  BY BitmapAssumption DEF Size, Pages
<1>1. /\ start \in {None, Panicked} \cup 0..Size-1
      /\ start = Panicked <=> \A i \in 0..Size-1 : b[i] = 1
      /\ cnt = 1 => start # None
      /\ start \notin {None, Panicked} =>
           /\ start + cnt - 1 <= Size
           /\ cnt = 1 => start <= Size - 1
           /\ \A i \in start .. start + cnt - 1 : b[i] = 0
  BY <1>0, ScanResult
<1>2. ASSUME NEW f \in 0 .. Size-cnt, \A i \in f .. f+cnt-1 : b[i] = 0
      PROVE  start \in 0..f
  <2> DEFINE fits == Fits(b, cnt)
  <2>1. f \in fits /\ fits \subseteq Nat
    BY <1>0, <1>2 DEF Fits
  <2>2. start = Min(fits)
    BY <1>0, <2>1, ScanResult
  <2> HIDE DEF fits, start
  <2>3. f \in Nat /\ start \in Nat /\ start <= f
    BY <2>1, <2>2, MinOfNats
  <2> QED
    BY <2>3
<1> HIDE DEF start
<1>3. Scanned(start, b, Size, cnt)
  BY <1>1, <1>2 DEF Scanned
<1> QED
  BY <1>3 DEF start

-----------------------------------------------------------------------------
(* The bits stay bits, and a call's result is a page or a failure.          *)
LEMMA BitmapTypesStep ==
  BitmapTypeOK /\ [Next]_bitmap_vars => BitmapTypeOK'
<1> SUFFICES ASSUME BitmapTypeOK, [Next]_bitmap_vars PROVE BitmapTypeOK'
  OBVIOUS
<1>0. bits \in Bitmaps /\ Size \in Nat
  BY BitmapAssumption DEF BitmapTypeOK, Bitmaps, Size
<1>1. ASSUME NEW cnt \in 1..Size, Valloc(cnt) PROVE BitmapTypeOK'
  <2> DEFINE start == btmpScan(bits, cnt)
  <2>1. start \in {None, Panicked} \cup 0..Size
    BY <1>0, ScanResult
  <2>2. ret' = [cnt |-> cnt, start |-> start]
    BY <1>1 DEF Valloc
  <2>3. bits' \in [0..Size -> {0, 1}]
    <3> HIDE DEF start
    <3>1. bits' = IF start \in {None, Panicked} THEN bits
                  ELSE [i \in 0..Size |-> IF i \in start .. start + cnt - 1
                                          THEN 1 ELSE bits[i]]
      BY <1>1 DEF Valloc, start
    <3> QED
      BY <3>1, <1>0 DEF Bitmaps
  <2> HIDE DEF start
  <2> QED
    BY <2>1, <2>2, <2>3, <1>0 DEF BitmapTypeOK
<1>2. ASSUME NEW i \in 1..Size-1, Mark(i) PROVE BitmapTypeOK'
  BY <1>0, <1>2 DEF Mark, BitmapTypeOK, btmpSet, NoCall, Bitmaps
<1>3. CASE UNCHANGED bitmap_vars
  BY <1>3 DEF BitmapTypeOK, bitmap_vars
<1> QED
  BY <1>1, <1>2, <1>3 DEF Next

(* bits holds bits and ret a result: BitmapTypeOK always.                   *)
THEOREM BitmapTypes == Spec => []BitmapTypeOK
<1>1. Init => BitmapTypeOK
  <2>1. Size \in Nat
    BY BitmapAssumption DEF Size
  <2> QED
    BY <2>1 DEF Init, BitmapTypeOK, NoCall
<1> QED
  BY <1>1, BitmapTypesStep, PTL DEF Spec

(* __valloc takes the lowest free pages in a row that are enough (bitmap.c: *)
(* 28-90), for every bitmap, every width of its bytes and every request.    *)
THEOREM ScanIsFirstFit == Spec => FirstFit
<1>1. BitmapTypeOK /\ [Next]_bitmap_vars =>
        [LET cnt == ret'.cnt IN
         cnt > 0 /\ Fits(bits, cnt) # {} => ret' = ret \/ ret'.start = Min(Fits(bits, cnt))
        ]_bitmap_vars
  <2> SUFFICES ASSUME BitmapTypeOK, Next, ret'.cnt > 0, Fits(bits, ret'.cnt) # {}
               PROVE  ret'.start = Min(Fits(bits, ret'.cnt))
    OBVIOUS
  <2>0. bits \in Bitmaps /\ Size \in Nat
    BY BitmapAssumption DEF BitmapTypeOK, Bitmaps, Size
  <2>1. ~ \E i \in 1..Size-1 : Mark(i)
    BY DEF Mark, NoCall
  <2>2. PICK cnt \in 1..Size : Valloc(cnt)
    BY <2>1 DEF Next
  <2>3. ret'.cnt = cnt /\ ret'.start = btmpScan(bits, cnt)
    BY <2>2 DEF Valloc
  <2>4. cnt \in Nat \ {0} /\ cnt <= Size
    BY <2>0
  <2> QED
    BY <2>0, <2>3, <2>4, ScanResult
<1> QED
  BY <1>1, BitmapTypes, PTL DEF Spec, FirstFit

(* Each call of __valloc takes free pages, those it returns and no others.  *)
THEOREM PagesAreHandedOutOnce == Spec => HandedOutOnce
<1> DEFINE A == ret'.cnt > 0 /\ ret' # ret =>
                  LET taken == IF ret'.start \in {None, Panicked} THEN {}
                               ELSE Pages(ret'.start, ret'.cnt)
                  IN /\ \A i \in taken : bits[i] = 0
                     /\ {i \in 0..Size : bits'[i] # bits[i]} = taken
<1>1. BitmapTypeOK /\ [Next]_bitmap_vars => [A]_bitmap_vars
  <2> SUFFICES ASSUME BitmapTypeOK, Next, ret'.cnt > 0 PROVE A
    OBVIOUS
  <2>0. bits \in Bitmaps /\ Size \in Nat
    BY BitmapAssumption DEF BitmapTypeOK, Bitmaps, Size
  <2>1. ~ \E i \in 1..Size-1 : Mark(i)
    BY DEF Mark, NoCall
  <2>2. PICK cnt \in 1..Size : Valloc(cnt)
    BY <2>1 DEF Next
  <2> DEFINE start == btmpScan(bits, cnt)
             taken == IF start \in {None, Panicked} THEN {} ELSE Pages(start, cnt)
  <2>3. ret'.cnt = cnt /\ ret'.start = start
    BY <2>2 DEF Valloc
  <2>4. cnt \in Nat \ {0}
    BY <2>0
  <2>5. /\ start \in {None, Panicked} \cup 0..Size-1
        /\ start \notin {None, Panicked} =>
             start + cnt - 1 <= Size /\ \A i \in Pages(start, cnt) : bits[i] = 0
    BY <2>0, <2>4, ScanResult
  <2>6. bits' = IF start \in {None, Panicked} THEN bits
                ELSE [i \in 0..Size |-> IF i \in start .. start + cnt - 1
                                        THEN 1 ELSE bits[i]]
    BY <2>2 DEF Valloc
  <2> HIDE DEF start
  <2>7. \A i \in taken : bits[i] = 0
    BY <2>5
  <2>8. {i \in 0..Size : bits'[i] # bits[i]} = taken
    <3>1. CASE start \in {None, Panicked}
      BY <3>1, <2>6
    <3>2. CASE start \notin {None, Panicked}
      <4>1. taken \subseteq 0..Size
        BY <3>2, <2>0, <2>4, <2>5 DEF Pages
      <4>2. \A i \in 0..Size : bits'[i] = IF i \in taken THEN 1 ELSE bits[i]
        BY <3>2, <2>6 DEF Pages
      <4> HIDE DEF taken
      <4>3. \A i \in 0..Size : bits'[i] # bits[i] <=> i \in taken
        BY <4>2, <2>7
      <4> DEFINE changed == {i \in 0..Size : bits'[i] # bits[i]}
      <4>4. \A i : i \in changed <=> i \in taken
        BY <4>1, <4>3
      <4> QED
        BY <4>4, Zenon
    <3> QED
      BY <3>1, <3>2
  <2> QED
    BY <2>3, <2>7, <2>8
<1> QED
  BY <1>1, BitmapTypes, PTL DEF Spec, HandedOutOnce
==============================================================================
