---------------------------- MODULE ConsoleProof -----------------------------
(***************************************************************************)
(* Texts come out whole, for any number of threads that print under the     *)
(* console lock, any texts and any size of the screen.                      *)
(***************************************************************************)
EXTENDS Console, SyncProof

(* The size of the screen.                                                  *)
LEMMA ScreenSize ==
  /\ Cols \in Nat \ {0} /\ Base \in Nat \ {0}
  /\ Cells \in Nat \ {0} /\ Cells - Cols \in Nat /\ Cells <= Base * Base
<1>1. Cols \in Nat \ {0} /\ Rows \in Nat \ {0} /\ Base \in Nat \ {0}
  BY ConsoleAssumption
<1>2. \A a, b \in Nat \ {0} : a * b \in Nat /\ a * b >= a
  BY SMT
<1>3. Cells \in Nat /\ Cells >= Cols
  BY <1>1, <1>2, Zenon DEF Cells
<1>4. Base * Base \in Nat
  BY <1>1
<1> QED
  BY <1>1, <1>3, <1>4, ConsoleAssumption

Byte == 0..Base - 1
Registers == [hi : Byte, lo : Byte]

(* A position goes through the two cursor registers unchanged.              *)
LEMMA WordOfBytes ==
  ASSUME NEW n \in 0..Cells - 1
  PROVE  Bytes(n) \in Registers /\ Word(Bytes(n)) = n
<1>1. /\ Base \in Nat \ {0} /\ n \in Nat /\ n < Base * Base
  BY ScreenSize
<1>2. \A a \in Nat, b \in Nat \ {0} :
        /\ a \div b \in Nat /\ a % b \in 0..b-1 /\ a = b * (a \div b) + (a % b)
  BY SMT
<1>3. PICK q \in Nat : q = n \div Base
  BY <1>1, <1>2
<1>4. PICK r \in 0..Base-1 : r = n % Base
  BY <1>1, <1>2
<1>5. n = Base * q + r
  BY <1>1, <1>2, <1>3, <1>4
<1>6. \A b \in Nat \ {0}, a, c \in Nat : a >= b => b * a + c >= b * b
  BY SMT
<1>7. q < Base
  BY <1>1, <1>4, <1>5, <1>6
<1>8. \A a \in Nat, b \in Nat \ {0} : a < b => a % b = a
  BY SMT
<1>9. q % Base = q
  BY <1>1, <1>7, <1>8
<1>10. Bytes(n) = [hi |-> q, lo |-> r]
  BY <1>3, <1>4, <1>9 DEF Bytes
<1>11. q * Base + r = n
  BY <1>1, <1>4, <1>5
<1>12. q \in 0..Base-1
  BY <1>1, <1>7
<1> QED
  BY <1>4, <1>10, <1>11, <1>12 DEF Word, Registers, Byte

(* Whatever the position, its bytes are bytes.                              *)
LEMMA BytesInRegisters ==
  ASSUME NEW n \in Nat
  PROVE  Bytes(n) \in Registers
<1>1. \A a \in Nat, b \in Nat \ {0} : a \div b \in Nat /\ a % b \in 0..b-1
  BY SMT
<1>2. Base \in Nat \ {0}
  BY ScreenSize
<1>3. (n \div Base) % Base \in 0..Base-1 /\ n % Base \in 0..Base-1
  BY <1>1, <1>2, Zenon
<1> QED
  BY <1>3 DEF Bytes, Registers, Byte

(* There is a line above the last one.                                      *)
LEMMA MoreLines == 0 < Cells - Cols /\ 0 % 2 = 0
<1>1. Cols \in Nat \ {0} /\ Rows \in Nat \ {0} /\ Rows > 1
  BY ConsoleAssumption
<1>2. \A a \in Nat \ {0}, b \in Nat : b > 1 => a * b > a /\ a * b \in Nat
  BY SMT
<1>3. Cells > Cols /\ Cells \in Nat
  BY <1>1, <1>2 DEF Cells
<1> QED
  BY <1>1, <1>3

(* A line feed goes forward.                                                *)
LEMMA LineForward ==
  ASSUME NEW n \in Nat
  PROVE  Line(n) \in Nat /\ Line(n) > n
<1>1. \A a \in Nat, b \in Nat \ {0} : a % b \in 0..b-1
  BY SMT
<1>2. n % Cols \in 0..Cols-1 /\ Cols \in Nat \ {0}
  BY <1>1, ScreenSize
<1> QED
  BY <1>2 DEF Line

-----------------------------------------------------------------------------
(* What is on a screen s.                                                   *)

Chars == UNION {Range(Text[t]) : t \in Threads}
Screens == [0..Cells - 1 -> Chars \cup {Blank}]

(* Nothing stands at n or behind it.                                        *)
Free(s, n) == \A c \in n..Cells - 1 : s[c] = Blank

(* d is the next character behind c.                                        *)
Neighbours(s, c, d) ==
  /\ c < d /\ Blank \notin {s[c], s[d]}
  /\ \A e \in c + 1 .. d - 1 : s[e] = Blank

Whole(s) ==
  \A c, d \in 0..Cells - 1 : Neighbours(s, c, d) => Follows(s[c], s[d])

(* The last character is one of A.                                          *)
IsLast(s, c) == s[c] # Blank /\ \A e \in c + 1 .. Cells - 1 : s[e] = Blank
Lasts(s, A) == \A c \in 0..Cells - 1 : IsLast(s, c) => s[c] \in A

(* The texts are sequences of characters, and none of them is blank.        *)
LEMMA Texts ==
  ASSUME NEW t \in Threads
  PROVE  /\ Text[t] \in Seq(Chars) /\ Len(Text[t]) \in Nat
         /\ DOMAIN Text[t] = 1..Len(Text[t])
         /\ \A i \in 1..Len(Text[t]) : Text[t][i] \in Chars /\ Text[t][i] # Blank
<1>1. Text[t] \in Seq(Range(Text[t]) \ {Blank})
  BY ConsoleAssumption
<1>2. PICK S : S = Range(Text[t]) \ {Blank}
  OBVIOUS
<1>3. S \subseteq Chars /\ Blank \notin S
  BY <1>2 DEF Chars
<1>4. Text[t] \in Seq(S)
  BY <1>1, <1>2
<1> HIDE <1>1, <1>2
<1> DEFINE s == Text[t]
<1>5. s \in Seq(S)
  BY <1>4
<1> HIDE DEF s
<1>6. Len(s) \in Nat /\ DOMAIN s = 1..Len(s) /\ \A i \in 1..Len(s) : s[i] \in S
  BY <1>5
<1>7. s \in Seq(Chars)
  BY <1>3, <1>5
<1> QED
  BY <1>3, <1>6, <1>7 DEF s

(* A character that may stand behind the last one is put behind it.         *)
LEMMA PutWhole ==
  ASSUME NEW s \in Screens, NEW n \in 0..Cells - 1, NEW char \in Chars, char # Blank,
         Free(s, n), Whole(s), NEW A, Lasts(s, A), \A x \in A : Follows(x, char)
  PROVE  LET put == [s EXCEPT ![n] = char] IN
         put \in Screens /\ Free(put, n + 1) /\ Whole(put) /\ Lasts(put, {char})
<1> DEFINE put == [s EXCEPT ![n] = char]
<1>0. Cells \in Nat
  BY ScreenSize
<1>1. put \in Screens
  BY DEF Screens
<1>2. put[n] = char /\ \A c \in 0..Cells - 1 : c # n => put[c] = s[c]
  BY DEF Screens
<1> HIDE DEF put
<1>3. Free(put, n + 1)
  BY <1>0, <1>2 DEF Free
<1>4. ASSUME NEW c \in 0..Cells - 1, NEW d \in 0..Cells - 1, Neighbours(put, c, d)
      PROVE  Follows(put[c], put[d])
  <2>1. c < d /\ put[c] # Blank /\ put[d] # Blank
        /\ \A e \in c + 1 .. d - 1 : put[e] = Blank
    BY <1>4 DEF Neighbours
  <2>2. d <= n
    BY <1>0, <1>3, <2>1 DEF Free
  <2>3. s[c] # Blank /\ put[c] = s[c] /\ \A e \in c + 1 .. d - 1 : s[e] = Blank
    BY <1>0, <1>2, <2>1, <2>2
  <2>4. CASE d = n
    <3>1. IsLast(s, c)
      BY <1>0, <2>3, <2>4 DEF IsLast, Free
    <3> QED
      BY <1>2, <2>3, <2>4, <3>1 DEF Lasts
  <2>5. CASE d # n
    <3>1. Neighbours(s, c, d) /\ put[d] = s[d]
      BY <1>2, <2>1, <2>3, <2>5 DEF Neighbours
    <3> QED
      BY <2>3, <3>1 DEF Whole
  <2> QED
    BY <2>4, <2>5
<1>5. ASSUME NEW c \in 0..Cells - 1, IsLast(put, c)
      PROVE  put[c] = char
  <2>1. c <= n
    BY <1>0, <1>3, <1>5 DEF Free, IsLast
  <2>2. ~(c < n)
    BY <1>0, <1>2, <1>5 DEF IsLast
  <2> QED
    BY <1>2, <2>1, <2>2
<1>6. Whole(put)
  BY <1>4 DEF Whole
<1>7. Lasts(put, {char})
  BY <1>5 DEF Lasts
<1> QED
  BY <1>1, <1>3, <1>6, <1>7 DEF put

(* What a roll that has come to the cell p leaves of the screen s.          *)
Rolled(s, p) ==
  [c \in 0..Cells - 1 |-> IF c < p THEN s[c]
                          ELSE IF c + Cols < Cells THEN s[c + Cols] ELSE Blank]

(* Rolling loses the first line and keeps the others together.              *)
LEMMA RollWhole ==
  ASSUME NEW s \in Screens, Whole(s), NEW A, Lasts(s, A)
  PROVE  /\ Rolled(s, 0) \in Screens /\ Free(Rolled(s, 0), Cells - Cols)
         /\ Whole(Rolled(s, 0)) /\ Lasts(Rolled(s, 0), A)
<1> DEFINE r == Rolled(s, 0)
<1>0. Cells \in Nat /\ Cols \in Nat \ {0} /\ Cells - Cols \in Nat
  BY ScreenSize
<1>1. r = [c \in 0..Cells - 1 |-> IF c + Cols < Cells THEN s[c + Cols] ELSE Blank]
  <2>1. \A c \in 0..Cells - 1 : ~(c < 0)
    BY <1>0
  <2> QED
    BY <2>1 DEF Rolled
<1>2. /\ \A c \in 0..Cells - 1 : c + Cols < Cells => r[c] = s[c + Cols]
      /\ \A c \in 0..Cells - 1 : ~(c + Cols < Cells) => r[c] = Blank
  BY <1>1
<1>3. r \in Screens
  <2>1. \A c \in 0..Cells - 1 : c + Cols < Cells => s[c + Cols] \in Chars \cup {Blank}
    BY <1>0 DEF Screens
  <2> QED
    BY <1>1, <2>1 DEF Screens
<1> HIDE DEF r
<1>4. Free(r, Cells - Cols)
  BY <1>0, <1>2 DEF Free
<1>5. ASSUME NEW c \in 0..Cells - 1, NEW d \in 0..Cells - 1, Neighbours(r, c, d)
      PROVE  Follows(r[c], r[d])
  <2>1. c < d /\ r[c] # Blank /\ r[d] # Blank /\ \A e \in c + 1 .. d - 1 : r[e] = Blank
    BY <1>5 DEF Neighbours
  <2>2. /\ c + Cols < Cells /\ d + Cols < Cells
        /\ r[c] = s[c + Cols] /\ r[d] = s[d + Cols]
    BY <1>0, <1>2, <2>1
  <2>3. ASSUME NEW e \in (c + Cols) + 1 .. (d + Cols) - 1 PROVE s[e] = Blank
    <3>1. e - Cols \in c + 1 .. d - 1 /\ e - Cols \in 0..Cells - 1
          /\ (e - Cols) + Cols = e /\ e < Cells
      BY <1>0, <2>2
    <3> QED
      BY <1>2, <2>1, <3>1
  <2>4. Neighbours(s, c + Cols, d + Cols)
    BY <1>0, <2>1, <2>2, <2>3 DEF Neighbours
  <2>5. c + Cols \in 0..Cells - 1 /\ d + Cols \in 0..Cells - 1
    BY <1>0, <2>2
  <2> QED
    BY <2>2, <2>4, <2>5 DEF Whole
<1>6. ASSUME NEW c \in 0..Cells - 1, IsLast(r, c)
      PROVE  r[c] \in A
  <2>1. r[c] # Blank /\ \A e \in c + 1 .. Cells - 1 : r[e] = Blank
    BY <1>6 DEF IsLast
  <2>2. c + Cols < Cells /\ r[c] = s[c + Cols]
    BY <1>2, <2>1
  <2>3. ASSUME NEW e \in (c + Cols) + 1 .. Cells - 1 PROVE s[e] = Blank
    <3>1. e - Cols \in c + 1 .. Cells - 1 /\ e - Cols \in 0..Cells - 1
          /\ (e - Cols) + Cols = e /\ e < Cells
      BY <1>0, <2>2
    <3> QED
      BY <1>2, <2>1, <3>1
  <2>4. IsLast(s, c + Cols) /\ c + Cols \in 0..Cells - 1
    BY <1>0, <2>1, <2>2, <2>3 DEF IsLast
  <2> QED
    BY <2>2, <2>4 DEF Lasts
<1> QED
  BY <1>3, <1>4, <1>5, <1>6 DEF Whole, Lasts, r

(* A step of the roll gets it further and changes nothing of what it leaves. *)
LEMMA MoveRolls ==
  ASSUME NEW s \in Screens, NEW e \in 0..Cells - 1, e < Cells - Cols, e % 2 = 0
  PROVE  /\ Moved(s, e) \in Screens /\ Rolled(Moved(s, e), e + 2) = Rolled(s, e)
         /\ e + 2 <= Cells - Cols /\ (e + 2) % 2 = 0
<1>0. /\ Cells \in Nat /\ Cols \in Nat \ {0} /\ Cells - Cols \in Nat
      /\ DOMAIN s = 0..Cells - 1
  BY ScreenSize DEF Screens
<1>1. e + 2 <= Cells - Cols /\ (e + 2) % 2 = 0
  <2>1. PICK n \in Nat : n = Cells - Cols
    BY <1>0
  <2>2. n % 2 = 0 /\ e < n
    BY <2>1, ConsoleAssumption
  <2> QED
    BY <2>1, <2>2
<1>2. Moved(s, e) = [c \in 0..Cells - 1 |-> IF c \in {e, e + 1} THEN s[c + Cols] ELSE s[c]]
  BY <1>0 DEF Moved
<1>3. PICK m : m = Moved(s, e)
  OBVIOUS
<1>4. /\ \A c \in 0..Cells - 1 : c \in {e, e + 1} => m[c] = s[c + Cols]
      /\ \A c \in 0..Cells - 1 : c \notin {e, e + 1} => m[c] = s[c]
  BY <1>2, <1>3
<1>5. m \in Screens
  <2>1. \A c \in {e, e + 1} : c + Cols \in 0..Cells - 1
    BY <1>0, <1>1
  <2>2. \A c \in 0..Cells - 1 : s[c] \in Chars \cup {Blank}
    BY DEF Screens
  <2> QED
    BY <1>2, <1>3, <2>1, <2>2 DEF Screens
<1>6. ASSUME NEW c \in 0..Cells - 1
      PROVE  (IF c < e + 2 THEN m[c] ELSE IF c + Cols < Cells THEN m[c + Cols] ELSE Blank)
             = (IF c < e THEN s[c] ELSE IF c + Cols < Cells THEN s[c + Cols] ELSE Blank)
  <2>1. CASE c < e
    BY <1>0, <1>4, <2>1
  <2>2. CASE c \in {e, e + 1}
    <3>1. c + Cols < Cells /\ ~(c < e) /\ c < e + 2
      BY <1>0, <1>1, <2>2
    <3> QED
      BY <1>4, <2>2, <3>1
  <2>3. CASE ~(c < e + 2) /\ c + Cols < Cells
    <3>1. c + Cols \in 0..Cells - 1 /\ c + Cols \notin {e, e + 1} /\ ~(c < e)
      BY <1>0, <2>3
    <3> QED
      BY <1>4, <2>3, <3>1
  <2>4. CASE ~(c < e + 2) /\ ~(c + Cols < Cells)
    BY <1>0, <2>4
  <2> QED
    BY <1>0, <2>1, <2>2, <2>3, <2>4
<1>7. Rolled(m, e + 2) = Rolled(s, e)
  BY <1>6 DEF Rolled
<1> QED
  BY <1>1, <1>3, <1>5, <1>7

(* So does a step that clears the last line.                                *)
LEMMA ClearRolls ==
  ASSUME NEW s \in Screens, NEW e \in 0..Cells - 1, Cells - Cols <= e
  PROVE  /\ Cleared(s, e) \in Screens /\ Rolled(Cleared(s, e), e + 1) = Rolled(s, e)
         /\ e + 1 = Cells => Cleared(s, e) = Rolled(s, e)
<1>0. Cells \in Nat /\ Cols \in Nat \ {0} /\ Cells - Cols \in Nat
  BY ScreenSize
<1>1. PICK m : m = Cleared(s, e)
  OBVIOUS
<1>2. m = [c \in 0..Cells - 1 |-> IF c = e THEN Blank ELSE s[c]]
  BY <1>1 DEF Cleared, Screens
<1>3. m \in Screens
  BY <1>2 DEF Screens
<1>4. /\ m[e] = Blank
      /\ \A c \in 0..Cells - 1 : c # e => m[c] = s[c]
  BY <1>2
<1>5. ASSUME NEW c \in 0..Cells - 1
      PROVE  (IF c < e + 1 THEN m[c] ELSE IF c + Cols < Cells THEN m[c + Cols] ELSE Blank)
             = (IF c < e THEN s[c] ELSE IF c + Cols < Cells THEN s[c + Cols] ELSE Blank)
  <2>1. CASE c < e
    BY <1>0, <1>4, <2>1
  <2>2. CASE c = e
    <3>1. ~(c + Cols < Cells) /\ ~(c < e) /\ c < e + 1
      BY <1>0, <2>2
    <3> QED
      BY <1>4, <2>2, <3>1
  <2>3. CASE e < c
    <3>1. ~(c + Cols < Cells) /\ ~(c < e) /\ ~(c < e + 1)
      BY <1>0, <2>3
    <3> QED
      BY <3>1
  <2> QED
    BY <1>0, <2>1, <2>2, <2>3
<1>6. Rolled(m, e + 1) = Rolled(s, e)
  BY <1>5 DEF Rolled
<1>7. ASSUME e + 1 = Cells PROVE m = Rolled(m, e + 1)
  <2>1. \A c \in 0..Cells - 1 : c < e + 1
    BY <1>0, <1>7
  <2>2. Rolled(m, e + 1) = [c \in 0..Cells - 1 |-> m[c]]
    BY <2>1 DEF Rolled
  <2> QED
    BY <1>3, <2>2 DEF Screens
<1> QED
  BY <1>1, <1>3, <1>6, <1>7

(* What stays of a screen that is being rolled, the torn line left out, are *)
(* whole texts if they are in what the roll leaves.                         *)
LEMMA SeenWhole ==
  ASSUME NEW s \in Screens, NEW p \in 0..Cells - 1, Whole(Rolled(s, p)),
         NEW seen, seen = [c \in 0..Cells - 1 |-> IF c \in p .. p + Cols - 1 THEN Blank ELSE s[c]]
  PROVE  Whole(seen)
<1>0. Cells \in Nat /\ Cols \in Nat \ {0} /\ Cells - Cols \in Nat
  BY ScreenSize
<1>1. PICK v : v = Rolled(s, p)
  OBVIOUS
<1>2. /\ \A c \in 0..Cells - 1 : c < p => v[c] = s[c]
      /\ \A c \in 0..Cells - 1 : ~(c < p) /\ c + Cols < Cells => v[c] = s[c + Cols]
      /\ \A c \in 0..Cells - 1 : ~(c < p) /\ ~(c + Cols < Cells) => v[c] = Blank
  BY <1>1 DEF Rolled
<1>3. /\ \A c \in 0..Cells - 1 : c \in p .. p + Cols - 1 => seen[c] = Blank
      /\ \A c \in 0..Cells - 1 : c \notin p .. p + Cols - 1 => seen[c] = s[c]
  OBVIOUS
<1> DEFINE to(c) == IF c < p THEN c ELSE c - Cols
<1>4. ASSUME NEW c \in 0..Cells - 1, seen[c] # Blank
      PROVE  to(c) \in 0..Cells - 1 /\ v[to(c)] = seen[c] /\ (c < p \/ c >= p + Cols)
  <2>1. c \notin p .. p + Cols - 1 /\ seen[c] = s[c]
    BY <1>3, <1>4
  <2>2. CASE c < p
    BY <1>2, <2>1, <2>2
  <2>3. CASE ~(c < p)
    <3>1. /\ c >= p + Cols /\ c - Cols \in 0..Cells - 1
          /\ ~(c - Cols < p) /\ (c - Cols) + Cols < Cells /\ (c - Cols) + Cols = c
      BY <1>0, <2>1, <2>3
    <3>2. v[c - Cols] = s[(c - Cols) + Cols]
      BY <1>2, <3>1
    <3> QED
      BY <2>1, <2>3, <3>1, <3>2
  <2> QED
    BY <2>2, <2>3
<1>5. ASSUME NEW c \in 0..Cells - 1, NEW d \in 0..Cells - 1, Neighbours(seen, c, d)
      PROVE  Follows(seen[c], seen[d])
  <2>1. /\ c < d /\ seen[c] # Blank /\ seen[d] # Blank
        /\ \A e \in c + 1 .. d - 1 : seen[e] = Blank
    BY <1>5 DEF Neighbours
  <2>2. /\ to(c) \in 0..Cells - 1 /\ v[to(c)] = seen[c] /\ (c < p \/ c >= p + Cols)
        /\ to(d) \in 0..Cells - 1 /\ v[to(d)] = seen[d] /\ (d < p \/ d >= p + Cols)
    BY <1>4, <2>1
  <2>3. to(c) < to(d)
    BY <1>0, <2>1, <2>2
  <2>4. ASSUME NEW e \in to(c) + 1 .. to(d) - 1 PROVE v[e] = Blank
    <3>1. e \in 0..Cells - 1
      BY <1>0, <2>2, <2>4
    <3>2. CASE e < p
      <4>1. c = to(c) /\ e \in c + 1 .. d - 1 /\ e \notin p .. p + Cols - 1
        BY <1>0, <2>1, <2>2, <2>4, <3>2
      <4> QED
        BY <1>2, <1>3, <2>1, <3>1, <3>2, <4>1
    <3>3. CASE ~(e < p)
      <4>1. /\ e + Cols \in c + 1 .. d - 1 /\ e + Cols \notin p .. p + Cols - 1
            /\ e + Cols \in 0..Cells - 1 /\ e + Cols < Cells
        BY <1>0, <2>1, <2>2, <2>4, <3>3
      <4> QED
        BY <1>2, <1>3, <2>1, <3>1, <3>3, <4>1
    <3> QED
      BY <3>2, <3>3
  <2>5. Neighbours(v, to(c), to(d))
    <3> HIDE DEF to
    <3> QED
      BY <2>1, <2>2, <2>3, <2>4 DEF Neighbours
  <2>6. Follows(v[to(c)], v[to(d)])
    <3> HIDE DEF to
    <3> QED
      BY <1>1, <2>2, <2>5 DEF Whole
  <2> QED
    BY <2>2, <2>6
<1> QED
  BY <1>5 DEF Whole

(* What the store of a character does to a screen on which texts are whole. *)
LEMMA WriteWhole ==
  ASSUME NEW s \in Screens, NEW n \in 0..Cells - 1, NEW char \in Chars, char # Blank,
         Free(s, n), Whole(s), NEW A, Lasts(s, A), NEW B,
         char = NL => A \subseteq B,
         char # NL => char \in B /\ \A x \in A : Follows(x, char)
  PROVE  /\ Put(s, n, char) \in Screens /\ Onward(n, char) \in Nat
         /\ Free(Put(s, n, char), Onward(n, char))
         /\ Whole(Put(s, n, char)) /\ Lasts(Put(s, n, char), B)
<1> DEFINE put == Put(s, n, char)
           beyond == IF char # NL THEN n + 1 ELSE n
           next == Onward(n, char)
<1>0. Cells \in Nat /\ DOMAIN s = 0..Cells - 1
  BY ScreenSize DEF Screens
<1>1. beyond \in Nat
  BY <1>0
<1>2. put \in Screens /\ Free(put, beyond) /\ Whole(put) /\ Lasts(put, B)
  <2>1. CASE char = NL
    BY <2>1 DEF Lasts, Put
  <2>2. CASE char # NL
    <3>1. put = [s EXCEPT ![n] = char] /\ beyond = n + 1
      BY <1>0, <2>2 DEF Put
    <3>2. put \in Screens /\ Free(put, beyond) /\ Whole(put) /\ Lasts(put, {char})
      BY <2>2, <3>1, PutWhole
    <3> HIDE DEF put, beyond
    <3> QED
      BY <2>2, <3>2 DEF Lasts
  <2> QED
    BY <2>1, <2>2
<1>3. next \in Nat /\ next >= beyond
  <2>1. next = IF char = NL \/ beyond >= Cells THEN Line(beyond) ELSE beyond
    BY DEF Onward
  <2> HIDE DEF beyond, next
  <2> QED
    BY <1>1, <2>1, LineForward
<1> HIDE DEF put, beyond, next
<1>4. Free(put, next)
  BY <1>0, <1>1, <1>2, <1>3 DEF Free
<1> QED
  BY <1>2, <1>3, <1>4 DEF put, next

-----------------------------------------------------------------------------
(* The inductive invariant.                                                *)

Before == {"idle", "readHi", "selectLo", "readLo", "write"}
Rolling == {"move", "clear"}
After == {"move", "clear", "selectHi2", "setHi", "selectLo2", "setLo"}

ConsoleTypes ==
  /\ screen \in Screens /\ cursor \in Registers /\ index \in {"hi", "lo"}
  /\ left \in [Threads -> Seq(Chars)]
  /\ at \in [Threads -> Before \cup After]
  /\ bx \in [Threads -> Registers]
  /\ edge \in [Threads -> 0..Cells - 1]

(* What is left of a text is the end of it.                                 *)
Done(t) == Len(Text[t]) - Len(left[t])
LeftOfText ==
  \A t \in Threads :
    /\ Len(left[t]) <= Len(Text[t])
    /\ \A i \in 1..Len(left[t]) : left[t][i] = Text[t][Done(t) + i]

(* A thread prints while it has the lock; before that it waits for it.      *)
Getting == {"acquire", "down", "loop", "own", "count"}
Giving == {"release", "clear", "up"}
Printing(t) == left[t] # <<>> /\ depth[t] > 0
Turns ==
  /\ left[Main] = <<>>
  /\ \A t \in Threads :
       /\ at[t] # "idle" => Printing(t)
       /\ left[t] # <<>> => pc[t] \in (IF depth[t] > 0 THEN {"run"} ELSE Getting)
       /\ left[t] # <<>> /\ depth[t] = 0 => left[t] = Text[t]

(* What a thread in __printchar knows of the cursor, where it is.           *)
CursorOK(t) ==
  /\ at[t] \in Before =>
       Word(cursor) \in 0..Cells - 1 /\ Free(screen, Word(cursor))
  /\ at[t] \in Rolling => Free(Rolled(screen, edge[t]), Cells - Cols)
  /\ at[t] = "move" => edge[t] < Cells - Cols /\ edge[t] % 2 = 0
  /\ at[t] = "clear" => Cells - Cols <= edge[t]
  /\ at[t] \in After \ Rolling =>
       Word(bx[t]) \in 0..Cells - 1 /\ Free(screen, Word(bx[t]))
  /\ at[t] \in {"selectLo", "readLo", "write", "selectLo2", "setLo"} =>
       bx[t].hi = cursor.hi
  /\ at[t] = "write" => bx[t].lo = cursor.lo
  /\ at[t] \in {"readHi", "setHi"} => index = "hi"
  /\ at[t] \in {"readLo", "setLo"} => index = "lo"

CursorInv ==
  /\ \A t \in Threads : at[t] \notin Rolling => edge[t] = 0
  /\ \A t \in Threads : at[t] # "idle" => CursorOK(t)
  /\ (\A t \in Threads : at[t] = "idle") =>
       Word(cursor) \in 0..Cells - 1 /\ Free(screen, Word(cursor))

(* The characters that may stand last when t has written n of its own.      *)
Behind(t, n) ==
  {c \in Chars : \/ \E i \in 1..n : c = Text[t][i] /\ c # NL /\ Unseen(Text[t], i, n + 1)
                 \/ Ends(c) /\ Unseen(Text[t], 0, n + 1)}
Ending == {c \in Chars : Ends(c)}

Written(t) == Done(t) + (IF at[t] \in After THEN 1 ELSE 0)

(* The screen as it is when the roll under way is over.                     *)
Final(t) == IF at[t] \in Rolling THEN Rolled(screen, edge[t]) ELSE screen

ScreenInv ==
  /\ \A t \in Threads : Printing(t) =>
       Whole(Final(t)) /\ Lasts(Final(t), Behind(t, Written(t)))
  /\ (\A t \in Threads : ~Printing(t)) => Whole(screen) /\ Lasts(screen, Ending)

ConsoleInv ==
  SyncInv /\ ConsoleTypes /\ LeftOfText /\ Turns /\ CursorInv /\ ScreenInv

-----------------------------------------------------------------------------
(* Two threads never print at once.                                         *)
LEMMA OnePrinter ==
  ASSUME SyncInv, NEW t \in Threads, NEW u \in Threads,
         depth[t] > 0 \/ pc[t] \in {"own", "count"}, depth[u] > 0
  PROVE  t = u
<1>1. PICK console \in Locks : Locks = {console}
  BY ConsoleAssumption
<1>2. want[t] = console /\ want[u] = console
  BY <1>1 DEF SyncInv, SyncTypeOK
<1>3. Owns(t, console) /\ Owns(u, console)
  BY <1>2 DEF Owns
<1> QED
  BY <1>1, <1>3, OnlyOwner

(* How a thread moves through sync.c when it never nests.                   *)
Moves(t) ==
  \/ pc'[t] = pc[t] /\ depth'[t] = depth[t]
  \/ pc[t] \in Getting /\ depth[t] = 0 /\ pc'[t] \in Getting /\ depth'[t] = 0
  \/ pc[t] = "count" /\ depth[t] = 0 /\ pc'[t] = "run" /\ depth'[t] = 1
  \/ pc[t] \in Giving /\ depth[t] = 1 /\ pc'[t] \in Giving /\ depth'[t] = 1
  \/ pc[t] \in Giving /\ depth[t] = 1 /\ pc'[t] = "run" /\ depth'[t] = 0

(* Those are all the ways: every step of sync.c is one of them.             *)
LEMMA SyncMoves ==
  ASSUME SyncInv, Interrupt \/ Wake \/ MainStep \/ SyncStep
  PROVE  \A t \in Threads : Moves(t)
<1>0. /\ pc \in [Threads -> PC] /\ depth \in [Threads -> 0..1] /\ cur \in Threads
      /\ want \in [Threads -> Locks]
  BY ConsoleAssumption DEF SyncInv, SyncTypeOK, ThreadInv, TypeOK
<1>1. ASSUME pc' = pc, depth' = depth PROVE \A t \in Threads : Moves(t)
  BY <1>1 DEF Moves
<1>2. ASSUME NEW q, pc' = [pc EXCEPT ![cur] = q], NEW d, depth' = [depth EXCEPT ![cur] = d]
      PROVE  /\ pc'[cur] = q /\ depth'[cur] = d
             /\ \A t \in Threads \ {cur} : Moves(t)
  BY <1>0, <1>2 DEF Moves
<1>3. /\ pc[cur] \in {"down", "loop", "own", "count"} => depth[cur] = 0
      /\ pc[cur] = "acquire" => depth[cur] = 0
      /\ pc[cur] # "again"
      /\ pc[cur] = "release" => depth[cur] = 1
      /\ pc[cur] \in {"clear", "up"} => depth[cur] = 1
  BY <1>0, ConsoleAssumption DEF SyncInv, PlaceInv
<1>4. CASE Interrupt \/ Wake \/ MainStep
  BY <1>1, <1>4 DEF Interrupt, Wake, MainStep, flow_vars
<1>5. CASE AcquireTest
  <2>1. holder[L] # cur
    <3>1. SUFFICES ASSUME holder[L] = cur PROVE FALSE
      OBVIOUS
    <3>2. Owns(cur, L) /\ pc[cur] = "acquire"
      BY <1>0, <1>5, <3>1, HolderOwns, ThreadAssumption DEF L, AcquireTest, At
    <3> QED
      BY <1>3, <3>2 DEF Owns
  <2>2. pc[cur] = "acquire" /\ pc' = [pc EXCEPT ![cur] = "down"]
        /\ depth' = [depth EXCEPT ![cur] = depth[cur]]
    BY <1>0, <1>5, <2>1 DEF AcquireTest, At, Goto
  <2>3. Moves(cur)
    BY <1>2, <1>3, <2>2 DEF Moves, Getting
  <2> QED
    BY <1>2, <2>2, <2>3
<1>6. CASE AcquireOwn
  <2>2. pc[cur] = "own" /\ pc' = [pc EXCEPT ![cur] = "count"]
        /\ depth' = [depth EXCEPT ![cur] = depth[cur]]
    BY <1>0, <1>6 DEF AcquireOwn, At, Goto
  <2>3. Moves(cur)
    BY <1>2, <1>3, <2>2 DEF Moves, Getting
  <2> QED
    BY <1>2, <2>2, <2>3
<1>7. CASE AcquireCount
  <2>1. CASE holderRepeatNr[L] = 0
    <3>1. pc[cur] = "count" /\ pc' = [pc EXCEPT ![cur] = "run"]
          /\ depth' = [depth EXCEPT ![cur] = depth[cur] + 1]
      BY <1>0, <1>7, <2>1 DEF AcquireCount, At, Goto
    <3>2. pc[cur] = "count" /\ pc' = [pc EXCEPT ![cur] = "run"]
          /\ depth' = [depth EXCEPT ![cur] = 1]
      <4>1. depth[cur] = 0
        BY <1>3, <3>1
      <4>2. depth[cur] + 1 = 1
        BY <4>1
      <4> QED
        BY <3>1, <4>2
    <3>3. Moves(cur)
      BY <1>2, <1>3, <3>2 DEF Moves, Getting
    <3> QED
      BY <1>2, <3>2, <3>3
  <2>2. CASE holderRepeatNr[L] # 0
    BY <1>1, <1>7, <2>2 DEF AcquireCount, PanicHere, flow_vars
  <2> QED
    BY <2>1, <2>2
<1>8. CASE AcquireAgain
  BY <1>3, <1>8 DEF AcquireAgain, At
<1>9. CASE SemaDownEnter
  <2>2. pc[cur] = "down" /\ pc' = [pc EXCEPT ![cur] = "loop"]
        /\ depth' = [depth EXCEPT ![cur] = depth[cur]]
    BY <1>0, <1>9 DEF SemaDownEnter, At, Goto
  <2>3. Moves(cur)
    BY <1>2, <1>3, <2>2 DEF Moves, Getting
  <2> QED
    BY <1>2, <2>2, <2>3
<1>10. CASE SemaDownWait
  BY <1>1, <1>10 DEF SemaDownWait, PanicHere, flow_vars
<1>11. CASE SemaDownTake
  <2>1. CASE value[L] - 1 = 0
    <3>2. pc[cur] = "loop" /\ pc' = [pc EXCEPT ![cur] = "own"]
          /\ depth' = [depth EXCEPT ![cur] = depth[cur]]
      BY <1>0, <1>11, <2>1 DEF SemaDownTake, At, Goto
    <3>3. Moves(cur)
      BY <1>2, <1>3, <3>2 DEF Moves, Getting
    <3> QED
      BY <1>2, <3>2, <3>3
  <2>2. CASE value[L] - 1 # 0
    BY <1>1, <1>11, <2>2 DEF SemaDownTake, PanicHere, flow_vars
  <2> QED
    BY <2>1, <2>2
<1>12. CASE ReleaseOne
  <2>1. pc[cur] = "release" /\ holderRepeatNr[L] > 1
    BY <1>12 DEF ReleaseOne, At
  <2>2. holderRepeatNr[L] = 1
    BY <1>0, <1>3, <2>1 DEF SyncInv, HolderInv, L
  <2> QED
    BY <2>1, <2>2
<1>13. CASE ReleaseLast
  <2>1. CASE holder[L] = cur /\ holderRepeatNr[L] = 1
    <3>2. pc[cur] = "release" /\ pc' = [pc EXCEPT ![cur] = "clear"]
          /\ depth' = [depth EXCEPT ![cur] = depth[cur]]
      BY <1>0, <1>13, <2>1 DEF ReleaseLast, At, Goto
    <3>3. Moves(cur)
      BY <1>2, <1>3, <3>2 DEF Moves, Giving
    <3> QED
      BY <1>2, <3>2, <3>3
  <2>2. CASE ~(holder[L] = cur /\ holderRepeatNr[L] = 1)
    BY <1>1, <1>13, <2>2 DEF ReleaseLast, PanicHere, flow_vars
  <2> QED
    BY <2>1, <2>2
<1>14. CASE ReleaseClear
  <2>2. pc[cur] = "clear" /\ pc' = [pc EXCEPT ![cur] = "up"]
        /\ depth' = [depth EXCEPT ![cur] = depth[cur]]
    BY <1>0, <1>14 DEF ReleaseClear, At, Goto
  <2>3. Moves(cur)
    BY <1>2, <1>3, <2>2 DEF Moves, Giving
  <2> QED
    BY <1>2, <2>2, <2>3
<1>15. CASE SemaUp
  <2>1. CASE pc' = pc /\ depth' = depth
    BY <1>1, <2>1
  <2>2. CASE ~(pc' = pc /\ depth' = depth)
    <3>2. pc[cur] = "up" /\ pc' = [pc EXCEPT ![cur] = "run"]
          /\ depth' = [depth EXCEPT ![cur] = 0]
      BY <1>15, <2>2 DEF SemaUp, At, Goto, PanicHere, flow_vars
    <3>3. Moves(cur)
      BY <1>2, <1>3, <3>2 DEF Moves, Giving
    <3> QED
      BY <1>2, <3>2, <3>3
  <2> QED
    BY <2>1, <2>2
<1> QED
  BY <1>4, <1>5, <1>6, <1>7, <1>8, <1>9, <1>10, <1>11, <1>12, <1>13, <1>14, <1>15
     DEF SyncStep

(* The initial state satisfies the invariant.                               *)
LEMMA ConsoleInitInv == ConsoleInit => ConsoleInv
<1> SUFFICES ASSUME ConsoleInit PROVE ConsoleInv
  OBVIOUS
<1>0. Cells \in Nat \ {0} /\ 0 \in 0..Cells - 1 /\ Main \in Threads
  BY ScreenSize, ThreadAssumption
<1>1. SyncInv
  BY SyncInitInv DEF ConsoleInit
<1>2. Bytes(0) \in Registers /\ Word(Bytes(0)) = 0
  BY <1>0, WordOfBytes
<1>3. /\ \A c \in 0..Cells - 1 : screen[c] = Blank
      /\ screen \in Screens
  BY DEF ConsoleInit, Screens
<1>4. /\ cursor = Bytes(0) /\ index = "hi"
      /\ \A t \in Threads : left[t] = <<>> /\ at[t] = "idle" /\ bx[t] = Bytes(0)
      /\ left = [t \in Threads |-> <<>>] /\ at = [t \in Threads |-> "idle"]
      /\ bx = [t \in Threads |-> Bytes(0)]
      /\ edge = [t \in Threads |-> 0]
  BY DEF ConsoleInit
<1>5. ConsoleTypes
  BY <1>0, <1>2, <1>3, <1>4 DEF ConsoleTypes, Before
<1>6. LeftOfText
  BY <1>4, Texts DEF LeftOfText
<1>7. Turns
  BY <1>0, <1>4 DEF Turns
<1>8. CursorInv
  BY <1>0, <1>2, <1>3, <1>4 DEF CursorInv, Free
<1>9. ScreenInv
  BY <1>3, <1>4 DEF ScreenInv, Whole, Lasts, Neighbours, IsLast, Printing
<1> QED
  BY <1>1, <1>5, <1>6, <1>7, <1>8, <1>9 DEF ConsoleInv

(* A thread that has not begun or is between two characters.                *)
LEMMA WrittenIdle ==
  ASSUME NEW t \in Threads, at[t] \in Before, LeftOfText, ConsoleTypes
  PROVE  Written(t) = Done(t) /\ Done(t) \in Nat /\ Done(t) <= Len(Text[t])
<1>1. Len(left[t]) \in Nat /\ Len(Text[t]) \in Nat /\ Len(left[t]) <= Len(Text[t])
  BY Texts DEF ConsoleTypes, LeftOfText
<1>2. at[t] \notin After
  BY DEF Before, After
<1>3. Done(t) \in Nat /\ Done(t) <= Len(Text[t])
  <2>1. PICK a \in Nat : a = Len(Text[t])
    BY <1>1
  <2>2. PICK b \in Nat : b = Len(left[t])
    BY <1>1
  <2>3. b <= a
    BY <1>1, <2>1, <2>2
  <2>4. a - b \in Nat /\ a - b <= a
    BY <2>3
  <2> QED
    BY <2>1, <2>2, <2>4, Zenon DEF Done
<1>4. Written(t) = Done(t) + 0
  BY <1>2, Zenon DEF Written
<1> QED
  BY <1>3, <1>4

(* A text of which nothing is written may follow what may follow an end.    *)
LEMMA BehindNothing ==
  ASSUME NEW t \in Threads
  PROVE  Ending \subseteq Behind(t, 0)
BY DEF Ending, Behind, Unseen

(* The end of a text is an end.                                             *)
LEMMA BehindAll ==
  ASSUME NEW t \in Threads
  PROVE  Behind(t, Len(Text[t])) \subseteq Ending
<1>1. ASSUME NEW c \in Chars, NEW i \in 1..Len(Text[t]), c = Text[t][i], c # NL,
             Unseen(Text[t], i, Len(Text[t]) + 1)
      PROVE  Ends(c)
  BY <1>1, Texts DEF Ends
<1> QED
  BY <1>1 DEF Behind, Ending

(* What is written of its text moves on by a character.                     *)
LEMMA BehindMore ==
  ASSUME NEW t \in Threads, NEW n \in Nat, n < Len(Text[t])
  PROVE  LET char == Text[t][n + 1] IN
         /\ char \in Chars /\ char # Blank
         /\ char = NL => Behind(t, n) \subseteq Behind(t, n + 1)
         /\ char # NL => /\ char \in Behind(t, n + 1)
                         /\ \A x \in Behind(t, n) : Follows(x, char)
<1> DEFINE char == Text[t][n + 1]
<1>0. /\ Len(Text[t]) \in Nat /\ DOMAIN Text[t] = 1..Len(Text[t])
      /\ n + 1 \in 1..Len(Text[t])
      /\ char \in Chars /\ char # Blank
  BY Texts
<1>1. ASSUME char = NL, NEW x \in Behind(t, n) PROVE x \in Behind(t, n + 1)
  <2>0. x \in Chars
    BY DEF Behind
  <2>1. \A i \in 0..n : Unseen(Text[t], i, n + 1) => Unseen(Text[t], i, (n + 1) + 1)
    BY <1>0, <1>1 DEF Unseen
  <2>2. CASE \E i \in 1..n : x = Text[t][i] /\ x # NL /\ Unseen(Text[t], i, n + 1)
    <3>1. PICK i \in 1..n : x = Text[t][i] /\ x # NL /\ Unseen(Text[t], i, n + 1)
      BY <2>2
    <3>2. i \in 1..n + 1 /\ Unseen(Text[t], i, (n + 1) + 1)
      BY <2>1, <3>1
    <3> QED
      BY <2>0, <3>1, <3>2 DEF Behind
  <2>3. CASE Ends(x) /\ Unseen(Text[t], 0, n + 1)
    BY <2>0, <2>1, <2>3 DEF Behind
  <2> QED
    BY <2>2, <2>3 DEF Behind
<1>2. ASSUME char # NL PROVE char \in Behind(t, n + 1)
  <2>1. Unseen(Text[t], n + 1, (n + 1) + 1)
    BY DEF Unseen
  <2>2. n + 1 \in 1..n + 1
    OBVIOUS
  <2> QED
    BY <1>0, <1>2, <2>1, <2>2 DEF Behind
<1>3. ASSUME char # NL, NEW x \in Behind(t, n) PROVE Follows(x, char)
  <2>1. CASE \E i \in 1..n : x = Text[t][i] /\ x # NL /\ Unseen(Text[t], i, n + 1)
    <3>1. PICK i \in 1..n : x = Text[t][i] /\ x # NL /\ Unseen(Text[t], i, n + 1)
      BY <2>1
    <3>2. i \in DOMAIN Text[t] /\ n + 1 \in DOMAIN Text[t] /\ i < n + 1
      BY <1>0
    <3> QED
      BY <1>3, <3>1, <3>2 DEF Follows
  <2>2. CASE Ends(x) /\ Unseen(Text[t], 0, n + 1)
    <3>1. Begins(char)
      BY <1>0, <1>3, <2>2 DEF Begins
    <3> QED
      BY <2>2, <3>1 DEF Follows
  <2> QED
    BY <2>1, <2>2 DEF Behind
<1> QED
  BY <1>0, <1>1, <1>2, <1>3

-----------------------------------------------------------------------------
(* Steps that print nothing.                                               *)

(* A step that moves threads through sync.c, and may give a text to a       *)
(* thread that has begun to acquire the lock.                               *)
LEMMA QuietStep ==
  ASSUME ConsoleInv, SyncInv', UNCHANGED <<screen, cursor, index, at, bx, edge>>,
         \A t \in Threads :
           \/ Moves(t) /\ left'[t] = left[t]
           \/ left[t] = <<>> /\ left'[t] = <<>>
           \/ /\ t # Main /\ pc'[t] = "acquire" /\ depth[t] = 0 /\ depth'[t] = 0
              /\ left'[t] = Text[t],
         left' \in [Threads -> Seq(Chars)]
  PROVE  ConsoleInv'
<1>0. /\ depth \in [Threads -> 0..1] /\ pc \in [Threads -> PC] /\ Main \in Threads
      /\ depth' \in [Threads -> 0..1] /\ pc' \in [Threads -> PC]
  BY ConsoleAssumption, ThreadAssumption DEF ConsoleInv, SyncInv, SyncTypeOK
<1>1. ConsoleTypes'
  BY DEF ConsoleInv, ConsoleTypes
<1>2. LeftOfText'
  <2>1. ASSUME NEW t \in Threads, left'[t] = left[t] PROVE
          /\ Len(left'[t]) <= Len(Text[t])
          /\ \A i \in 1..Len(left'[t]) : left'[t][i] = Text[t][Done(t)' + i]
    BY <2>1 DEF ConsoleInv, LeftOfText, Done
  <2>2. ASSUME NEW t \in Threads, left'[t] = Text[t] PROVE
          /\ Len(left'[t]) <= Len(Text[t])
          /\ \A i \in 1..Len(left'[t]) : left'[t][i] = Text[t][Done(t)' + i]
    <3>1. Len(Text[t]) \in Nat /\ Done(t)' = 0
      BY <2>2, Texts DEF Done
    <3> QED
      BY <2>2, <3>1
  <2> QED
    BY <2>1, <2>2 DEF LeftOfText
<1>3. Turns'
  <2>1. left'[Main] = <<>>
    BY <1>0 DEF ConsoleInv, Turns
  <2>2. ASSUME NEW t \in Threads, at'[t] # "idle" PROVE Printing(t)'
    <3>1. left[t] # <<>> /\ depth[t] > 0 /\ pc[t] = "run"
      BY <2>2 DEF ConsoleInv, Turns, Printing
    <3>2. left'[t] = left[t] /\ depth'[t] = depth[t]
      <4>1. depth[t] # 0
        BY <1>0, <3>1
      <4>2. Moves(t) /\ left'[t] = left[t]
        BY <3>1, <4>1
      <4> QED
        BY <3>1, <4>1, <4>2, Zenon DEF Moves, Getting, Giving
    <3> QED
      BY <3>1, <3>2 DEF Printing
  <2>3. ASSUME NEW t \in Threads, left'[t] # <<>>
        PROVE  pc'[t] \in (IF depth'[t] > 0 THEN {"run"} ELSE Getting)
    <3>1. CASE pc'[t] = "acquire" /\ depth'[t] = 0
      BY <3>1 DEF Getting
    <3>2. CASE Moves(t) /\ left'[t] = left[t]
      <4>1. pc[t] \in (IF depth[t] > 0 THEN {"run"} ELSE Getting)
        BY <2>3, <3>2 DEF ConsoleInv, Turns
      <4> QED
        BY <1>0, <3>2, <4>1 DEF Moves, Getting, Giving
    <3> QED
      BY <2>3, <3>1, <3>2
  <2>4. ASSUME NEW t \in Threads, left'[t] # <<>>, depth'[t] = 0 PROVE left'[t] = Text[t]
    BY <1>0, <2>4 DEF ConsoleInv, Turns, Moves, Getting, Giving
  <2> QED
    BY <2>1, <2>2, <2>3, <2>4 DEF Turns
<1>4. CursorInv'
  BY DEF ConsoleInv, CursorInv, CursorOK, Free
<1>5. ASSUME NEW t \in Threads, Printing(t)'
      PROVE  Whole(Final(t)) /\ Lasts(Final(t), Behind(t, Written(t)'))
  <2>1. left'[t] # <<>> /\ depth'[t] > 0
    BY <1>5 DEF Printing
  <2>2. Moves(t) /\ left'[t] = left[t]
    BY <1>0, <2>1
  <2>3. Written(t)' = Written(t)
    BY <2>2 DEF Written, Done
  <2>4. CASE depth[t] > 0
    BY <2>1, <2>2, <2>3, <2>4 DEF ConsoleInv, ScreenInv, Printing
  <2>5. CASE depth[t] = 0
    <3>1. pc[t] = "count"
      BY <2>1, <2>2, <2>5 DEF Moves
    <3>2. \A u \in Threads : ~Printing(u)
      BY <2>5, <3>1, OnePrinter DEF Printing, ConsoleInv
    <3>3. Whole(screen) /\ Lasts(screen, Ending)
      BY <3>2 DEF ConsoleInv, ScreenInv
    <3>5. Final(t) = screen
      <4>1. at[t] = "idle"
        BY <3>2 DEF ConsoleInv, Turns
      <4> QED
        BY <4>1 DEF Final, Rolling
    <3>4. Written(t) = 0
      <4>1. at[t] = "idle" /\ left[t] = Text[t]
        BY <2>1, <2>2, <2>5, <3>2 DEF ConsoleInv, Turns
      <4>2. Len(Text[t]) \in Nat
        BY Texts
      <4> QED
        BY <4>1, <4>2 DEF Written, Done, After
    <3> QED
      BY <2>3, <3>3, <3>4, <3>5, BehindNothing DEF Lasts
  <2> QED
    BY <1>0, <2>4, <2>5
<1>6. ASSUME \A t \in Threads : ~Printing(t)'
      PROVE  Whole(screen) /\ Lasts(screen, Ending)
  <2>1. ASSUME NEW t \in Threads, Printing(t) PROVE FALSE
    <3>1. left[t] # <<>> /\ depth[t] > 0 /\ pc[t] = "run"
      BY <2>1 DEF ConsoleInv, Turns, Printing
    <3>2. left'[t] = left[t] /\ depth'[t] = depth[t]
      <4>1. depth[t] # 0
        BY <1>0, <3>1
      <4>2. Moves(t) /\ left'[t] = left[t]
        BY <3>1, <4>1
      <4> QED
        BY <3>1, <4>1, <4>2, Zenon DEF Moves, Getting, Giving
    <3> QED
      BY <1>6, <3>1, <3>2 DEF Printing
  <2> QED
    BY <2>1 DEF ConsoleInv, ScreenInv
<1>7. ScreenInv'
  <2>1. ASSUME NEW t \in Threads, Printing(t)'
        PROVE  Whole(Final(t))' /\ Lasts(Final(t), Behind(t, Written(t)))'
    <3>1. Final(t)' = Final(t)
      BY DEF Final, Rolled
    <3>2. Behind(t, Written(t))' = Behind(t, Written(t)')
      BY DEF Behind
    <3> QED
      BY <1>5, <2>1, <3>1, <3>2
  <2>2. ASSUME \A t \in Threads : ~Printing(t)' PROVE Whole(screen)' /\ Lasts(screen, Ending)'
    BY <1>6, <2>2 DEF Ending
  <2> QED
    BY <2>1, <2>2 DEF ScreenInv
<1> QED
  BY <1>1, <1>2, <1>3, <1>4, <1>7 DEF ConsoleInv

-----------------------------------------------------------------------------
(* Steps of __printchar.                                                   *)

(* Who is in __printchar is the one thread that prints.                     *)
LEMMA GoesFacts ==
  ASSUME ConsoleInv, NEW from \in Before \cup After, NEW to, Goes(from, to)
  PROVE  /\ cur \in Threads /\ at[cur] = from /\ at' = [at EXCEPT ![cur] = to]
         /\ at'[cur] = to
         /\ left[cur] # <<>> /\ depth[cur] > 0 /\ cur # Main
         /\ \A t \in Threads \ {cur} : at[t] = "idle" /\ ~Printing(t)
         /\ SyncInv' /\ cur' = cur /\ pc' = pc /\ depth' = depth
         /\ CursorOK(cur)
         /\ Whole(Final(cur)) /\ Lasts(Final(cur), Behind(cur, Written(cur)))
         /\ from \notin Rolling => Final(cur) = screen
<1>1. /\ cur \in Threads /\ at[cur] = from /\ left[cur] # <<>> /\ pc[cur] = "run"
      /\ UNCHANGED sync_vars /\ at' = [at EXCEPT ![cur] = to]
  BY DEF Goes, At, ConsoleInv, SyncInv, ThreadInv, TypeOK
<1>2. at'[cur] = to
  BY <1>1 DEF ConsoleInv, ConsoleTypes
<1>4. depth[cur] > 0
  BY <1>1 DEF ConsoleInv, Turns, Getting
<1>5. \A t \in Threads \ {cur} : at[t] = "idle" /\ ~Printing(t)
  BY <1>1, <1>4, OnePrinter DEF ConsoleInv, Turns, Printing
<1>6. SyncInv'
  BY <1>1, SyncStepKeepsInv DEF ConsoleInv
<1>7. cur' = cur /\ pc' = pc /\ depth' = depth
  BY <1>1 DEF sync_vars, thread_vars, flow_vars
<1>8. CursorOK(cur)
  <2>1. CASE from = "idle"
    BY <1>1, <1>5, <2>1 DEF ConsoleInv, CursorInv, CursorOK, After, Rolling
  <2>2. CASE from # "idle"
    BY <1>1, <2>2 DEF ConsoleInv, CursorInv
  <2> QED
    BY <2>1, <2>2
<1>9. Whole(Final(cur)) /\ Lasts(Final(cur), Behind(cur, Written(cur)))
  BY <1>1, <1>4 DEF ConsoleInv, ScreenInv, Printing
<1>10. cur # Main
  BY <1>1 DEF ConsoleInv, Turns
<1>11. from \notin Rolling => Final(cur) = screen
  BY <1>1 DEF Final
<1> QED
  BY <1>1, <1>2, <1>4, <1>5, <1>6, <1>7, <1>8, <1>9, <1>10, <1>11

(* An access in the middle of a character keeps the invariant if it keeps   *)
(* what is said of its thread.                                              *)
LEMMA PrintStep ==
  ASSUME ConsoleInv, NEW from \in Before \cup After, NEW to \in Before \cup After,
         Goes(from, to), to # "idle", left' = left,
         screen' \in Screens, cursor' \in Registers, index' \in {"hi", "lo"},
         NEW b \in Registers, bx' = [bx EXCEPT ![cur] = b],
         NEW e \in 0..Cells - 1, edge' = [edge EXCEPT ![cur] = e],
         to \notin Rolling => e = 0, CursorOK(cur)',
         Whole(Final(cur))', Lasts(Final(cur), Behind(cur, Written(cur)))'
  PROVE  ConsoleInv'
<1>1. /\ cur \in Threads /\ at' = [at EXCEPT ![cur] = to]
      /\ left[cur] # <<>> /\ depth[cur] > 0
      /\ \A t \in Threads \ {cur} : at[t] = "idle" /\ ~Printing(t)
      /\ SyncInv' /\ cur' = cur /\ pc' = pc /\ depth' = depth
  BY GoesFacts
<1>3. ConsoleTypes'
  BY <1>1 DEF ConsoleInv, ConsoleTypes
<1>4. at'[cur] # "idle" /\ \A t \in Threads \ {cur} : at'[t] = "idle"
  BY <1>1 DEF ConsoleInv, ConsoleTypes
<1>5. LeftOfText'
  BY DEF ConsoleInv, LeftOfText, Done
<1>6. \A t \in Threads : Printing(t)' <=> Printing(t)
  BY <1>1 DEF Printing
<1>7. Turns'
  BY <1>1, <1>4, <1>6 DEF ConsoleInv, Turns, Printing
<1>8. CursorInv'
  <2>1. \A t \in Threads : at'[t] \notin Rolling => edge'[t] = 0
    BY <1>1 DEF ConsoleInv, ConsoleTypes, CursorInv
  <2> QED
    BY <1>1, <1>4, <2>1 DEF CursorInv
<1>9. ScreenInv'
  <2>1. Printing(cur)' /\ \A t \in Threads \ {cur} : ~Printing(t)'
    BY <1>1, <1>6 DEF Printing
  <2>2. ASSUME NEW t \in Threads, Printing(t)'
        PROVE  Whole(Final(t))' /\ Lasts(Final(t), Behind(t, Written(t)))'
    <3>1. t = cur'
      BY <1>1, <2>1, <2>2
    <3> QED
      BY <3>1
  <2> QED
    BY <1>1, <2>1, <2>2 DEF ScreenInv
<1> QED
  BY <1>1, <1>3, <1>5, <1>7, <1>8, <1>9 DEF ConsoleInv

(* An access to the CRT controller: what is on the screen stays.            *)
LEMMA SameScreen ==
  ASSUME ConsoleInv, NEW from \in (Before \cup After) \ Rolling,
         NEW to \in (Before \cup After) \ Rolling,
         from \in After <=> to \in After,
         Goes(from, to), to # "idle", left' = left, screen' = screen, edge' = edge,
         cursor' \in Registers, index' \in {"hi", "lo"},
         NEW b \in Registers, bx' = [bx EXCEPT ![cur] = b], CursorOK(cur)'
  PROVE  ConsoleInv'
<1>1. /\ cur \in Threads /\ at[cur] = from /\ at'[cur] = to /\ cur' = cur
      /\ Whole(screen) /\ Lasts(screen, Behind(cur, Written(cur)))
  BY GoesFacts, Zenon
<1>2. Written(cur)' = Written(cur)
  <2>1. Done(cur)' = Done(cur)
    BY <1>1 DEF Done
  <2>2. at'[cur'] \in After <=> at[cur] \in After
    BY <1>1
  <2> QED
    BY <2>1, <2>2, Zenon DEF Written
<1>3. Final(cur)' = screen
  BY <1>1 DEF Final
<1>4. Whole(Final(cur))' /\ Lasts(Final(cur), Behind(cur, Written(cur)))'
  BY <1>1, <1>2, <1>3
<1>5. /\ screen' \in Screens /\ edge[cur] \in 0..Cells - 1 /\ edge[cur] = 0
      /\ edge' = [edge EXCEPT ![cur] = edge[cur]]
  BY <1>1 DEF ConsoleInv, ConsoleTypes, CursorInv
<1> QED
  BY <1>4, <1>5, PrintStep

(* One of the two registers is set.                                         *)
LEMMA SetRegister ==
  ASSUME NEW r \in Registers, NEW s \in Registers
  PROVE  /\ LET x == [r EXCEPT !["hi"] = s["hi"]] IN
              x \in Registers /\ x.hi = s.hi /\ x.lo = r.lo
         /\ LET x == [r EXCEPT !["lo"] = s["lo"]] IN
              x \in Registers /\ x.lo = s.lo /\ x.hi = r.hi
BY DEF Registers

(* Registers with the same bytes stand for the same position.               *)
LEMMA SameWord ==
  ASSUME NEW r \in Registers, NEW s \in Registers, r.hi = s.hi, r.lo = s.lo
  PROVE  Word(r) = Word(s)
BY DEF Word

(* The index register is set.                                               *)
LEMMA SelectKeepsInv ==
  ASSUME ConsoleInv, NEW from, NEW to, NEW which, Select(from, to, which),
         \/ from = "idle" /\ to = "readHi" /\ which = "hi"
         \/ from = "selectLo" /\ to = "readLo" /\ which = "lo"
         \/ from = "selectHi2" /\ to = "setHi" /\ which = "hi"
         \/ from = "selectLo2" /\ to = "setLo" /\ which = "lo"
  PROVE  ConsoleInv'
<1>1. /\ Goes(from, to) /\ index' = which /\ edge' = edge
      /\ screen' = screen /\ cursor' = cursor /\ left' = left /\ bx' = bx
  BY DEF Select
<1>2. /\ from \in (Before \cup After) \ Rolling /\ to \in (Before \cup After) \ Rolling
      /\ from \in After <=> to \in After
      /\ to # "idle" /\ which \in {"hi", "lo"}
  BY DEF Before, After, Rolling
<1>3. cur \in Threads /\ at[cur] = from /\ at'[cur] = to /\ cur' = cur /\ CursorOK(cur)
  BY <1>1, <1>2, GoesFacts
<1>4. CursorOK(cur)'
  BY <1>1, <1>3 DEF CursorOK, Before, After, Rolling, Free
<1>5. bx' = [bx EXCEPT ![cur] = bx[cur]] /\ bx[cur] \in Registers /\ cursor' \in Registers
  BY <1>1, <1>3 DEF ConsoleInv, ConsoleTypes
<1> QED
  BY <1>1, <1>2, <1>4, <1>5, SameScreen

(* A byte of the cursor is read.                                            *)
LEMMA InKeepsInv ==
  ASSUME ConsoleInv, In("readHi", "selectLo", "hi") \/ In("readLo", "write", "lo")
  PROVE  ConsoleInv'
<1>0. cursor \in Registers /\ bx \in [Threads -> Registers] /\ index \in {"hi", "lo"}
  BY DEF ConsoleInv, ConsoleTypes
<1>1. ASSUME NEW from, NEW to, Goes(from, to), NEW b \in Registers,
             bx' = [bx EXCEPT ![cur] = b], UNCHANGED <<screen, cursor, index, left, edge>>,
             \/ from = "readHi" /\ to = "selectLo" /\ b.hi = cursor.hi
             \/ from = "readLo" /\ to = "write" /\ b.lo = cursor.lo /\ b.hi = bx[cur].hi
      PROVE  ConsoleInv'
  <2>0. /\ from \in (Before \cup After) \ Rolling /\ to \in (Before \cup After) \ Rolling
        /\ from \in After <=> to \in After
        /\ to # "idle"
    BY <1>1 DEF Before, After, Rolling
  <2>1. screen' = screen /\ cursor' = cursor /\ left' = left /\ index' = index /\ edge' = edge
    BY <1>1
  <2>2. cur \in Threads /\ at[cur] = from /\ at'[cur] = to /\ cur' = cur /\ CursorOK(cur)
    BY <1>1, <2>0, GoesFacts
  <2>3. bx'[cur] = b
    BY <1>0, <1>1, <2>2
  <2>4. CursorOK(cur)'
    BY <1>1, <2>1, <2>2, <2>3 DEF CursorOK, Before, After, Rolling, Free
  <2> QED
    BY <1>0, <1>1, <2>0, <2>1, <2>4, SameScreen
<1>2. CASE In("readHi", "selectLo", "hi")
  <2>1. Goes("readHi", "selectLo") /\ bx' = [bx EXCEPT ![cur]["hi"] = cursor[index]]
        /\ UNCHANGED <<screen, cursor, index, left, edge>>
    BY <1>2 DEF In
  <2>2. cur \in Threads /\ index = "hi"
    BY <2>1, GoesFacts DEF CursorOK, Before
  <2>3. PICK b : b = [bx[cur] EXCEPT !["hi"] = cursor["hi"]]
    OBVIOUS
  <2>4. b \in Registers /\ b.hi = cursor.hi
    BY <1>0, <2>2, <2>3, SetRegister
  <2>5. bx' = [bx EXCEPT ![cur] = b]
    BY <2>1, <2>2, <2>3, Zenon
  <2> QED
    BY <1>1, <2>1, <2>4, <2>5
<1>3. CASE In("readLo", "write", "lo")
  <2>1. Goes("readLo", "write") /\ bx' = [bx EXCEPT ![cur]["lo"] = cursor[index]]
        /\ UNCHANGED <<screen, cursor, index, left, edge>>
    BY <1>3 DEF In
  <2>2. cur \in Threads /\ index = "lo"
    BY <2>1, GoesFacts DEF CursorOK, Before
  <2>3. PICK b : b = [bx[cur] EXCEPT !["lo"] = cursor["lo"]]
    OBVIOUS
  <2>4. b \in Registers /\ b.lo = cursor.lo /\ b.hi = bx[cur].hi
    BY <1>0, <2>2, <2>3, SetRegister
  <2>5. bx' = [bx EXCEPT ![cur] = b]
    BY <2>1, <2>2, <2>3, Zenon
  <2> QED
    BY <1>1, <2>1, <2>4, <2>5
<1> QED
  BY <1>2, <1>3

(* The character is stored; if there is no next line the roll begins.       *)
LEMMA WriteKeepsInv == ASSUME ConsoleInv, Write PROVE ConsoleInv'
<1>1. PICK n, char, next, to :
        /\ n = Word(bx[cur]) /\ char = Head(left[cur]) /\ next = Onward(n, char)
        /\ to = IF next < Cells THEN "selectHi2" ELSE "move"
        /\ Goes("write", to) /\ screen' = Put(screen, n, char)
        /\ bx' = [bx EXCEPT ![cur] = Bytes(next)]
        /\ cursor' = cursor /\ index' = index /\ left' = left /\ edge' = edge
  BY DEF Write
<1>2. /\ cur \in Threads /\ at[cur] = "write" /\ at'[cur] = to
      /\ cur' = cur /\ CursorOK(cur) /\ left[cur] # <<>>
      /\ Lasts(screen, Behind(cur, Written(cur))) /\ Whole(screen)
  <2>1. "write" \in Before \cup After /\ "write" \notin Rolling
    BY DEF Before, Rolling
  <2> QED
    BY <1>1, <2>1, GoesFacts
<1>3. /\ cursor \in Registers /\ bx[cur] \in Registers /\ screen \in Screens
      /\ bx \in [Threads -> Registers] /\ left[cur] \in Seq(Chars)
      /\ edge \in [Threads -> 0..Cells - 1] /\ index \in {"hi", "lo"}
  BY <1>2 DEF ConsoleInv, ConsoleTypes
<1>4. n \in 0..Cells - 1 /\ Free(screen, n)
  BY <1>1, <1>2, <1>3, SameWord DEF CursorOK, Before
<1>k. PICK k : k = Done(cur)
  OBVIOUS
<1>5. Written(cur) = k /\ k \in Nat /\ k < Len(Text[cur]) /\ char = Text[cur][k + 1]
  <2>1. Written(cur) = k /\ k \in Nat
    BY <1>2, <1>k, WrittenIdle DEF ConsoleInv, Before
  <2>2. PICK a \in Nat : a = Len(Text[cur])
    BY <1>2, Texts
  <2>3. PICK b \in Nat : b = Len(left[cur]) /\ b > 0
    BY <1>2, <1>3
  <2>4. k = a - b
    BY <1>k, <2>2, <2>3, Zenon DEF Done
  <2>5. a - b < a
    BY <2>3
  <2>6. char = left[cur][1]
    BY <1>1, <1>3
  <2>7. left[cur][1] = Text[cur][k + 1]
    <3>1. 1 \in 1..Len(left[cur])
      BY <2>3
    <3> QED
      BY <1>2, <1>k, <3>1, Zenon DEF ConsoleInv, LeftOfText
  <2> QED
    BY <2>1, <2>2, <2>4, <2>5, <2>6, <2>7, Zenon
<1>6. /\ char \in Chars /\ char # Blank
      /\ char = NL => Behind(cur, k) \subseteq Behind(cur, k + 1)
      /\ char # NL => /\ char \in Behind(cur, k + 1)
                      /\ \A x \in Behind(cur, k) : Follows(x, char)
  BY <1>2, <1>5, BehindMore
<1>7. /\ screen' \in Screens /\ next \in Nat /\ Free(screen', next)
      /\ Whole(screen') /\ Lasts(screen', Behind(cur, k + 1))
  <2>1. Lasts(screen, Behind(cur, k))
    BY <1>2, <1>5
  <2> QED
    BY <1>1, <1>2, <1>3, <1>4, <1>6, <2>1, WriteWhole
<1>8. Bytes(next) \in Registers /\ (next < Cells => Word(Bytes(next)) = next)
  BY <1>7, WordOfBytes, BytesInRegisters, ScreenSize
<1>9. bx'[cur] = Bytes(next)
  BY <1>1, <1>2, <1>3
<1>10. Written(cur)' = k + 1
  <2>1. Done(cur)' = k
    BY <1>1, <1>2, <1>k DEF Done
  <2>2. at'[cur'] \in After
    BY <1>1, <1>2 DEF After
  <2> QED
    BY <2>1, <2>2, Zenon DEF Written
<1>11. to \in Before \cup After /\ to # "idle" /\ "write" \in Before \cup After
  BY <1>1 DEF Before, After
<1>12. /\ edge' = [edge EXCEPT ![cur] = edge[cur]] /\ edge[cur] \in 0..Cells - 1
       /\ edge[cur] = 0
  <2>1. at[cur] \notin Rolling
    BY <1>2 DEF Rolling
  <2> QED
    BY <1>1, <1>2, <1>3, <2>1 DEF ConsoleInv, CursorInv
<1>13. CASE next < Cells
  <2>1. to = "selectHi2"
    BY <1>1, <1>13
  <2>2. Final(cur)' = screen'
    BY <1>2, <2>1 DEF Final, Rolling
  <2>3. Whole(Final(cur))' /\ Lasts(Final(cur), Behind(cur, Written(cur)))'
    BY <1>2, <1>7, <1>10, <2>2
  <2>4. Word(bx[cur])' = next
    BY <1>2, <1>8, <1>9, <1>13
  <2>5. (Word(bx[cur]) \in 0..Cells - 1 /\ Free(screen, Word(bx[cur])))'
    BY <1>7, <1>13, <2>4, ScreenSize
  <2>6. CursorOK(cur)'
    BY <1>2, <2>1, <2>5 DEF CursorOK, Before, Rolling
  <2> QED
    BY <1>1, <1>3, <1>7, <1>8, <1>11, <1>12, <2>3, <2>6, PrintStep
<1>14. CASE ~(next < Cells)
  <2>1. to = "move"
    BY <1>1, <1>14
  <2>2. edge[cur] = 0
    BY <1>12
  <2>3. Final(cur)' = Rolled(screen', 0)
    BY <1>1, <1>2, <2>1, <2>2 DEF Final, Rolling
  <2>4. /\ Free(Rolled(screen', 0), Cells - Cols) /\ Whole(Rolled(screen', 0))
        /\ Lasts(Rolled(screen', 0), Behind(cur, k + 1))
    BY <1>7, RollWhole
  <2>5. Whole(Final(cur))' /\ Lasts(Final(cur), Behind(cur, Written(cur)))'
    BY <1>2, <1>10, <2>3, <2>4
  <2>6. 0 < Cells - Cols /\ 0 % 2 = 0
    BY MoreLines
  <2>7. edge'[cur] = 0 /\ Free(Rolled(screen, edge[cur]), Cells - Cols)'
    BY <1>1, <1>2, <2>2, <2>4
  <2>8. CursorOK(cur)'
    BY <1>2, <2>1, <2>6, <2>7 DEF CursorOK, Before, After, Rolling
  <2> QED
    BY <1>1, <1>3, <1>7, <1>8, <1>11, <1>12, <2>5, <2>8, PrintStep
<1> QED
  BY <1>13, <1>14

(* A step of the roll: the screen it leaves stays the same.                 *)
LEMMA RollStep ==
  ASSUME ConsoleInv, NEW from \in Rolling, NEW to \in Rolling, Goes(from, to),
         screen' \in Screens, NEW e \in 0..Cells - 1, edge' = [edge EXCEPT ![cur] = e],
         Rolled(screen', e) = Rolled(screen, edge[cur]),
         to = "move" => e < Cells - Cols /\ e % 2 = 0,
         to = "clear" => Cells - Cols <= e,
         NEW b \in Registers, bx' = [bx EXCEPT ![cur] = b],
         cursor' = cursor, index' = index, left' = left
  PROVE  ConsoleInv'
<1>0. from \in Before \cup After /\ to \in Before \cup After /\ to # "idle"
  BY DEF Before, After, Rolling
<1>1. /\ cur \in Threads /\ at[cur] = from /\ at'[cur] = to
      /\ cur' = cur /\ CursorOK(cur)
      /\ Whole(Final(cur)) /\ Lasts(Final(cur), Behind(cur, Written(cur)))
  BY <1>0, GoesFacts
<1>2. edge'[cur] = e /\ cursor' \in Registers /\ index' \in {"hi", "lo"}
  BY <1>1 DEF ConsoleInv, ConsoleTypes
<1>3. Final(cur) = Rolled(screen, edge[cur]) /\ Final(cur)' = Rolled(screen, edge[cur])
  BY <1>1, <1>2 DEF Final
<1>4. Written(cur)' = Written(cur)
  <2>1. Done(cur)' = Done(cur)
    BY <1>1 DEF Done
  <2>2. at'[cur'] \in After /\ at[cur] \in After
    BY <1>1 DEF After, Rolling
  <2> QED
    BY <2>1, <2>2, Zenon DEF Written
<1>5. Whole(Final(cur))' /\ Lasts(Final(cur), Behind(cur, Written(cur)))'
  BY <1>1, <1>3, <1>4
<1>6. CursorOK(cur)'
  <2>1. Free(Rolled(screen, edge[cur]), Cells - Cols)
    BY <1>1 DEF CursorOK
  <2>2. Free(Rolled(screen, edge[cur]), Cells - Cols)'
    BY <1>1, <1>2, <2>1
  <2> QED
    BY <1>1, <1>2, <2>2 DEF CursorOK, Before, After, Rolling
<1> QED
  BY <1>0, <1>2, <1>5, <1>6, PrintStep

(* Two cells are moved up.                                                  *)
LEMMA MoveKeepsInv == ASSUME ConsoleInv, Move PROVE ConsoleInv'
<1>1. PICK e, to :
        /\ e = edge[cur] /\ to = IF e + 2 < Cells - Cols THEN "move" ELSE "clear"
        /\ Goes("move", to) /\ screen' = Moved(screen, e)
        /\ edge' = [edge EXCEPT ![cur] = e + 2]
        /\ cursor' = cursor /\ index' = index /\ left' = left /\ bx' = bx
  BY DEF Move
<1>2. "move" \in Before \cup After /\ "move" \in Rolling /\ to \in Rolling
  BY <1>1 DEF After, Rolling
<1>3. cur \in Threads /\ at[cur] = "move" /\ CursorOK(cur)
  BY <1>1, <1>2, GoesFacts
<1>4. /\ screen \in Screens /\ e \in 0..Cells - 1 /\ e < Cells - Cols /\ e % 2 = 0
      /\ bx[cur] \in Registers /\ bx' = [bx EXCEPT ![cur] = bx[cur]]
  BY <1>1, <1>3 DEF ConsoleInv, ConsoleTypes, CursorOK
<1>5. /\ screen' \in Screens /\ Rolled(screen', e + 2) = Rolled(screen, e)
      /\ e + 2 <= Cells - Cols /\ (e + 2) % 2 = 0
  BY <1>1, <1>4, MoveRolls
<1>6. PICK n \in Nat : n = Cells - Cols /\ n < Cells
  BY ScreenSize
<1>7. /\ e + 2 \in 0..Cells - 1
      /\ to = "move" => e + 2 < Cells - Cols
      /\ to = "clear" => Cells - Cols <= e + 2
  BY <1>1, <1>4, <1>5, <1>6, ScreenSize
<1> QED
  BY <1>1, <1>2, <1>4, <1>5, <1>7, RollStep

(* A cell of the last line is cleared.                                      *)
LEMMA ClearKeepsInv == ASSUME ConsoleInv, Clear PROVE ConsoleInv'
<1>1. PICK e, to :
        /\ e = edge[cur] /\ to = IF e + 1 < Cells THEN "clear" ELSE "selectHi2"
        /\ Goes("clear", to) /\ screen' = Cleared(screen, e)
        /\ edge' = [edge EXCEPT ![cur] = IF e + 1 < Cells THEN e + 1 ELSE 0]
        /\ bx' = [bx EXCEPT ![cur] = IF e + 1 < Cells THEN bx[cur] ELSE Bytes(Cells - Cols)]
        /\ cursor' = cursor /\ index' = index /\ left' = left
  BY DEF Clear
<1>2. "clear" \in Before \cup After /\ "clear" \in Rolling
  BY DEF After, Rolling
<1>3. /\ cur \in Threads /\ at[cur] = "clear" /\ at'[cur] = to /\ cur' = cur /\ CursorOK(cur)
      /\ Whole(Final(cur)) /\ Lasts(Final(cur), Behind(cur, Written(cur)))
  BY <1>1, <1>2, GoesFacts
<1>4. /\ screen \in Screens /\ e \in 0..Cells - 1 /\ Cells - Cols <= e
      /\ bx \in [Threads -> Registers] /\ bx[cur] \in Registers
      /\ edge \in [Threads -> 0..Cells - 1]
      /\ cursor' \in Registers /\ index' \in {"hi", "lo"}
  BY <1>1, <1>3 DEF ConsoleInv, ConsoleTypes, CursorOK
<1>5. /\ screen' \in Screens /\ Rolled(screen', e + 1) = Rolled(screen, e)
      /\ e + 1 = Cells => screen' = Rolled(screen, e)
  BY <1>1, <1>4, ClearRolls
<1>6. CASE e + 1 < Cells
  <2>1. /\ to = "clear" /\ edge' = [edge EXCEPT ![cur] = e + 1]
        /\ bx' = [bx EXCEPT ![cur] = bx[cur]]
    BY <1>1, <1>6
  <2>2. e + 1 \in 0..Cells - 1 /\ Cells - Cols <= e + 1
    BY <1>4, <1>6, ScreenSize
  <2> QED
    BY <1>1, <1>2, <1>4, <1>5, <2>1, <2>2, RollStep
<1>7. CASE ~(e + 1 < Cells)
  <2>1. /\ to = "selectHi2" /\ edge' = [edge EXCEPT ![cur] = 0]
        /\ bx' = [bx EXCEPT ![cur] = Bytes(Cells - Cols)]
    BY <1>1, <1>7
  <2>2. e + 1 = Cells /\ Cells - Cols \in 0..Cells - 1 /\ 0 \in 0..Cells - 1
    BY <1>4, <1>7, ScreenSize
  <2>3. Bytes(Cells - Cols) \in Registers /\ Word(Bytes(Cells - Cols)) = Cells - Cols
    BY <2>2, WordOfBytes
  <2>4. bx'[cur] = Bytes(Cells - Cols) /\ edge'[cur] = 0
    BY <1>3, <1>4, <2>1
  <2>5. Final(cur) = screen' /\ Final(cur)' = screen'
    BY <1>1, <1>3, <1>5, <2>1, <2>2 DEF Final, Rolling
  <2>6. Written(cur)' = Written(cur)
    <3>1. Done(cur)' = Done(cur)
      BY <1>1, <1>3 DEF Done
    <3>2. at'[cur'] \in After /\ at[cur] \in After
      BY <1>3, <2>1 DEF After
    <3> QED
      BY <3>1, <3>2, Zenon DEF Written
  <2>7. Whole(Final(cur))' /\ Lasts(Final(cur), Behind(cur, Written(cur)))'
    BY <1>3, <2>5, <2>6
  <2>8. Free(screen', Cells - Cols)
    <3>1. Free(Rolled(screen, e), Cells - Cols)
      BY <1>1, <1>3 DEF CursorOK, Rolling
    <3> QED
      BY <1>5, <2>2, <3>1
  <2>9. (Word(bx[cur]) \in 0..Cells - 1 /\ Free(screen, Word(bx[cur])))'
    BY <1>3, <2>2, <2>3, <2>4, <2>8
  <2>10. CursorOK(cur)'
    BY <1>3, <2>1, <2>4, <2>9 DEF CursorOK, Before, Rolling
  <2>11. "selectHi2" \in Before \cup After
    BY DEF After
  <2> QED
    BY <1>1, <1>2, <1>4, <1>5, <2>1, <2>2, <2>3, <2>7, <2>10, <2>11, PrintStep
<1> QED
  BY <1>6, <1>7

(* The first byte of the cursor is set.                                     *)
LEMMA OutHiKeepsInv ==
  ASSUME ConsoleInv, Out("setHi", "selectLo2", "hi", left[cur]) PROVE ConsoleInv'
<1>0. cursor \in Registers /\ bx \in [Threads -> Registers] /\ left \in [Threads -> Seq(Chars)]
  BY DEF ConsoleInv, ConsoleTypes
<1>1. /\ Goes("setHi", "selectLo2") /\ cursor' = [cursor EXCEPT ![index] = bx[cur]["hi"]]
      /\ left' = [left EXCEPT ![cur] = left[cur]]
      /\ screen' = screen /\ index' = index /\ bx' = bx /\ edge' = edge
  BY DEF Out
<1>2. /\ "setHi" \in (Before \cup After) \ Rolling /\ "selectLo2" \in (Before \cup After) \ Rolling
      /\ "setHi" \in After /\ "selectLo2" \in After
  BY DEF After, Rolling
<1>3. /\ cur \in Threads /\ at[cur] = "setHi" /\ at'[cur] = "selectLo2"
      /\ cur' = cur /\ CursorOK(cur)
  BY <1>1, <1>2, GoesFacts
<1>4. left' = left
  BY <1>0, <1>1
<1>5. index = "hi"
  BY <1>3 DEF CursorOK
<1>6. cursor' \in Registers /\ cursor'.hi = bx[cur].hi
  <2>1. bx[cur] \in Registers /\ cursor' = [cursor EXCEPT !["hi"] = bx[cur]["hi"]]
    BY <1>0, <1>1, <1>3, <1>5
  <2> QED
    BY <1>0, <2>1, SetRegister
<1>7. CursorOK(cur)'
  <2>1. Word(bx[cur]) \in 0..Cells - 1 /\ Free(screen, Word(bx[cur]))
    BY <1>3 DEF CursorOK, After, Rolling
  <2>2. (Word(bx[cur]) \in 0..Cells - 1 /\ Free(screen, Word(bx[cur])))'
    BY <1>1, <1>3, <2>1
  <2> QED
    BY <1>1, <1>3, <1>6, <2>2 DEF CursorOK, Before, Rolling
<1>8. bx' = [bx EXCEPT ![cur] = bx[cur]] /\ bx[cur] \in Registers /\ index' \in {"hi", "lo"}
  BY <1>0, <1>1, <1>3, <1>5
<1> QED
  BY <1>1, <1>2, <1>4, <1>6, <1>7, <1>8, SameScreen

(* The second byte is set, and the character is done.                       *)
LEMMA OutLoKeepsInv ==
  ASSUME ConsoleInv, Out("setLo", "idle", "lo", Tail(left[cur])) PROVE ConsoleInv'
<1>0. cursor \in Registers /\ bx \in [Threads -> Registers] /\ left \in [Threads -> Seq(Chars)]
  BY DEF ConsoleInv, ConsoleTypes
<1>1. /\ Goes("setLo", "idle") /\ cursor' = [cursor EXCEPT ![index] = bx[cur]["lo"]]
      /\ left' = [left EXCEPT ![cur] = Tail(left[cur])]
      /\ screen' = screen /\ index' = index /\ bx' = bx /\ edge' = edge
  BY DEF Out
<1>2. /\ cur \in Threads /\ at[cur] = "setLo"
      /\ at' = [at EXCEPT ![cur] = "idle"]
      /\ cur' = cur /\ CursorOK(cur) /\ cur # Main
      /\ left[cur] # <<>> /\ depth[cur] > 0
      /\ Lasts(screen, Behind(cur, Written(cur))) /\ Whole(screen)
      /\ SyncInv' /\ pc' = pc /\ depth' = depth
      /\ \A t \in Threads \ {cur} : at[t] = "idle" /\ ~Printing(t)
  <2>1. "setLo" \in Before \cup After /\ "setLo" \notin Rolling
    BY DEF After, Rolling
  <2> QED
    BY <1>1, <2>1, GoesFacts, Zenon
<1>3. \A t \in Threads : at'[t] = "idle"
  BY <1>2 DEF ConsoleInv, ConsoleTypes
<1>4. /\ left'[cur] = Tail(left[cur])
      /\ \A t \in Threads \ {cur} : left'[t] = left[t]
  BY <1>0, <1>1, <1>2
<1>5. index = "lo" /\ cursor.hi = bx[cur].hi
  BY <1>2 DEF CursorOK
<1>6. cursor' \in Registers /\ cursor'.lo = bx[cur].lo /\ cursor'.hi = bx[cur].hi
  <2>1. bx[cur] \in Registers /\ cursor' = [cursor EXCEPT !["lo"] = bx[cur]["lo"]]
    BY <1>0, <1>1, <1>2, <1>5
  <2>2. cursor' \in Registers /\ cursor'.lo = bx[cur].lo /\ cursor'.hi = cursor.hi
    BY <1>0, <2>1, SetRegister
  <2> QED
    BY <1>5, <2>2
<1>7. Word(cursor') = Word(bx[cur])
  BY <1>0, <1>2, <1>6, SameWord
<1>8. CursorInv'
  <2>3. \A t \in Threads : edge'[t] = 0
    <3>1. \A t \in Threads : at[t] \notin Rolling
      BY <1>2 DEF Rolling
    <3> QED
      BY <1>1, <3>1 DEF ConsoleInv, CursorInv
  <2>1. Word(bx[cur]) \in 0..Cells - 1 /\ Free(screen, Word(bx[cur]))
    BY <1>2 DEF CursorOK, After, Rolling
  <2>2. Word(cursor)' \in 0..Cells - 1 /\ Free(screen, Word(cursor))'
    BY <1>1, <1>7, <2>1 DEF Free
  <2> QED
    BY <1>3, <2>2, <2>3 DEF CursorInv
<1>9. PICK a \in Nat : a = Len(Text[cur])
  BY <1>2, Texts
<1>10. PICK b \in Nat : b = Len(left[cur]) /\ b > 0
  BY <1>0, <1>2
<1>11. /\ b <= a /\ \A i \in 1..b : left[cur][i] = Text[cur][(a - b) + i]
  <2>1. Done(cur) = a - b
    BY <1>9, <1>10, Zenon DEF Done
  <2> QED
    BY <1>2, <1>9, <1>10, <2>1 DEF ConsoleInv, LeftOfText
<1>12. /\ Len(left'[cur]) = b - 1 /\ left'[cur] \in Seq(Chars)
       /\ \A i \in 1..b - 1 : left'[cur][i] = left[cur][i + 1]
  BY <1>0, <1>2, <1>4, <1>10
<1>13. Done(cur)' = (a - b) + 1 /\ Written(cur) = (a - b) + 1
  <2>1. Done(cur)' = a - (b - 1)
    BY <1>2, <1>9, <1>12, Zenon DEF Done
  <2>2. Done(cur) = a - b
    BY <1>9, <1>10, Zenon DEF Done
  <2>3. Written(cur) = Done(cur) + 1
    <3>1. at[cur] \in After
      BY <1>2 DEF After
    <3> QED
      BY <3>1, Zenon DEF Written
  <2>4. a - (b - 1) = (a - b) + 1
    OBVIOUS
  <2> QED
    BY <2>1, <2>2, <2>3, <2>4, Zenon
<1>14. LeftOfText'
  <2>1. ASSUME NEW t \in Threads, t # cur PROVE
          /\ Len(left'[t]) <= Len(Text[t])
          /\ \A i \in 1..Len(left'[t]) : left'[t][i] = Text[t][Done(t)' + i]
    <3>1. left'[t] = left[t] /\ Done(t)' = Done(t)
      BY <1>4, <2>1 DEF Done
    <3> QED
      BY <3>1 DEF ConsoleInv, LeftOfText
  <2>2. /\ Len(left'[cur]) <= Len(Text[cur])
        /\ \A i \in 1..Len(left'[cur]) : left'[cur][i] = Text[cur][((a - b) + 1) + i]
    <3>1. b - 1 <= a
      BY <1>11
    <3>2. ASSUME NEW i \in 1..b - 1 PROVE left'[cur][i] = Text[cur][((a - b) + 1) + i]
      <4>1. i + 1 \in 1..b /\ (a - b) + (i + 1) = ((a - b) + 1) + i
        OBVIOUS
      <4> QED
        BY <1>11, <1>12, <4>1
    <3> QED
      BY <1>9, <1>12, <3>1, <3>2
  <2>3. LeftOfText' <=> \A t \in Threads :
          /\ Len(left'[t]) <= Len(Text[t])
          /\ \A i \in 1..Len(left'[t]) : left'[t][i] = Text[t][Done(t)' + i]
    BY DEF LeftOfText
  <2>4. \A i \in 1..Len(left'[cur]) : left'[cur][i] = Text[cur][Done(cur)' + i]
    <3>1. PICK d : d = (a - b) + 1
      OBVIOUS
    <3>2. left[cur]' = left'[cur]
      BY <1>2
    <3>3. PICK e : e = Done(cur)'
      OBVIOUS
    <3>4. e = d
      BY <1>13, <3>1, <3>3
    <3> QED
      BY <2>2, <3>1, <3>3, <3>4
  <2>5. ASSUME NEW t \in Threads, t = cur PROVE
          /\ Len(left'[t]) <= Len(Text[t])
          /\ \A i \in 1..Len(left'[t]) : left'[t][i] = Text[t][Done(t)' + i]
    <3>1. Done(t)' = Done(cur)'
      BY <1>2, <2>5 DEF Done
    <3> QED
      BY <2>2, <2>4, <2>5, <3>1
  <2> QED
    BY <2>1, <2>3, <2>5
<1>15. Turns'
  <2>1. \A t \in Threads : left'[t] # <<>> => left[t] # <<>>
    BY <1>2, <1>4
  <2>2. left'[Main] = <<>>
    BY <1>2, <1>4, ThreadAssumption DEF ConsoleInv, Turns
  <2>3. \A t \in Threads : left'[t] # <<>> /\ depth'[t] = 0 => left'[t] = Text[t]
    BY <1>2, <1>4 DEF ConsoleInv, Turns
  <2> QED
    BY <1>2, <1>3, <2>1, <2>2, <2>3 DEF ConsoleInv, Turns
<1>16. ConsoleTypes'
  <2>1. left' \in [Threads -> Seq(Chars)]
    BY <1>0, <1>1, <1>12, <1>4
  <2>2. at' \in [Threads -> Before \cup After]
    <3>1. "idle" \in Before \cup After
      BY DEF Before
    <3> QED
      BY <1>2, <3>1 DEF ConsoleInv, ConsoleTypes
  <2> QED
    BY <1>1, <1>6, <2>1, <2>2 DEF ConsoleInv, ConsoleTypes
<1>17. ScreenInv'
  <2>1. \A t \in Threads \ {cur} : ~Printing(t)'
    BY <1>2, <1>4 DEF Printing
  <2>2. Lasts(screen, Behind(cur, (a - b) + 1))
    BY <1>2, <1>13
  <2>3. ASSUME NEW t \in Threads, Printing(t)'
        PROVE  Whole(Final(t))' /\ Lasts(Final(t), Behind(t, Written(t)))'
    <3>1. t = cur
      BY <2>1, <2>3
    <3>2. Written(t)' = Done(t)' + 0
      <4>1. at'[t] \notin After
        BY <1>3 DEF After
      <4> QED
        BY <4>1, Zenon DEF Written
    <3>3. Done(t)' = Done(cur)'
      BY <1>2, <3>1 DEF Done
    <3>4. ((a - b) + 1) + 0 = (a - b) + 1
      OBVIOUS
    <3>5. Written(t)' = (a - b) + 1
      BY <1>13, <3>2, <3>3, <3>4, Zenon
    <3>6. Lasts(screen, Behind(t, (a - b) + 1))
      BY <2>2, <3>1
    <3>7. Final(t)' = screen
      BY <1>1, <1>3 DEF Final, Rolling
    <3> QED
      BY <1>2, <3>5, <3>6, <3>7
  <2>4. ASSUME \A t \in Threads : ~Printing(t)' PROVE Lasts(screen, Ending)'
    <3>1. left'[cur] = <<>>
      BY <1>2, <2>4 DEF Printing
    <3>2. b - 1 = 0
      BY <1>12, <3>1
    <3>3. (a - b) + 1 = a
      BY <3>2
    <3>4. Lasts(screen, Behind(cur, Len(Text[cur])))
      BY <1>9, <2>2, <3>3
    <3>5. Lasts(screen, Ending)
      BY <1>2, <3>4, BehindAll DEF Lasts
    <3> QED
      BY <1>1, <3>5 DEF Lasts, IsLast, Ending
  <2>5. Whole(screen)'
    BY <1>1, <1>2 DEF Whole, Neighbours
  <2> QED
    BY <2>3, <2>4, <2>5 DEF ScreenInv
<1> QED
  BY <1>2, <1>8, <1>14, <1>15, <1>16, <1>17 DEF ConsoleInv

(* A text is begun.                                                         *)
LEMMA ConsolePrintKeepsInv == ASSUME ConsoleInv, ConsolePrint PROVE ConsoleInv'
<1>1. /\ CallAcquire /\ cur # Main /\ depth[cur] = 0
      /\ left' = [left EXCEPT ![cur] = Text[cur]]
      /\ UNCHANGED <<screen, cursor, index, at, bx, edge>>
  BY DEF ConsolePrint, LockConsole
<1>2. /\ SyncInv' /\ cur \in Threads /\ pc \in [Threads -> PC]
      /\ left \in [Threads -> Seq(Chars)]
  BY <1>1, CallAcquireKeepsInv
     DEF ConsoleInv, ConsoleTypes, SyncInv, SyncTypeOK, ThreadInv, TypeOK
<1>3. pc' = [pc EXCEPT ![cur] = "acquire"] /\ depth' = depth
  BY <1>1 DEF CallAcquire, Goto
<1>4. left' \in [Threads -> Seq(Chars)]
  <2>1. Text[cur] \in Seq(Chars)
    BY <1>2, Texts
  <2> QED
    BY <1>1, <1>2, <2>1
<1>5. ASSUME NEW t \in Threads
      PROVE  \/ Moves(t) /\ left'[t] = left[t]
             \/ /\ t # Main /\ pc'[t] = "acquire" /\ depth[t] = 0 /\ depth'[t] = 0
                /\ left'[t] = Text[t]
  <2>1. CASE t = cur
    BY <1>1, <1>2, <1>3, <2>1
  <2>2. CASE t # cur
    BY <1>1, <1>2, <1>3, <2>2 DEF Moves
  <2> QED
    BY <2>1, <2>2
<1> QED
  BY <1>1, <1>2, <1>4, <1>5, QuietStep

(* The lock is given back.                                                  *)
LEMMA ConsoleReleaseKeepsInv == ASSUME ConsoleInv, ConsoleRelease PROVE ConsoleInv'
<1>1. /\ CallRelease /\ left[cur] = <<>> /\ UNCHANGED <<screen, cursor, index, at, bx, edge>>
      /\ left' = left
  BY DEF ConsoleRelease, con_vars
<1>2. /\ SyncInv' /\ cur \in Threads /\ pc \in [Threads -> PC]
      /\ left \in [Threads -> Seq(Chars)]
  BY <1>1, CallReleaseKeepsInv
     DEF ConsoleInv, ConsoleTypes, SyncInv, SyncTypeOK, ThreadInv, TypeOK
<1>3. pc' = [pc EXCEPT ![cur] = "release"] /\ depth' = depth
  BY <1>1 DEF CallRelease, Goto
<1>4. ASSUME NEW t \in Threads
      PROVE  \/ Moves(t) /\ left'[t] = left[t]
             \/ left[t] = <<>> /\ left'[t] = <<>>
  <2>1. CASE t = cur
    BY <1>1, <2>1
  <2>2. CASE t # cur
    BY <1>1, <1>2, <1>3, <2>2 DEF Moves
  <2> QED
    BY <2>1, <2>2
<1> QED
  BY <1>1, <1>2, <1>4, QuietStep

(* Every step keeps the invariant.                                          *)
LEMMA ConsoleStepKeepsInv == ConsoleInv /\ [ConsoleNext]_vars => ConsoleInv'
<1> SUFFICES ASSUME ConsoleInv, [ConsoleNext]_vars PROVE ConsoleInv'
  OBVIOUS
<1>0. left \in [Threads -> Seq(Chars)]
  BY DEF ConsoleInv, ConsoleTypes
<1>1. CASE UNCHANGED vars
  <2>1. UNCHANGED sync_vars /\ UNCHANGED con_vars
    BY <1>1 DEF vars
  <2>2. SyncInv'
    BY <2>1, SyncStepKeepsInv DEF ConsoleInv
  <2>3. UNCHANGED <<screen, cursor, index, at, bx, edge>> /\ left' = left
    BY <2>1 DEF con_vars
  <2>4. \A t \in Threads : Moves(t)
    BY <2>1 DEF Moves, sync_vars, flow_vars
  <2> QED
    BY <1>0, <2>2, <2>3, <2>4, QuietStep
<1>2. CASE ConsolePrint
  BY <1>2, ConsolePrintKeepsInv
<1>3. CASE ConsoleRelease
  BY <1>3, ConsoleReleaseKeepsInv
<1>4. CASE Quietly(Interrupt) \/ Quietly(Wake) \/ Quietly(MainStep) \/ Quietly(SyncStep)
  <2>1. (Interrupt \/ Wake \/ MainStep \/ SyncStep) /\ UNCHANGED con_vars
    BY <1>4 DEF Quietly
  <2>2. SyncInv'
    BY <2>1, SyncStepKeepsInv DEF ConsoleInv, SyncNext
  <2>3. UNCHANGED <<screen, cursor, index, at, bx, edge>> /\ left' = left
    BY <2>1 DEF con_vars
  <2>4. \A t \in Threads : Moves(t)
    BY <2>1, SyncMoves DEF ConsoleInv
  <2> QED
    BY <1>0, <2>2, <2>3, <2>4, QuietStep
<1>5. CASE PrintChar
  <2>1. CASE \/ Select("idle", "readHi", "hi") \/ Select("selectLo", "readLo", "lo")
             \/ Select("selectHi2", "setHi", "hi") \/ Select("selectLo2", "setLo", "lo")
    BY <2>1, SelectKeepsInv
  <2>2. CASE In("readHi", "selectLo", "hi") \/ In("readLo", "write", "lo")
    BY <2>2, InKeepsInv
  <2>3. CASE Write
    BY <2>3, WriteKeepsInv
  <2>4. CASE Move
    BY <2>4, MoveKeepsInv
  <2>5. CASE Clear
    BY <2>5, ClearKeepsInv
  <2>6. CASE Out("setHi", "selectLo2", "hi", left[cur])
    BY <2>6, OutHiKeepsInv
  <2>7. CASE Out("setLo", "idle", "lo", Tail(left[cur]))
    BY <2>7, OutLoKeepsInv
  <2> QED
    BY <1>5, <2>1, <2>2, <2>3, <2>4, <2>5, <2>6, <2>7 DEF PrintChar
<1> QED
  BY <1>1, <1>2, <1>3, <1>4, <1>5 DEF ConsoleNext

-----------------------------------------------------------------------------
(* The theorems.                                                           *)

(* The invariant of printing holds in every reachable state.                *)
THEOREM ConsoleInvariant == ConsoleSpec => []ConsoleInv
<1>1. ConsoleInit => ConsoleInv
  BY ConsoleInitInv
<1>2. ConsoleInv /\ [ConsoleNext]_vars => ConsoleInv'
  BY ConsoleStepKeepsInv
<1> QED
  BY <1>1, <1>2, PTL DEF ConsoleSpec

(* Texts come out whole, one after the other, and a roll under way tears    *)
(* only the line it has come to (print.asm:143-181): TextsWhole always.     *)
THEOREM TextsAreWhole == ConsoleSpec => []TextsWhole
<1>1. ASSUME ConsoleInv PROVE TextsWhole
  <2> DEFINE seen == [c \in DOMAIN screen |-> IF c \in Torn THEN Blank ELSE screen[c]]
  <2>1. screen \in Screens /\ DOMAIN screen = 0..Cells - 1
    BY <1>1 DEF ConsoleInv, ConsoleTypes, Screens
  <2>2. ASSUME \E t \in Threads : at[t] \in Rolling PROVE Whole(seen)
    <3>1. PICK t \in Threads : at[t] \in Rolling
      BY <2>2
    <3>2. at[t] # "idle"
      BY <3>1 DEF Rolling
    <3>3. Printing(t)
      BY <1>1, <3>2 DEF ConsoleInv, Turns
    <3>4. \A u \in Threads : at[u] \in Rolling => u = t
      <4>1. ASSUME NEW u \in Threads, at[u] \in Rolling PROVE u = t
        <5>1. Printing(u)
          BY <1>1, <4>1 DEF ConsoleInv, Turns, Rolling
        <5> QED
          BY <1>1, <3>3, <5>1, OnePrinter DEF ConsoleInv, Printing
      <4> QED
        BY <4>1
    <3>5. Whole(Rolled(screen, edge[t])) /\ edge[t] \in 0..Cells - 1
      BY <1>1, <3>1, <3>3 DEF ConsoleInv, ScreenInv, ConsoleTypes, Final
    <3>6. \A c \in 0..Cells - 1 : c \in Torn <=> c \in edge[t] .. edge[t] + Cols - 1
      BY <2>1, <3>1, <3>4 DEF Torn, Rolling
    <3>7. seen = [c \in 0..Cells - 1 |->
                    IF c \in edge[t] .. edge[t] + Cols - 1 THEN Blank ELSE screen[c]]
      BY <2>1, <3>6
    <3> HIDE DEF seen
    <3> QED
      BY <2>1, <3>5, <3>7, SeenWhole
  <2>3. ASSUME \A t \in Threads : at[t] \notin Rolling PROVE Whole(seen)
    <3>1. Torn = {}
      BY <2>3 DEF Torn, Rolling
    <3>2. seen = screen
      BY <2>1, <3>1 DEF Screens
    <3>3. Whole(screen)
      <4>1. \A t \in Threads : Final(t) = screen
        BY <2>3 DEF Final
      <4> QED
        BY <1>1, <4>1 DEF ConsoleInv, ScreenInv
    <3> QED
      BY <3>2, <3>3
  <2>4. Whole(seen)
    BY <2>2, <2>3
  <2>5. TextsWhole <=> \A c, d \in DOMAIN screen : Neighbours(seen, c, d) => Follows(seen[c], seen[d])
    BY DEF TextsWhole, Neighbours
  <2> HIDE DEF seen
  <2> QED
    BY <2>1, <2>4, <2>5 DEF Whole
<1> QED
  BY <1>1, ConsoleInvariant, PTL

(* Nothing stands at or behind the cursor: CursorAtEnd always.              *)
THEOREM CursorStaysAtEnd == ConsoleSpec => []CursorAtEnd
<1>1. ASSUME ConsoleInv PROVE CursorAtEnd
  <2>1. SUFFICES ASSUME \A t \in Threads : at[t] = "idle"
                 PROVE  /\ Word(cursor) < Cells
                        /\ \A c \in Word(cursor) .. Cells - 1 : screen[c] = Blank
    BY DEF CursorAtEnd
  <2>2. Word(cursor) \in 0..Cells - 1 /\ Free(screen, Word(cursor))
    BY <1>1, <2>1 DEF ConsoleInv, CursorInv
  <2> QED
    BY <2>2, ScreenSize DEF Free
<1> QED
  BY <1>1, ConsoleInvariant, PTL
=============================================================================
