---------------------------- MODULE KeyboardProof ----------------------------
(***************************************************************************)
(* What the keyboard handler remembers and prints, for any set of keys and  *)
(* any order in which they go down and up.  The inductive invariant adds to *)
(* the three properties that the bytes which wait to be read are whole scan *)
(* codes, but for a prefix that has been read already, and that these are   *)
(* the codes that were sent.                                                *)
(***************************************************************************)
EXTENDS Keyboard, SequenceTheorems, TLAPS

(* The scan codes of the keys: make and break.                              *)
Codes == Keys \cup {k + 128 : k \in Keys}

(* The byte before the i-th that waits was the prefix.                      *)
Prefixed(i) == IF i = 1 THEN extScancode ELSE port[i-1] = 224

CodeAt(i) == IF Prefixed(i) THEN Ext + port[i] ELSE port[i]

PortWhole ==
  /\ port \in Seq(0..255)
  /\ extScancode \in BOOLEAN
  /\ extScancode => port # <<>> /\ port[1] # 224
  /\ \A i \in DOMAIN port :
       /\ port[i] = 224 => i < Len(port) /\ port[i+1] # 224
       /\ port[i] # 224 => CodeAt(i) \in Codes

(* The bytes that end a code stand in the order of the codes sent: f tells  *)
(* for each of these where it ends.                                         *)
Ends(f) ==
  /\ f \in [1..Len(sent) -> 1..Len(port)]
  /\ \A j, k \in 1..Len(sent) : j < k => f[j] < f[k]
  /\ \A i \in 1..Len(port) : port[i] # 224 <=> \E j \in 1..Len(sent) : f[j] = i
  /\ \A j \in 1..Len(sent) : sent[j] = CodeAt(f[j])

PortSent == sent \in Seq(Codes) /\ \E f : Ends(f)

FlagTypes ==
  /\ ctlStatus \in BOOLEAN /\ shiftStatus \in BOOLEAN
  /\ altStatus \in BOOLEAN /\ capsStatus \in BOOLEAN

KeyboardInv ==
  FlagTypes /\ PortWhole /\ PortSent /\ FlagsTold /\ capsOn = capsStatus /\ CharTold

-----------------------------------------------------------------------------
(* What the keyboard sends for a scan code.                                 *)
LEMMA BytesOfCode ==
  ASSUME NEW code \in Codes
  PROVE  \/ \E b \in 0..255 : b # 224 /\ code = b /\ Bytes(code) = <<b>>
         \/ \E b \in 0..255 : b # 224 /\ code = Ext + b /\ Bytes(code) = <<224, b>>
<1>1. ASSUME NEW i \in 1..127 \ {96}, code = i \/ code = i + 128
      PROVE  \E b \in 0..255 : b # 224 /\ code = b /\ Bytes(code) = <<b>>
  BY <1>1 DEF Bytes, Ext
<1>2. ASSUME NEW i \in 1..127 \ {96}, code = Ext + i \/ code = (Ext + i) + 128
      PROVE  \E b \in 0..255 : b # 224 /\ code = Ext + b /\ Bytes(code) = <<224, b>>
  <2> DEFINE b == code - Ext
  <2>1. b \in 0..255 /\ b # 224 /\ code = Ext + b
    BY <1>2 DEF Ext
  <2>2. code % 256 = b /\ code >= Ext
    BY <2>1 DEF Ext
  <2>3. Bytes(code) = <<224, b>>
    BY <2>2 DEF Bytes
  <2> HIDE DEF b
  <2> QED
    BY <2>1, <2>3
<1>3. \A k \in Keys : \E i \in 1..127 \ {96} : k = i \/ k = Ext + i
  BY KeyboardAssumption DEF Makes
<1>4. \E i \in 1..127 \ {96} : code \in {i, i + 128, Ext + i, (Ext + i) + 128}
  BY <1>3 DEF Codes
<1> QED
  BY <1>1, <1>2, <1>4

(* Two bytes more at the end.                                               *)
LEMMA AppendTwo ==
  ASSUME NEW S, NEW q \in Seq(S), NEW x \in S, NEW y \in S,
         NEW r, r = q \o <<x, y>>, NEW n, n = Len(q)
  PROVE  /\ r \in Seq(S) /\ Len(r) = n + 2
         /\ r[n+1] = x /\ r[n+2] = y
         /\ DOMAIN r = 1..n+2
         /\ \A i \in 1..n : r[i] = q[i]
<1> DEFINE two == <<x, y>>
<1>1. n \in Nat /\ DOMAIN q = 1..n
  OBVIOUS
<1>2. two \in Seq(S) /\ Len(two) = 2 /\ two[1] = x /\ two[2] = y
  OBVIOUS
<1> HIDE DEF two
<1>3. /\ r \in Seq(S) /\ Len(r) = n + Len(two)
      /\ \A i \in 1 .. Len(q) + Len(two) :
           r[i] = IF i <= Len(q) THEN q[i] ELSE two[i - Len(q)]
  BY <1>2, ConcatProperties DEF two
<1>4. DOMAIN r = 1..n+2 /\ Len(r) = n + 2
  BY <1>1, <1>2, <1>3
<1>5. \A i \in 1..n : r[i] = q[i]
  BY <1>1, <1>2, <1>3
<1>6. r[n+1] = x /\ r[n+2] = y
  <2>1. n+1 \in 1..n+2 /\ n+2 \in 1..n+2 /\ ~(n+1 <= n) /\ ~(n+2 <= n)
        /\ (n+1) - n = 1 /\ (n+2) - n = 2
    BY <1>1
  <2> QED
    BY <1>2, <1>3, <2>1
<1> QED
  BY <1>3, <1>4, <1>5, <1>6 DEF two

(* A code that is sent stands at the end; what waited before it stays.      *)
LEMMA SendAppends ==
  ASSUME PortWhole, NEW code \in Codes, Send(code), NEW n \in Nat, n = Len(port)
  PROVE  \E e \in n+1..n+2 :
           /\ port' \in Seq(0..255) /\ Len(port') = e
           /\ port'[e] # 224 /\ CodeAt(e)' = code
           /\ \A i \in 1..n : port'[i] = port[i] /\ CodeAt(i)' = CodeAt(i)
           /\ \A i \in n+1..e-1 : port'[i] = 224
<1>1. /\ port \in Seq(0..255) /\ extScancode \in BOOLEAN
      /\ extScancode' = extScancode
      /\ port' = port \o Bytes(code)
      /\ DOMAIN port = 1..n
  BY DEF PortWhole, Send, flags
<1>2. ASSUME \A i \in 1..n : port'[i] = port[i], NEW i \in 1..n
      PROVE  CodeAt(i)' = CodeAt(i)
  <2>1. i # 1 => i-1 \in 1..n /\ port'[i-1] = port[i-1]
    BY <1>2
  <2> QED
    BY <1>1, <1>2, <2>1 DEF CodeAt, Prefixed
<1>3. ~ (IF n = 0 THEN extScancode ELSE port[n] = 224)
  <2>1. \A i \in 1..n : port[i] = 224 => i < n
    BY <1>1 DEF PortWhole
  <2>2. n > 0 => n \in 1..n /\ ~ (n < n)
    OBVIOUS
  <2> QED
    BY <2>1, <2>2 DEF PortWhole
<1>4. ASSUME NEW b \in 0..255, b # 224, code = b, Bytes(code) = <<b>>
      PROVE  /\ port' \in Seq(0..255) /\ Len(port') = n+1
             /\ port'[n+1] # 224 /\ CodeAt(n+1)' = code
             /\ \A i \in 1..n : port'[i] = port[i]
  <2>1. /\ port' \in Seq(0..255) /\ Len(port') = n + 1 /\ port'[n+1] = b
        /\ \A i \in 1..n : port'[i] = port[i]
    BY <1>1, <1>4
  <2>2. n = 0 => ~ extScancode'
    BY <1>1, <1>3
  <2>3. n # 0 => port'[(n+1)-1] # 224
    BY <1>1, <1>3, <2>1
  <2>4. ~ Prefixed(n+1)'
    BY <1>1, <2>2, <2>3 DEF Prefixed
  <2> QED
    BY <1>4, <2>1, <2>4 DEF CodeAt
<1>5. ASSUME NEW b \in 0..255, b # 224, code = Ext + b, Bytes(code) = <<224, b>>
      PROVE  /\ port' \in Seq(0..255) /\ Len(port') = n+2
             /\ port'[n+2] # 224 /\ CodeAt(n+2)' = code
             /\ \A i \in 1..n : port'[i] = port[i]
             /\ port'[n+1] = 224
  <2>1. /\ port' \in Seq(0..255) /\ Len(port') = n + 2
        /\ port'[n+1] = 224 /\ port'[n+2] = b
        /\ \A i \in 1..n : port'[i] = port[i]
    <3>1. port' = port \o <<224, b>>
      BY <1>1, <1>5, Zenon
    <3>2. 224 \in 0..255
      OBVIOUS
    <3> QED
      BY <1>1, <3>1, <3>2, AppendTwo
  <2>2. n+2 # 1 /\ (n+2)-1 = n+1
    OBVIOUS
  <2>3. Prefixed(n+2)'
    BY <2>1, <2>2 DEF Prefixed
  <2> QED
    BY <1>5, <2>1, <2>3 DEF CodeAt
<1>6. CASE \E b \in 0..255 : b # 224 /\ code = b /\ Bytes(code) = <<b>>
  <2>1. n+1 \in n+1..n+2 /\ (n+1)..(n+1)-1 = {}
    OBVIOUS
  <2> QED
    BY <1>2, <1>4, <1>6, <2>1
<1>7. CASE \E b \in 0..255 : b # 224 /\ code = Ext + b /\ Bytes(code) = <<224, b>>
  <2> DEFINE e == n+2
  <2>1. e \in n+1..n+2 /\ \A i \in n+1..e-1 : i = n+1
    OBVIOUS
  <2>2. /\ port' \in Seq(0..255) /\ Len(port') = e
        /\ port'[e] # 224 /\ CodeAt(e)' = code
        /\ \A i \in 1..n : port'[i] = port[i]
        /\ port'[n+1] = 224
    BY <1>5, <1>7
  <2> HIDE DEF e
  <2>3. \A i \in n+1..e-1 : port'[i] = 224
    BY <2>1, <2>2
  <2>4. \A i \in 1..n : CodeAt(i)' = CodeAt(i)
    BY <1>2, <2>2
  <2> QED
    BY <2>1, <2>2, <2>3, <2>4
<1> QED
  BY <1>6, <1>7, BytesOfCode

(* Sending a whole code leaves whole codes.                                 *)
LEMMA SendKeepsWhole ==
  ASSUME PortWhole, NEW code \in Codes, Send(code)
  PROVE  PortWhole'
<1>n. PICK n \in Nat : n = Len(port)
  BY DEF PortWhole
<1>1. PICK e \in n+1..n+2 :
           /\ port' \in Seq(0..255) /\ Len(port') = e
           /\ port'[e] # 224 /\ CodeAt(e)' = code
           /\ \A i \in 1..n : port'[i] = port[i] /\ CodeAt(i)' = CodeAt(i)
           /\ \A i \in n+1..e-1 : port'[i] = 224
  BY <1>n, SendAppends
<1>2. extScancode \in BOOLEAN /\ extScancode' = extScancode /\ DOMAIN port = 1..n
  BY <1>n DEF PortWhole, Send, flags
<1>3. ASSUME NEW i \in 1..e
      PROVE  /\ port'[i] = 224 => i < e /\ port'[i+1] # 224
             /\ port'[i] # 224 => CodeAt(i)' \in Codes
  <2>1. CASE i = e
    BY <1>1, <2>1
  <2>2. CASE i = n+1 /\ i # e
    <3>1. i + 1 = e /\ i < e
      BY <2>2
    <3> QED
      BY <1>1, <2>2, <3>1
  <2>3. CASE i \in 1..n
    <3>1. /\ port[i] = 224 => i < n /\ port[i+1] # 224
          /\ port[i] # 224 => CodeAt(i) \in Codes
      BY <1>n, <1>2, <2>3 DEF PortWhole
    <3>2. i < n => i < e /\ i+1 \in 1..n
      BY <2>3
    <3> QED
      BY <1>1, <2>3, <3>1, <3>2
  <2> QED
    BY <2>1, <2>2, <2>3
<1>4. extScancode' => port' # <<>> /\ port'[1] # 224
  <2> SUFFICES ASSUME extScancode PROVE port' # <<>> /\ port'[1] # 224
    BY <1>2
  <2>1. 1 \in 1..n /\ port[1] # 224
    BY <1>n DEF PortWhole
  <2> QED
    BY <1>1, <2>1
<1>5. DOMAIN port' = 1..e
  BY <1>1
<1> QED
  BY <1>1, <1>2, <1>3, <1>4, <1>5 DEF PortWhole, Codes

(* The code that is sent is the last one that ends.                         *)
LEMMA SendKeepsSent ==
  ASSUME PortWhole, PortSent, NEW code \in Codes, Send(code)
  PROVE  PortSent'
<1>n. PICK n \in Nat : n = Len(port)
  BY DEF PortWhole
<1>m. PICK m \in Nat : m = Len(sent)
  BY DEF PortSent
<1>1. PICK e \in n+1..n+2 :
           /\ port' \in Seq(0..255) /\ Len(port') = e
           /\ port'[e] # 224 /\ CodeAt(e)' = code
           /\ \A i \in 1..n : port'[i] = port[i] /\ CodeAt(i)' = CodeAt(i)
           /\ \A i \in n+1..e-1 : port'[i] = 224
  BY <1>n, SendAppends
<1>2. PICK f : Ends(f)
  BY DEF PortSent
<1>3. /\ f \in [1..m -> 1..n]
      /\ \A j, k \in 1..m : j < k => f[j] < f[k]
      /\ \A i \in 1..n : port[i] # 224 <=> \E j \in 1..m : f[j] = i
      /\ \A j \in 1..m : sent[j] = CodeAt(f[j])
  BY <1>n, <1>m, <1>2 DEF Ends
<1>4. /\ sent' \in Seq(Codes) /\ Len(sent') = m+1 /\ sent'[m+1] = code
      /\ \A j \in 1..m : sent'[j] = sent[j]
  BY <1>m DEF PortSent, Send
<1> DEFINE g == [j \in 1..m+1 |-> IF j <= m THEN f[j] ELSE e]
<1>5. /\ g \in [1..m+1 -> 1..e] /\ g[m+1] = e
      /\ \A j \in 1..m : g[j] = f[j] /\ g[j] \in 1..n
  BY <1>3
<1>6. 1..m+1 = 1..m \cup {m+1} /\ m+1 \notin 1..m /\ 1..m \subseteq Int
  OBVIOUS
<1> HIDE DEF g
<1>7. ASSUME NEW j \in 1..m+1, NEW k \in 1..m+1, j < k PROVE g[j] < g[k]
  <2>1. j \in 1..m
    BY <1>7
  <2>2. CASE k = m+1
    <3>1. g[j] \in 1..n /\ g[k] = e /\ n < e
      BY <1>5, <2>1, <2>2
    <3> QED
      BY <3>1
  <2>3. CASE k \in 1..m
    BY <1>3, <1>5, <1>7, <2>1, <2>3
  <2> QED
    BY <1>6, <2>2, <2>3
<1>8. ASSUME NEW i \in 1..e PROVE port'[i] # 224 <=> \E j \in 1..m+1 : g[j] = i
  <2>1. CASE i = e
    BY <1>1, <1>5, <1>6, <2>1
  <2>2. CASE i \in 1..n
    <3>1. i # e
      BY <2>2
    <3>2. port[i] # 224 <=> \E j \in 1..m : f[j] = i
      BY <1>3, <2>2, Zenon
    <3>4. port'[i] = port[i]
      BY <1>1, <2>2
    <3>3. (\E j \in 1..m+1 : g[j] = i) <=> \E j \in 1..m : g[j] = i
      BY <1>5, <1>6, <3>1
    <3> QED
      BY <1>5, <3>2, <3>3, <3>4
  <2>3. CASE i \in n+1..e-1
    <3>1. i # e /\ i \notin 1..n
      BY <2>3
    <3> QED
      BY <1>1, <1>5, <1>6, <2>3, <3>1
  <2> QED
    BY <2>1, <2>2, <2>3
<1>9. ASSUME NEW j \in 1..m+1 PROVE sent'[j] = CodeAt(g[j])'
  <2>1. CASE j = m+1
    <3>1. CodeAt(g[j])' = CodeAt(e)'
      BY <1>5, <2>1 DEF CodeAt, Prefixed
    <3> QED
      BY <1>1, <1>4, <2>1, <3>1
  <2>2. CASE j \in 1..m
    <3>1. g[j] = f[j] /\ f[j] \in 1..n
      BY <1>5, <2>2
    <3>2. CodeAt(f[j])' = CodeAt(f[j])
      BY <1>1, <3>1
    <3>3. CodeAt(g[j])' = CodeAt(f[j])'
      BY <3>1 DEF CodeAt, Prefixed
    <3> QED
      BY <1>3, <1>4, <2>2, <3>2, <3>3
  <2> QED
    BY <1>6, <2>1, <2>2
<1>10. Ends(g)'
  BY <1>1, <1>4, <1>5, <1>7, <1>8, <1>9 DEF Ends
<1> QED
  BY <1>4, <1>10 DEF PortSent, Codes

(* The handler takes the first byte: the others move up by one.             *)
LEMMA ReadShifts ==
  ASSUME PortWhole, IntrKeyboard, NEW n \in Nat, n = Len(port)
  PROVE  /\ n # 0 /\ Head(port) = port[1] /\ DOMAIN port = 1..n
         /\ port' \in Seq(0..255) /\ Len(port') = n - 1 /\ DOMAIN port' = 1..n-1
         /\ extScancode' = (port[1] = 224)
         /\ \A i \in 1..n-1 : port'[i] = port[i+1] /\ CodeAt(i)' = CodeAt(i+1)
<1>1. /\ port \in Seq(0..255) /\ port # <<>> /\ port' = Tail(port)
      /\ extScancode' = (Head(port) = 224)
  BY DEF PortWhole, IntrKeyboard, Prefix, ForgetPrefix
<1>2. /\ n # 0 /\ DOMAIN port = 1..n /\ Head(port) = port[1]
      /\ port' \in Seq(0..255) /\ Len(port') = n - 1 /\ DOMAIN port' = 1..n-1
      /\ \A i \in 1..n-1 : port'[i] = port[i+1]
  BY <1>1
<1>3. ASSUME NEW i \in 1..n-1 PROVE CodeAt(i)' = CodeAt(i+1)
  <2>1. i + 1 # 1 /\ (i + 1) - 1 = i /\ i \in Nat \ {0}
    BY <1>2
  <2>2. i # 1 => port'[i-1] = port[i]
    BY <1>2, <2>1
  <2>3. Prefixed(i)' = Prefixed(i+1)
    BY <1>1, <1>2, <2>1, <2>2 DEF Prefixed
  <2> QED
    BY <1>2, <2>3 DEF CodeAt
<1> QED
  BY <1>1, <1>2, <1>3

(* If the first byte is a prefix the handler remembers that, and whole      *)
(* codes are left.                                                          *)
LEMMA ReadKeepsWhole ==
  ASSUME PortWhole, IntrKeyboard
  PROVE  PortWhole'
<1>n. PICK n \in Nat : n = Len(port)
  BY DEF PortWhole
<1>1. /\ n # 0 /\ DOMAIN port = 1..n
      /\ port' \in Seq(0..255) /\ Len(port') = n - 1 /\ DOMAIN port' = 1..n-1
      /\ extScancode' = (port[1] = 224)
      /\ \A i \in 1..n-1 : port'[i] = port[i+1] /\ CodeAt(i)' = CodeAt(i+1)
  BY <1>n, ReadShifts
<1>2. \A i \in 1..n : /\ port[i] = 224 => i < n /\ port[i+1] # 224
                      /\ port[i] # 224 => CodeAt(i) \in Codes
  BY <1>n, <1>1 DEF PortWhole
<1>3. ASSUME NEW i \in 1..n-1
      PROVE  /\ port'[i] = 224 => i < n-1 /\ port'[i+1] # 224
             /\ port'[i] # 224 => CodeAt(i)' \in Codes
  <2>1. i + 1 \in 1..n
    OBVIOUS
  <2>2. port'[i] # 224 => CodeAt(i)' \in Codes
    BY <1>1, <1>2, <2>1
  <2>3. port[i+1] = 224 => i + 1 < n /\ port[(i+1)+1] # 224
    BY <1>2, <2>1
  <2>4. i + 1 < n => i + 1 \in 1..n-1 /\ i < n-1
    OBVIOUS
  <2> QED
    BY <1>1, <2>2, <2>3, <2>4
<1>4. extScancode' => port' # <<>> /\ port'[1] # 224
  <2> SUFFICES ASSUME port[1] = 224 PROVE port' # <<>> /\ port'[1] # 224
    BY <1>1
  <2>1. 1 \in 1..n
    BY <1>1
  <2>2. 1 < n /\ port[1+1] # 224
    BY <1>2, <2>1
  <2>3. 1 \in 1..n-1
    BY <2>2
  <2> QED
    BY <1>1, <2>2, <2>3
<1>5. extScancode' \in BOOLEAN
  BY <1>1
<1> QED
  BY <1>1, <1>3, <1>4, <1>5 DEF PortWhole, Codes

(* The first byte that is no prefix ends the oldest code, and the handler   *)
(* takes it, with the prefix it remembers, for that code.                   *)
LEMMA HeadEndsOldest ==
  ASSUME PortWhole, NEW f, Ends(f), sent \in Seq(Codes), port # <<>>, Head(port) # 224
  PROVE  /\ sent # <<>> /\ f[1] = 1
         /\ Head(sent) = Scancode /\ Scancode \in Codes
<1>n. PICK n \in Nat : n = Len(port) /\ n # 0
  BY DEF PortWhole
<1>m. PICK m \in Nat : m = Len(sent)
  OBVIOUS
<1>1. /\ 1 \in 1..n /\ Head(port) = port[1] /\ DOMAIN port = 1..n
  BY <1>n DEF PortWhole
<1>2. PICK j \in 1..m : f[j] = 1
  BY <1>n, <1>m, <1>1 DEF Ends
<1>3. f[1] = 1 /\ 1 \in 1..m
  <2>1. 1 \in 1..m /\ f[1] \in 1..n
    BY <1>n, <1>m, <1>2 DEF Ends
  <2>2. ~ (1 < j)
    <3> SUFFICES ASSUME 1 < j PROVE FALSE
      OBVIOUS
    <3>1. f[1] < f[j]
      BY <1>m, <1>2, <2>1 DEF Ends
    <3> QED
      BY <1>2, <2>1, <3>1
  <2>3. j = 1
    BY <2>2
  <2> QED
    BY <1>2, <2>1, <2>3
<1>4. sent[1] = CodeAt(1)
  BY <1>m, <1>3 DEF Ends
<1>5. CodeAt(1) = Scancode
  BY <1>1 DEF CodeAt, Prefixed, Scancode
<1>6. CodeAt(1) \in Codes
  BY <1>1 DEF PortWhole
<1>7. sent # <<>> /\ Head(sent) = sent[1]
  BY <1>m, <1>3
<1> QED
  BY <1>3, <1>4, <1>5, <1>6, <1>7

(* A prefix ends no code; any other byte ends the oldest one.               *)
LEMMA ReadKeepsSent ==
  ASSUME PortWhole, PortSent, IntrKeyboard
  PROVE  PortSent'
<1>n. PICK n \in Nat : n = Len(port)
  BY DEF PortWhole
<1>m. PICK m \in Nat : m = Len(sent)
  BY DEF PortSent
<1>1. /\ n # 0 /\ Head(port) = port[1] /\ Len(port') = n - 1
      /\ \A i \in 1..n-1 : port'[i] = port[i+1] /\ CodeAt(i)' = CodeAt(i+1)
  BY <1>n, ReadShifts
<1>2. PICK f : Ends(f)
  BY DEF PortSent
<1>3. /\ f \in [1..m -> 1..n]
      /\ \A j, k \in 1..m : j < k => f[j] < f[k]
      /\ \A i \in 1..n : port[i] # 224 <=> \E j \in 1..m : f[j] = i
      /\ \A j \in 1..m : sent[j] = CodeAt(f[j])
  BY <1>n, <1>m, <1>2 DEF Ends
<1>4. ASSUME NEW i \in 1..n-1 PROVE i+1 \in 1..n /\ i+1 # 1 /\ (i+1)-1 = i
  OBVIOUS
<1>5. CASE port[1] = 224
  <2>1. sent' = sent
    BY <1>1, <1>5 DEF IntrKeyboard, NotePrefix
  <2> DEFINE g == [j \in 1..m |-> f[j] - 1]
  <2>2. ASSUME NEW j \in 1..m PROVE f[j] \in 1..n /\ f[j] - 1 \in 1..n-1 /\ (f[j]-1)+1 = f[j]
    <3>1. f[j] \in 1..n /\ f[j] # 1
      BY <1>3, <1>5, <2>2
    <3> QED
      BY <3>1
  <2>3. g \in [1..m -> 1..n-1] /\ \A j \in 1..m : g[j] = f[j] - 1
    BY <2>2
  <2> HIDE DEF g
  <2>4. ASSUME NEW j \in 1..m, NEW k \in 1..m, j < k PROVE g[j] < g[k]
    <3>1. f[j] < f[k]
      BY <1>3, <2>4
    <3> QED
      BY <2>2, <2>3, <3>1
  <2>5. ASSUME NEW i \in 1..n-1 PROVE port'[i] # 224 <=> \E j \in 1..m : g[j] = i
    <3>0. PICK k \in 1..n : k = i+1
      BY <1>4
    <3>0a. port[k] # 224 <=> \E j \in 1..m : f[j] = k
      BY <1>3, Zenon
    <3>0b. port'[i] = port[k]
      BY <1>1, <3>0
    <3>1. port'[i] # 224 <=> \E j \in 1..m : f[j] = i+1
      BY <3>0, <3>0a, <3>0b
    <3>2. ASSUME NEW j \in 1..m PROVE f[j] = i+1 <=> g[j] = i
      BY <2>2, <2>3
    <3> QED
      BY <3>1, <3>2
  <2>6. ASSUME NEW j \in 1..m PROVE sent'[j] = CodeAt(g[j])'
    <3>1. CodeAt(f[j] - 1)' = CodeAt((f[j]-1)+1)
      BY <1>1, <2>2
    <3>2. CodeAt(g[j])' = CodeAt(f[j] - 1)'
      BY <2>3 DEF CodeAt, Prefixed
    <3> QED
      BY <1>3, <2>1, <2>2, <3>1, <3>2
  <2>7. Ends(g)'
    BY <1>1, <1>m, <2>1, <2>3, <2>4, <2>5, <2>6 DEF Ends
  <2> QED
    BY <2>1, <2>7 DEF PortSent, Codes
<1>6. CASE port[1] # 224
  <2>0. sent # <<>> /\ f[1] = 1
    <3>1. port # <<>> /\ Head(port) # 224 /\ sent \in Seq(Codes)
      BY <1>1, <1>6 DEF IntrKeyboard, PortSent
    <3> QED
      BY <1>2, <3>1, HeadEndsOldest
  <2>1. sent' = Tail(sent)
    BY <1>1, <1>6 DEF IntrKeyboard, Note
  <2>2. /\ m # 0 /\ sent' \in Seq(Codes) /\ Len(sent') = m-1
        /\ \A j \in 1..m-1 : sent'[j] = sent[j+1]
    BY <1>m, <2>0, <2>1 DEF PortSent
  <2> DEFINE g == [j \in 1..m-1 |-> f[j+1] - 1]
  <2>3. ASSUME NEW j \in 1..m-1
        PROVE  /\ j+1 \in 1..m /\ f[j+1] \in 1..n
               /\ f[j+1] - 1 \in 1..n-1 /\ (f[j+1]-1)+1 = f[j+1]
    <3>1. j+1 \in 1..m /\ 1 \in 1..m /\ 1 < j+1
      OBVIOUS
    <3>2. f[j+1] \in 1..n /\ f[1] < f[j+1]
      BY <1>3, <3>1
    <3> QED
      BY <2>0, <3>1, <3>2
  <2>4. g \in [1..m-1 -> 1..n-1] /\ \A j \in 1..m-1 : g[j] = f[j+1] - 1
    BY <2>3
  <2> HIDE DEF g
  <2>5. ASSUME NEW j \in 1..m-1, NEW k \in 1..m-1, j < k PROVE g[j] < g[k]
    <3>1. f[j+1] < f[k+1]
      BY <1>3, <2>3, <2>5
    <3> QED
      BY <2>3, <2>4, <3>1
  <2>6. ASSUME NEW i \in 1..n-1 PROVE port'[i] # 224 <=> \E j \in 1..m-1 : g[j] = i
    <3>0. PICK k \in 1..n : k = i+1
      BY <1>4
    <3>0a. port[k] # 224 <=> \E j \in 1..m : f[j] = k
      BY <1>3, Zenon
    <3>0b. port'[i] = port[k]
      BY <1>1, <3>0
    <3>1. port'[i] # 224 <=> \E j \in 1..m : f[j] = i+1
      BY <3>0, <3>0a, <3>0b
    <3>2. ASSUME NEW j \in 1..m, f[j] = i+1 PROVE \E l \in 1..m-1 : g[l] = i
      <4>1. j # 1
        BY <1>4, <2>0, <3>2
      <4>2. j-1 \in 1..m-1 /\ (j-1)+1 = j
        BY <4>1
      <4>3. g[j-1] = f[j] - 1
        BY <2>4, <4>2
      <4>4. g[j-1] = i
        BY <1>4, <3>2, <4>3
      <4> QED
        BY <4>2, <4>4
    <3>3. ASSUME NEW l \in 1..m-1, g[l] = i PROVE \E j \in 1..m : f[j] = i+1
      <4>1. f[l+1] = i+1
        BY <2>3, <2>4, <3>3
      <4> QED
        BY <2>3, <4>1
    <3> QED
      BY <3>1, <3>2, <3>3
  <2>7. ASSUME NEW j \in 1..m-1 PROVE sent'[j] = CodeAt(g[j])'
    <3>1. CodeAt(f[j+1] - 1)' = CodeAt((f[j+1]-1)+1)
      BY <1>1, <2>3
    <3>2. CodeAt(g[j])' = CodeAt(f[j+1] - 1)'
      BY <2>4 DEF CodeAt, Prefixed
    <3>3. sent'[j] = CodeAt(f[j+1])
      BY <1>3, <2>2, <2>3
    <3> QED
      BY <2>3, <3>1, <3>2, <3>3
  <2>8. Ends(g)'
    BY <1>1, <2>2, <2>4, <2>5, <2>6, <2>7 DEF Ends
  <2> QED
    BY <2>2, <2>8 DEF PortSent, Codes
<1> QED
  BY <1>5, <1>6

-----------------------------------------------------------------------------
(* The handler's flags.                                                     *)

Read(code) ==
  IF IsBreak(code) THEN Break(code - 128)
  ELSE IF code \in 1..58 \cup {altRMake, ctlRMake} THEN Make(code)
  ELSE Unknown

(* The codes whose low byte is that of a control key belong to it.          *)
LEMMA LowByte ==
  ASSUME NEW code \in 1..58 \cup {altRMake, ctlRMake}
  PROVE  /\ code % 256 = ctlLMake <=> code \in Ctls
         /\ code % 256 \in Shifts <=> code \in Shifts
         /\ code % 256 = altLMake <=> code \in Alts
         /\ code % 256 = capsMake <=> code = capsMake
         /\ code % 256 \notin Invisible => code % 256 = code
<1>1. CASE code \in 1..58
  BY <1>1 DEF Ctls, Shifts, Alts, ctlLMake, ctlRMake, shiftLMake, shiftRMake,
              altLMake, altRMake, capsMake, Ext
<1>2. CASE code = altRMake
  <2>1. code = 57400 /\ code % 256 = 56
    BY <1>2 DEF altRMake, Ext
  <2> QED
    BY <2>1 DEF Ctls, Shifts, Alts, ctlLMake, ctlRMake, shiftLMake, shiftRMake,
                altLMake, altRMake, capsMake, Ext, Invisible
<1>3. CASE code = ctlRMake
  <2>1. code = 57373 /\ code % 256 = 29
    BY <1>3 DEF ctlRMake, Ext
  <2> QED
    BY <2>1 DEF Ctls, Shifts, Alts, ctlLMake, ctlRMake, shiftLMake, shiftRMake,
                altLMake, altRMake, capsMake, Ext, Invisible
<1> QED
  BY <1>1, <1>2, <1>3

(* A byte that is not the prefix keeps the flags true to the keys that are  *)
(* down: Break and Make change them for the keys that have them.            *)
LEMMA FlagsStep ==
  ASSUME FlagTypes, FlagsTold, capsOn = capsStatus,
         NEW code \in Nat, Note(code), Read(code)
  PROVE  FlagTypes' /\ FlagsTold' /\ capsOn' = capsStatus'
<1> DEFINE k == code - 128
<1>0. /\ Ctls \cap Shifts = {} /\ Ctls \cap Alts = {} /\ Shifts \cap Alts = {}
  BY DEF Ctls, Shifts, Alts, ctlLMake, ctlRMake, shiftLMake, shiftRMake, altLMake,
         altRMake, Ext
<1>1. CASE IsBreak(code)
  <2>1. /\ ctlStatus' = (ctlStatus /\ k \notin Ctls)
        /\ shiftStatus' = (shiftStatus /\ k \notin Shifts)
        /\ altStatus' = (altStatus /\ k \notin Alts)
        /\ capsStatus' = capsStatus
    BY <1>1 DEF Read, Break
  <2>2. /\ down' = down \ {k}
        /\ shared' = IF Twins(k) \cap down \subseteq {k}
                     THEN shared \ Twins(k) ELSE shared \cup Twins(k)
    BY <1>1 DEF Note
  <2>3. FlagTypes'
    BY <2>1 DEF FlagTypes
  <2> HIDE DEF k
  <2>4. /\ k \in Ctls => Twins(k) = Ctls
        /\ k \in Shifts => Twins(k) = Shifts
        /\ k \in Alts => Twins(k) = Alts
        /\ k \notin Ctls => Twins(k) \cap Ctls = {}
        /\ k \notin Shifts => Twins(k) \cap Shifts = {}
        /\ k \notin Alts => Twins(k) \cap Alts = {}
    BY <1>0 DEF Twins
  <2>5. ASSUME NEW S, NEW flag, NEW newFlag,
               S \cap shared = {} => (flag <=> S \cap down # {}),
               newFlag = (flag /\ k \notin S), flag \in BOOLEAN,
               k \in S => Twins(k) = S, k \notin S => Twins(k) \cap S = {}
        PROVE  S \cap shared' = {} => (newFlag <=> S \cap down' # {})
    <3>1. CASE k \notin S
      <4>1. S \cap shared' = S \cap shared /\ S \cap down' = S \cap down
        BY <2>2, <2>5, <3>1
      <4> QED
        BY <2>5, <3>1, <4>1
    <3>2. CASE k \in S /\ S \cap down \subseteq {k}
      <4>1. S \cap down' = {} /\ newFlag = FALSE
        BY <2>2, <2>5, <3>2
      <4> QED
        BY <4>1
    <3>3. CASE k \in S /\ ~ (S \cap down \subseteq {k})
      BY <2>2, <2>5, <3>3
    <3> QED
      BY <3>1, <3>2, <3>3
  <2>6. capsOn' = capsStatus'
    <3>1. code # capsMake
      BY <1>1 DEF IsBreak, capsMake
    <3>2. capsOn' = (capsOn # FALSE)
      BY <3>1 DEF Note
    <3> QED
      BY <2>1, <3>2 DEF FlagTypes
  <2> QED
    BY <2>1, <2>3, <2>4, <2>5, <2>6 DEF FlagsTold, FlagTypes
<1>2. CASE ~IsBreak(code)
  <2>1. down' = down \cup {code} /\ shared' = shared
    BY <1>2 DEF Note
  <2>2. /\ ctlStatus' = (ctlStatus \/ code \in Ctls)
        /\ shiftStatus' = (shiftStatus \/ code \in Shifts)
        /\ altStatus' = (altStatus \/ code \in Alts)
        /\ capsStatus' = (capsStatus # (code = capsMake))
    <3>1. CASE code \in 1..58 \cup {altRMake, ctlRMake}
      <4>1. Make(code)
        BY <1>2, <3>1 DEF Read
      <4>2. /\ ctlStatus' = (ctlStatus \/ code % 256 = ctlLMake)
            /\ shiftStatus' = (shiftStatus \/ code % 256 \in Shifts)
            /\ altStatus' = (altStatus \/ code % 256 = altLMake)
            /\ capsStatus' = (capsStatus # (code % 256 = capsMake))
        BY <4>1, Zenon DEF Make
      <4>3. /\ code % 256 = ctlLMake <=> code \in Ctls
            /\ code % 256 \in Shifts <=> code \in Shifts
            /\ code % 256 = altLMake <=> code \in Alts
            /\ code % 256 = capsMake <=> code = capsMake
        BY <3>1, LowByte
      <4> QED
        BY <4>2, <4>3 DEF FlagTypes
    <3>2. CASE code \notin 1..58 \cup {altRMake, ctlRMake}
      <4>1. code \notin Ctls /\ code \notin Shifts /\ code \notin Alts /\ code # capsMake
        BY <3>2 DEF Ctls, Shifts, Alts, ctlLMake, shiftLMake, shiftRMake, altLMake, capsMake
      <4> QED
        BY <1>2, <3>2, <4>1 DEF Read, Unknown, FlagTypes
    <3> QED
      BY <3>1, <3>2
  <2>3. FlagTypes'
    BY <2>2 DEF FlagTypes
  <2>4. ASSUME NEW S, NEW flag, NEW newFlag,
               S \cap shared = {} => (flag <=> S \cap down # {}),
               newFlag = (flag \/ code \in S), flag \in BOOLEAN
        PROVE  S \cap shared' = {} => (newFlag <=> S \cap down' # {})
    <3>1. S \cap down' # {} <=> S \cap down # {} \/ code \in S
      BY <2>1
    <3> QED
      BY <2>1, <2>4, <3>1
  <2>5. capsOn' = (capsOn # (code = capsMake))
    BY DEF Note
  <2> QED
    BY <2>2, <2>3, <2>4, <2>5 DEF FlagsTold, FlagTypes
<1> QED
  BY <1>1, <1>2

(* What such a byte prints agrees with the keys that are down: a key that   *)
(* prints is none of those that change the flags.                           *)
LEMMA CharStep ==
  ASSUME FlagTypes, FlagsTold, capsOn = capsStatus,
         NEW code \in Nat, Note(code), Read(code)
  PROVE  CharTold'
<1>1. CASE IsBreak(code)
  <2>1. last' = 0 /\ printed' = <<>>
    BY <1>1 DEF Note, Read, Break
  <2> QED
    BY <2>1 DEF CharTold, Characters
<1>2. CASE ~IsBreak(code) /\ code \notin 1..58 \cup {altRMake, ctlRMake}
  <2>1. last' = code /\ printed' = <<"unknown key">>
    BY <1>2 DEF Note, Read, Unknown
  <2> QED
    BY <1>2, <2>1 DEF CharTold, Characters
<1>3. CASE ~IsBreak(code) /\ code \in 1..58 \cup {altRMake, ctlRMake}
  <2>1. Make(code) /\ last' = code
    BY <1>3 DEF Note, Read
  <2>2. PICK index : index = code % 256
    OBVIOUS
  <2>3. printed' = keymap(index, Column(code))
    BY <2>1, <2>2 DEF Make
  <2>4. CASE code \notin Characters
    <3>1. index \in Invisible
      <4>1. CASE code \in 1..58
        BY <2>2, <2>4, <4>1 DEF Characters, Invisible
      <4>2. CASE code \in {altRMake, ctlRMake}
        BY <2>2, <4>2 DEF altRMake, ctlRMake, Ext, Invisible
      <4> QED
        BY <1>3, <4>1, <4>2
    <3>2. printed' = <<>>
      BY <2>3, <3>1 DEF keymap
    <3> QED
      BY <2>1, <2>4, <3>2 DEF CharTold
  <2>5. CASE code \in Characters
    <3>1. index = code /\ code \in 1..58 /\ code \notin Invisible
      BY <2>2, <2>5 DEF Characters
    <3>2. printed' = <<code, Column(code) /\ code \notin OneChar>>
      BY <2>3, <3>1 DEF keymap
    <3>3. code # capsMake /\ code \notin Shifts
      BY <3>1 DEF capsMake, Shifts, shiftLMake, shiftRMake, Invisible
    <3>4. /\ capsOn' = capsStatus /\ Shifts \cap down' = Shifts \cap down
          /\ shared' = shared
      BY <1>3, <3>3 DEF Note, FlagTypes
    <3>5. code \in Letters <=> code \notin Symbols /\ code \notin OneChar
      BY <3>1 DEF Letters, Symbols, OneChar, Invisible
    <3> DEFINE column == Column(code) /\ code \notin OneChar
               shift == Shifts \cap down # {}
               second == IF code \in Letters THEN shift # capsStatus
                         ELSE shift /\ code \notin OneChar
    <3>6. column \in BOOLEAN
      OBVIOUS
    <3>7. ASSUME Shifts \cap shared = {} PROVE column = second
      <4>1. shiftStatus = (Shifts \cap down # {})
        BY <3>7 DEF FlagsTold, FlagTypes
      <4>2. CASE code \in Symbols
        BY <3>5, <4>1, <4>2 DEF Column
      <4>3. CASE code \notin Symbols /\ code \in OneChar
        BY <3>5, <4>3 DEF Column
      <4>4. CASE code \notin Symbols /\ code \notin OneChar
        BY <3>5, <4>1, <4>4 DEF Column, FlagTypes
      <4> QED
        BY <4>2, <4>3, <4>4
    <3>8. second = (IF last' \in Letters THEN (Shifts \cap down' # {}) # capsOn'
                    ELSE (Shifts \cap down' # {}) /\ last' \notin OneChar)
      BY <2>1, <3>4
    <3>9. printed' = <<last', column>>
      BY <2>1, <3>2
    <3>10. last' \in Characters /\ shared' = shared
      BY <2>1, <2>5, <3>4
    <3> HIDE DEF column, second
    <3> QED
      BY <3>6, <3>7, <3>8, <3>9, <3>10 DEF CharTold
  <2> QED
    BY <2>4, <2>5
<1> QED
  BY <1>1, <1>2, <1>3

-----------------------------------------------------------------------------
(* At first nothing is down and nothing waits.                              *)
LEMMA KeyboardInit == Init => KeyboardInv
<1> SUFFICES ASSUME Init PROVE KeyboardInv
  OBVIOUS
<1>1. /\ port = <<>> /\ extScancode = FALSE /\ down = {} /\ printed = <<>>
      /\ sent = <<>> /\ last = 0 /\ capsOn = capsStatus
  BY DEF Init
<1>2. FlagTypes /\ FlagsTold
  BY <1>1 DEF Init, FlagTypes, FlagsTold
<1>3. CharTold
  BY <1>1 DEF CharTold, Characters
<1>4. PortWhole
  <2>1. port \in Seq(0..255) /\ DOMAIN port = {}
    BY <1>1
  <2> QED
    BY <1>1, <2>1 DEF PortWhole
<1>5. PortSent
  <2>1. Len(sent) = 0 /\ Len(port) = 0 /\ 1..0 = {} /\ sent \in Seq(Codes)
    BY <1>1
  <2> DEFINE f == [j \in {} |-> 0]
  <2>2. f \in [{} -> {}]
    OBVIOUS
  <2> HIDE DEF f
  <2>3. Ends(f)
    BY <2>1, <2>2 DEF Ends
  <2> QED
    BY <2>1, <2>3 DEF PortSent
<1> QED
  BY <1>1, <1>2, <1>3, <1>4, <1>5 DEF KeyboardInv

(* The keys and the handler keep the invariant.                             *)
LEMMA KeyboardStep == KeyboardInv /\ [Next]_vars => KeyboardInv'
<1> SUFFICES ASSUME KeyboardInv, [Next]_vars PROVE KeyboardInv'
  OBVIOUS
<1> USE DEF KeyboardInv
<1>1. ASSUME UNCHANGED <<flags, printed, history>>
      PROVE  FlagTypes' /\ FlagsTold' /\ capsOn' = capsStatus' /\ CharTold'
  BY <1>1 DEF flags, history, FlagTypes, FlagsTold, CharTold
<1>2. CASE UNCHANGED vars
  <2>1. UNCHANGED <<flags, printed, history>> /\ UNCHANGED <<extScancode, port, sent>>
    BY <1>2 DEF vars, flags
  <2>2. PortWhole'
    BY <2>1 DEF PortWhole, CodeAt, Prefixed, Codes
  <2>3. PortSent'
    BY <2>1 DEF PortSent, Ends, CodeAt, Prefixed, Codes
  <2> QED
    BY <1>1, <2>1, <2>2, <2>3
<1>3. ASSUME NEW code \in Codes, Send(code) PROVE KeyboardInv'
  <2>1. UNCHANGED <<flags, printed, history>>
    BY <1>3 DEF Send
  <2> QED
    BY <1>1, <1>3, <2>1, SendKeepsWhole, SendKeepsSent
<1>4. CASE IntrKeyboard
  <2>1. PortWhole' /\ PortSent'
    BY <1>4, ReadKeepsWhole, ReadKeepsSent
  <2>2. CASE Head(port) = 224
    <3>1. /\ printed' = <<>> /\ last' = 0
          /\ UNCHANGED <<ctlStatus, shiftStatus, altStatus, capsStatus, down, shared, capsOn>>
      BY <1>4, <2>2 DEF IntrKeyboard, Prefix, NotePrefix
    <3>2. FlagTypes' /\ capsOn' = capsStatus'
      BY <3>1 DEF FlagTypes
    <3>4. FlagsTold'
      BY <3>1 DEF FlagsTold
    <3>3. CharTold'
      <4>1. 0 \notin Characters
        BY DEF Characters
      <4> QED
        BY <3>1, <4>1 DEF CharTold
    <3> QED
      BY <2>1, <3>2, <3>3, <3>4
  <2>3. CASE Head(port) # 224
    <3>1. Note(Head(sent)) /\ Read(Scancode)
      BY <1>4, <2>3 DEF IntrKeyboard, Read
    <3>2. Head(sent) = Scancode
      BY <1>4, <2>3, HeadEndsOldest DEF IntrKeyboard, PortSent
    <3>3. Scancode \in Nat
      <4>1. port \in Seq(0..255) /\ port # <<>>
        BY <1>4 DEF IntrKeyboard, PortWhole
      <4>2. Head(port) \in 0..255
        BY <4>1, HeadTailProperties
      <4> QED
        BY <4>2 DEF Ext, Scancode
    <3> QED
      BY <2>1, <3>1, <3>2, <3>3, FlagsStep, CharStep
  <2> QED
    BY <2>2, <2>3
<1>5. ASSUME NEW key \in Keys, Press(key) \/ Repeat(key) \/ Release(key)
      PROVE  \E code \in Codes : Send(code)
  BY <1>5 DEF Press, Repeat, Release, Codes
<1> QED
  BY <1>2, <1>3, <1>4, <1>5 DEF Next

(* The handler's invariant, for every set of keys (keyboard.c:97-176).      *)
THEOREM KeyboardInvariant == Spec => []KeyboardInv
BY KeyboardInit, KeyboardStep, PTL DEF Spec

(* Unless one key of a pair was released while the other was down, the      *)
(* flag of a control key is set exactly while one of its keys is down       *)
(* (keyboard.c:122-134, 166-175): FlagsTold.                                *)
THEOREM FlagsAreTold == Spec => []FlagsTold
<1>1. KeyboardInv => FlagsTold
  BY DEF KeyboardInv
<1> QED
  BY <1>1, KeyboardInvariant, PTL

(* The prefix is remembered exactly while the second byte of its scan code  *)
(* is the next to be read, and the handler then takes that byte for the     *)
(* code that was sent (keyboard.c:112-120): PrefixTold.                     *)
THEOREM PrefixIsTold == Spec => []PrefixTold
<1>1. KeyboardInv => PrefixTold
  <2> SUFFICES ASSUME PortWhole, PortSent PROVE PrefixTold
    BY DEF KeyboardInv
  <2>1. extScancode => port # <<>> /\ Head(port) # 224
    BY DEF PortWhole
  <2>2. ASSUME port # <<>>, Head(port) # 224
        PROVE  Scancode = Head(sent) /\ (extScancode <=> Head(sent) >= Ext)
    <3>1. Head(sent) = Scancode
      BY <2>2, HeadEndsOldest DEF PortSent
    <3>2. port \in Seq(0..255) /\ extScancode \in BOOLEAN
      BY DEF PortWhole
    <3>3. Head(port) \in 0..255
      BY <2>2, <3>2, HeadTailProperties
    <3>4. CASE extScancode
      <4>1. Scancode = Ext + Head(port)
        BY <3>4 DEF Scancode
      <4>2. Ext + Head(port) >= Ext
        BY <3>3 DEF Ext
      <4> QED
        BY <3>1, <3>4, <4>1, <4>2
    <3>5. CASE ~extScancode
      <4>1. Scancode = Head(port)
        BY <3>5 DEF Scancode
      <4>2. ~ (Head(port) >= Ext)
        BY <3>3 DEF Ext
      <4> QED
        BY <3>1, <3>5, <4>1, <4>2
    <3> QED
      BY <3>2, <3>4, <3>5
  <2> QED
    BY <2>1, <2>2 DEF PrefixTold
<1> QED
  BY <1>1, KeyboardInvariant, PTL

(* What an interrupt prints is the character of the key whose make code it  *)
(* has read to its end, in the column that the Shift keys and Caps Lock ask *)
(* for, Shift as FlagsAreTold has it (keyboard.c:137-163): CharTold.        *)
THEOREM CharIsTold == Spec => []CharTold
<1>1. KeyboardInv => CharTold
  BY DEF KeyboardInv
<1> QED
  BY <1>1, KeyboardInvariant, PTL

(* What the handler takes for a scan code is one that a key has sent: it    *)
(* joins no byte to the prefix of another (keyboard.c:112-120).             *)
ScanCodesWhole == port # <<>> /\ Head(port) # 224 => Scancode \in Codes

(* ScanCodesWhole holds always.                                             *)
THEOREM ScanCodesAreWhole == Spec => []ScanCodesWhole
<1>1. KeyboardInv => ScanCodesWhole
  BY HeadEndsOldest DEF KeyboardInv, PortSent, ScanCodesWhole
<1> QED
  BY <1>1, KeyboardInvariant, PTL
==============================================================================
