------------------------------ MODULE ListProof -------------------------------
(***************************************************************************)
(* The lists of list.c implement sequences, for any number of threads,      *)
(* lists and nodes, although threads come in between two statements         *)
(* wherever IF is set.                                                      *)
(***************************************************************************)
EXTENDS List, FiniteSetTheorems, WellFoundedInduction, TLAPS

(* The cells of list l when it contains w: the head is number 0.            *)
Cell(l, w, i) == IF i = 0 THEN head(l) ELSE IF i = Len(w) + 1 THEN tail(l) ELSE w[i]

Linked(nx, pv, l, w) ==
  \A i \in 0..Len(w) : /\ nx[Cell(l, w, i)] = Cell(l, w, i + 1)
                       /\ pv[Cell(l, w, i + 1)] = Cell(l, w, i)

(* No node is in two lists, or in one list twice.                           *)
Apart(q) ==
  /\ q \in [Lists -> Seq(Nodes)]
  /\ \A l, m \in Lists : \A i \in 1..Len(q[l]), j \in 1..Len(q[m]) :
       q[l][i] = q[m][j] => l = m /\ i = j

Pointers == [Cells -> Cells \cup {NULL}]

Sound(nx, pv, q) ==
  /\ nx \in Pointers /\ pv \in Pointers
  /\ Apart(q)
  /\ \A l \in Lists : Linked(nx, pv, l, q[l])

-----------------------------------------------------------------------------
(* The inductive invariant.                                                *)

(* A call under way knows its neighbour if it inserts.                      *)
Inserts(t) == call[t].place # "idle" /\ call[t].before # NULL
Removes(t) == call[t].place # "idle" /\ call[t].before = NULL
Inside(t) == call[t].place \notin {"idle", "insert", "remove"}

(* The neighbour is the tail, or the first cell as long as IF is clear.     *)
InsertOK(t) ==
  LET l == call[t].list IN
  /\ call[t].place \in {"insert", "insert1", "insert2", "insert3", "insert4", "restore"}
  /\ l \in Lists /\ call[t].node \in Nodes
  /\ \A m \in Lists : \A i \in 1..Len(Contents[m]) : Contents[m][i] # call[t].node
  /\ \/ call[t].before = tail(l)
     \/ call[t].before = Cell(l, Contents[l], 1) /\ off = t

RemoveOK(t) ==
  LET l == call[t].list IN
  /\ call[t].place \in {"remove", "remove1", "remove2", "restore"}
  /\ l \in Lists /\ off = t
  /\ \E i \in 1..Len(Contents[l]) : call[t].node = Contents[l][i]

CallInv ==
  /\ \A t \in Threads :
       /\ Inserts(t) => InsertOK(t)
       /\ Removes(t) => RemoveOK(t)
       /\ Inside(t) => off = t /\ call[t].old \in {NULL, t}
  /\ \A t, u \in Threads :
       t # u /\ Inserts(t) /\ Inserts(u) => call[t].node # call[u].node

(* How far the call of t has come from the pointers nx and pv.              *)
Half(t, nx, pv) ==
  LET n == call[t].node
      b == call[t].before
      nx1 == [nx EXCEPT ![pv[b]] = n]
      nx2 == [nx1 EXCEPT ![n] = b]
      pv1 == [pv EXCEPT ![n] = pv[b]]
      pv2 == [pv1 EXCEPT ![b] = n]
      nx3 == [nx EXCEPT ![pv[n]] = nx[n]]
      pv3 == [pv EXCEPT ![nx[n]] = pv[n]]
  IN
  /\ call[t].place \in {"insert1", "remove1"} => next = nx /\ prev = pv
  /\ call[t].place = "insert2" => next = nx1 /\ prev = pv
  /\ call[t].place = "insert3" => next = nx1 /\ prev = pv1
  /\ call[t].place = "insert4" => next = nx2 /\ prev = pv1
  /\ call[t].place = "remove2" => next = nx3 /\ prev = pv
  /\ call[t].place = "restore" =>
       IF Inserts(t) THEN next = nx2 /\ prev = pv2 ELSE next = nx3 /\ prev = pv3

(* The pointers are those of some soundly linked lists, but for what the    *)
(* operation under way has changed.                                         *)
From(nx, pv) ==
  /\ Sound(nx, pv, Contents)
  /\ Quiet => next = nx /\ prev = pv
  /\ \A t \in Threads : Inside(t) => Half(t, nx, pv)

Calls ==
  [place : {"idle", "insert", "insert1", "insert2", "insert3", "insert4",
            "remove", "remove1", "remove2", "restore"},
   list : Lists \cup {NULL}, node : Nodes \cup {NULL},
   before : Cells \cup {NULL}, old : Threads \cup {NULL}]

ListInv ==
  /\ off \in Threads \cup {NULL}
  /\ call \in [Threads -> Calls]
  /\ CallInv
  /\ \E nx, pv : From(nx, pv)

-----------------------------------------------------------------------------
(* The sentinels are cells of their own.                                    *)
LEMMA Sentinels ==
  ASSUME NEW l \in Lists
  PROVE  /\ head(l) \in Cells /\ tail(l) \in Cells
         /\ head(l) \notin Nodes /\ tail(l) \notin Nodes
         /\ head(l) # NULL /\ tail(l) # NULL
         /\ \A m \in Lists : /\ head(l) # tail(m)
                             /\ head(l) = head(m) => l = m
                             /\ tail(l) = tail(m) => l = m
<1>1. head(l) \in Cells /\ tail(l) \in Cells
  BY DEF Cells
<1>2. {head(l), tail(l)} \cap (Nodes \cup {NULL}) = {}
  BY ListAssumption, Zenon
<1>3. head(l) \notin Nodes /\ tail(l) \notin Nodes /\ head(l) # NULL /\ tail(l) # NULL
  BY <1>2
<1>4. ASSUME NEW m \in Lists
      PROVE  /\ head(l) # tail(m)
             /\ head(l) = head(m) => l = m
             /\ tail(l) = tail(m) => l = m
  BY DEF head, tail
<1> QED
  BY <1>1, <1>3, <1>4

(* NULL is no cell.                                                         *)
LEMMA NoNullCell == NULL \notin Cells
<1>1. NULL \notin Nodes
  BY ListAssumption
<1>2. \A l \in Lists : head(l) # NULL /\ tail(l) # NULL
  BY Sentinels
<1> QED
  BY <1>1, <1>2 DEF Cells

(* The places of the lists are different cells.                             *)
LEMMA CellsApart ==
  ASSUME NEW q, Apart(q), NEW l \in Lists, NEW m \in Lists,
         NEW i \in 0..Len(q[l])+1, NEW j \in 0..Len(q[m])+1
  PROVE  /\ Cell(l, q[l], i) \in Cells
         /\ Cell(l, q[l], i) = Cell(m, q[m], j) => l = m /\ i = j
         /\ i \in 1..Len(q[l]) <=> Cell(l, q[l], i) \in Nodes
<1>1. /\ q[l] \in Seq(Nodes) /\ q[m] \in Seq(Nodes)
      /\ Len(q[l]) \in Nat /\ Len(q[m]) \in Nat
      /\ i \in 1..Len(q[l]) => q[l][i] \in Nodes
      /\ j \in 1..Len(q[m]) => q[m][j] \in Nodes
  BY DEF Apart
<1>2. /\ i \in 1..Len(q[l]) /\ j \in 1..Len(q[m]) /\ q[l][i] = q[m][j] => l = m /\ i = j
  BY DEF Apart
<1>3. /\ head(l) \in Cells /\ tail(l) \in Cells /\ Nodes \subseteq Cells
      /\ {head(l), head(m), tail(l), tail(m)} \cap Nodes = {}
      /\ head(l) # tail(m) /\ tail(l) # head(m)
      /\ head(l) = head(m) => l = m
      /\ tail(l) = tail(m) => l = m
  BY Sentinels DEF Cells
<1>4. CASE i \in 1..Len(q[l])
  <2>1. Cell(l, q[l], i) = q[l][i]
    BY <1>1, <1>4 DEF Cell
  <2>2. Cell(m, q[m], j) \in {head(m), tail(m)} \/ (j \in 1..Len(q[m]) /\ Cell(m, q[m], j) = q[m][j])
    BY <1>1 DEF Cell
  <2> QED
    BY <1>1, <1>2, <1>3, <1>4, <2>1, <2>2
<1>5. CASE i = 0
  <2>1. Cell(l, q[l], i) = head(l)
    BY <1>5 DEF Cell
  <2>2. Cell(m, q[m], j) = (IF j = 0 THEN head(m) ELSE IF j = Len(q[m]) + 1 THEN tail(m) ELSE q[m][j])
    BY DEF Cell
  <2> QED
    BY <1>1, <1>3, <1>5, <2>1, <2>2
<1>6. CASE i = Len(q[l]) + 1
  <2>1. Cell(l, q[l], i) = tail(l)
    BY <1>1, <1>6 DEF Cell
  <2>2. Cell(m, q[m], j) = (IF j = 0 THEN head(m) ELSE IF j = Len(q[m]) + 1 THEN tail(m) ELSE q[m][j])
    BY DEF Cell
  <2>3. l = m => Len(q[l]) = Len(q[m])
    OBVIOUS
  <2> QED
    BY <1>1, <1>3, <1>6, <2>1, <2>2, <2>3
<1> QED
  BY <1>1, <1>4, <1>5, <1>6

(* A set of natural numbers that is not empty has a least element.          *)
LEMMA NatLeast ==
  ASSUME NEW S, S \subseteq Nat, S # {}
  PROVE  \E n \in S : \A m \in S : n <= m
<1> DEFINE R == OpToRel(<, Nat)
<1>1. \E x \in S : \A y \in S : ~ (<<y, x>> \in R)
  BY NatLessThanWellFounded, WFMin, Zenon
<1>2. \A x, y \in Nat : <<y, x>> \in R <=> y < x
  BY DEF OpToRel
<1> HIDE DEF R
<1>3. PICK n \in S : \A m \in S : ~ (<<m, n>> \in R)
  BY <1>1
<1>4. ASSUME NEW m \in S PROVE n <= m
  <2>1. m \in Nat /\ n \in Nat /\ ~ (<<m, n>> \in R)
    BY <1>3
  <2>2. ~ (m < n)
    BY <2>1, <1>2, Zenon
  <2> QED
    BY <2>1, <2>2
<1> QED
  BY <1>4

(* A sequence without repetitions is no longer than there are nodes.        *)
LEMMA NoLonger ==
  ASSUME NEW w \in Seq(Nodes),
         \A i, j \in 1..Len(w) : w[i] = w[j] => i = j
  PROVE  Len(w) <= Cardinality(Nodes) /\ Cardinality(Nodes) \in Nat
<1>1. w \in Injection(1..Len(w), Nodes)
  BY DEF Injection, IsInjective
<1>2. IsFiniteSet(Nodes)
  BY ListAssumption
<1>3. Cardinality(1..Len(w)) <= Cardinality(Nodes)
  BY <1>1, <1>2, FS_Injection, Zenon
<1>4. Cardinality(1..Len(w)) = Len(w)
  BY FS_Interval
<1>5. Cardinality(Nodes) \in Nat
  BY <1>2, FS_CardinalityType
<1> QED
  BY <1>3, <1>4, <1>5

(* The pointer leads from c over the nodes of w and then to no node.        *)
Leads(ptr, c, w) ==
  /\ \A i \in 1..Len(w) : w[i] = ptr[IF i = 1 THEN c ELSE w[i - 1]]
  /\ ptr[IF Len(w) = 0 THEN c ELSE w[Len(w)]] \notin Nodes

(* Along a pointer lie the nodes over which it leads.                       *)
LEMMA AlongIs ==
  ASSUME NEW ptr, NEW c, NEW w \in Seq(Nodes), Len(w) <= Cardinality(Nodes),
         Cardinality(Nodes) \in Nat, Leads(ptr, c, w)
  PROVE  Along(ptr, c) = w
<1>0. /\ \A i \in 1..Len(w) : w[i] = ptr[IF i = 1 THEN c ELSE w[i - 1]]
      /\ ptr[IF Len(w) = 0 THEN c ELSE w[Len(w)]] \notin Nodes
  BY DEF Leads
<1> DEFINE Ways == {v \in SeqOf(Nodes, Cardinality(Nodes)) :
                      \A i \in DOMAIN v : v[i] = ptr[IF i = 1 THEN c ELSE v[i - 1]]}
<1>1. \A v : v \in SeqOf(Nodes, Cardinality(Nodes)) <=>
               v \in Seq(Nodes) /\ Len(v) <= Cardinality(Nodes)
  <2>1. \A m \in Nat : \A v \in [1..m -> Nodes] : v \in Seq(Nodes) /\ Len(v) = m
    OBVIOUS
  <2>2. \A v \in Seq(Nodes) : v \in [1..Len(v) -> Nodes] /\ Len(v) \in Nat
    OBVIOUS
  <2>3. ASSUME NEW v, v \in SeqOf(Nodes, Cardinality(Nodes))
        PROVE  v \in Seq(Nodes) /\ Len(v) <= Cardinality(Nodes)
    <3>1. PICK m \in 0..Cardinality(Nodes) : v \in [1..m -> Nodes]
      BY <2>3 DEF SeqOf
    <3> QED
      BY <2>1, <3>1
  <2>4. ASSUME NEW v \in Seq(Nodes), Len(v) <= Cardinality(Nodes)
        PROVE  v \in SeqOf(Nodes, Cardinality(Nodes))
    <3>1. Len(v) \in 0..Cardinality(Nodes) /\ v \in [1..Len(v) -> Nodes]
      BY <2>2, <2>4
    <3> QED
      BY <3>1 DEF SeqOf
  <2> QED
    BY <2>3, <2>4
<1>2. w \in Ways
  BY <1>0, <1>1
<1>3. ASSUME NEW v \in Ways
      PROVE  Len(v) <= Len(w) /\ \A i \in 1..Len(v) : v[i] = w[i]
  <2>1. /\ v \in Seq(Nodes) /\ Len(v) \in Nat /\ Len(w) \in Nat
        /\ \A i \in 1..Len(v) : v[i] \in Nodes /\ v[i] = ptr[IF i = 1 THEN c ELSE v[i - 1]]
    <3>1. /\ v \in SeqOf(Nodes, Cardinality(Nodes))
          /\ \A i \in DOMAIN v : v[i] = ptr[IF i = 1 THEN c ELSE v[i - 1]]
      OBVIOUS
    <3>2. v \in Seq(Nodes)
      BY <1>1, <3>1
    <3>3. DOMAIN v = 1..Len(v) /\ \A i \in 1..Len(v) : v[i] \in Nodes
      BY <3>2
    <3>4. \A i \in 1..Len(v) : v[i] = ptr[IF i = 1 THEN c ELSE v[i - 1]]
      BY <3>1, <3>3, Zenon
    <3>5. Len(v) \in Nat /\ Len(w) \in Nat
      BY <3>2
    <3> HIDE DEF Ways
    <3> QED
      BY <3>2, <3>3, <3>4, <3>5, Zenon
  <2> DEFINE Bad == {i \in 1..Len(v) : i > Len(w) \/ v[i] # w[i]}
  <2> HIDE DEF Ways
  <2>2. CASE Bad = {}
    <3>1. \A i \in 1..Len(v) : i <= Len(w) /\ v[i] = w[i]
      <4> TAKE i \in 1..Len(v)
      <4>1. i \notin Bad
        BY <2>2
      <4>2. ~(i > Len(w)) /\ v[i] = w[i]
        BY <4>1
      <4> HIDE DEF Bad
      <4> QED
        BY <4>2, <2>1
    <3>2. Len(v) <= Len(w)
      BY <2>1, <3>1
    <3> QED
      BY <3>1, <3>2
  <2>3. ASSUME Bad # {} PROVE FALSE
    <3>1. Bad \subseteq Nat
      BY <2>1
    <3>2. PICK i \in Bad : \A j \in Bad : i <= j
      BY <2>3, <3>1, NatLeast, Zenon
    <3>3. /\ i \in 1..Len(v) /\ (i > Len(w) \/ v[i] # w[i])
          /\ \A j \in 1..Len(v) : j < i => j <= Len(w) /\ v[j] = w[j]
      BY <3>2, <2>1
    <3>4. CASE i = 1
      BY <3>3, <3>4, <2>1, <1>0
    <3>5. CASE i # 1
      <4>1. i - 1 \in 1..Len(v) /\ i - 1 < i /\ i - 1 <= Len(w) /\ v[i-1] = w[i-1]
        BY <3>3, <3>5, <2>1
      <4>2. v[i] = ptr[w[i-1]] /\ v[i] \in Nodes
        BY <4>1, <3>3, <3>5, <2>1
      <4>3. CASE i <= Len(w)
        <5>1. w[i] = ptr[w[i-1]]
          BY <4>3, <3>3, <3>5, <2>1, <1>0
        <5> QED
          BY <5>1, <4>2, <4>3, <3>3, <2>1
      <4>4. CASE i > Len(w)
        <5>1. i - 1 = Len(w) /\ Len(w) # 0
          BY <4>1, <4>4, <3>3, <3>5, <2>1
        <5> QED
          BY <5>1, <4>2, <1>0
      <4> QED
        BY <4>3, <4>4, <3>3, <2>1
    <3> QED
      BY <3>4, <3>5
  <2> QED
    BY <2>2, <2>3
<1> HIDE DEF Ways
<1>4. \A v \in Ways : v \in Seq(Nodes)
  BY <1>1 DEF Ways
<1>5. PICK u \in Ways : u = Along(ptr, c) /\ \A v \in Ways : Len(v) <= Len(u)
  <2>1. Along(ptr, c) = CHOOSE u \in Ways : \A v \in Ways : Len(v) <= Len(u)
    BY Zenon DEF Along, Ways
  <2>2. \E u \in Ways : \A v \in Ways : Len(v) <= Len(u)
    BY <1>2, <1>3
  <2> QED
    BY <2>1, <2>2, Zenon
<1>6. Len(u) = Len(w) /\ \A i \in 1..Len(u) : u[i] = w[i]
  <2>1. Len(w) <= Len(u) /\ Len(u) <= Len(w) /\ \A i \in 1..Len(u) : u[i] = w[i]
    BY <1>2, <1>3, <1>5
  <2>2. Len(u) \in Nat /\ Len(w) \in Nat
    BY <1>4, <1>5
  <2> QED
    BY <2>1, <2>2
<1>7. u = w
  BY <1>4, <1>5, <1>6
<1> QED
  BY <1>5, <1>7

(* Between the operations Walk finds what a list contains, from both ends.  *)
LEMMA WalkIs ==
  ASSUME NEW q, Sound(next, prev, q), NEW l \in Lists
  PROVE  Walk(l) = q[l] /\ Along(prev, tail(l)) = Reverse(q[l])
<1> DEFINE w == q[l]
<1>1. /\ w \in Seq(Nodes) /\ Len(w) \in Nat
      /\ \A i \in 1..Len(w) : w[i] \in Nodes
      /\ \A i, j \in 1..Len(w) : w[i] = w[j] => i = j
  BY DEF Sound, Apart
<1>2. /\ Len(w) <= Cardinality(Nodes) /\ Cardinality(Nodes) \in Nat
  BY <1>1, NoLonger
<1>3. \A i \in 0..Len(w) : /\ next[Cell(l, w, i)] = Cell(l, w, i + 1)
                           /\ prev[Cell(l, w, i + 1)] = Cell(l, w, i)
  BY DEF Sound, Linked
<1>4. /\ Cell(l, w, 0) = head(l) /\ Cell(l, w, Len(w) + 1) = tail(l)
      /\ \A i \in 1..Len(w) : Cell(l, w, i) = w[i]
  BY <1>1 DEF Cell
<1>5. head(l) \notin Nodes /\ tail(l) \notin Nodes
  BY Sentinels
<1> HIDE DEF w
<1>6. Along(next, head(l)) = w
  <2>1. \A i \in 1..Len(w) : w[i] = next[IF i = 1 THEN head(l) ELSE w[i - 1]]
    <3> TAKE i \in 1..Len(w)
    <3>1. i - 1 \in 0..Len(w) /\ (i - 1) + 1 = i
      BY <1>1
    <3>2. next[Cell(l, w, i - 1)] = w[i]
      BY <3>1, <1>3, <1>4
    <3>3. Cell(l, w, i - 1) = IF i = 1 THEN head(l) ELSE w[i - 1]
      BY <3>1, <1>1, <1>4
    <3> QED
      BY <3>2, <3>3
  <2>2. next[IF Len(w) = 0 THEN head(l) ELSE w[Len(w)]] \notin Nodes
    <3>1. next[Cell(l, w, Len(w))] = tail(l)
      BY <1>1, <1>3, <1>4
    <3>2. Cell(l, w, Len(w)) = IF Len(w) = 0 THEN head(l) ELSE w[Len(w)]
      BY <1>1, <1>4
    <3> QED
      BY <3>1, <3>2, <1>5
  <2>3. Leads(next, head(l), w)
    BY <2>1, <2>2 DEF Leads
  <2> QED
    BY <1>1, <1>2, <2>3, AlongIs
<1>7. Along(prev, tail(l)) = Reverse(w)
  <2> DEFINE r == Reverse(w)
  <2>1. /\ r \in Seq(Nodes) /\ Len(r) = Len(w)
        /\ \A i \in 1..Len(w) : r[i] = w[(Len(w) - i) + 1]
    BY <1>1 DEF Reverse
  <2> HIDE DEF r
  <2>2. PICK N \in Nat : N = Len(w)
    BY <1>1
  <2>3. \A i \in 1..Len(r) : r[i] = prev[IF i = 1 THEN tail(l) ELSE r[i - 1]]
    <3> TAKE i \in 1..Len(r)
    <3> DEFINE j == (N - i) + 1
    <3>1. j \in 1..N /\ j \in 0..N /\ i \in 1..N
      BY <2>1, <2>2
    <3>2. prev[Cell(l, w, j + 1)] = w[j] /\ r[i] = w[j]
      BY <3>1, <1>3, <1>4, <2>1, <2>2
    <3>3. CASE i = 1
      BY <3>1, <3>2, <3>3, <2>2, <1>4
    <3>4. CASE i # 1
      <4>1. i - 1 \in 1..N /\ (N - (i - 1)) + 1 = j + 1 /\ j + 1 \in 1..N
        BY <3>1, <3>4
      <4>2. r[i - 1] = w[j + 1] /\ Cell(l, w, j + 1) = w[j + 1]
        BY <4>1, <2>1, <2>2, <1>4
      <4> QED
        BY <3>2, <3>4, <4>2
    <3> QED
      BY <3>3, <3>4
  <2>4. prev[IF Len(r) = 0 THEN tail(l) ELSE r[Len(r)]] \notin Nodes
    <3>1. prev[Cell(l, w, 1)] = head(l)
      BY <1>1, <1>3, <1>4
    <3>2. Len(r) = 0 => Cell(l, w, 1) = tail(l)
      BY <2>1, <1>4
    <3>3. Len(r) # 0 => r[Len(r)] = w[1] /\ Cell(l, w, 1) = w[1]
      <4> HAVE Len(r) # 0
      <4>1. N \in 1..N /\ (N - N) + 1 = 1 /\ 1 \in 1..N /\ Len(r) = N
        BY <2>1, <2>2
      <4> QED
        BY <4>1, <2>1, <2>2, <1>4
    <3> QED
      BY <3>1, <3>2, <3>3, <1>5
  <2>5. Len(r) <= Cardinality(Nodes) /\ r \in Seq(Nodes)
    BY <1>2, <2>1
  <2>6. Leads(prev, tail(l), r)
    BY <2>3, <2>4 DEF Leads
  <2>7. Along(prev, tail(l)) = r
    BY <1>2, <2>5, <2>6, AlongIs
  <2> QED
    BY <2>7 DEF r
<1> QED
  BY <1>6, <1>7 DEF Walk, w

-----------------------------------------------------------------------------
(* What insertions and removals do to the lists.                           *)

(* The elements of a sequence with one more.                                *)
LEMMA InsertedAt ==
  ASSUME NEW w \in Seq(Nodes), NEW n \in Nodes, NEW k \in 1..Len(w)+1
  PROVE  LET r == InsertAt(w, k, n) IN
         /\ r \in Seq(Nodes) /\ Len(r) = Len(w) + 1
         /\ \A i \in 1..Len(w)+1 :
              r[i] = IF i < k THEN w[i] ELSE IF i = k THEN n ELSE w[i - 1]
<1> DEFINE a == SubSeq(w, 1, k - 1)    d == SubSeq(w, k, Len(w))    b == Append(a, n)
<1>0. Len(w) \in Nat /\ k \in Nat /\ k >= 1
  OBVIOUS
<1>1. a \in Seq(Nodes) /\ Len(a) = k - 1 /\ \A i \in 1..k-1 : a[i] = w[i]
  OBVIOUS
<1>2. d \in Seq(Nodes) /\ Len(d) = Len(w) - k + 1 /\ \A i \in 1..Len(w)-k+1 : d[i] = w[k + i - 1]
  OBVIOUS
<1>3. InsertAt(w, k, n) = a \o <<n>> \o d
  BY DEF InsertAt
<1> HIDE DEF a, d
<1>4. b = a \o <<n>> /\ b \in Seq(Nodes) /\ Len(b) = k /\ b[k] = n /\ \A i \in 1..k-1 : b[i] = w[i]
  BY <1>1
<1> HIDE DEF b
<1>5. Len(b \o d) = Len(w) + 1 /\ b \o d \in Seq(Nodes)
  BY <1>2, <1>4
<1>6. \A i \in 1..Len(w)+1 :
        (b \o d)[i] = IF i < k THEN w[i] ELSE IF i = k THEN n ELSE w[i - 1]
  <2> TAKE i \in 1..Len(w)+1
  <2>1. CASE i <= k
    BY <2>1, <1>2, <1>4
  <2>2. CASE i > k
    <3>1. i - k \in 1..Len(w)-k+1 /\ k + (i - k) - 1 = i - 1
      BY <2>2
    <3>2. (b \o d)[i] = d[i - k]
      BY <2>2, <1>2, <1>4
    <3>3. d[i - k] = w[i - 1]
      BY <3>1, <1>2
    <3> QED
      BY <3>2, <3>3, <2>2, <1>0
  <2>3. i <= k \/ i > k
    BY <1>0
  <2> QED
    BY <2>1, <2>2, <2>3, Zenon
<1> QED
  BY <1>3, <1>4, <1>5, <1>6

(* And of one with one less.                                                *)
LEMMA RemovedAt ==
  ASSUME NEW w \in Seq(Nodes), NEW k \in 1..Len(w)
  PROVE  LET r == RemoveAt(w, k) IN
         /\ r \in Seq(Nodes) /\ Len(r) = Len(w) - 1
         /\ \A i \in 1..Len(w)-1 : r[i] = IF i < k THEN w[i] ELSE w[i + 1]
<1> DEFINE a == SubSeq(w, 1, k - 1)    d == SubSeq(w, k + 1, Len(w))
<1>0. Len(w) \in Nat /\ k \in Nat /\ k >= 1
  OBVIOUS
<1>1. a \in Seq(Nodes) /\ Len(a) = k - 1 /\ \A i \in 1..k-1 : a[i] = w[i]
  OBVIOUS
<1>2. d \in Seq(Nodes) /\ Len(d) = Len(w) - k /\ \A i \in 1..Len(w)-k : d[i] = w[k + i]
  OBVIOUS
<1>3. RemoveAt(w, k) = a \o d
  BY DEF RemoveAt
<1> HIDE DEF a, d
<1>5. Len(a \o d) = Len(w) - 1 /\ a \o d \in Seq(Nodes)
  <2>3. a \in Seq(Nodes) /\ d \in Seq(Nodes)
    BY <1>1, <1>2
  <2>1. Len(a \o d) = Len(a) + Len(d) /\ a \o d \in Seq(Nodes)
    BY <2>3
  <2>2. (k - 1) + (Len(w) - k) = Len(w) - 1
    BY <1>0
  <2> QED
    BY <1>1, <1>2, <2>1, <2>2
<1>6. \A i \in 1..Len(w)-1 : (a \o d)[i] = IF i < k THEN w[i] ELSE w[i + 1]
  <2> TAKE i \in 1..Len(w)-1
  <2>1. CASE i < k
    BY <2>1, <1>1, <1>2
  <2>2. CASE i >= k
    <3>1. i - (k - 1) \in 1..Len(w)-k /\ k + (i - (k - 1)) = i + 1
      BY <2>2
    <3>2. (a \o d)[i] = d[i - (k - 1)]
      BY <2>2, <1>1, <1>2
    <3>3. d[i - (k - 1)] = w[i + 1]
      BY <3>1, <1>2
    <3> QED
      BY <3>2, <3>3, <2>2, <1>0
  <2>3. i < k \/ i >= k
    BY <1>0
  <2> QED
    BY <2>1, <2>2, <2>3, Zenon
<1> QED
  BY <1>3, <1>5, <1>6

(* After the four statements of __listInsert the node is linked in.         *)
LEMMA InsertSound ==
  ASSUME NEW nx, NEW pv, NEW q, Sound(nx, pv, q),
         NEW l \in Lists, NEW n \in Nodes, NEW k \in 1..Len(q[l])+1,
         \A m \in Lists : \A i \in 1..Len(q[m]) : q[m][i] # n
  PROVE  LET b == Cell(l, q[l], k)
             nx1 == [nx EXCEPT ![pv[b]] = n]
             pv1 == [pv EXCEPT ![n] = pv[b]]
         IN  Sound([nx1 EXCEPT ![n] = b], [pv1 EXCEPT ![b] = n],
                   [q EXCEPT ![l] = InsertAt(q[l], k, n)])
<1> DEFINE b == Cell(l, q[l], k)
           p == Cell(l, q[l], k - 1)
           nx1 == [nx EXCEPT ![pv[b]] = n]    nx2 == [nx1 EXCEPT ![n] = b]
           pv1 == [pv EXCEPT ![n] = pv[b]]    pv2 == [pv1 EXCEPT ![b] = n]
           r == InsertAt(q[l], k, n)
           q2 == [q EXCEPT ![l] = r]
<1>0. PICK N \in Nat : N = Len(q[l])
  BY DEF Sound, Apart
<1>1. /\ k \in 1..N+1 /\ k - 1 \in 0..N /\ (k - 1) + 1 = k
      /\ Apart(q) /\ q \in [Lists -> Seq(Nodes)] /\ q[l] \in Seq(Nodes)
      /\ nx \in Pointers /\ pv \in Pointers
      /\ \A m \in Lists : \A i \in 0..Len(q[m]) :
           /\ nx[Cell(m, q[m], i)] = Cell(m, q[m], i + 1)
           /\ pv[Cell(m, q[m], i + 1)] = Cell(m, q[m], i)
  BY <1>0 DEF Sound, Apart, Linked
<1>2. pv[b] = p
  BY <1>0, <1>1
<1>3. \A m \in Lists : \A i \in 0..Len(q[m])+1 :
        /\ Cell(m, q[m], i) \in Cells
        /\ Cell(m, q[m], i) # n
        /\ \A j \in 0..N+1 : Cell(m, q[m], i) = Cell(l, q[l], j) => m = l /\ i = j
  <2> TAKE m \in Lists
  <2> TAKE i \in 0..Len(q[m])+1
  <2>1. Cell(m, q[m], i) \in Cells /\ (i \in 1..Len(q[m]) <=> Cell(m, q[m], i) \in Nodes)
    BY <1>1, CellsApart
  <2>2. \A j \in 0..N+1 : Cell(m, q[m], i) = Cell(l, q[l], j) => m = l /\ i = j
    BY <1>0, <1>1, CellsApart
  <2>3. Cell(m, q[m], i) # n
    <3>1. q[m] \in Seq(Nodes) /\ Len(q[m]) \in Nat
      BY <1>1
    <3>2. i \in 1..Len(q[m]) => Cell(m, q[m], i) = q[m][i]
      BY <3>1 DEF Cell
    <3> QED
      BY <2>1, <3>2
  <2> QED
    BY <2>1, <2>2, <2>3
<1>4. b \in Cells /\ p \in Cells /\ n \in Cells /\ b # n /\ p # n /\ p # b
  BY <1>0, <1>1, <1>3 DEF Cells
<1>5. /\ nx2 \in Pointers /\ pv2 \in Pointers
      /\ \A c \in Cells :
           /\ nx2[c] = IF c = n THEN b ELSE IF c = p THEN n ELSE nx[c]
           /\ pv2[c] = IF c = b THEN n ELSE IF c = n THEN p ELSE pv[c]
  <2>1. nx1 \in Pointers /\ pv1 \in Pointers
    BY <1>1, <1>2, <1>4 DEF Pointers, Cells
  <2>2. \A c \in Cells : nx1[c] = (IF c = p THEN n ELSE nx[c]) /\ pv1[c] = (IF c = n THEN p ELSE pv[c])
    BY <1>1, <1>2, <1>4 DEF Pointers
  <2> HIDE DEF nx1, pv1, b, p
  <2> QED
    BY <2>1, <2>2, <1>4 DEF Pointers, Cells
<1>6. /\ r \in Seq(Nodes) /\ Len(r) = N + 1
      /\ \A i \in 1..N+1 : r[i] = IF i < k THEN q[l][i] ELSE IF i = k THEN n ELSE q[l][i - 1]
  <2> HIDE DEF r
  <2>1. LET x == r IN
         /\ x \in Seq(Nodes) /\ Len(x) = Len(q[l]) + 1
         /\ \A i \in 1..Len(q[l])+1 :
              x[i] = IF i < k THEN q[l][i] ELSE IF i = k THEN n ELSE q[l][i - 1]
    BY <1>1, InsertedAt DEF r
  <2> QED
    BY <1>0, <2>1
<1> HIDE DEF r, nx2, pv2
<1>7. q2 \in [Lists -> Seq(Nodes)] /\ q2[l] = r /\ \A m \in Lists \ {l} : q2[m] = q[m]
  BY <1>1, <1>6
<1> HIDE DEF q2
<1>8. Apart(q2)
  <2> DEFINE From2(i) == IF i < k THEN i ELSE i - 1
  <2>1. \A i \in 1..N+1 : IF i = k THEN r[i] = n
                            ELSE From2(i) \in 1..N /\ r[i] = q[l][From2(i)]
    BY <1>1, <1>6
  <2>2. \A i, j \in 1..N+1 : i # k /\ j # k /\ From2(i) = From2(j) => i = j
    BY <1>1
  <2> HIDE DEF From2
  <2>3. \A m, o \in Lists : \A i \in 1..Len(q[m]), j \in 1..Len(q[o]) :
          q[m][i] = q[o][j] => m = o /\ i = j
    BY <1>1 DEF Apart
  <2>8. \A m \in Lists : \A i \in 1..Len(q[m]) : q[m][i] # n
    OBVIOUS
  <2>9. ASSUME NEW i \in 1..N+1, NEW o \in Lists \ {l}, NEW j \in 1..Len(q[o])
        PROVE  r[i] # q[o][j]
    <3>1. q[o][j] # n
      BY <2>8
    <3>2. CASE i = k
      BY <3>1, <3>2, <2>1
    <3>3. CASE i # k
      BY <3>3, <2>1, <2>3, <1>0
    <3> QED
      BY <3>2, <3>3
  <2>10. ASSUME NEW i \in 1..N+1, NEW j \in 1..N+1, r[i] = r[j]
         PROVE  i = j
    <3>1. \A x \in 1..N : q[l][x] # n
      BY <2>8, <1>0
    <3>2. CASE i = k \/ j = k
      BY <3>1, <3>2, <2>1, <2>10
    <3>3. CASE i # k /\ j # k
      BY <3>3, <2>1, <2>2, <2>3, <2>10, <1>0
    <3> QED
      BY <3>2, <3>3
  <2> SUFFICES ASSUME NEW m \in Lists, NEW o \in Lists,
                      NEW i \in 1..Len(q2[m]), NEW j \in 1..Len(q2[o]), q2[m][i] = q2[o][j]
               PROVE  m = o /\ i = j
    BY <1>7 DEF Apart
  <2>4. CASE m = l /\ o = l
    BY <2>4, <2>10, <1>6, <1>7
  <2>5. CASE m = l /\ o # l
    BY <2>5, <2>9, <1>6, <1>7
  <2>6. CASE m # l /\ o = l
    <3>1. /\ m \in Lists \ {l} /\ q2[m] = q[m] /\ q2[o] = r
          /\ j \in 1..N+1 /\ i \in 1..Len(q[m])
      BY <2>6, <1>6, <1>7
    <3>2. r[j] # q[m][i]
      BY <3>1, <2>9
    <3> QED
      BY <3>1, <3>2
  <2>7. CASE m # l /\ o # l
    BY <2>3, <2>7, <1>7
  <2> QED
    BY <2>4, <2>5, <2>6, <2>7
<1>9. \A i \in 0..N+2 : Cell(l, r, i) = IF i < k THEN Cell(l, q[l], i)
                                        ELSE IF i = k THEN n ELSE Cell(l, q[l], i - 1)
  <2>1. /\ Cell(l, r, 0) = head(l) /\ Cell(l, r, N + 2) = tail(l)
        /\ \A i \in 1..N+1 : Cell(l, r, i) = r[i]
    BY <1>6 DEF Cell
  <2>2. /\ Cell(l, q[l], 0) = head(l) /\ Cell(l, q[l], N + 1) = tail(l)
        /\ \A i \in 1..N : Cell(l, q[l], i) = q[l][i]
    BY <1>0 DEF Cell
  <2> TAKE i \in 0..N+2
  <2>3. CASE i = 0
    BY <2>1, <2>2, <2>3, <1>1
  <2>4. CASE i \in 1..N+1 /\ i < k
    <3>1. i \in 1..N
      BY <2>4, <1>1
    <3> QED
      BY <3>1, <2>1, <2>2, <2>4, <1>6
  <2>5. CASE i \in 1..N+1 /\ i = k
    BY <2>1, <2>5, <1>6
  <2>6. CASE i \in 1..N+1 /\ i > k
    <3>1. i - 1 \in 1..N /\ ~(i < k) /\ i # k
      BY <2>6, <1>1
    <3> QED
      BY <3>1, <2>1, <2>2, <2>6, <1>6
  <2>7. CASE i = N + 2
    <3>1. i - 1 = N + 1 /\ ~(i < k) /\ i # k
      BY <2>7, <1>1
    <3> QED
      BY <3>1, <2>1, <2>2, <2>7
  <2> QED
    BY <2>3, <2>4, <2>5, <2>6, <2>7
<1>10. Linked(nx2, pv2, l, r)
  <2> SUFFICES ASSUME NEW i \in 0..N+1
               PROVE  nx2[Cell(l, r, i)] = Cell(l, r, i + 1) /\ pv2[Cell(l, r, i + 1)] = Cell(l, r, i)
    BY <1>6 DEF Linked
  <2>1. \A j \in 0..N : /\ nx[Cell(l, q[l], j)] = Cell(l, q[l], j + 1)
                        /\ pv[Cell(l, q[l], j + 1)] = Cell(l, q[l], j)
    BY <1>0, <1>1
  <2>2. \A j \in 0..N+1 : /\ Cell(l, q[l], j) \in Cells /\ Cell(l, q[l], j) # n
                          /\ Cell(l, q[l], j) = b => j = k
                          /\ Cell(l, q[l], j) = p => j = k - 1
    BY <1>0, <1>1, <1>3
  <2>3. CASE i < k - 1
    <3>1. i \in 0..N /\ i \in 0..N+1 /\ i + 1 \in 0..N+1 /\ i < k /\ i + 1 < k /\ i # k - 1 /\ i + 1 # k
      BY <2>3, <1>1
    <3>2. Cell(l, r, i) = Cell(l, q[l], i) /\ Cell(l, r, i + 1) = Cell(l, q[l], i + 1)
      BY <3>1, <1>9
    <3> QED
      BY <2>1, <2>2, <3>1, <3>2, <1>5
  <2>4. CASE i = k - 1
    BY <2>4, <1>1, <1>4, <1>5, <1>9
  <2>5. CASE i = k
    BY <2>5, <1>1, <1>4, <1>5, <1>9
  <2>6. CASE i > k
    <3>1. /\ i - 1 \in 0..N /\ i - 1 \in 0..N+1 /\ (i - 1) + 1 = i /\ i - 1 # k - 1 /\ i # k
          /\ (i + 1) - 1 = i /\ i \in 0..N+1 /\ ~(i < k) /\ i + 1 # k /\ ~(i + 1 < k)
          /\ i \in 0..N+2 /\ i + 1 \in 0..N+2
      BY <2>6, <1>1
    <3>2. Cell(l, r, i) = Cell(l, q[l], i - 1) /\ Cell(l, r, i + 1) = Cell(l, q[l], i)
      BY <3>1, <1>9
    <3>3. nx[Cell(l, q[l], i - 1)] = Cell(l, q[l], i) /\ pv[Cell(l, q[l], i)] = Cell(l, q[l], i - 1)
      BY <3>1, <2>1
    <3> QED
      BY <2>2, <3>1, <3>2, <3>3, <1>5
  <2> QED
    BY <2>3, <2>4, <2>5, <2>6, <1>1
<1>11. ASSUME NEW m \in Lists \ {l} PROVE Linked(nx2, pv2, m, q[m])
  <2>1. \A i \in 0..Len(q[m]) : i \in 0..Len(q[m])+1 /\ i + 1 \in 0..Len(q[m])+1
    BY <1>1
  <2>2. \A i \in 0..Len(q[m])+1 :
          Cell(m, q[m], i) \in Cells /\ Cell(m, q[m], i) \notin {n, b, p}
    BY <1>0, <1>1, <1>3
  <2> QED
    BY <2>1, <2>2, <1>1, <1>5 DEF Linked
<1> QED
  <2>1. \A m \in Lists : Linked(nx2, pv2, m, q2[m])
    BY <1>7, <1>10, <1>11
  <2>2. Sound(nx2, pv2, q2)
    BY <1>5, <1>8, <2>1 DEF Sound
  <2> QED
    BY <2>2 DEF nx2, pv2, q2, r

(* After the two statements of __listRemove the node is out of the list.    *)
LEMMA RemoveSound ==
  ASSUME NEW nx, NEW pv, NEW q, Sound(nx, pv, q),
         NEW l \in Lists, NEW k \in 1..Len(q[l])
  PROVE  LET n == q[l][k]
         IN  Sound([nx EXCEPT ![pv[n]] = nx[n]], [pv EXCEPT ![nx[n]] = pv[n]],
                   [q EXCEPT ![l] = RemoveAt(q[l], k)])
<1> DEFINE n == q[l][k]
           p == Cell(l, q[l], k - 1)
           b == Cell(l, q[l], k + 1)
           nx3 == [nx EXCEPT ![pv[n]] = nx[n]]
           pv3 == [pv EXCEPT ![nx[n]] = pv[n]]
           r == RemoveAt(q[l], k)
           q3 == [q EXCEPT ![l] = r]
<1>0. PICK N \in Nat : N = Len(q[l])
  BY DEF Sound, Apart
<1>1. /\ k \in 1..N /\ k - 1 \in 0..N /\ (k - 1) + 1 = k /\ k \in 0..N /\ N - 1 \in Nat
      /\ k + 1 \in 0..N+1 /\ k - 1 \in 0..N+1
      /\ Apart(q) /\ q \in [Lists -> Seq(Nodes)] /\ q[l] \in Seq(Nodes)
      /\ nx \in Pointers /\ pv \in Pointers
      /\ \A m \in Lists : \A i \in 0..Len(q[m]) :
           /\ nx[Cell(m, q[m], i)] = Cell(m, q[m], i + 1)
           /\ pv[Cell(m, q[m], i + 1)] = Cell(m, q[m], i)
  BY <1>0 DEF Sound, Apart, Linked
<1>2. pv[n] = p /\ nx[n] = b
  <2>1. Cell(l, q[l], k) = n
    BY <1>0, <1>1 DEF Cell
  <2>2. pv[Cell(l, q[l], (k - 1) + 1)] = p /\ nx[Cell(l, q[l], k)] = b
    BY <1>0, <1>1
  <2> QED
    BY <2>1, <2>2, <1>1
<1>3. \A m \in Lists : \A i \in 0..Len(q[m])+1 :
        /\ Cell(m, q[m], i) \in Cells
        /\ \A j \in 0..N+1 : Cell(m, q[m], i) = Cell(l, q[l], j) => m = l /\ i = j
  BY <1>0, <1>1, CellsApart
<1>4. b \in Cells /\ p \in Cells
  BY <1>0, <1>1, <1>3
<1>5. /\ nx3 \in Pointers /\ pv3 \in Pointers
      /\ \A c \in Cells : /\ nx3[c] = IF c = p THEN b ELSE nx[c]
                          /\ pv3[c] = IF c = b THEN p ELSE pv[c]
  BY <1>1, <1>2, <1>4 DEF Pointers
<1>6. /\ r \in Seq(Nodes) /\ Len(r) = N - 1
      /\ \A i \in 1..N-1 : r[i] = IF i < k THEN q[l][i] ELSE q[l][i + 1]
  <2> HIDE DEF r
  <2>1. LET x == r IN
         /\ x \in Seq(Nodes) /\ Len(x) = Len(q[l]) - 1
         /\ \A i \in 1..Len(q[l])-1 : x[i] = IF i < k THEN q[l][i] ELSE q[l][i + 1]
    BY <1>1, RemovedAt DEF r
  <2> QED
    BY <1>0, <2>1
<1> HIDE DEF r, nx3, pv3
<1>7. q3 \in [Lists -> Seq(Nodes)] /\ q3[l] = r /\ \A m \in Lists \ {l} : q3[m] = q[m]
  BY <1>1, <1>6
<1> HIDE DEF q3
<1>8. Apart(q3)
  <2> DEFINE Was(i) == IF i < k THEN i ELSE i + 1
  <2>1. \A i \in 1..N-1 : Was(i) \in 1..N /\ r[i] = q[l][Was(i)]
    BY <1>1, <1>6
  <2>2. \A i, j \in 1..N-1 : Was(i) = Was(j) => i = j
    BY <1>1
  <2> HIDE DEF Was
  <2>3. \A m, o \in Lists : \A i \in 1..Len(q[m]), j \in 1..Len(q[o]) :
          q[m][i] = q[o][j] => m = o /\ i = j
    BY <1>1 DEF Apart
  <2>9. ASSUME NEW i \in 1..N-1, NEW o \in Lists \ {l}, NEW j \in 1..Len(q[o])
        PROVE  r[i] # q[o][j]
    BY <2>1, <2>3, <1>0
  <2>10. ASSUME NEW i \in 1..N-1, NEW j \in 1..N-1, r[i] = r[j]
         PROVE  i = j
    BY <2>1, <2>2, <2>3, <2>10, <1>0
  <2> SUFFICES ASSUME NEW m \in Lists, NEW o \in Lists,
                      NEW i \in 1..Len(q3[m]), NEW j \in 1..Len(q3[o]), q3[m][i] = q3[o][j]
               PROVE  m = o /\ i = j
    BY <1>7 DEF Apart
  <2>4. CASE m = l /\ o = l
    BY <2>4, <2>10, <1>6, <1>7
  <2>5. CASE m = l /\ o # l
    BY <2>5, <2>9, <1>6, <1>7
  <2>6. CASE m # l /\ o = l
    <3>1. /\ m \in Lists \ {l} /\ q3[m] = q[m] /\ q3[o] = r
          /\ j \in 1..N-1 /\ i \in 1..Len(q[m])
      BY <2>6, <1>6, <1>7
    <3>2. r[j] # q[m][i]
      BY <3>1, <2>9
    <3> QED
      BY <3>1, <3>2
  <2>7. CASE m # l /\ o # l
    BY <2>3, <2>7, <1>7
  <2> QED
    BY <2>4, <2>5, <2>6, <2>7
<1>9. \A i \in 0..N : Cell(l, r, i) = IF i < k THEN Cell(l, q[l], i) ELSE Cell(l, q[l], i + 1)
  <2>1. /\ Cell(l, r, 0) = head(l) /\ Cell(l, r, N) = tail(l)
        /\ \A i \in 1..N-1 : Cell(l, r, i) = r[i]
    BY <1>1, <1>6 DEF Cell
  <2>2. /\ Cell(l, q[l], 0) = head(l) /\ Cell(l, q[l], N + 1) = tail(l)
        /\ \A i \in 1..N : Cell(l, q[l], i) = q[l][i]
    BY <1>0 DEF Cell
  <2> TAKE i \in 0..N
  <2>3. CASE i = 0
    BY <2>1, <2>2, <2>3, <1>1
  <2>4. CASE i \in 1..N-1 /\ i < k
    BY <2>1, <2>2, <2>4, <1>6
  <2>5. CASE i \in 1..N-1 /\ i >= k
    <3>1. i + 1 \in 1..N /\ ~(i < k)
      BY <2>5, <1>1
    <3> QED
      BY <3>1, <2>1, <2>2, <2>5, <1>6
  <2>6. CASE i = N
    BY <2>1, <2>2, <2>6, <1>1
  <2> QED
    BY <2>3, <2>4, <2>5, <2>6, <1>1
<1>10. Linked(nx3, pv3, l, r)
  <2> SUFFICES ASSUME NEW i \in 0..N-1
               PROVE  nx3[Cell(l, r, i)] = Cell(l, r, i + 1) /\ pv3[Cell(l, r, i + 1)] = Cell(l, r, i)
    BY <1>6 DEF Linked
  <2>1. \A j \in 0..N : /\ nx[Cell(l, q[l], j)] = Cell(l, q[l], j + 1)
                        /\ pv[Cell(l, q[l], j + 1)] = Cell(l, q[l], j)
    BY <1>0, <1>1
  <2>2. \A j \in 0..N+1 : /\ Cell(l, q[l], j) \in Cells
                          /\ Cell(l, q[l], j) = b => j = k + 1
                          /\ Cell(l, q[l], j) = p => j = k - 1
    BY <1>0, <1>1, <1>3
  <2>3. CASE i < k - 1
    <3>1. /\ i \in 0..N /\ i \in 0..N+1 /\ i + 1 \in 0..N /\ i + 1 \in 0..N+1
          /\ i < k /\ i + 1 < k /\ i # k - 1 /\ i + 1 # k + 1
      BY <2>3, <1>1
    <3>2. Cell(l, r, i) = Cell(l, q[l], i) /\ Cell(l, r, i + 1) = Cell(l, q[l], i + 1)
      BY <3>1, <1>9
    <3> QED
      BY <2>1, <2>2, <3>1, <3>2, <1>5
  <2>4. CASE i = k - 1
    <3>1. i \in 0..N /\ i + 1 \in 0..N /\ i < k /\ ~(i + 1 < k) /\ (i + 1) + 1 = k + 1
      BY <2>4, <1>1
    <3>2. Cell(l, r, i) = p /\ Cell(l, r, i + 1) = b
      BY <3>1, <2>4, <1>9
    <3> QED
      BY <3>2, <1>4, <1>5
  <2>5. CASE i >= k
    <3>1. /\ i \in 0..N /\ i + 1 \in 0..N /\ i + 1 \in 0..N+1 /\ (i + 1) + 1 \in 0..N+1
          /\ ~(i < k) /\ ~(i + 1 < k) /\ i + 1 # k - 1 /\ (i + 1) + 1 # k + 1
      BY <2>5, <1>1
    <3>2. Cell(l, r, i) = Cell(l, q[l], i + 1) /\ Cell(l, r, i + 1) = Cell(l, q[l], (i + 1) + 1)
      BY <3>1, <1>9
    <3>3. /\ nx[Cell(l, q[l], i + 1)] = Cell(l, q[l], (i + 1) + 1)
          /\ pv[Cell(l, q[l], (i + 1) + 1)] = Cell(l, q[l], i + 1)
      BY <3>1, <2>1
    <3> QED
      BY <2>2, <3>1, <3>2, <3>3, <1>5
  <2> QED
    BY <2>3, <2>4, <2>5, <1>1
<1>11. ASSUME NEW m \in Lists \ {l} PROVE Linked(nx3, pv3, m, q[m])
  <2>1. \A i \in 0..Len(q[m]) : i \in 0..Len(q[m])+1 /\ i + 1 \in 0..Len(q[m])+1
    BY <1>1
  <2>2. \A i \in 0..Len(q[m])+1 :
          Cell(m, q[m], i) \in Cells /\ Cell(m, q[m], i) \notin {b, p}
    BY <1>0, <1>1, <1>3
  <2> QED
    BY <2>1, <2>2, <1>1, <1>5 DEF Linked
<1> QED
  <2>1. \A m \in Lists : Linked(nx3, pv3, m, q3[m])
    BY <1>7, <1>10, <1>11
  <2>2. Sound(nx3, pv3, q3)
    BY <1>5, <1>8, <2>1 DEF Sound
  <2> QED
    BY <2>2 DEF nx3, pv3, q3, r

-----------------------------------------------------------------------------
(* The steps.                                                              *)

(* Between the operations the pointers link what the lists contain.         *)
LEMMA QuietSound ==
  ASSUME ListInv, Quiet
  PROVE  Sound(next, prev, Contents)
BY DEF ListInv, From

(* Who runs outside the two operations finds all lists whole.               *)
LEMMA QuietAt ==
  ASSUME ListInv, NEW t \in Threads, off \in {t, NULL}, ~Inside(t)
  PROVE  /\ Quiet /\ \A u \in Threads : ~Inside(u)
         /\ Sound(next, prev, Contents)
         /\ \A l \in Lists : Contents[l] = Walk(l)
<1>1. \A u \in Threads : ~Inside(u)
  BY ListAssumption DEF ListInv, CallInv
<1>2. Quiet
  BY <1>1 DEF Quiet, Inside
<1>3. \A l \in Lists : Contents[l] = Walk(l)
  BY <1>2 DEF Contents
<1> QED
  BY <1>1, <1>2, <1>3, QuietSound

(* The lists begin empty.                                                   *)
LEMMA InitSound ==
  ASSUME Init
  PROVE  Quiet /\ Sound(next, prev, Contents) /\ \A l \in Lists : Contents[l] = <<>>
<1> DEFINE q == [l \in Lists |-> <<>>]
<1>1. next \in Pointers /\ prev \in Pointers
  <2>1. \A c \in Cells : \A l \in Lists : c = head(l) => tail(c[2]) \in Cells
    BY DEF head, Cells
  <2>2. \A c \in Cells : \A l \in Lists : c = tail(l) => head(c[2]) \in Cells
    BY DEF tail, Cells
  <2> QED
    BY <2>1, <2>2 DEF Init, Pointers
<1>2. Apart(q)
  BY DEF Apart
<1>3. ASSUME NEW l \in Lists PROVE Linked(next, prev, l, q[l])
  <2>1. head(l) \in Cells /\ tail(l) \in Cells
    BY Sentinels
  <2>2. head(l)[2] = l /\ tail(l)[2] = l
    BY DEF head, tail
  <2>3. next[head(l)] = tail(l) /\ prev[tail(l)] = head(l)
    BY <2>1, <2>2 DEF Init
  <2>4. q[l] = <<>> /\ Len(q[l]) = 0
    OBVIOUS
  <2>5. Cell(l, q[l], 0) = head(l) /\ Cell(l, q[l], 1) = tail(l)
    BY <2>4 DEF Cell
  <2> QED
    BY <2>3, <2>4, <2>5 DEF Linked
<1>4. Sound(next, prev, q)
  BY <1>1, <1>2, <1>3 DEF Sound
<1>5. Quiet
  BY DEF Quiet, Init, Idle
<1>6. \A l \in Lists : Walk(l) = q[l]
  <2> HIDE DEF q
  <2> QED
    BY <1>4, WalkIs
<1>7. Contents = q
  BY <1>5, <1>6 DEF Contents
<1> QED
  BY <1>4, <1>5, <1>7

(* No call is under way.                                                    *)
LEMMA ListInit == Init => ListInv
<1> SUFFICES ASSUME Init PROVE ListInv
  OBVIOUS
<1>1. \A t \in Threads : call[t].place = "idle"
  BY DEF Init, Idle
<1>2. call \in [Threads -> Calls]
  BY DEF Init, Idle, Calls
<1>3. CallInv
  BY <1>1 DEF CallInv, Inserts, Removes, Inside
<1>4. From(next, prev)
  BY <1>1, InitSound DEF From, Inside
<1> QED
  BY <1>2, <1>3, <1>4 DEF ListInv, Init

(* What the calls know stays true while the lists stay as they are.         *)
LEMMA CallsKept ==
  ASSUME ListInv, NEW t \in Threads, Contents' = Contents,
         \A u \in Threads \ {t} : call'[u] = call[u] /\ (off = u => off' = u),
         Inserts(t)' => InsertOK(t)',
         Removes(t)' => RemoveOK(t)',
         Inside(t)' => off' = t /\ call'[t].old \in {NULL, t},
         \A u \in Threads \ {t} :
           Inserts(t)' /\ Inserts(u) => call'[t].node # call[u].node
  PROVE  CallInv'
<1>1. ASSUME NEW u \in Threads \ {t}
      PROVE  /\ Inserts(u)' => InsertOK(u)'
             /\ Removes(u)' => RemoveOK(u)'
             /\ Inside(u)' => off' = u /\ call'[u].old \in {NULL, u}
             /\ Inserts(u)' <=> Inserts(u)
  <2>1. call'[u] = call[u] /\ (off = u => off' = u)
    OBVIOUS
  <2>2. /\ Inserts(u)' <=> Inserts(u)
        /\ Removes(u)' <=> Removes(u)
        /\ Inside(u)' <=> Inside(u)
    BY <2>1 DEF Inserts, Removes, Inside
  <2>3. /\ Inserts(u) => InsertOK(u)
        /\ Removes(u) => RemoveOK(u)
        /\ Inside(u) => off = u /\ call[u].old \in {NULL, u}
    BY DEF ListInv, CallInv
  <2>4. InsertOK(u) => InsertOK(u)'
    BY <2>1 DEF InsertOK
  <2>5. RemoveOK(u) => RemoveOK(u)'
    BY <2>1 DEF RemoveOK
  <2> QED
    BY <2>1, <2>2, <2>3, <2>4, <2>5
<1>2. ASSUME NEW u \in Threads, NEW v \in Threads, u # v, Inserts(u)', Inserts(v)'
      PROVE  call'[u].node # call'[v].node
  <2>1. CASE u = t
    BY <1>1, <1>2, <2>1
  <2>2. CASE v = t
    BY <1>1, <1>2, <2>2
  <2>3. CASE u # t /\ v # t
    BY <1>1, <1>2, <2>3 DEF ListInv, CallInv
  <2> QED
    BY <2>1, <2>2, <2>3
<1> QED
  BY <1>1, <1>2 DEF CallInv

(* A call begins: all it does is remember what it was called with.          *)
LEMMA BeginKeepsInv ==
  ASSUME ListInv, NEW t \in Threads, NEW place, NEW l \in Lists, NEW n \in Nodes, NEW b,
         Begin(t, place, l, n, b),
         \/ /\ place = "insert" /\ b \in Cells
            /\ \A m \in Lists : \A i \in 1..Len(Contents[m]) : Contents[m][i] # n
            /\ \A u \in Threads : call[u].node # n
            /\ b = tail(l) \/ (b = Cell(l, Contents[l], 1) /\ off = t)
         \/ /\ place = "remove" /\ b = NULL /\ off = t
            /\ \E i \in 1..Len(Contents[l]) : n = Contents[l][i]
  PROVE  ListInv' /\ Contents' = Contents
<1> DEFINE c == [place |-> place, list |-> l, node |-> n, before |-> b, old |-> NULL]
<1>1. /\ off \in {t, NULL} /\ call[t].place = "idle"
      /\ call' = [call EXCEPT ![t] = c]
      /\ UNCHANGED <<next, prev, off, was>>
  BY DEF Begin, At
<1>2. ~Inside(t)
  BY <1>1 DEF Inside
<1>3. /\ Quiet /\ \A u \in Threads : ~Inside(u)
      /\ Sound(next, prev, Contents)
  BY <1>1, <1>2, QuietAt
<1>4. call \in [Threads -> Calls]
  BY DEF ListInv
<1>5. c \in Calls
  BY DEF Calls
<1>6. /\ c.place = place /\ c.list = l /\ c.node = n /\ c.before = b
  OBVIOUS
<1> HIDE DEF c
<1>7. /\ call'[t] = c /\ \A u \in Threads \ {t} : call'[u] = call[u]
      /\ call' \in [Threads -> Calls]
  BY <1>1, <1>4, <1>5
<1>8. \A u \in Threads : ~Inside(u)'
  BY <1>3, <1>6, <1>7 DEF Inside
<1>9. Quiet'
  BY <1>8 DEF Quiet, Inside
<1>10. Contents' = Contents
  BY <1>1, <1>3, <1>9 DEF Contents, Walk
<1>11. NULL \notin Cells
  BY NoNullCell
<1>12. CallInv'
  <2>1. Inserts(t)' => InsertOK(t)'
    BY <1>1, <1>6, <1>7, <1>10 DEF Inserts, InsertOK
  <2>2. Removes(t)' => RemoveOK(t)'
    BY <1>1, <1>6, <1>7, <1>10, <1>11 DEF Removes, RemoveOK
  <2>3. \A u \in Threads \ {t} : Inserts(t)' /\ Inserts(u) => call'[t].node # call[u].node
    BY <1>6, <1>7 DEF Inserts
  <2> QED
    BY <2>1, <2>2, <2>3, <1>1, <1>7, <1>8, <1>10, CallsKept
<1>13. From(next, prev)'
  BY <1>1, <1>3, <1>8, <1>10 DEF From
<1> QED
  BY <1>1, <1>7, <1>10, <1>12, <1>13 DEF ListInv

(* The first cell behind the head is the first node, if there is one.       *)
LEMMA FirstCell ==
  ASSUME NEW q, Sound(next, prev, q), NEW l \in Lists
  PROVE  /\ next[head(l)] = Cell(l, q[l], 1) /\ next[head(l)] \in Cells
         /\ Len(q[l]) \in Nat
         /\ IF listEmpty(l) THEN Len(q[l]) = 0
                            ELSE 1 \in 1..Len(q[l]) /\ next[head(l)] = q[l][1]
<1>1. Len(q[l]) \in Nat /\ Apart(q)
  BY DEF Sound, Apart
<1>2. Cell(l, q[l], 0) = head(l) /\ next[Cell(l, q[l], 0)] = Cell(l, q[l], 1)
  BY <1>1 DEF Sound, Linked, Cell
<1>3. Cell(l, q[l], 1) \in Cells
  BY <1>1, CellsApart
<1>4. Cell(l, q[l], Len(q[l]) + 1) = tail(l)
  BY <1>1 DEF Cell
<1>5. CASE Len(q[l]) = 0
  <2>1. Cell(l, q[l], 1) = tail(l)
    BY <1>4, <1>5
  <2> QED
    BY <1>2, <1>3, <1>5, <2>1 DEF listEmpty
<1>6. CASE Len(q[l]) # 0
  <2>1. 1 \in 1..Len(q[l]) /\ Cell(l, q[l], 1) = q[l][1]
    BY <1>1, <1>6 DEF Cell
  <2>2. Cell(l, q[l], 1) # tail(l)
    BY <1>1, <1>4, <1>6, CellsApart
  <2> QED
    BY <1>1, <1>2, <1>3, <2>1, <2>2 DEF listEmpty
<1> QED
  BY <1>5, <1>6

(* __listAppend, __listPush, __listPop and __listRemove are called.         *)
LEMMA CallKeepsInv ==
  ASSUME ListInv, NEW t \in Threads,
         ListAppend(t) \/ ListPush(t) \/ ListPop(t) \/ ListRemove(t)
  PROVE  ListInv' /\ Contents' = Contents
<1>1. off \in {t, NULL} /\ call[t].place = "idle"
  BY DEF ListAppend, ListPush, ListPop, ListRemove, Begin, At
<1>2. /\ Sound(next, prev, Contents)
      /\ \A l \in Lists : Contents[l] = Walk(l)
  BY <1>1, QuietAt DEF Inside
<1>3. \A l \in Lists : /\ Contents[l] \in Seq(Nodes)
                       /\ Range(Walk(l)) = {Contents[l][i] : i \in 1..Len(Contents[l])}
  BY <1>2 DEF Sound, Apart, Range
<1>4. ASSUME NEW n \in Nodes \ (Busy \cup Member)
      PROVE  /\ \A m \in Lists : \A i \in 1..Len(Contents[m]) : Contents[m][i] # n
             /\ \A u \in Threads : call[u].node # n
  BY <1>3 DEF Busy, Member
<1>5. \A l \in Lists : tail(l) \in Cells
  BY Sentinels
<1>6. CASE ListAppend(t)
  <2>1. PICK l \in Lists, n \in Nodes \ (Busy \cup Member) : Begin(t, "insert", l, n, tail(l))
    BY <1>6 DEF ListAppend
  <2>2. n \in Nodes
    BY <2>1
  <2> QED
    BY <2>1, <2>2, <1>4, <1>5, BeginKeepsInv
<1>7. CASE ListPush(t)
  <2>1. PICK l \in Lists, n \in Nodes \ (Busy \cup Member) :
          Begin(t, "insert", l, n, next[head(l)])
    BY <1>7 DEF ListPush
  <2>2. n \in Nodes /\ off = t
    BY <1>7, <2>1 DEF ListPush, OffFor
  <2>3. next[head(l)] = Cell(l, Contents[l], 1) /\ next[head(l)] \in Cells
    BY <1>2, FirstCell
  <2> QED
    BY <2>1, <2>2, <2>3, <1>4, BeginKeepsInv
<1>8. CASE ListPop(t)
  <2>1. PICK l \in Lists : ~listEmpty(l) /\ Begin(t, "remove", l, next[head(l)], NULL)
    BY <1>8 DEF ListPop
  <2>2. off = t
    BY <1>8 DEF ListPop, OffFor
  <2>3. 1 \in 1..Len(Contents[l]) /\ next[head(l)] = Contents[l][1]
    BY <1>2, <2>1, FirstCell
  <2>4. next[head(l)] \in Nodes
    BY <1>3, <2>3
  <2> QED
    BY <2>1, <2>2, <2>3, <2>4, BeginKeepsInv
<1>9. CASE ListRemove(t)
  <2>1. PICK l \in Lists : \E n \in Range(Walk(l)) : Begin(t, "remove", l, n, NULL)
    BY <1>9 DEF ListRemove
  <2>5. PICK n \in Range(Walk(l)) : Begin(t, "remove", l, n, NULL)
    BY <2>1
  <2>2. off = t
    BY <1>9 DEF ListRemove, OffFor
  <2>3. PICK i \in 1..Len(Contents[l]) : n = Contents[l][i]
    BY <1>3
  <2>4. n \in Nodes
    BY <1>3, <2>3
  <2> QED
    BY <2>2, <2>3, <2>4, <2>5, BeginKeepsInv
<1> QED
  BY <1>6, <1>7, <1>8, <1>9

(* A client clears or sets IF.                                              *)
LEMMA ClientKeepsInv ==
  ASSUME ListInv, NEW t \in Threads, Client(t)
  PROVE  ListInv' /\ Contents' = Contents
<1>1. /\ off \in {t, NULL} /\ call[t].place = "idle"
      /\ off' = (IF off = t THEN NULL ELSE t)
      /\ UNCHANGED <<next, prev, call, was>>
  BY DEF Client, At
<1>2. /\ Quiet /\ \A u \in Threads : ~Inside(u)
      /\ Sound(next, prev, Contents)
  BY <1>1, QuietAt DEF Inside
<1>3. Contents' = Contents /\ Quiet'
  BY <1>1, <1>2 DEF Contents, Quiet, Walk
<1>4. CallInv'
  <2>1. /\ ~Inserts(t)' /\ ~Removes(t)' /\ ~Inside(t)'
    BY <1>1 DEF Inserts, Removes, Inside
  <2>2. \A u \in Threads \ {t} : call'[u] = call[u] /\ (off = u => off' = u)
    BY <1>1, ListAssumption
  <2> QED
    BY <1>3, <2>1, <2>2, CallsKept
<1>5. From(next, prev)'
  BY <1>1, <1>2, <1>3 DEF From, Inside
<1> QED
  BY <1>1, <1>3, <1>4, <1>5 DEF ListInv

(* IF is cleared and the operation begins.                                  *)
LEMMA EnterKeepsInv ==
  ASSUME ListInv, NEW t \in Threads,
         Enter(t, "insert", "insert1") \/ Enter(t, "remove", "remove1")
  PROVE  ListInv' /\ Contents' = Contents
<1>1. PICK place \in {"insert", "remove"}, first \in {"insert1", "remove1"} :
        /\ Enter(t, place, first)
        /\ place = "insert" <=> first = "insert1"
  OBVIOUS
<1>2. /\ off \in {t, NULL} /\ call[t].place = place
      /\ off' = t
      /\ call' = [call EXCEPT ![t].place = first, ![t].old = off]
      /\ was' = [l \in Lists |-> Walk(l)]
      /\ UNCHANGED <<next, prev>>
  BY <1>1 DEF Enter, At
<1>3. ~Inside(t)
  BY <1>2 DEF Inside
<1>4. /\ Quiet /\ \A u \in Threads : ~Inside(u)
      /\ Sound(next, prev, Contents)
      /\ \A l \in Lists : Contents[l] = Walk(l)
  BY <1>2, <1>3, QuietAt
<1>5. call \in [Threads -> Calls] /\ off \in Threads \cup {NULL}
  BY DEF ListInv
<1>6. call[t] \in Calls
  BY <1>5
<1>7. /\ call'[t].place = first /\ call'[t].old = off
      /\ call'[t].list = call[t].list /\ call'[t].node = call[t].node
      /\ call'[t].before = call[t].before
      /\ call' \in [Threads -> Calls]
      /\ \A u \in Threads \ {t} : call'[u] = call[u]
  <2> DEFINE one == [call EXCEPT ![t].place = first]
  <2>1. call' = [one EXCEPT ![t].old = off]
    BY <1>2
  <2>2. /\ one[t].place = first /\ one[t].list = call[t].list /\ one[t].node = call[t].node
        /\ one[t].before = call[t].before /\ one \in [Threads -> Calls]
        /\ \A u \in Threads \ {t} : one[u] = call[u]
    BY <1>5, <1>6 DEF Calls
  <2> HIDE DEF one
  <2> QED
    BY <2>1, <2>2, <1>5 DEF Calls
<1>8. Inside(t)' /\ \A u \in Threads : Inside(u)' => u = t
  BY <1>4, <1>7 DEF Inside
<1>9. ~Quiet'
  BY <1>8 DEF Quiet, Inside
<1>10. Contents' = Contents
  BY <1>2, <1>4, <1>9 DEF Contents
<1>11. CallInv'
  <2>1. /\ Inserts(t)' <=> Inserts(t)
        /\ Removes(t)' <=> Removes(t)
    BY <1>2, <1>7 DEF Inserts, Removes
  <2>2. /\ Inserts(t) => InsertOK(t)
        /\ Removes(t) => RemoveOK(t)
        /\ \A u \in Threads \ {t} : Inserts(t) /\ Inserts(u) => call[t].node # call[u].node
    BY DEF ListInv, CallInv
  <2>3. Inserts(t) => first = "insert1" /\ InsertOK(t)
    BY <1>1, <1>2, <2>2 DEF InsertOK
  <2>4. Removes(t) => first = "remove1" /\ RemoveOK(t)
    BY <1>1, <1>2, <2>2 DEF RemoveOK
  <2>5. Inserts(t)' => InsertOK(t)'
    BY <1>2, <1>7, <1>10, <2>1, <2>3 DEF InsertOK
  <2>6. Removes(t)' => RemoveOK(t)'
    BY <1>2, <1>7, <1>10, <2>1, <2>4 DEF RemoveOK
  <2>7. \A u \in Threads \ {t} : Inserts(t)' /\ Inserts(u) => call'[t].node # call[u].node
    BY <1>7, <2>1, <2>2
  <2>8. \A u \in Threads \ {t} : call'[u] = call[u] /\ (off = u => off' = u)
    BY <1>2, <1>7, ListAssumption
  <2>9. Inside(t)' => off' = t /\ call'[t].old \in {NULL, t}
    BY <1>2, <1>7
  <2> QED
    BY <1>10, <2>5, <2>6, <2>7, <2>8, <2>9, CallsKept
<1>12. From(next, prev)'
  <2>1. Half(t, next, prev)'
    BY <1>1, <1>2, <1>7 DEF Half
  <2> QED
    BY <1>2, <1>4, <1>8, <1>9, <1>10, <2>1 DEF From
<1> QED
  BY <1>2, <1>7, <1>10, <1>11, <1>12 DEF ListInv

(* A thread that is inside an operation is there alone.                     *)
LEMMA InsideAlone ==
  ASSUME ListInv, NEW t \in Threads, Inside(t)
  PROVE  /\ off = t /\ call[t].old \in {NULL, t} /\ ~Quiet
         /\ \A u \in Threads : Inside(u) => u = t
         /\ \E nx, pv : Sound(nx, pv, Contents) /\ Half(t, nx, pv)
<1>1. off = t /\ call[t].old \in {NULL, t} /\ \A u \in Threads : Inside(u) => u = t
  BY DEF ListInv, CallInv
<1>2. ~Quiet
  BY DEF Quiet, Inside
<1>3. \E nx, pv : Sound(nx, pv, Contents) /\ Half(t, nx, pv)
  BY DEF ListInv, From
<1> QED
  BY <1>1, <1>2, <1>3

(* A statement of an operation changes no list's contents.                  *)
LEMMA StoreKeepsInv ==
  ASSUME ListInv, NEW t \in Threads, Inside(t), Inside(t)',
         NEW place \in {"insert2", "insert3", "insert4", "remove2", "restore"},
         call' = [call EXCEPT ![t].place = place], UNCHANGED <<off, was>>,
         Inserts(t) => place # "remove2",
         Removes(t) => place \in {"remove2", "restore"},
         NEW nx, NEW pv, Sound(nx, pv, Contents), Half(t, nx, pv)'
  PROVE  ListInv' /\ Contents' = Contents
<1>1. /\ off = t /\ call[t].old \in {NULL, t} /\ ~Quiet
      /\ \A u \in Threads : Inside(u) => u = t
  BY InsideAlone
<1>2. call \in [Threads -> Calls] /\ call[t] \in Calls
  BY DEF ListInv
<1>3. /\ call'[t].place = place /\ call'[t].old = call[t].old
      /\ call'[t].list = call[t].list /\ call'[t].node = call[t].node
      /\ call'[t].before = call[t].before
      /\ call' \in [Threads -> Calls]
      /\ \A u \in Threads \ {t} : call'[u] = call[u]
  BY <1>2 DEF Calls
<1>4. ~Quiet' /\ \A u \in Threads : Inside(u)' => u = t
  BY <1>1, <1>3 DEF Quiet, Inside
<1>5. Contents' = Contents
  BY <1>1, <1>4 DEF Contents
<1>6. CallInv'
  <2>1. /\ Inserts(t)' <=> Inserts(t)
        /\ Removes(t)' <=> Removes(t)
    BY <1>3 DEF Inserts, Removes, Inside
  <2>2. /\ Inserts(t) => InsertOK(t)
        /\ Removes(t) => RemoveOK(t)
        /\ \A u \in Threads \ {t} : Inserts(t) /\ Inserts(u) => call[t].node # call[u].node
    BY DEF ListInv, CallInv
  <2>3. Inserts(t)' => InsertOK(t)'
    BY <1>3, <1>5, <2>1, <2>2 DEF InsertOK
  <2>4. Removes(t)' => RemoveOK(t)'
    BY <1>3, <1>5, <2>1, <2>2 DEF RemoveOK
  <2>5. \A u \in Threads \ {t} : Inserts(t)' /\ Inserts(u) => call'[t].node # call[u].node
    BY <1>3, <2>1, <2>2
  <2>6. Inside(t)' => off' = t /\ call'[t].old \in {NULL, t}
    BY <1>1, <1>3
  <2> QED
    BY <1>3, <1>5, <2>3, <2>4, <2>5, <2>6, CallsKept
<1>7. From(nx, pv)'
  BY <1>4, <1>5 DEF From
<1> QED
  BY <1>3, <1>5, <1>6, <1>7 DEF ListInv

(* __listInsert between its first statement and its last.                   *)
LEMMA InsertKeepsInv ==
  ASSUME ListInv, NEW t \in Threads, Insert(t)
  PROVE  ListInv' /\ Contents' = Contents
<1> DEFINE n == call[t].node    b == call[t].before
<1>1. /\ call[t].place \in {"insert1", "insert2", "insert3", "insert4"}
      /\ UNCHANGED <<off, was>>
      /\ \/ /\ call[t].place = "insert1" /\ Goto(t, "insert2")
            /\ next' = [next EXCEPT ![prev[b]] = n] /\ prev' = prev
         \/ /\ call[t].place = "insert2" /\ Goto(t, "insert3")
            /\ prev' = [prev EXCEPT ![n] = prev[b]] /\ next' = next
         \/ /\ call[t].place = "insert3" /\ Goto(t, "insert4")
            /\ next' = [next EXCEPT ![n] = b] /\ prev' = prev
         \/ /\ call[t].place = "insert4" /\ Goto(t, "restore")
            /\ prev' = [prev EXCEPT ![b] = n] /\ next' = next
  BY DEF Insert, Store, At
<1>2. Inside(t)
  BY <1>1 DEF Inside
<1>3. PICK nx, pv : Sound(nx, pv, Contents) /\ Half(t, nx, pv)
  BY <1>2, InsideAlone
<1>4. call \in [Threads -> Calls] /\ call[t] \in Calls
  BY DEF ListInv
<1>5. Inserts(t) /\ ~Removes(t)
  <2>1. Removes(t) => RemoveOK(t)
    BY DEF ListInv, CallInv
  <2>2. ~Removes(t)
    BY <1>1, <2>1 DEF RemoveOK
  <2> QED
    BY <1>1, <2>2 DEF Inserts, Removes
<1>6. ASSUME NEW place \in {"insert2", "insert3", "insert4", "restore"}, Goto(t, place)
      PROVE  /\ call' = [call EXCEPT ![t].place = place]
             /\ call'[t].place = place /\ call'[t].node = n /\ call'[t].before = b
             /\ Inside(t)' /\ Inserts(t)'
  <2>1. call' = [call EXCEPT ![t].place = place]
    BY <1>6 DEF Goto
  <2>2. call'[t].place = place /\ call'[t].node = n /\ call'[t].before = b
    BY <2>1, <1>4 DEF Calls
  <2>3. Inside(t)' /\ Inserts(t)'
    BY <2>2, <1>5 DEF Inside, Inserts
  <2> QED
    BY <2>1, <2>2, <2>3
<1>7. \E place \in {"insert2", "insert3", "insert4", "restore"} :
        Goto(t, place) /\ Half(t, nx, pv)'
  <2>1. CASE call[t].place = "insert1"
    <3>1. Goto(t, "insert2") /\ next' = [next EXCEPT ![prev[b]] = n] /\ prev' = prev
      BY <1>1, <2>1
    <3>2. next = nx /\ prev = pv
      BY <1>3, <2>1 DEF Half
    <3> QED
      BY <3>1, <3>2, <1>6 DEF Half
  <2>2. CASE call[t].place = "insert2"
    <3>1. Goto(t, "insert3") /\ prev' = [prev EXCEPT ![n] = prev[b]] /\ next' = next
      BY <1>1, <2>2
    <3>2. next = [nx EXCEPT ![pv[b]] = n] /\ prev = pv
      BY <1>3, <2>2 DEF Half
    <3> QED
      BY <3>1, <3>2, <1>6 DEF Half
  <2>3. CASE call[t].place = "insert3"
    <3>1. Goto(t, "insert4") /\ next' = [next EXCEPT ![n] = b] /\ prev' = prev
      BY <1>1, <2>3
    <3>2. next = [nx EXCEPT ![pv[b]] = n] /\ prev = [pv EXCEPT ![n] = pv[b]]
      BY <1>3, <2>3 DEF Half
    <3> QED
      BY <3>1, <3>2, <1>6 DEF Half
  <2>4. CASE call[t].place = "insert4"
    <3>1. Goto(t, "restore") /\ prev' = [prev EXCEPT ![b] = n] /\ next' = next
      BY <1>1, <2>4
    <3>2. /\ next = [[nx EXCEPT ![pv[b]] = n] EXCEPT ![n] = b]
          /\ prev = [pv EXCEPT ![n] = pv[b]]
      BY <1>3, <2>4 DEF Half
    <3> QED
      BY <3>1, <3>2, <1>6 DEF Half
  <2> QED
    BY <1>1, <2>1, <2>2, <2>3, <2>4
<1>8. PICK place \in {"insert2", "insert3", "insert4", "restore"} :
        Goto(t, place) /\ Half(t, nx, pv)'
  BY <1>7
<1> QED
  BY <1>1, <1>2, <1>3, <1>5, <1>6, <1>8, StoreKeepsInv

(* __listRemove between its first statement and its last.                   *)
LEMMA UnlinkKeepsInv ==
  ASSUME ListInv, NEW t \in Threads, Unlink(t)
  PROVE  ListInv' /\ Contents' = Contents
<1> DEFINE n == call[t].node    l == call[t].list
<1>1. /\ call[t].place \in {"remove1", "remove2"}
      /\ UNCHANGED <<off, was>>
      /\ \/ /\ call[t].place = "remove1" /\ Goto(t, "remove2")
            /\ next' = [next EXCEPT ![prev[n]] = next[n]] /\ prev' = prev
         \/ /\ call[t].place = "remove2" /\ Goto(t, "restore")
            /\ prev' = [prev EXCEPT ![next[n]] = prev[n]] /\ next' = next
  BY DEF Unlink, Store, At
<1>2. Inside(t)
  BY <1>1 DEF Inside
<1>3. PICK nx, pv : Sound(nx, pv, Contents) /\ Half(t, nx, pv)
  BY <1>2, InsideAlone
<1>4. call \in [Threads -> Calls] /\ call[t] \in Calls
  BY DEF ListInv
<1>5. Removes(t) /\ ~Inserts(t) /\ RemoveOK(t)
  <2>1. Inserts(t) => InsertOK(t)
    BY DEF ListInv, CallInv
  <2>2. ~Inserts(t)
    BY <1>1, <2>1 DEF InsertOK
  <2> QED
    BY <1>1, <2>2 DEF Inserts, Removes, ListInv, CallInv
<1>6. ASSUME NEW place \in {"remove2", "restore"}, Goto(t, place)
      PROVE  /\ call' = [call EXCEPT ![t].place = place]
             /\ call'[t].place = place /\ call'[t].node = n
             /\ Inside(t)' /\ ~Inserts(t)'
  <2>1. call' = [call EXCEPT ![t].place = place]
    BY <1>6 DEF Goto
  <2>2. call'[t].place = place /\ call'[t].node = n /\ call'[t].before = call[t].before
    BY <2>1, <1>4 DEF Calls
  <2>3. Inside(t)' /\ ~Inserts(t)'
    BY <2>2, <1>1, <1>5 DEF Inside, Inserts
  <2> QED
    BY <2>1, <2>2, <2>3
<1>7. \E place \in {"remove2", "restore"} : Goto(t, place) /\ Half(t, nx, pv)'
  <2>1. CASE call[t].place = "remove1"
    <3>1. Goto(t, "remove2") /\ next' = [next EXCEPT ![prev[n]] = next[n]] /\ prev' = prev
      BY <1>1, <2>1
    <3>2. next = nx /\ prev = pv
      BY <1>3, <2>1 DEF Half
    <3> QED
      BY <3>1, <3>2, <1>6 DEF Half
  <2>2. CASE call[t].place = "remove2"
    <3>1. Goto(t, "restore") /\ prev' = [prev EXCEPT ![next[n]] = prev[n]] /\ next' = next
      BY <1>1, <2>2
    <3>2. next = [nx EXCEPT ![pv[n]] = nx[n]] /\ prev = pv
      BY <1>3, <2>2 DEF Half
    <3>3. next[n] = nx[n]
      <4>1. PICK i \in 1..Len(Contents[l]) : n = Contents[l][i]
        BY <1>5 DEF RemoveOK
      <4>2. /\ l \in Lists /\ Apart(Contents) /\ Len(Contents[l]) \in Nat
            /\ nx \in Pointers
            /\ \A j \in 0..Len(Contents[l]) :
                 pv[Cell(l, Contents[l], j + 1)] = Cell(l, Contents[l], j)
        BY <1>3, <1>5 DEF RemoveOK, Sound, Apart, Linked
      <4>3. /\ i - 1 \in 0..Len(Contents[l]) /\ (i - 1) + 1 = i
            /\ i \in 0..Len(Contents[l])+1 /\ i - 1 \in 0..Len(Contents[l])+1
        BY <4>1, <4>2
      <4>4. Cell(l, Contents[l], i) = n
        BY <4>1, <4>2 DEF Cell
      <4>5. pv[n] = Cell(l, Contents[l], i - 1)
        BY <4>2, <4>3, <4>4
      <4>6. pv[n] # n /\ n \in Cells
        BY <4>2, <4>3, <4>4, <4>5, CellsApart
      <4> QED
        BY <3>2, <4>2, <4>6 DEF Pointers
    <3> QED
      BY <3>1, <3>2, <3>3, <1>6 DEF Half
  <2> QED
    BY <1>1, <2>1, <2>2
<1>8. PICK place \in {"remove2", "restore"} : Goto(t, place) /\ Half(t, nx, pv)'
  BY <1>7
<1> QED
  BY <1>1, <1>2, <1>3, <1>5, <1>6, <1>8, StoreKeepsInv

(* With the IF that it found an operation has taken effect: a node that was *)
(* in no list is the first or the last of one, or one is out of its list.   *)
Inserted(l, n, k) ==
  /\ \A m \in Lists : \A i \in 1..Len(Contents[m]) : Contents[m][i] # n
  /\ Contents' = [Contents EXCEPT ![l] = InsertAt(Contents[l], k, n)]

Removed(l, k) == Contents' = [Contents EXCEPT ![l] = RemoveAt(Contents[l], k)]

(* The end of an operation is where it happens for everybody else.          *)
LEMMA RestoreKeepsInv ==
  ASSUME ListInv, NEW t \in Threads, Restore(t)
  PROVE  /\ ListInv'
         /\ \E l \in Lists :
              \/ \E n \in Nodes : \E k \in {1, Len(Contents[l]) + 1} : Inserted(l, n, k)
              \/ \E k \in 1..Len(Contents[l]) : Removed(l, k)
<1> DEFINE n == call[t].node    b == call[t].before    l == call[t].list
           Effect == \E j \in Lists :
                       \/ \E x \in Nodes : \E k \in {1, Len(Contents[j]) + 1} : Inserted(j, x, k)
                       \/ \E k \in 1..Len(Contents[j]) : Removed(j, k)
<1>1. /\ call[t].place = "restore" /\ off' = call[t].old
      /\ call' = [call EXCEPT ![t] = Idle]
      /\ UNCHANGED <<next, prev, was>>
  BY DEF Restore, At
<1>2. Inside(t)
  BY <1>1 DEF Inside
<1>3. /\ off = t /\ call[t].old \in {NULL, t} /\ \A u \in Threads : Inside(u) => u = t
  BY <1>2, InsideAlone
<1>4. PICK nx, pv : Sound(nx, pv, Contents) /\ Half(t, nx, pv)
  BY <1>2, InsideAlone
<1>5. call \in [Threads -> Calls]
  BY DEF ListInv
<1>6. /\ Idle \in Calls /\ Idle.place = "idle"
  BY DEF Idle, Calls
<1>7. /\ call'[t] = Idle /\ \A u \in Threads \ {t} : call'[u] = call[u]
      /\ call' \in [Threads -> Calls]
  BY <1>1, <1>5, <1>6
<1>8. /\ ~Inserts(t)' /\ ~Removes(t)' /\ Quiet' /\ \A u \in Threads : ~Inside(u)'
  BY <1>3, <1>6, <1>7 DEF Inserts, Removes, Inside, Quiet
<1>9. ASSUME NEW q, Sound(next, prev, q) PROVE Contents' = q
  <2>1. \A m \in Lists : Walk(m) = q[m]
    BY <1>9, WalkIs
  <2>2. \A m \in Lists : Walk(m)' = q[m]
    BY <1>1, <2>1 DEF Walk
  <2>3. q \in [Lists -> Seq(Nodes)]
    BY <1>9 DEF Sound, Apart
  <2> QED
    BY <1>8, <2>2, <2>3 DEF Contents
<1>10. ASSUME NEW q, Sound(next, prev, q),
              \A u \in Threads \ {t} : Inserts(u) =>
                \A m \in Lists : \A i \in 1..Len(q[m]) : q[m][i] # call[u].node
       PROVE  ListInv'
  <2>1. Contents' = q
    BY <1>9, <1>10
  <2>2. ASSUME NEW u \in Threads \ {t}
        PROVE  /\ Inserts(u)' <=> Inserts(u)
               /\ Inserts(u) => InsertOK(u)'
               /\ ~Removes(u)'
    <3>1. /\ Inserts(u)' <=> Inserts(u)
          /\ Removes(u)' <=> Removes(u)
      BY <1>7 DEF Inserts, Removes
    <3>2. ~Removes(u)
      BY <1>3 DEF ListInv, CallInv, RemoveOK
    <3>3. Inserts(u) => InsertOK(u)
      BY DEF ListInv, CallInv
    <3>4. Inserts(u) /\ InsertOK(u) => InsertOK(u)'
      BY <1>3, <1>7, <1>10, <2>1 DEF InsertOK
    <3> QED
      BY <3>1, <3>2, <3>3, <3>4
  <2>3. \A u, v \in Threads :
          u # v /\ Inserts(u)' /\ Inserts(v)' => call'[u].node # call'[v].node
    <3> SUFFICES ASSUME NEW u \in Threads, NEW v \in Threads, u # v, Inserts(u)', Inserts(v)'
                 PROVE  call'[u].node # call'[v].node
      OBVIOUS
    <3>1. u # t /\ v # t
      BY <1>8
    <3>2. Inserts(u) /\ Inserts(v)
      BY <2>2, <3>1
    <3>3. call[u].node # call[v].node
      BY <3>2 DEF ListInv, CallInv
    <3> QED
      BY <1>7, <3>1, <3>3
  <2>4. CallInv'
    BY <1>8, <2>2, <2>3 DEF CallInv
  <2>5. From(next, prev)'
    BY <1>1, <1>8, <1>10, <2>1 DEF From
  <2> QED
    BY <1>1, <1>3, <1>7, <2>4, <2>5 DEF ListInv
<1>11. CASE Inserts(t)
  <2>1. InsertOK(t)
    BY <1>11 DEF ListInv, CallInv
  <2>2. /\ l \in Lists /\ n \in Nodes
        /\ \A m \in Lists : \A i \in 1..Len(Contents[m]) : Contents[m][i] # n
        /\ Contents[l] \in Seq(Nodes) /\ Len(Contents[l]) \in Nat
        /\ Contents \in [Lists -> Seq(Nodes)]
    BY <1>4, <2>1 DEF InsertOK, Sound, Apart
  <2>3. PICK k \in {1, Len(Contents[l]) + 1} : b = Cell(l, Contents[l], k)
    <3>1. Cell(l, Contents[l], Len(Contents[l]) + 1) = tail(l)
      BY <2>2 DEF Cell
    <3> QED
      BY <2>1, <3>1 DEF InsertOK
  <2>4. k \in 1..Len(Contents[l])+1
    BY <2>2
  <2> DEFINE q == [Contents EXCEPT ![l] = InsertAt(Contents[l], k, n)]
  <2>5. Sound(next, prev, q)
    <3>1. /\ next = [[nx EXCEPT ![pv[b]] = n] EXCEPT ![n] = b]
          /\ prev = [[pv EXCEPT ![n] = pv[b]] EXCEPT ![b] = n]
      BY <1>1, <1>4, <1>11 DEF Half
    <3>2. Sound([[nx EXCEPT ![pv[b]] = n] EXCEPT ![n] = b],
                [[pv EXCEPT ![n] = pv[b]] EXCEPT ![b] = n], q)
      BY <1>4, <2>2, <2>3, <2>4, InsertSound
    <3> QED
      BY <3>1, <3>2
  <2>6. ASSUME NEW u \in Threads \ {t}, Inserts(u)
        PROVE  \A m \in Lists : \A i \in 1..Len(q[m]) : q[m][i] # call[u].node
    <3>1. call[u].node # n
      BY <1>11, <2>6 DEF ListInv, CallInv
    <3>2. \A m \in Lists : \A i \in 1..Len(Contents[m]) : Contents[m][i] # call[u].node
      BY <2>6 DEF ListInv, CallInv, InsertOK
    <3> DEFINE r == InsertAt(Contents[l], k, n)
    <3>3. /\ Len(r) = Len(Contents[l]) + 1
          /\ \A i \in 1..Len(Contents[l])+1 :
               r[i] = IF i < k THEN Contents[l][i] ELSE IF i = k THEN n ELSE Contents[l][i - 1]
      <4> HIDE DEF r, n, l, b
      <4>1. LET x == r IN
              /\ x \in Seq(Nodes) /\ Len(x) = Len(Contents[l]) + 1
              /\ \A i \in 1..Len(Contents[l])+1 :
                   x[i] = IF i < k THEN Contents[l][i] ELSE IF i = k THEN n ELSE Contents[l][i - 1]
        BY <2>2, <2>4, InsertedAt DEF r
      <4> QED
        BY <4>1
    <3> HIDE DEF r
    <3>4. \A i \in 1..Len(r) : r[i] # call[u].node
      <4> TAKE i \in 1..Len(r)
      <4>1. CASE i < k
        <5>1. i \in 1..Len(Contents[l])
          BY <4>1, <3>3, <2>2, <2>4
        <5> QED
          BY <5>1, <4>1, <3>2, <3>3, <2>2
      <4>2. CASE i = k
        BY <4>2, <3>1, <3>3, <2>2
      <4>3. CASE i > k
        <5>1. i - 1 \in 1..Len(Contents[l]) /\ ~(i < k) /\ i # k
          BY <4>3, <3>3, <2>2, <2>4
        <5> QED
          BY <5>1, <3>2, <3>3, <2>2
      <4> QED
        BY <4>1, <4>2, <4>3, <3>3, <2>2, <2>4
    <3>5. q[l] = r /\ \A m \in Lists \ {l} : q[m] = Contents[m]
      BY <2>2 DEF r
    <3> QED
      BY <3>2, <3>4, <3>5
  <2>7. ListInv'
    <3> HIDE DEF q
    <3> QED
      BY <2>5, <2>6, <1>10
  <2>8. Contents' = q
    <3> HIDE DEF q
    <3> QED
      BY <2>5, <1>9
  <2>9. Inserted(l, n, k)
    BY <2>2, <2>8 DEF Inserted
  <2>10. Effect
    BY <2>2, <2>9
  <2> QED
    BY <2>7, <2>10
<1>12. CASE ~Inserts(t)
  <2>1. RemoveOK(t)
    BY <1>1, <1>12 DEF ListInv, CallInv, Inserts, Removes
  <2>2. PICK k \in 1..Len(Contents[l]) : n = Contents[l][k]
    BY <2>1 DEF RemoveOK
  <2>3. /\ l \in Lists /\ Contents[l] \in Seq(Nodes) /\ Len(Contents[l]) \in Nat
        /\ Contents \in [Lists -> Seq(Nodes)]
    BY <1>4, <2>1 DEF RemoveOK, Sound, Apart
  <2> DEFINE q == [Contents EXCEPT ![l] = RemoveAt(Contents[l], k)]
  <2>4. Sound(next, prev, q)
    <3>1. /\ next = [nx EXCEPT ![pv[n]] = nx[n]]
          /\ prev = [pv EXCEPT ![nx[n]] = pv[n]]
      BY <1>1, <1>4, <1>12 DEF Half
    <3>2. Sound([nx EXCEPT ![pv[n]] = nx[n]], [pv EXCEPT ![nx[n]] = pv[n]], q)
      BY <1>4, <2>2, <2>3, RemoveSound
    <3> QED
      BY <3>1, <3>2
  <2>5. ASSUME NEW u \in Threads \ {t}, Inserts(u)
        PROVE  \A m \in Lists : \A i \in 1..Len(q[m]) : q[m][i] # call[u].node
    <3>1. \A m \in Lists : \A i \in 1..Len(Contents[m]) : Contents[m][i] # call[u].node
      BY <2>5 DEF ListInv, CallInv, InsertOK
    <3> DEFINE r == RemoveAt(Contents[l], k)
    <3>2. /\ Len(r) = Len(Contents[l]) - 1
          /\ \A i \in 1..Len(Contents[l])-1 :
               r[i] = IF i < k THEN Contents[l][i] ELSE Contents[l][i + 1]
      BY <2>3, RemovedAt
    <3> HIDE DEF r
    <3>3. \A i \in 1..Len(r) : r[i] # call[u].node
      <4> TAKE i \in 1..Len(r)
      <4>1. i \in 1..Len(Contents[l])-1 /\ i \in 1..Len(Contents[l]) /\ i + 1 \in 1..Len(Contents[l])
        BY <3>2, <2>3
      <4> QED
        BY <4>1, <3>1, <3>2, <2>3
    <3>4. q[l] = r /\ \A m \in Lists \ {l} : q[m] = Contents[m]
      BY <2>3 DEF r
    <3> QED
      BY <3>1, <3>3, <3>4
  <2>6. ListInv'
    <3> HIDE DEF q
    <3> QED
      BY <2>4, <2>5, <1>10
  <2>7. Contents' = q
    <3> HIDE DEF q
    <3> QED
      BY <2>4, <1>9
  <2>8. Removed(l, k)
    BY <2>7 DEF Removed
  <2>9. Effect
    BY <2>2, <2>3, <2>8
  <2> QED
    BY <2>6, <2>9
<1> QED
  BY <1>11, <1>12

(* What a step does to the lists: nothing, or one whole operation.          *)
LEMMA ListStep ==
  ASSUME ListInv, [Next]_vars
  PROVE  /\ ListInv'
         /\ \/ Contents' = Contents
            \/ \E l \in Lists :
                 \/ \E n \in Nodes : \E k \in {1, Len(Contents[l]) + 1} : Inserted(l, n, k)
                 \/ \E k \in 1..Len(Contents[l]) : Removed(l, k)
<1>1. CASE UNCHANGED vars
  <2>1. UNCHANGED <<next, prev, off, call, was>>
    BY <1>1 DEF vars
  <2>2. /\ Contents' = Contents /\ (Quiet' <=> Quiet)
        /\ \A t \in Threads : Inside(t)' <=> Inside(t)
    BY <2>1 DEF Contents, Quiet, Walk, Inside
  <2>3. CallInv'
    BY <2>1, <2>2 DEF ListInv, CallInv, Inserts, Removes, Inside, InsertOK, RemoveOK
  <2>4. PICK nx, pv : From(nx, pv)
    BY DEF ListInv
  <2>5. \A t \in Threads : Half(t, nx, pv) => Half(t, nx, pv)'
    BY <2>1 DEF Half, Inserts
  <2>6. From(nx, pv)'
    BY <2>1, <2>2, <2>4, <2>5 DEF From
  <2> QED
    BY <2>1, <2>2, <2>3, <2>6 DEF ListInv
<1>2. CASE Next
  <2>1. PICK t \in Threads :
          \/ ListAppend(t) \/ ListPush(t) \/ ListPop(t) \/ ListRemove(t) \/ Client(t)
          \/ Enter(t, "insert", "insert1") \/ Insert(t)
          \/ Enter(t, "remove", "remove1") \/ Unlink(t)
          \/ Restore(t)
    BY <1>2 DEF Next
  <2>2. CASE ListAppend(t) \/ ListPush(t) \/ ListPop(t) \/ ListRemove(t)
    BY <2>2, CallKeepsInv
  <2>3. CASE Client(t)
    BY <2>3, ClientKeepsInv
  <2>4. CASE Enter(t, "insert", "insert1") \/ Enter(t, "remove", "remove1")
    BY <2>4, EnterKeepsInv
  <2>5. CASE Insert(t)
    BY <2>5, InsertKeepsInv
  <2>6. CASE Unlink(t)
    BY <2>6, UnlinkKeepsInv
  <2>7. CASE Restore(t)
    BY <2>7, RestoreKeepsInv
  <2> QED
    BY <2>1, <2>2, <2>3, <2>4, <2>5, <2>6, <2>7
<1> QED
  BY <1>1, <1>2

-----------------------------------------------------------------------------
(* What is under way in list.c, by whom, and how far the pointers have come *)
(* from soundly linked lists.                                               *)
THEOREM ListInvariant == Spec => []ListInv
<1>1. ListInv /\ [Next]_vars => ListInv'
  BY ListStep
<1> QED
  BY <1>1, ListInit, PTL DEF Spec

(* Whenever no operation is under way, every list reads the same forwards   *)
(* and backwards, lies between its own sentinels and shares no node with    *)
(* another, and __listEmpty tells the truth (list.c:4-78).                  *)
THEOREM ListsReadBothWays == Spec => []BothWays
<1>1. ListInv => BothWays
  <2> SUFFICES ASSUME ListInv, Quiet, NEW l \in Lists
               PROVE  LET w == Walk(l) IN
                      /\ Along(prev, tail(l)) = Reverse(w)
                      /\ next[IF w = <<>> THEN head(l) ELSE Last(w)] = tail(l)
                      /\ prev[IF w = <<>> THEN tail(l) ELSE w[1]] = head(l)
                      /\ listEmpty(l) <=> listLen(l) = 0
                      /\ \A m \in Lists \ {l} : \A n \in Range(w) : ~listNodeFind(m, n)
    BY DEF BothWays
  <2> DEFINE w == Contents[l]
  <2>1. Sound(next, prev, Contents)
    BY QuietSound
  <2>2. /\ Along(prev, tail(l)) = Reverse(w)
        /\ \A m \in Lists : Walk(m) = Contents[m]
    BY <2>1, WalkIs
  <2>3. /\ w \in Seq(Nodes) /\ Len(w) \in Nat
        /\ \A i \in 0..Len(w) : /\ next[Cell(l, w, i)] = Cell(l, w, i + 1)
                                /\ prev[Cell(l, w, i + 1)] = Cell(l, w, i)
        /\ \A m \in Lists \ {l} : \A i \in 1..Len(w), j \in 1..Len(Contents[m]) :
             w[i] # Contents[m][j]
        /\ \A m \in Lists : Contents[m] \in Seq(Nodes)
    BY <2>1 DEF Sound, Apart, Linked
  <2>4. /\ Cell(l, w, 0) = head(l) /\ Cell(l, w, Len(w) + 1) = tail(l)
        /\ \A i \in 1..Len(w) : Cell(l, w, i) = w[i]
    BY <2>3 DEF Cell
  <2>5. IF listEmpty(l) THEN Len(w) = 0 ELSE 1 \in 1..Len(w)
    BY <2>1, FirstCell
  <2> HIDE DEF w
  <2>6. w = <<>> <=> Len(w) = 0
    BY <2>3
  <2>7. next[IF w = <<>> THEN head(l) ELSE Last(w)] = tail(l)
    <3>1. next[Cell(l, w, Len(w))] = tail(l)
      BY <2>3, <2>4
    <3>2. Cell(l, w, Len(w)) = IF w = <<>> THEN head(l) ELSE Last(w)
      BY <2>3, <2>4, <2>6 DEF Last
    <3> QED
      BY <3>1, <3>2
  <2>8. prev[IF w = <<>> THEN tail(l) ELSE w[1]] = head(l)
    <3>1. prev[Cell(l, w, 1)] = head(l)
      BY <2>3, <2>4
    <3>2. Cell(l, w, 1) = IF w = <<>> THEN tail(l) ELSE w[1]
      BY <2>3, <2>4, <2>6
    <3> QED
      BY <3>1, <3>2
  <2>9. \A m \in Lists \ {l} : \A n \in Range(w) : n \notin Range(Contents[m])
    <3> TAKE m \in Lists \ {l}
    <3>1. Contents[m] \in Seq(Nodes)
      BY <2>3
    <3>2. /\ Range(w) = {w[i] : i \in 1..Len(w)}
          /\ Range(Contents[m]) = {Contents[m][i] : i \in 1..Len(Contents[m])}
      BY <2>3, <3>1 DEF Range
    <3> QED
      BY <2>3, <3>2
  <2>10. Walk(l) = w
    BY <2>2 DEF w
  <2>11. listEmpty(l) <=> Len(w) = 0
    BY <2>3, <2>5
  <2> QED
    BY <2>2, <2>7, <2>8, <2>9, <2>10, <2>11 DEF listLen, listNodeFind
<1> QED
  BY <1>1, ListInvariant, PTL

(* Appending and pushing are insertions at the two ends.                    *)
LEMMA InsertedAtEnds ==
  ASSUME NEW w \in Seq(Nodes), NEW n \in Nodes
  PROVE  /\ InsertAt(w, Len(w) + 1, n) = Append(w, n)
         /\ InsertAt(w, 1, n) = <<n>> \o w
<1>1. Len(w) \in Nat /\ (Len(w) + 1) - 1 = Len(w) /\ 1 - 1 = 0
  OBVIOUS
<1>2. /\ SubSeq(w, 1, Len(w)) = w /\ SubSeq(w, 1, 0) = <<>>
      /\ SubSeq(w, Len(w) + 1, Len(w)) = <<>>
  OBVIOUS
<1>3. /\ InsertAt(w, Len(w) + 1, n) = w \o <<n>> \o <<>>
      /\ InsertAt(w, 1, n) = <<>> \o <<n>> \o w
  BY <1>1, <1>2 DEF InsertAt
<1> QED
  BY <1>3

(* The lists of list.c implement sequences: the lists begin empty, and each *)
(* statement of list.c is one whole operation on a sequence or nothing, in  *)
(* whatever order the clock lets threads execute them.                      *)
THEOREM ListImplementsQueues == Spec => ImplementsQueues
<1>1. Init => Q!Init
  <2> SUFFICES ASSUME Init PROVE Contents = [l \in Lists |-> <<>>]
    BY DEF Q!Init
  <2> QED
    BY InitSound DEF Contents
<1>2. ListInv /\ [Next]_vars => [Q!Next]_Contents
  <2> SUFFICES ASSUME ListInv, [Next]_vars PROVE Q!Next \/ Contents' = Contents
    OBVIOUS
  <2>1. /\ \A l \in Lists : Contents[l] \in Seq(Nodes)
        /\ \A n : n \in Q!Linked <=>
                    \E l \in Lists : \E i \in 1..Len(Contents[l]) : Contents[l][i] = n
    <3>1. \A l \in Lists : Contents[l] \in Seq(Nodes)
      BY DEF ListInv, From, Sound, Apart
    <3>2. \A l \in Lists :
            Range(Contents[l]) = {Contents[l][i] : i \in 1..Len(Contents[l])}
      BY <3>1 DEF Range
    <3>3. Q!Linked = UNION {Range(Contents[l]) : l \in Lists}
      BY DEF Q!Linked, Q!Range, Range
    <3> QED
      BY <3>1, <3>2, <3>3
  <2>2. CASE \E l \in Lists : \E n \in Nodes : \E k \in {1, Len(Contents[l]) + 1} :
               Inserted(l, n, k)
    <3>1. PICK l \in Lists, n \in Nodes : \E k \in {1, Len(Contents[l]) + 1} : Inserted(l, n, k)
      BY <2>2
    <3>2. n \in Nodes \ Q!Linked
      BY <2>1, <3>1 DEF Inserted
    <3>3. \/ Contents' = [Contents EXCEPT ![l] = Append(Contents[l], n)]
          \/ Contents' = [Contents EXCEPT ![l] = <<n>> \o Contents[l]]
      BY <2>1, <3>1, InsertedAtEnds DEF Inserted
    <3> QED
      BY <3>2, <3>3 DEF Q!Next, Q!Becomes
  <2>3. CASE \E l \in Lists : \E k \in 1..Len(Contents[l]) : Removed(l, k)
    <3>1. PICK l \in Lists : \E k \in 1..Len(Contents[l]) : Removed(l, k)
      BY <2>3
    <3>2. PICK k \in 1..Len(Contents[l]) : Removed(l, k)
      BY <3>1
    <3>3. k \in DOMAIN Contents[l]
      BY <2>1, <3>2
    <3> QED
      BY <3>2, <3>3 DEF Removed, RemoveAt, Q!Next, Q!Becomes
  <2> QED
    BY <2>2, <2>3, ListStep
<1> QED
  BY <1>1, <1>2, ListInvariant, PTL DEF Spec, ImplementsQueues, Q!Spec
=============================================================================
