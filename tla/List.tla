-------------------------------- MODULE List --------------------------------
(***************************************************************************)
(* The doubly linked lists of src/lib/kernel/list.c, pointer by pointer,    *)
(* used by several threads.  One action is one statement; as long as IF is  *)
(* set, another thread may come in between two of them.                     *)
(***************************************************************************)
EXTENDS Integers, FiniteSets, SequencesExt

CONSTANTS Threads, Lists, Nodes, NULL

(* The sentinels of a list.                                                 *)
head(l) == <<"head", l>>
tail(l) == <<"tail", l>>

ASSUME ListAssumption ==
  /\ IsFiniteSet(Nodes)
  /\ NULL \notin Threads \cup Nodes
  /\ \A l \in Lists : {head(l), tail(l)} \cap (Nodes \cup {NULL}) = {}

VARIABLES
  next, prev,  \* the two pointers of every struct listNode
  off,         \* the thread that runs with IF clear, or NULL
  call,        \* the call each thread is in: place, list, node, before, old
  was          \* history: the lists when the insertion or removal under way
               \* began

vars == <<next, prev, off, call, was>>

Cells == Nodes \cup {head(l) : l \in Lists} \cup {tail(l) : l \in Lists}

Idle == [place |-> "idle", list |-> NULL, node |-> NULL, before |-> NULL,
         old |-> NULL]

(* The nodes on the way from cell c along a pointer, up to a sentinel (or,  *)
(* should there be none, until all nodes must have been seen).              *)
Along(ptr, c) ==
  LET Ways == {w \in SeqOf(Nodes, Cardinality(Nodes)) :
                 \A i \in DOMAIN w : w[i] = ptr[IF i = 1 THEN c ELSE w[i - 1]]}
  IN CHOOSE w \in Ways : \A v \in Ways : Len(v) <= Len(w)

Walk(l) == Along(next, head(l))

(* __listInit of every list; a pcb, and with it its nodes, is zeroed.       *)
Init ==
  /\ next = [c \in Cells |->
               IF \E l \in Lists : c = head(l) THEN tail(c[2]) ELSE NULL]
  /\ prev = [c \in Cells |->
               IF \E l \in Lists : c = tail(l) THEN head(c[2]) ELSE NULL]
  /\ off = NULL
  /\ call = [t \in Threads |-> Idle]
  /\ was = [l \in Lists |-> <<>>]

At(t, place) == off \in {t, NULL} /\ call[t].place = place

(* Nodes that some thread is inserting or removing, or that are in a list.  *)
Busy == {call[t].node : t \in Threads}
Member == UNION {Range(Walk(l)) : l \in Lists}

-----------------------------------------------------------------------------
(* The calls.                                                              *)

Begin(t, place, l, node, before) ==
  /\ At(t, "idle")
  /\ call' = [call EXCEPT ![t] = [place |-> place, list |-> l, node |-> node,
                                  before |-> before, old |-> NULL]]
  /\ UNCHANGED <<next, prev, off, was>>

(* __listAppend knows where to insert and may be called with IF set.        *)
ListAppend(t) ==
  \E l \in Lists, n \in Nodes \ (Busy \cup Member) :
    Begin(t, "insert", l, n, tail(l))

(* A mutant of OffFor: the callers need not clear IF.                       *)
OffForAny(t) == TRUE

(* __listPush and __listPop look at the head's neighbour before IF is       *)
(* cleared: their callers have cleared it (thread.c:131, 168, sync.c:36).   *)
OffFor(t) == off = t

ListPush(t) ==
  /\ OffFor(t)
  /\ \E l \in Lists, n \in Nodes \ (Busy \cup Member) :
       Begin(t, "insert", l, n, next[head(l)])

listEmpty(l) == next[head(l)] = tail(l)

(* Callers have seen that the list is not empty (thread.c:144, sync.c:38).  *)
ListPop(t) ==
  /\ OffFor(t)
  /\ \E l \in Lists :
       /\ ~listEmpty(l)
       /\ Begin(t, "remove", l, next[head(l)], NULL)

ListRemove(t) ==
  /\ OffFor(t)
  /\ \E l \in Lists : \E n \in Range(Walk(l)) :
       Begin(t, "remove", l, n, NULL)

(* A client's __intrDisable and __intrEnable.                               *)
Client(t) ==
  /\ At(t, "idle")
  /\ off' = IF off = t THEN NULL ELSE t
  /\ UNCHANGED <<next, prev, call, was>>

-----------------------------------------------------------------------------
(* __listInsert and __listRemove, statement by statement.                   *)

Goto(t, place) == call' = [call EXCEPT ![t].place = place]

Enter(t, place, first) ==
  /\ At(t, place)
  /\ off' = t
  /\ call' = [call EXCEPT ![t].place = first, ![t].old = off]
  /\ was' = [l \in Lists |-> Walk(l)]
  /\ UNCHANGED <<next, prev>>

Store(t, from, to, ptr, c, value) ==
  /\ At(t, from) /\ Goto(t, to)
  /\ IF ptr = "next" THEN next' = [next EXCEPT ![c] = value] /\ UNCHANGED prev
                     ELSE prev' = [prev EXCEPT ![c] = value] /\ UNCHANGED next
  /\ UNCHANGED <<off, was>>

(* A mutant of Insert: the old neighbour is read after it was overwritten.  *)
InsertBackFirst(t) ==
  LET node == call[t].node    before == call[t].before IN
  \/ Store(t, "insert1", "insert2", "next", prev[before], node)
  \/ Store(t, "insert2", "insert3", "prev", before, node)
  \/ Store(t, "insert3", "insert4", "next", node, before)
  \/ Store(t, "insert4", "restore", "prev", node, prev[before])

Insert(t) ==
  LET node == call[t].node    before == call[t].before IN
  \/ Store(t, "insert1", "insert2", "next", prev[before], node)
  \/ Store(t, "insert2", "insert3", "prev", node, prev[before])
  \/ Store(t, "insert3", "insert4", "next", node, before)
  \/ Store(t, "insert4", "restore", "prev", before, node)

Unlink(t) ==
  LET node == call[t].node IN
  \/ Store(t, "remove1", "remove2", "next", prev[node], next[node])
  \/ Store(t, "remove2", "restore", "prev", next[node], prev[node])

(* __intrSetStatus(oldStatus), and back to the caller.                      *)
Restore(t) ==
  /\ At(t, "restore")
  /\ off' = call[t].old
  /\ call' = [call EXCEPT ![t] = Idle]
  /\ UNCHANGED <<next, prev, was>>

Next ==
  \E t \in Threads :
    \/ ListAppend(t) \/ ListPush(t) \/ ListPop(t) \/ ListRemove(t) \/ Client(t)
    \/ Enter(t, "insert", "insert1") \/ Insert(t)
    \/ Enter(t, "remove", "remove1") \/ Unlink(t)
    \/ Restore(t)

Spec == Init /\ [][Next]_vars

-----------------------------------------------------------------------------
(* No insertion or removal is under way.                                    *)
Quiet == \A t \in Threads : call[t].place \in {"idle", "insert", "remove"}

listNodeFind(l, n) == n \in Range(Walk(l))
listLen(l) == Len(Walk(l))

(* Between the operations every list reads the same in both directions,     *)
(* begins and ends at its own sentinels, and shares no node with another;   *)
(* __listEmpty agrees with that.                                            *)
BothWays ==
  Quiet => \A l \in Lists :
    LET w == Walk(l) IN
    /\ Along(prev, tail(l)) = Reverse(w)
    /\ next[IF w = <<>> THEN head(l) ELSE Last(w)] = tail(l)
    /\ prev[IF w = <<>> THEN tail(l) ELSE w[1]] = head(l)
    /\ listEmpty(l) <=> listLen(l) = 0
    /\ \A m \in Lists \ {l} : \A n \in Range(w) : ~listNodeFind(m, n)

(* What the lists contain, an operation under way not counted.              *)
Contents == [l \in Lists |-> IF Quiet THEN Walk(l) ELSE was[l]]

Q == INSTANCE Queues WITH queue <- Contents

(* The lists implement sequences, in which every operation of list.c is one *)
(* step, whatever the order in which threads and the clock come in.         *)
ImplementsQueues == Q!Spec
=============================================================================
