------------------------------- MODULE Queues -------------------------------
(***************************************************************************)
(* What the lists of src/lib/kernel/list.c promise: each is a sequence of   *)
(* nodes, a node is in one list at most, and every operation is one step.   *)
(* This is how Thread.tla and Sync.tla see thdReadyList and the waiters.    *)
(***************************************************************************)
EXTENDS Sequences, Functions

CONSTANTS Lists, Nodes

VARIABLE queue

Linked == UNION {Range(queue[l]) : l \in Lists}

Init == queue = [l \in Lists |-> <<>>]

Becomes(l, q) == queue' = [queue EXCEPT ![l] = q]

Next ==
  \E l \in Lists :
    \/ \E n \in Nodes \ Linked : \/ Becomes(l, Append(queue[l], n))
                                 \/ Becomes(l, <<n>> \o queue[l])
    \/ \E i \in DOMAIN queue[l] :
         Becomes(l, SubSeq(queue[l], 1, i - 1)
                      \o SubSeq(queue[l], i + 1, Len(queue[l])))

Spec == Init /\ [][Next]_queue
=============================================================================
