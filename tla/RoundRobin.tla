----------------------------- MODULE RoundRobin -----------------------------
(***************************************************************************)
(* How fair the ready list is: the threads of Thread.tla with a history     *)
(* variable that remembers, for every thread waiting in the ready list,     *)
(* which threads the clock has taken off the processor since it waits.      *)
(***************************************************************************)
EXTENDS Thread

VARIABLE expired

rr_vars == <<thread_vars, expired>>

RRInit == Init /\ expired = [t \in Threads |-> {}]

(* The running thread goes from RUNNING to READY: its slice is used up.     *)
Preempted == IF status'[cur] = "READY" THEN {cur} ELSE {}

RRNext ==
  /\ Next
  /\ expired' = [t \in Threads |-> IF status[t] = "READY" /\ status'[t] = "READY"
                                   THEN expired[t] \cup Preempted
                                   ELSE {}]

RRSpec == RRInit /\ [][RRNext]_rr_vars

RRFairSpec == RRSpec /\ Fairness

(* While a thread is READY every other thread has its slice run out at most *)
(* once, so the wait is bounded by one slice of each: a thread that the     *)
(* clock sent to the tail (thread.c:137) cannot come back in front of a     *)
(* waiting one, although __thdUnblock pushes to the head (thread.c:174).    *)
OneSliceEach ==
  [][\A t \in Threads \ {cur} :
       status'[t] = "READY" => expired[t] \cap Preempted = {}]_rr_vars
=============================================================================
