------------------------------- MODULE Mutex --------------------------------
(***************************************************************************)
(* What a lock of sync.h promises: a mutex that its owner may acquire       *)
(* several times and has to release as often.                               *)
(***************************************************************************)
EXTENDS Integers

CONSTANTS Threads, Locks, NULL

VARIABLES owner,  \* the thread that has the lock, or NULL
          nest    \* how often it has to release it

mutex_vars == <<owner, nest>>

Init ==
  /\ owner = [l \in Locks |-> NULL]
  /\ nest = [l \in Locks |-> 0]

Acquire(t, l) ==
  /\ owner[l] = NULL
  /\ owner' = [owner EXCEPT ![l] = t]
  /\ nest' = [nest EXCEPT ![l] = 1]

AcquireAgain(l) ==
  /\ owner[l] # NULL
  /\ nest' = [nest EXCEPT ![l] = @ + 1]
  /\ UNCHANGED owner

ReleaseOne(l) ==
  /\ nest[l] > 1
  /\ nest' = [nest EXCEPT ![l] = @ - 1]
  /\ UNCHANGED owner

ReleaseLast(l) ==
  /\ owner[l] # NULL /\ nest[l] = 1
  /\ owner' = [owner EXCEPT ![l] = NULL]
  /\ nest' = [nest EXCEPT ![l] = 0]

Next ==
  \E l \in Locks :
    \/ \E t \in Threads : Acquire(t, l)
    \/ AcquireAgain(l)
    \/ ReleaseOne(l)
    \/ ReleaseLast(l)

Spec == Init /\ [][Next]_mutex_vars
=============================================================================
