---------------------------- MODULE ThreadProof -----------------------------
(***************************************************************************)
(* The invariants of Thread.tla, and the fairness of the ready list that    *)
(* RoundRobin.tla states, hold for any number of threads, any mix of        *)
(* threads and processes and any priorities.                                *)
(***************************************************************************)
EXTENDS RoundRobin, TLAPS

-----------------------------------------------------------------------------
(* What __listAppend, __listPush and __listPop (list.c:20-39) do to a list  *)
(* in which no node occurs twice.                                           *)

(* __listAppend of a node that is not in the list.                          *)
LEMMA AppendQueue ==
  ASSUME NEW S, NEW q \in Seq(S), NEW x \in S, IsInjective(q), x \notin Range(q)
  PROVE  /\ Append(q, x) \in Seq(S)
         /\ Append(q, x) # <<>>
         /\ IsInjective(Append(q, x))
         /\ Range(Append(q, x)) = Range(q) \cup {x}
<1> DEFINE r == Append(q, x)
<1>1. r \in Seq(S) /\ Len(r) = Len(q) + 1 /\ DOMAIN r = 1..Len(q)+1
      /\ DOMAIN q = 1..Len(q) /\ Len(q) \in Nat
  OBVIOUS
<1>2. r[Len(q)+1] = x /\ \A i \in 1..Len(q) : r[i] = q[i]
  OBVIOUS
<1>3. r # <<>>
  BY <1>1
<1>4. IsInjective(r)
  BY <1>1, <1>2 DEF IsInjective, Range
<1>5. Range(r) = Range(q) \cup {x}
  BY <1>1, <1>2 DEF Range
<1> QED
  BY <1>1, <1>3, <1>4, <1>5

(* __listPush of a node that is not in the list.                            *)
LEMMA PushQueue ==
  ASSUME NEW S, NEW q \in Seq(S), NEW x \in S, IsInjective(q), x \notin Range(q)
  PROVE  /\ <<x>> \o q \in Seq(S)
         /\ <<x>> \o q # <<>>
         /\ IsInjective(<<x>> \o q)
         /\ Range(<<x>> \o q) = Range(q) \cup {x}
<1> DEFINE r == <<x>> \o q
<1>1. r \in Seq(S) /\ Len(r) = Len(q) + 1 /\ DOMAIN r = 1..Len(q)+1
      /\ DOMAIN q = 1..Len(q) /\ Len(q) \in Nat
  OBVIOUS
<1>2. r[1] = x /\ \A i \in 1..Len(q) : r[i+1] = q[i]
  OBVIOUS
<1>3. \A j \in 2..Len(q)+1 : r[j] = q[j-1]
  <2> TAKE j \in 2..Len(q)+1
  <2>1. j-1 \in 1..Len(q) /\ (j-1)+1 = j
    BY <1>1
  <2> QED
    BY <2>1, <1>2
<1>4. r # <<>>
  BY <1>1
<1>5. IsInjective(r)
  <2> SUFFICES ASSUME NEW i \in 1..Len(q)+1, NEW j \in 1..Len(q)+1, r[i] = r[j]
               PROVE  i = j
    BY <1>1 DEF IsInjective
  <2>1. CASE i = 1 /\ j = 1
    BY <2>1
  <2>2. CASE i = 1 /\ j # 1
    BY <2>2, <1>1, <1>2, <1>3 DEF Range
  <2>3. CASE i # 1 /\ j = 1
    BY <2>3, <1>1, <1>2, <1>3 DEF Range
  <2>4. CASE i # 1 /\ j # 1
    <3>1. i-1 \in DOMAIN q /\ j-1 \in DOMAIN q /\ q[i-1] = q[j-1]
      BY <2>4, <1>1, <1>3
    <3> QED
      BY <3>1, <1>1 DEF IsInjective
  <2> QED
    BY <2>1, <2>2, <2>3, <2>4
<1>6. Range(r) = Range(q) \cup {x}
  <2>1. ASSUME NEW y \in Range(r) PROVE y \in Range(q) \cup {x}
    BY <1>1, <1>2, <1>3 DEF Range
  <2>2. ASSUME NEW y \in Range(q) PROVE y \in Range(r)
    <3>1. PICK i \in 1..Len(q) : q[i] = y
      BY <1>1 DEF Range
    <3>2. i+1 \in DOMAIN r /\ r[i+1] = y
      BY <3>1, <1>1, <1>2
    <3> QED
      BY <3>2 DEF Range
  <2>3. x \in Range(r)
    BY <1>1, <1>2 DEF Range
  <2> QED
    BY <2>1, <2>2, <2>3
<1> QED
  BY <1>1, <1>4, <1>5, <1>6

(* __listPop from a list that is not empty.                                 *)
LEMMA PopQueue ==
  ASSUME NEW S, NEW q \in Seq(S), q # <<>>, IsInjective(q)
  PROVE  /\ Head(q) \in S
         /\ Head(q) \in Range(q)
         /\ Tail(q) \in Seq(S)
         /\ IsInjective(Tail(q))
         /\ Range(Tail(q)) = Range(q) \ {Head(q)}
<1> DEFINE r == Tail(q)
<1>1. Len(q) \in Nat \ {0} /\ DOMAIN q = 1..Len(q) /\ Head(q) = q[1]
  OBVIOUS
<1>2. r \in Seq(S) /\ Len(r) = Len(q) - 1 /\ DOMAIN r = 1..Len(q)-1
  BY <1>1
<1>3. \A i \in 1..Len(q)-1 : r[i] = q[i+1]
  BY <1>1
<1>4. Head(q) \in S /\ Head(q) \in Range(q)
  BY <1>1 DEF Range
<1>5. IsInjective(r)
  BY <1>1, <1>2, <1>3 DEF IsInjective
<1>6. Range(r) = Range(q) \ {Head(q)}
  <2>1. ASSUME NEW y \in Range(r) PROVE y \in Range(q) /\ y # Head(q)
    BY <1>1, <1>2, <1>3 DEF Range, IsInjective
  <2>2. ASSUME NEW y \in Range(q), y # Head(q) PROVE y \in Range(r)
    <3>1. PICK i \in 1..Len(q) : q[i] = y
      BY <1>1 DEF Range
    <3>2. i # 1 /\ i-1 \in 1..Len(q)-1 /\ (i-1)+1 = i
      BY <3>1, <2>2, <1>1
    <3>3. r[i-1] = y
      BY <3>1, <3>2, <1>3
    <3> QED
      BY <3>2, <3>3, <1>2 DEF Range
  <2> QED
    BY <2>1, <2>2
<1> QED
  BY <1>2, <1>4, <1>5, <1>6

-----------------------------------------------------------------------------
(* The scheduler.                                                           *)

(* The scheduler's invariants hold in the state __initAll leaves.           *)
LEMMA ThreadInit == Init => ThreadInv
<1> SUFFICES ASSUME Init PROVE ThreadInv
  OBVIOUS
<1> USE ThreadAssumption DEF Init
<1>1. TypeOK
  <2>1. status \in [Threads -> Status]
    BY DEF Status
  <2>2. ticks \in [Threads -> 0..255]
    OBVIOUS
  <2>3. thdReadyList \in Seq(Threads) /\ thdList \in Seq(Threads)
    OBVIOUS
  <2>4. frame \in [Threads -> Frame] /\ old \in [Threads -> {"ON", "OFF"}]
    BY DEF Frame
  <2> QED
    BY <2>1, <2>2, <2>3, <2>4 DEF TypeOK
<1>2. NoPanic
  BY DEF NoPanic
<1>3. ReadyListExact
  BY DEF ReadyListExact, IsInjective, Range
<1>4. OneRunning
  BY DEF OneRunning
<1>5. OwnAddressSpace
  BY DEF OwnAddressSpace, ptvAddr
<1>6. FramesResumable
  BY DEF FramesResumable
<1>7. ThdListComplete
  <2>1. IsInjective(thdList)
    BY DEF IsInjective
  <2>2. Range(thdList) = {Main}
    BY DEF Range
  <2> QED
    BY <2>1, <2>2 DEF ThdListComplete
<1>8. MainRunnable
  BY DEF MainRunnable
<1> QED
  BY <1>1, <1>2, <1>3, <1>4, <1>5, <1>6, <1>7, <1>8 DEF ThreadInv

(* The second half of __schedule: from a ready list that holds exactly the  *)
(* READY threads, and no thread RUNNING or executing, it re-establishes the *)
(* invariants for the thread it dispatches.                                 *)
LEMMA DispatchKeepsInv ==
  ASSUME ThreadInv,
         NEW ready \in Seq(Threads), NEW st \in [Threads -> Status],
         NEW fr \in [Threads -> Frame],
         ready # <<>>, IsInjective(ready),
         Range(ready) = {t \in Threads : st[t] = "READY"},
         \A t \in Threads : st[t] # "RUNNING" /\ fr[t] # "live",
         \A t \in Threads : st[t] = "FREE" <=> status[t] = "FREE",
         st[Main] = "READY",
         ticks' \in [Threads -> 0..255],
         old' \in [Threads -> {"ON", "OFF"}],
         Dispatch(ready, st, fr)
  PROVE  ThreadInv'
<1> DEFINE next == Head(ready)
<1> USE ThreadAssumption
<1>1. /\ next \in Threads
      /\ next \in Range(ready)
      /\ Tail(ready) \in Seq(Threads)
      /\ IsInjective(Tail(ready))
      /\ Range(Tail(ready)) = Range(ready) \ {next}
  BY PopQueue
<1>2. /\ thdReadyList' = Tail(ready)
      /\ status' = [st EXCEPT ![next] = "RUNNING"]
      /\ panic' = FALSE
      /\ thdList' = thdList
  BY DEF Dispatch
<1>3. /\ cur' = next
      /\ cr3' = ptvAddr(next)
      /\ esp0' = IF ptvAddr(next) # NULL THEN next ELSE esp0
      /\ intr' = IF fr[next] = "block" THEN "OFF" ELSE "ON"
      /\ frame' = [fr EXCEPT ![next] = IF fr[next] = "block" THEN "block" ELSE "live"]
  BY DEF Dispatch, Switch
<1>4. /\ status'[next] = "RUNNING"
      /\ \A t \in Threads \ {next} : status'[t] = st[t]
      /\ frame'[next] = IF fr[next] = "block" THEN "block" ELSE "live"
      /\ \A t \in Threads \ {next} : frame'[t] = fr[t]
  BY <1>1, <1>2, <1>3
<1>5. TypeOK'
  <2>1. status' \in [Threads -> Status] /\ frame' \in [Threads -> Frame]
    BY <1>1, <1>2, <1>3 DEF Status, Frame
  <2>2. cr3' \in Procs \cup {NULL} /\ esp0' \in Procs \cup {NULL}
    BY <1>1, <1>3 DEF ptvAddr, ThreadInv, TypeOK
  <2> QED
    BY <1>1, <1>2, <1>3, <2>1, <2>2 DEF ThreadInv, TypeOK
<1>6. NoPanic'
  BY <1>2 DEF NoPanic
<1>7. ReadyListExact'
  BY <1>1, <1>2, <1>4 DEF ReadyListExact
<1>8. OneRunning'
  BY <1>1, <1>3, <1>4 DEF OneRunning
<1>9. OwnAddressSpace'
  BY <1>1, <1>3 DEF OwnAddressSpace, ptvAddr
<1>10. FramesResumable'
  BY <1>1, <1>3, <1>4 DEF FramesResumable
<1>11. ThdListComplete'
  <2>1. \A t \in Threads : status'[t] = "FREE" <=> status[t] = "FREE"
    BY <1>1, <1>4
  <2> QED
    BY <1>2, <2>1 DEF ThreadInv, ThdListComplete, NoPanic
<1>12. MainRunnable'
  BY <1>1, <1>4 DEF MainRunnable
<1> QED
  BY <1>5, <1>6, <1>7, <1>8, <1>9, <1>10, <1>11, <1>12 DEF ThreadInv

(* A clock interrupt keeps the invariants.                                  *)
LEMMA IntrTimerKeepsInv == ThreadInv /\ IntrTimer => ThreadInv'
<1> SUFFICES ASSUME ThreadInv, IntrTimer PROVE ThreadInv'
  OBVIOUS
<1> USE DEF ThreadInv
<1>1. CASE SliceUsedUp
  <2> DEFINE st == [status EXCEPT ![cur] = "READY"]
             fr == [frame EXCEPT ![cur] = "intr"]
             ready == Append(thdReadyList, cur)
  <2>1. cur \in Threads /\ status[cur] = "RUNNING" /\ cur \notin Range(thdReadyList)
    BY DEF TypeOK, OneRunning, NoPanic, ReadyListExact
  <2>2. /\ ticks' = [ticks EXCEPT ![cur] = Prio[cur]]
        /\ Dispatch(ready, st, fr)
        /\ old' = old
    BY <1>1, <2>1 DEF SliceUsedUp, Schedule
  <2>3. /\ ready \in Seq(Threads) /\ ready # <<>> /\ IsInjective(ready)
        /\ Range(ready) = Range(thdReadyList) \cup {cur}
    BY <2>1, AppendQueue DEF TypeOK, ReadyListExact, NoPanic
  <2>4. st \in [Threads -> Status] /\ fr \in [Threads -> Frame]
    BY <2>1 DEF TypeOK, Status, Frame
  <2>5. /\ st[cur] = "READY" /\ fr[cur] = "intr"
        /\ \A t \in Threads \ {cur} : st[t] = status[t] /\ fr[t] = frame[t]
    BY <2>1 DEF TypeOK
  <2>6. Range(ready) = {t \in Threads : st[t] = "READY"}
    BY <2>1, <2>3, <2>5 DEF ReadyListExact, NoPanic
  <2>7. \A t \in Threads : st[t] # "RUNNING" /\ fr[t] # "live"
    BY <2>1, <2>5 DEF OneRunning, FramesResumable, NoPanic
  <2>8. \A t \in Threads : st[t] = "FREE" <=> status[t] = "FREE"
    BY <2>1, <2>5
  <2>9. st[Main] = "READY"
    BY <2>1, <2>5, ThreadAssumption DEF MainRunnable, OneRunning, NoPanic
  <2>10. ticks' \in [Threads -> 0..255] /\ old' \in [Threads -> {"ON", "OFF"}]
    BY <2>1, <2>2, ThreadAssumption DEF TypeOK
  <2>11. ThreadInv
    OBVIOUS
  <2> HIDE DEF ready, st, fr, ThreadInv
  <2> QED
    BY <2>2, <2>3, <2>4, <2>6, <2>7, <2>8, <2>9, <2>10, <2>11, DispatchKeepsInv
<1>2. CASE SliceGoesOn
  <2>1. ticks' \in [Threads -> 0..255]
    <3>1. cur \in Threads /\ ticks \in [Threads -> 0..255] /\ ticks[cur] > 0
      BY <1>2 DEF SliceGoesOn, TypeOK
    <3>2. ticks[cur] - 1 \in 0..255
      BY <3>1
    <3>3. ticks' = [ticks EXCEPT ![cur] = ticks[cur] - 1]
      BY <1>2 DEF SliceGoesOn
    <3> QED
      BY <3>1, <3>2, <3>3
  <2> QED
    BY <1>2, <2>1 DEF SliceGoesOn, TypeOK, NoPanic, ReadyListExact, OneRunning,
                      OwnAddressSpace, ptvAddr, FramesResumable, ThdListComplete, MainRunnable
<1> QED
  BY <1>1, <1>2 DEF IntrTimer

(* A thread other than main() that blocks keeps the invariants: main() is   *)
(* there to be dispatched.                                                  *)
LEMMA ThdBlockKeepsInv ==
  ASSUME ThreadInv, cur # Main, NEW stat \in Blockings, ThdBlock(stat)
  PROVE  ThreadInv'
<1> USE DEF ThreadInv
<1> DEFINE st == [status EXCEPT ![cur] = stat]
           fr == [frame EXCEPT ![cur] = "block"]
<1>1. cur \in Threads /\ Main \in Threads /\ stat \notin {"RUNNING", "READY", "FREE"}
  BY ThreadAssumption DEF TypeOK, Blockings
<1>2. /\ st[cur] = stat /\ fr[cur] = "block"
      /\ \A t \in Threads \ {cur} : st[t] = status[t] /\ fr[t] = frame[t]
  BY <1>1 DEF TypeOK
<1>3. status[cur] = "RUNNING" /\ status[Main] = "READY"
  BY <1>1 DEF OneRunning, MainRunnable, NoPanic
<1>4. Main \in Range(thdReadyList)
  BY <1>1, <1>3 DEF ReadyListExact, NoPanic
<1>5. thdReadyList # <<>>
  BY <1>4 DEF Range
<1>6. /\ ticks' = ticks
      /\ Dispatch(thdReadyList, st, fr)
      /\ old' = [old EXCEPT ![cur] = intr]
  BY <1>1, <1>2, <1>5 DEF ThdBlock, Schedule
<1>7. st \in [Threads -> Status] /\ fr \in [Threads -> Frame]
  BY <1>1 DEF TypeOK, Status, Frame
<1>8. Range(thdReadyList) = {t \in Threads : st[t] = "READY"}
  BY <1>1, <1>2, <1>3 DEF ReadyListExact, NoPanic
<1>9. \A t \in Threads : st[t] # "RUNNING" /\ fr[t] # "live"
  BY <1>1, <1>2 DEF OneRunning, FramesResumable, NoPanic
<1>10. \A t \in Threads : st[t] = "FREE" <=> status[t] = "FREE"
  BY <1>1, <1>2, <1>3
<1>11. st[Main] = "READY"
  BY <1>1, <1>2, <1>3
<1>12. ticks' \in [Threads -> 0..255] /\ old' \in [Threads -> {"ON", "OFF"}]
  BY <1>1, <1>6 DEF TypeOK
<1>13. thdReadyList \in Seq(Threads) /\ IsInjective(thdReadyList)
  BY DEF TypeOK, ReadyListExact, NoPanic
<1> HIDE DEF st, fr
<1> QED
  BY <1>5, <1>6, <1>7, <1>8, <1>9, <1>10, <1>11, <1>12, <1>13, DispatchKeepsInv

(* A thread that wakes a blocked one keeps the invariants.                  *)
LEMMA ThdUnblockKeepsInv ==
  ASSUME ThreadInv, NEW t \in Threads, status[t] \in Blockings, ThdUnblock(t)
  PROVE  ThreadInv'
<1> USE DEF ThreadInv
<1>1. status[t] \notin {"RUNNING", "READY", "FREE"}
  BY DEF Blockings
<1>2. t \notin Range(thdReadyList)
  BY <1>1 DEF ReadyListExact, NoPanic
<1>3. /\ thdReadyList' = <<t>> \o thdReadyList
      /\ status' = [status EXCEPT ![t] = "READY"]
      /\ UNCHANGED <<intr, cur, ticks, thdList, frame, old, cr3, esp0, panic>>
  BY <1>2 DEF ThdUnblock, MayWakeUp, WakeUp
<1>4. /\ thdReadyList' \in Seq(Threads) /\ IsInjective(thdReadyList')
      /\ Range(thdReadyList') = Range(thdReadyList) \cup {t}
  BY <1>2, <1>3, PushQueue DEF TypeOK, ReadyListExact, NoPanic
<1>5. status'[t] = "READY" /\ \A u \in Threads \ {t} : status'[u] = status[u]
  BY <1>3 DEF TypeOK
<1>6. TypeOK'
  BY <1>3, <1>4 DEF TypeOK, Status
<1>7. ReadyListExact'
  BY <1>3, <1>4, <1>5 DEF ReadyListExact, NoPanic
<1>8. OneRunning'
  BY <1>1, <1>3, <1>5 DEF OneRunning, NoPanic
<1>9. ThdListComplete'
  BY <1>1, <1>3, <1>5 DEF ThdListComplete, NoPanic
<1>10. MainRunnable'
  BY <1>5, ThreadAssumption DEF MainRunnable
<1> QED
  BY <1>3, <1>6, <1>7, <1>8, <1>9, <1>10 DEF NoPanic, OwnAddressSpace, ptvAddr, FramesResumable

(* Linking a new thread into both lists keeps the invariants.               *)
LEMMA EnlistKeepsInv ==
  ASSUME ThreadInv, NEW t \in Threads, Enlist(t)
  PROVE  ThreadInv'
<1> USE DEF ThreadInv
<1>1. status[t] = "FREE" /\ t # cur
  BY DEF Enlist, OneRunning, NoPanic
<1>2. t \notin Range(thdReadyList) /\ t \notin Range(thdList)
  BY <1>1 DEF ReadyListExact, ThdListComplete, NoPanic
<1>3. /\ status' = [status EXCEPT ![t] = "READY"]
      /\ ticks' = [ticks EXCEPT ![t] = Prio[t]]
      /\ frame' = [frame EXCEPT ![t] = "fresh"]
      /\ thdReadyList' = Append(thdReadyList, t)
      /\ thdList' = Append(thdList, t)
      /\ UNCHANGED <<intr, cur, old, cr3, esp0, panic>>
  BY <1>2 DEF Enlist
<1>4. /\ thdReadyList' \in Seq(Threads) /\ IsInjective(thdReadyList')
      /\ Range(thdReadyList') = Range(thdReadyList) \cup {t}
  BY <1>2, <1>3, AppendQueue DEF TypeOK, ReadyListExact, NoPanic
<1>5. /\ thdList' \in Seq(Threads) /\ IsInjective(thdList')
      /\ Range(thdList') = Range(thdList) \cup {t}
  BY <1>2, <1>3, AppendQueue DEF TypeOK, ThdListComplete, NoPanic
<1>6. /\ status'[t] = "READY" /\ frame'[t] = "fresh"
      /\ \A u \in Threads \ {t} : status'[u] = status[u] /\ frame'[u] = frame[u]
  BY <1>3 DEF TypeOK
<1>7. TypeOK'
  <2>1. /\ status' \in [Threads -> Status]
        /\ ticks' \in [Threads -> 0..255]
        /\ frame' \in [Threads -> Frame]
    BY <1>3, ThreadAssumption DEF TypeOK, Status, Frame
  <2> QED
    BY <2>1, <1>3, <1>4, <1>5 DEF TypeOK
<1>8. ReadyListExact'
  BY <1>3, <1>4, <1>6 DEF ReadyListExact, NoPanic
<1>9. OneRunning'
  BY <1>1, <1>3, <1>6 DEF OneRunning, NoPanic
<1>10. ThdListComplete'
  BY <1>1, <1>3, <1>5, <1>6 DEF ThdListComplete, NoPanic
<1>11. MainRunnable'
  BY <1>6, ThreadAssumption DEF MainRunnable
<1>12. FramesResumable'
  BY <1>1, <1>3, <1>6 DEF FramesResumable, NoPanic, TypeOK
<1> QED
  BY <1>3, <1>7, <1>8, <1>9, <1>10, <1>11, <1>12 DEF NoPanic, OwnAddressSpace, ptvAddr

(* Every step keeps the invariants.                                         *)
LEMMA ThreadStep == ThreadInv /\ [Next]_thread_vars => ThreadInv'
<1> SUFFICES ASSUME ThreadInv, [Next]_thread_vars PROVE ThreadInv'
  OBVIOUS
<1>1. CASE UNCHANGED thread_vars
  BY <1>1 DEF thread_vars, ThreadInv, TypeOK, NoPanic, ReadyListExact, OneRunning,
              OwnAddressSpace, ptvAddr, FramesResumable, ThdListComplete, MainRunnable
<1>2. CASE IntrTimer
  BY <1>2, IntrTimerKeepsInv
<1>3. CASE ThdBlockReturn
  <2>1. cur \in Threads
    BY DEF ThreadInv, TypeOK
  <2>2. /\ frame' = [frame EXCEPT ![cur] = "live"] /\ intr' = old[cur]
        /\ UNCHANGED <<cur, status, ticks, thdReadyList, thdList, old, cr3, esp0, panic>>
    BY <1>3 DEF ThdBlockReturn
  <2>3. frame'[cur] = "live" /\ \A t \in Threads \ {cur} : frame'[t] = frame[t]
    BY <2>1, <2>2 DEF ThreadInv, TypeOK
  <2>4. TypeOK'
    BY <2>1, <2>2 DEF ThreadInv, TypeOK, Frame
  <2>5. FramesResumable'
    BY <2>2, <2>3 DEF ThreadInv, FramesResumable
  <2> QED
    BY <2>2, <2>4, <2>5 DEF ThreadInv, NoPanic, ReadyListExact, OneRunning,
                            OwnAddressSpace, ptvAddr, ThdListComplete, MainRunnable
<1>4. CASE IntrDisable \/ IntrEnable
  <2>1. /\ frame[cur] = "live" /\ intr' \in {"ON", "OFF"}
        /\ UNCHANGED <<cur, status, ticks, thdReadyList, thdList, frame, old, cr3, esp0, panic>>
    BY <1>4 DEF IntrDisable, IntrEnable, Live
  <2>2. TypeOK'
    BY <2>1 DEF ThreadInv, TypeOK
  <2>3. FramesResumable'
    BY <2>1 DEF ThreadInv, FramesResumable
  <2> QED
    BY <2>1, <2>2, <2>3 DEF ThreadInv, NoPanic, ReadyListExact, OneRunning,
                            OwnAddressSpace, ptvAddr, ThdListComplete, MainRunnable
<1>5. ASSUME cur # Main, NEW stat \in Blockings, ThdBlock(stat) PROVE ThreadInv'
  BY <1>5, ThdBlockKeepsInv
<1>6. ASSUME NEW t \in Threads, status[t] \in Blockings, ThdUnblock(t) PROVE ThreadInv'
  BY <1>6, ThdUnblockKeepsInv
<1>7. ASSUME NEW t \in Threads, StartThread(t) \/ ProcessExecute(t) PROVE ThreadInv'
  BY <1>7, EnlistKeepsInv DEF StartThread, ProcessExecute
<1> QED
  BY <1>1, <1>2, <1>3, <1>4, <1>5, <1>6, <1>7 DEF Next, ClientStep

(* The scheduler's invariants hold in every reachable state.                *)
THEOREM ThreadInvariant == Spec => []ThreadInv
<1>1. Init => ThreadInv
  BY ThreadInit
<1>2. ThreadInv /\ [Next]_thread_vars => ThreadInv'
  BY ThreadStep
<1> QED
  BY <1>1, <1>2, PTL DEF Spec

(* The ready list is exactly the READY threads, each once, at all times.    *)
THEOREM ReadyListIsExact == Spec => []ReadyListExact
<1>1. ThreadInv => ReadyListExact
  BY DEF ThreadInv
<1> QED
  BY <1>1, ThreadInvariant, PTL

(* No ASSERT of thread.c fails, the one of thread.c:144 included.           *)
THEOREM SchedulerNeverPanics == Spec => []NoPanic
<1>1. ThreadInv => NoPanic
  BY DEF ThreadInv
<1> QED
  BY <1>1, ThreadInvariant, PTL

(* Every thread runs in its own address space, on its own ring-0 stack.     *)
THEOREM AddressSpaceIsOwn == Spec => []OwnAddressSpace
<1>1. ThreadInv => OwnAddressSpace
  BY DEF ThreadInv
<1> QED
  BY <1>1, ThreadInvariant, PTL

(* Every pcb field keeps its type; ticks never goes below 0 (timer.c:55). *)
THEOREM ThreadTypes == Spec => []TypeOK
<1>1. ThreadInv => TypeOK
  BY DEF ThreadInv
<1> QED
  BY <1>1, ThreadInvariant, PTL

(* The thread that executes is the only one marked RUNNING (thread.c:135). *)
THEOREM OneThreadRuns == Spec => []OneRunning
<1>1. ThreadInv => OneRunning
  BY DEF ThreadInv
<1> QED
  BY <1>1, ThreadInvariant, PTL

(* Whoever is off the processor left a frame to resume (switch.asm:12-22). *)
THEOREM FramesAreResumable == Spec => []FramesResumable
<1>1. ThreadInv => FramesResumable
  BY DEF ThreadInv
<1> QED
  BY <1>1, ThreadInvariant, PTL

(* thdList holds every thread ever created, once (thread.c:47-48). *)
THEOREM ThdListIsComplete == Spec => []ThdListComplete
<1>1. ThreadInv => ThdListComplete
  BY DEF ThreadInv
<1> QED
  BY <1>1, ThreadInvariant, PTL

-----------------------------------------------------------------------------
(* RoundRobin.  The inductive invariant of its history variable says where  *)
(* the threads that the clock took off the processor are: behind the one    *)
(* that waits.                                                              *)

(* t stands before u in the list q.                                         *)
Ahead(q, t, u) == \E i, j \in DOMAIN q : i < j /\ q[i] = t /\ q[j] = u

(* Whoever lost the processor while t waits is queued up behind t.          *)
ExpiredBehind ==
  \A t, u \in Threads : u \in expired[t] => Ahead(thdReadyList, t, u)

RRInv ==
  /\ ThreadInv
  /\ expired \in [Threads -> SUBSET Threads]
  /\ ExpiredBehind

-----------------------------------------------------------------------------
(* __listAppend keeps the order of the nodes and puts the new one last.     *)
LEMMA AppendOrder ==
  ASSUME NEW S, NEW q \in Seq(S), NEW x \in S, NEW t, NEW u
  PROVE  /\ Ahead(q, t, u) => Ahead(Append(q, x), t, u)
         /\ t \in Range(q) => Ahead(Append(q, x), t, x)
<1> DEFINE r == Append(q, x)
<1>1. /\ Len(q) \in Nat /\ DOMAIN q = 1..Len(q) /\ DOMAIN r = 1..Len(q)+1
      /\ r[Len(q)+1] = x
      /\ \A i \in 1..Len(q) : r[i] = q[i]
  OBVIOUS
<1>2. ASSUME Ahead(q, t, u) PROVE Ahead(r, t, u)
  <2>1. PICK i \in DOMAIN q, j \in DOMAIN q : i < j /\ q[i] = t /\ q[j] = u
    BY <1>2 DEF Ahead
  <2>2. i \in DOMAIN r /\ j \in DOMAIN r /\ r[i] = t /\ r[j] = u
    BY <1>1, <2>1
  <2> QED
    BY <2>1, <2>2 DEF Ahead
<1>3. ASSUME t \in Range(q) PROVE Ahead(r, t, x)
  <2>1. PICK i \in DOMAIN q : q[i] = t
    BY <1>3 DEF Range
  <2>2. i \in DOMAIN r /\ r[i] = t /\ i < Len(q) + 1 /\ Len(q) + 1 \in DOMAIN r
    BY <1>1, <2>1
  <2> QED
    BY <1>1, <2>2 DEF Ahead
<1> QED
  BY <1>2, <1>3

(* __listPush keeps the order of the nodes.                                 *)
LEMMA PushOrder ==
  ASSUME NEW S, NEW q \in Seq(S), NEW x \in S, NEW t, NEW u, Ahead(q, t, u)
  PROVE  Ahead(<<x>> \o q, t, u)
<1> DEFINE r == <<x>> \o q
<1>1. /\ Len(q) \in Nat /\ DOMAIN q = 1..Len(q) /\ DOMAIN r = 1..Len(q)+1
      /\ \A i \in 1..Len(q) : r[i+1] = q[i]
  OBVIOUS
<1>2. PICK i \in DOMAIN q, j \in DOMAIN q : i < j /\ q[i] = t /\ q[j] = u
  BY DEF Ahead
<1>3. /\ i+1 \in DOMAIN r /\ j+1 \in DOMAIN r /\ i+1 < j+1
      /\ r[i+1] = t /\ r[j+1] = u
  BY <1>1, <1>2
<1> QED
  BY <1>3 DEF Ahead

(* __listPop keeps the order of the nodes that stay in the list.            *)
LEMMA PopOrder ==
  ASSUME NEW S, NEW q \in Seq(S), q # <<>>, NEW t, NEW u,
         Ahead(q, t, u), t # Head(q)
  PROVE  Ahead(Tail(q), t, u)
<1> DEFINE r == Tail(q)
<1>1. /\ Len(q) \in Nat \ {0} /\ DOMAIN q = 1..Len(q) /\ Head(q) = q[1]
      /\ DOMAIN r = 1..Len(q)-1
      /\ \A i \in 1..Len(q)-1 : r[i] = q[i+1]
  OBVIOUS
<1>2. PICK i \in DOMAIN q, j \in DOMAIN q : i < j /\ q[i] = t /\ q[j] = u
  BY DEF Ahead
<1>3. i # 1 /\ j # 1
  BY <1>1, <1>2
<1>4. /\ i-1 \in 1..Len(q)-1 /\ j-1 \in 1..Len(q)-1 /\ i-1 < j-1
      /\ (i-1)+1 = i /\ (j-1)+1 = j
  BY <1>1, <1>2, <1>3
<1>5. r[i-1] = t /\ r[j-1] = u
  BY <1>1, <1>2, <1>4
<1> QED
  BY <1>1, <1>4, <1>5 DEF Ahead

-----------------------------------------------------------------------------
(* Only the clock takes a RUNNING thread off the processor: no other        *)
(* operation makes the running thread READY.                                *)

(* In a step that leaves the order of the waiting threads as it is, and     *)
(* preempts nobody who is not queued up behind them, ExpiredBehind stays.   *)
LEMMA OrderKept ==
  ASSUME RRInv, RRNext,
         \A t, u \in Threads :
           /\ status[t] = "READY" /\ status'[t] = "READY"
           /\ Ahead(thdReadyList, t, u) \/ u \in Preempted
           => Ahead(thdReadyList', t, u)
  PROVE  ExpiredBehind'
<1>1. expired' = [t \in Threads |-> IF status[t] = "READY" /\ status'[t] = "READY"
                                    THEN expired[t] \cup Preempted
                                    ELSE {}]
  BY DEF RRNext
<1> SUFFICES ASSUME NEW t \in Threads, NEW u \in Threads, u \in expired'[t]
             PROVE  Ahead(thdReadyList', t, u)
  BY DEF ExpiredBehind, Ahead
<1>2. status[t] = "READY" /\ status'[t] = "READY" /\ u \in expired[t] \cup Preempted
  BY <1>1
<1>3. Ahead(thdReadyList, t, u) \/ u \in Preempted
  BY <1>2 DEF RRInv, ExpiredBehind
<1> QED
  BY <1>2, <1>3

(* The clock's step: the running thread goes to the tail, behind everyone   *)
(* who waits, and the head is dispatched.                                   *)
LEMMA ClockKeepsOrder ==
  ASSUME RRInv, RRNext, IntrTimer
  PROVE  ExpiredBehind'
<1> USE DEF RRInv, ThreadInv
<1>1. /\ cur \in Threads /\ status[cur] = "RUNNING"
      /\ status \in [Threads -> Status]
      /\ thdReadyList \in Seq(Threads)
      /\ Range(thdReadyList) = {t \in Threads : status[t] = "READY"}
  BY DEF TypeOK, OneRunning, NoPanic, ReadyListExact
<1>2. CASE SliceGoesOn
  <2>1. thdReadyList' = thdReadyList /\ status' = status /\ Preempted = {}
    BY <1>1, <1>2 DEF SliceGoesOn, Preempted
  <2> QED
    BY <2>1, OrderKept
<1>3. CASE SliceUsedUp
  <2> DEFINE q == Append(thdReadyList, cur)
  <2>1. /\ thdReadyList' = Tail(q)
        /\ status' = [[status EXCEPT ![cur] = "READY"] EXCEPT ![Head(q)] = "RUNNING"]
    BY <1>1, <1>3 DEF SliceUsedUp, Schedule, Dispatch
  <2>2. q \in Seq(Threads) /\ q # <<>> /\ Head(q) \in Threads
    <3>1. q \in Seq(Threads) /\ Len(q) # 0
      BY <1>1
    <3> HIDE DEF q
    <3> QED
      BY <3>1
  <2>3. status'[Head(q)] = "RUNNING"
    BY <1>1, <2>1, <2>2
  <2>4. ASSUME NEW t \in Threads, NEW u \in Threads,
               status[t] = "READY", status'[t] = "READY",
               Ahead(thdReadyList, t, u) \/ u \in Preempted
        PROVE  Ahead(thdReadyList', t, u)
    <3>1. t \in Range(thdReadyList) /\ t # Head(q)
      BY <1>1, <2>3, <2>4
    <3>2. u \in Preempted => u = cur
      BY DEF Preempted
    <3>3. Ahead(q, t, u)
      BY <1>1, <2>4, <3>1, <3>2, AppendOrder
    <3> HIDE DEF q
    <3> QED
      BY <2>1, <2>2, <3>1, <3>3, PopOrder
  <2> QED
    BY <2>4, OrderKept
<1> QED
  BY <1>2, <1>3 DEF IntrTimer

(* A thread that blocks takes only itself and the head out of the order.    *)
LEMMA BlockKeepsOrder ==
  ASSUME RRInv, RRNext, cur # Main, NEW stat \in Blockings, ThdBlock(stat)
  PROVE  ExpiredBehind'
<1> USE DEF RRInv, ThreadInv
<1>1. /\ cur \in Threads /\ status[cur] = "RUNNING" /\ status[Main] = "READY"
      /\ status \in [Threads -> Status]
      /\ thdReadyList \in Seq(Threads)
      /\ Range(thdReadyList) = {t \in Threads : status[t] = "READY"}
  BY ThreadAssumption DEF TypeOK, OneRunning, NoPanic, ReadyListExact, MainRunnable
<1>2. stat \notin {"RUNNING", "READY"}
  BY DEF Blockings
<1>3. thdReadyList # <<>>
  BY <1>1, ThreadAssumption DEF Range
<1>4. /\ thdReadyList' = Tail(thdReadyList)
      /\ status' = [[status EXCEPT ![cur] = stat] EXCEPT ![Head(thdReadyList)] = "RUNNING"]
  BY <1>1, <1>2, <1>3 DEF ThdBlock, Schedule, Dispatch
<1>5. Head(thdReadyList) \in Threads
  BY <1>1, <1>3
<1>6. status'[Head(thdReadyList)] = "RUNNING" /\ status'[cur] # "READY"
  BY <1>1, <1>2, <1>4, <1>5
<1>7. Preempted = {}
  BY <1>6 DEF Preempted
<1>8. ASSUME NEW t \in Threads, NEW u \in Threads,
             status'[t] = "READY", Ahead(thdReadyList, t, u)
      PROVE  Ahead(thdReadyList', t, u)
  BY <1>1, <1>3, <1>4, <1>6, <1>8, PopOrder
<1> QED
  BY <1>7, <1>8, OrderKept

(* A thread that is woken goes to the head, a new one to the tail: neither  *)
(* changes the order of the others.                                         *)
LEMMA AdmissionKeepsOrder ==
  ASSUME RRInv, RRNext, NEW x \in Threads,
         (ThdUnblock(x) /\ status[x] \in Blockings) \/ Enlist(x)
  PROVE  ExpiredBehind'
<1> USE DEF RRInv, ThreadInv
<1>1. /\ cur \in Threads /\ status[cur] = "RUNNING"
      /\ status \in [Threads -> Status]
      /\ thdReadyList \in Seq(Threads)
      /\ Range(thdReadyList) = {t \in Threads : status[t] = "READY"}
      /\ Range(thdList) = {t \in Threads : status[t] # "FREE"}
  BY DEF TypeOK, OneRunning, NoPanic, ReadyListExact, ThdListComplete
<1>2. /\ status' = [status EXCEPT ![x] = "READY"]
      /\ thdReadyList' \in {<<x>> \o thdReadyList, Append(thdReadyList, x)}
      /\ x # cur
  <2>1. CASE ThdUnblock(x) /\ status[x] \in Blockings
    BY <1>1, <2>1 DEF ThdUnblock, MayWakeUp, WakeUp, Blockings
  <2>2. CASE Enlist(x)
    BY <1>1, <2>2 DEF Enlist
  <2> QED
    BY <2>1, <2>2
<1>3. Preempted = {}
  BY <1>1, <1>2 DEF Preempted
<1>4. \A t, u \in Threads : Ahead(thdReadyList, t, u) => Ahead(thdReadyList', t, u)
  BY <1>1, <1>2, AppendOrder, PushOrder
<1> QED
  BY <1>3, <1>4, OrderKept

(* Every step keeps the invariant.                                          *)
LEMMA RRStep == RRInv /\ [RRNext]_rr_vars => RRInv'
<1> SUFFICES ASSUME RRInv, [RRNext]_rr_vars PROVE RRInv'
  OBVIOUS
<1>1. CASE UNCHANGED rr_vars
  <2>1. UNCHANGED thread_vars /\ expired' = expired
    BY <1>1 DEF rr_vars
  <2>2. ThreadInv'
    BY <2>1, ThreadStep DEF RRInv
  <2>3. thdReadyList' = thdReadyList
    BY <2>1 DEF thread_vars
  <2> QED
    BY <2>1, <2>2, <2>3 DEF RRInv, ExpiredBehind, Ahead
<1>2. CASE RRNext
  <2>1. ThreadInv'
    BY <1>2, ThreadStep DEF RRInv, RRNext
  <2>2. expired' \in [Threads -> SUBSET Threads]
    <3>1. cur \in Threads /\ Preempted \subseteq Threads
      BY DEF RRInv, ThreadInv, TypeOK, Preempted
    <3> QED
      BY <1>2, <3>1 DEF RRNext, RRInv
  <2>3. ExpiredBehind'
    <3>1. CASE IntrTimer
      BY <1>2, <3>1, ClockKeepsOrder
    <3>2. CASE ThdBlockReturn \/ IntrDisable \/ IntrEnable
      <4>1. thdReadyList' = thdReadyList /\ status' = status
        BY <3>2 DEF ThdBlockReturn, IntrDisable, IntrEnable
      <4>2. Preempted = {}
        BY <4>1 DEF Preempted, RRInv, ThreadInv, TypeOK, OneRunning, NoPanic
      <4> QED
        BY <1>2, <4>1, <4>2, OrderKept
    <3>3. ASSUME cur # Main, NEW stat \in Blockings, ThdBlock(stat)
          PROVE  ExpiredBehind'
      BY <1>2, <3>3, BlockKeepsOrder
    <3>4. ASSUME NEW x \in Threads,
                 (ThdUnblock(x) /\ status[x] \in Blockings) \/ Enlist(x)
          PROVE  ExpiredBehind'
      BY <1>2, <3>4, AdmissionKeepsOrder
    <3> QED
      BY <1>2, <3>1, <3>2, <3>3, <3>4
         DEF RRNext, Next, ClientStep, StartThread, ProcessExecute
  <2> QED
    BY <2>1, <2>2, <2>3 DEF RRInv
<1> QED
  BY <1>1, <1>2

(* Whoever lost the processor while t waits is behind t in the ready list,  *)
(* whatever is woken and pushed to its head (thread.c:137, 174).            *)
THEOREM RRInvariant == RRSpec => []RRInv
<1>1. RRInit => RRInv
  BY ThreadInit DEF RRInit, RRInv, ExpiredBehind
<1> QED
  BY <1>1, RRStep, PTL DEF RRSpec

(* While a thread is READY every other thread uses up a slice at most once: *)
(* nobody the clock sent to the tail overtakes it (thread.c:135-147).       *)
THEOREM OneSliceForEach == RRSpec => OneSliceEach
<1>1. RRInv /\ [RRNext]_rr_vars =>
        [\A t \in Threads \ {cur} :
           status'[t] = "READY" => expired[t] \cap Preempted = {}]_rr_vars
  <2> SUFFICES ASSUME RRInv, NEW t \in Threads, NEW u \in expired[t]
               PROVE  u \notin Preempted
    OBVIOUS
  <2>1. u \in Threads /\ Ahead(thdReadyList, t, u)
    BY DEF RRInv, ExpiredBehind
  <2>2. u \in Range(thdReadyList)
    BY <2>1 DEF Ahead, Range
  <2>3. status[u] = "READY" /\ status[cur] = "RUNNING"
    BY <2>2 DEF RRInv, ThreadInv, TypeOK, ReadyListExact, OneRunning, NoPanic
  <2> QED
    BY <2>3 DEF Preempted
<1> QED
  BY <1>1, RRInvariant, PTL DEF RRSpec, OneSliceEach
=============================================================================
