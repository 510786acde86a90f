------------------------------- MODULE Thread -------------------------------
(***************************************************************************)
(* Threads, processes and the scheduler: src/thread/thread.c, switch.asm,   *)
(* the clock handler of src/device/timer.c, and what src/usr/process.c and  *)
(* tss.c do when a process is created or dispatched.                        *)
(*                                                                         *)
(* There is one processor.  Code that runs with the interrupt flag (IF)     *)
(* clear cannot be interleaved with anything, so such a stretch, up to the  *)
(* next change of thread or of IF, is one action.                           *)
(*                                                                         *)
(* The callers of the thread API are left open: the running thread calls    *)
(* any operation that the code's rules allow it (its "client").  Sync.tla   *)
(* shows that semaphores and locks are such a client.                       *)
(***************************************************************************)
EXTENDS Integers, Sequences, Functions

CONSTANTS Threads,  \* every thread and process the kernel ever creates
          Main,     \* mainThread, the boot flow turned into a thread
          Procs,    \* the threads that are user processes
          Prio,     \* pcb.priority
          NULL

ASSUME ThreadAssumption ==
  /\ Main \in Threads
  /\ Procs \subseteq Threads \ {Main}
  /\ Prio \in [Threads -> 0..255]
  /\ NULL \notin Threads

VARIABLES
  intr,          \* IF: "ON" or "OFF"
  cur,           \* __thdAddr(): the thread on whose kernel stack the CPU runs
  status,        \* pcb.status, "FREE" for a thread not yet created
  ticks,         \* pcb.ticks
  thdReadyList,  \* thdReadyList, head first
  thdList,       \* thdList
  frame,         \* what a thread's kernel stack resumes to, see Frame
  old,           \* oldStatus in the frame of a __thdBlock under way
  cr3,           \* the page directory in use: that of a process, or NULL for
                 \* the kernel's at 0x100000 (pcb.ptvAddr = NULL)
  esp0,          \* tss.esp0: whose kernel stack an interrupt from ring 3 uses
  panic          \* an ASSERT failed: the machine sits in __panic's while(1)

thread_vars == <<intr, cur, status, ticks, thdReadyList, thdList, frame, old,
                 cr3, esp0, panic>>

Blockings == {"BLOCKED", "WAITING", "HANGING"}

Status == {"FREE", "RUNNING", "READY"} \cup Blockings

(* A thread resumes: "fresh", by returning into __thdKernel; "intr", in the *)
(* clock handler, whose iret sets IF again; "block", in __thdBlock after    *)
(* __schedule, with IF clear.  "live" is a thread that is executing.        *)
Frame == {"live", "fresh", "intr", "block"}

ptvAddr(t) == IF t \in Procs THEN t ELSE NULL

(* The type invariant of the scheduler.                                     *)
TypeOK ==
  /\ intr \in {"ON", "OFF"}
  /\ cur \in Threads
  /\ status \in [Threads -> Status]
  /\ ticks \in [Threads -> 0..255]
  /\ thdReadyList \in Seq(Threads)
  /\ thdList \in Seq(Threads)
  /\ frame \in [Threads -> Frame]
  /\ old \in [Threads -> {"ON", "OFF"}]
  /\ cr3 \in Procs \cup {NULL}
  /\ esp0 \in Procs \cup {NULL}
  /\ panic \in BOOLEAN

(* The state __initAll leaves to main(): mainThread runs with IF clear and  *)
(* is in thdList (__makeMainThd); the TSS is zeroed.                        *)
Init ==
  /\ intr = "OFF"
  /\ cur = Main
  /\ status = [t \in Threads |-> IF t = Main THEN "RUNNING" ELSE "FREE"]
  /\ ticks = Prio
  /\ thdReadyList = <<>>
  /\ thdList = <<Main>>
  /\ frame = [t \in Threads |-> IF t = Main THEN "live" ELSE "fresh"]
  /\ old = [t \in Threads |-> "OFF"]
  /\ cr3 = NULL
  /\ esp0 = NULL
  /\ panic = FALSE

(* The running thread executes its own code (not the tail of __thdBlock).   *)
Live == ~panic /\ frame[cur] = "live"

(* __panic: IF is cleared and nothing ever happens again.  (The actions that *)
(* may panic say themselves what becomes of old.)                           *)
Panic ==
  /\ panic' = TRUE
  /\ intr' = "OFF"
  /\ UNCHANGED <<cur, status, ticks, thdReadyList, thdList, frame, cr3, esp0>>

-----------------------------------------------------------------------------
(* Scheduling.                                                             *)

(* Mutants of Switch: the TSS follows kernel threads too; a kernel thread    *)
(* keeps running on the page directory it finds; IF is set on every switch. *)
SwitchMovesEsp0(next, fr) ==
  /\ cur' = next
  /\ cr3' = ptvAddr(next)
  /\ esp0' = next
  /\ intr' = IF fr[next] = "block" THEN "OFF" ELSE "ON"
  /\ frame' = [fr EXCEPT ![next] = IF @ = "block" THEN "block" ELSE "live"]

SwitchBorrowsCr3(next, fr) ==
  /\ cur' = next
  /\ cr3' = IF ptvAddr(next) # NULL THEN next ELSE cr3
  /\ esp0' = IF ptvAddr(next) # NULL THEN next ELSE esp0
  /\ intr' = IF fr[next] = "block" THEN "OFF" ELSE "ON"
  /\ frame' = [fr EXCEPT ![next] = IF @ = "block" THEN "block" ELSE "live"]

SwitchSetsIntr(next, fr) ==
  /\ cur' = next
  /\ cr3' = ptvAddr(next)
  /\ esp0' = IF ptvAddr(next) # NULL THEN next ELSE esp0
  /\ intr' = "ON"
  /\ frame' = [fr EXCEPT ![next] = IF @ = "block" THEN "block" ELSE "live"]

(* __processActivate and __switchTo: load next's page directory, point the  *)
(* TSS at its kernel stack if it is a process, and resume it: __thdKernel   *)
(* and the clock handler's iret set IF at once, __thdBlock does not.        *)
Switch(next, fr) ==
  /\ cur' = next
  /\ cr3' = ptvAddr(next)
  /\ esp0' = IF ptvAddr(next) # NULL THEN next ELSE esp0
  /\ intr' = IF fr[next] = "block" THEN "OFF" ELSE "ON"
  /\ frame' = [fr EXCEPT ![next] = IF @ = "block" THEN "block" ELSE "live"]

(* A mutant of Dispatch: the thread that runs is not marked RUNNING.         *)
DispatchUnmarked(ready, st, fr) ==
  /\ thdReadyList' = Tail(ready)
  /\ status' = st
  /\ Switch(Head(ready), fr)
  /\ panic' = FALSE
  /\ UNCHANGED thdList

(* The second half of __schedule: take the head of the ready list.          *)
Dispatch(ready, st, fr) ==
  /\ thdReadyList' = Tail(ready)
  /\ status' = [st EXCEPT ![Head(ready)] = "RUNNING"]
  /\ Switch(Head(ready), fr)
  /\ panic' = FALSE
  /\ UNCHANGED thdList

(* Mutants of Schedule: a thread whose slice is used up is dropped; it is     *)
(* pushed to the head after the next one was popped; a thread that blocks   *)
(* gets a new slice.                                                        *)
ScheduleDrops(st, fr) ==
  IF thdReadyList = <<>>
  THEN Panic
  ELSE ticks' = ticks /\ Dispatch(thdReadyList, st, fr)

SchedulePushes(st, fr) ==
  IF thdReadyList = <<>>
  THEN Panic
  ELSE IF st[cur] = "RUNNING"
       THEN /\ ticks' = [ticks EXCEPT ![cur] = Prio[cur]]
            /\ Dispatch(<<Head(thdReadyList), cur>> \o Tail(thdReadyList),
                        [st EXCEPT ![cur] = "READY"], fr)
       ELSE ticks' = ticks /\ Dispatch(thdReadyList, st, fr)

ScheduleRefills(st, fr) ==
  /\ ticks' = [ticks EXCEPT ![cur] = Prio[cur]]
  /\ IF st[cur] = "RUNNING"
     THEN Dispatch(Append(thdReadyList, cur), [st EXCEPT ![cur] = "READY"], fr)
     ELSE Dispatch(thdReadyList, st, fr)

(* __schedule, called with the statuses st and the frames fr its caller     *)
(* left: a thread that is still RUNNING has used up its time slice.         *)
Schedule(st, fr) ==
  IF st[cur] = "RUNNING"
  THEN IF cur \in Range(thdReadyList)
       THEN Panic
       ELSE /\ ticks' = [ticks EXCEPT ![cur] = Prio[cur]]
            /\ Dispatch(Append(thdReadyList, cur),
                        [st EXCEPT ![cur] = "READY"], fr)
  ELSE IF thdReadyList = <<>>
       THEN Panic
       ELSE /\ ticks' = ticks
            /\ Dispatch(thdReadyList, st, fr)

(* __intrTimer, entered through an interrupt gate, which clears IF.         *)
SliceUsedUp ==
  /\ ticks[cur] = 0
  /\ Schedule(status, [frame EXCEPT ![cur] = "intr"])
  /\ UNCHANGED old

SliceGoesOn ==
  /\ ticks[cur] > 0
  /\ ticks' = [ticks EXCEPT ![cur] = @ - 1]
  /\ UNCHANGED <<intr, cur, status, thdReadyList, thdList, frame, old, cr3,
                 esp0, panic>>

IntrTimer == ~panic /\ intr = "ON" /\ (SliceUsedUp \/ SliceGoesOn)

-----------------------------------------------------------------------------
(* The thread API, called by the running thread.                           *)

IntrDisable ==
  /\ Live /\ intr = "ON"
  /\ intr' = "OFF"
  /\ UNCHANGED <<cur, status, ticks, thdReadyList, thdList, frame, old, cr3,
                 esp0, panic>>

IntrEnable ==
  /\ Live /\ intr = "OFF"
  /\ intr' = "ON"
  /\ UNCHANGED <<cur, status, ticks, thdReadyList, thdList, frame, old, cr3,
                 esp0, panic>>

(* __thdBlock up to the switch to another thread.                           *)
ThdBlock(stat) ==
  /\ Live
  /\ old' = [old EXCEPT ![cur] = intr]
  /\ Schedule([status EXCEPT ![cur] = stat], [frame EXCEPT ![cur] = "block"])

(* The rest of __thdBlock, when the thread has been dispatched again.       *)
ThdBlockReturn ==
  /\ ~panic /\ frame[cur] = "block"
  /\ intr' = old[cur]
  /\ frame' = [frame EXCEPT ![cur] = "live"]
  /\ UNCHANGED <<cur, status, ticks, thdReadyList, thdList, old, cr3, esp0,
                 panic>>

(* A mutant of WakeUp: the status is left alone.                            *)
WakeUpUnmarked(t) ==
  /\ thdReadyList' = <<t>> \o thdReadyList
  /\ UNCHANGED status

(* What __thdUnblock writes when its ASSERTs hold: t goes to the FRONT.     *)
WakeUp(t) ==
  /\ thdReadyList' = <<t>> \o thdReadyList
  /\ status' = [status EXCEPT ![t] = "READY"]

(* The ASSERTs of thread.c:167 and 170.  (Called with IF set, __thdUnblock   *)
(* may find at line 169 that another thread has woken t in between; then it *)
(* changes nothing.  Its only caller in src/ has cleared IF.)               *)
MayWakeUp(t) == status[t] \in Blockings /\ t \notin Range(thdReadyList)

ThdUnblock(t) ==
  /\ Live
  /\ IF MayWakeUp(t)
     THEN /\ WakeUp(t)
          /\ UNCHANGED <<intr, cur, ticks, thdList, frame, cr3, esp0, panic>>
     ELSE Panic
  /\ UNCHANGED old

(* A mutant of Enlist: thdList is forgotten.                                *)
EnlistUnlisted(t) ==
  /\ Live /\ status[t] = "FREE"
  /\ status' = [status EXCEPT ![t] = "READY"]
  /\ ticks' = [ticks EXCEPT ![t] = Prio[t]]
  /\ frame' = [frame EXCEPT ![t] = "fresh"]
  /\ thdReadyList' = Append(thdReadyList, t)
  /\ UNCHANGED <<intr, cur, cr3, esp0, panic, thdList, old>>

(* A new pcb is filled in and linked into both lists.                       *)
Enlist(t) ==
  /\ Live /\ status[t] = "FREE"
  /\ IF t \in Range(thdReadyList) \/ t \in Range(thdList)
     THEN Panic
     ELSE /\ status' = [status EXCEPT ![t] = "READY"]
          /\ ticks' = [ticks EXCEPT ![t] = Prio[t]]
          /\ frame' = [frame EXCEPT ![t] = "fresh"]
          /\ thdReadyList' = Append(thdReadyList, t)
          /\ thdList' = Append(thdList, t)
          /\ UNCHANGED <<intr, cur, cr3, esp0, panic>>
  /\ UNCHANGED old

(* __startThread does not clear IF around its list operations: its only     *)
(* caller, main(), has not set IF yet.                                      *)
StartThread(t) == intr = "OFF" /\ t \notin Procs /\ Enlist(t)

(* __processExecute does clear IF there, so any thread may call it.         *)
ProcessExecute(t) == t \in Procs /\ Enlist(t)

-----------------------------------------------------------------------------
(* Once main() has set IF it loops for ever (main.c:37): it never blocks,   *)
(* and so is the kernel's idle thread.                                      *)
ClientStep ==
  \/ cur # Main /\ IntrDisable
  \/ IntrEnable
  \/ cur # Main /\ \E stat \in Blockings : ThdBlock(stat)
  \/ cur # Main /\ \E t \in Threads : status[t] \in Blockings /\ ThdUnblock(t)
  \/ \E t \in Threads : StartThread(t)
  \/ \E t \in Threads : ProcessExecute(t)

Next == IntrTimer \/ ThdBlockReturn \/ ClientStep

(* IRQ0 stays latched in the 8259A while IF is clear, so a clock interrupt  *)
(* that is possible again and again is taken (SF).  Every __intrDisable is  *)
(* followed by its __intrSetStatus on a path of bounded length, except for  *)
(* the switches __thdBlock makes in between (SF again).                     *)
Fairness ==
  /\ SF_thread_vars(IntrTimer)
  /\ WF_thread_vars(ThdBlockReturn)
  /\ SF_thread_vars(IntrEnable)

Spec == Init /\ [][Next]_thread_vars

-----------------------------------------------------------------------------
(* The ready list holds exactly the READY threads, each once: the genNode   *)
(* of a thread is in one list at a time (thread.c:136, 144, 170), whatever  *)
(* the order of clock interrupts, blockings, wake-ups and creations.        *)
ReadyListExact ==
  ~panic => /\ IsInjective(thdReadyList)
            /\ Range(thdReadyList) = {t \in Threads : status[t] = "READY"}

(* The thread the stack pointer belongs to is the only one marked RUNNING,  *)
(* as __schedule's test of cur->status (thread.c:135) supposes.             *)
OneRunning == ~panic => \A t \in Threads : status[t] = "RUNNING" <=> t = cur

(* The running thread runs in its own address space, and a process that is  *)
(* interrupted in ring 3 enters the kernel on its own stack, however many   *)
(* kernel threads, which leave esp0 alone, ran in between (process.c:45-56).*)
OwnAddressSpace ==
  /\ cr3 = ptvAddr(cur)
  /\ cur \in Procs => esp0 = cur

(* IF is clear while a thread sits in the tail of __thdBlock, and a thread  *)
(* that is off the CPU always has a frame from which it can be resumed.     *)
FramesResumable ==
  /\ frame[cur] = "block" => intr = "OFF"
  /\ ~panic => /\ frame[cur] \in {"live", "block"}
               /\ \A t \in Threads \ {cur} : frame[t] # "live"

(* No ASSERT of the scheduler ever fails; in particular the ready list is   *)
(* never empty when a thread has to be found (thread.c:144): main() is.     *)
NoPanic == ~panic

(* Every thread that was created is in thdList, once.                       *)
ThdListComplete ==
  ~panic => /\ IsInjective(thdList)
            /\ Range(thdList) = {t \in Threads : status[t] # "FREE"}

(* main() is always READY or RUNNING: it is the thread that __schedule can   *)
(* fall back on.                                                            *)
MainRunnable == status[Main] \in {"READY", "RUNNING"}

(* These invariants together are inductive (ThreadProof.tla).               *)
ThreadInv ==
  /\ TypeOK
  /\ NoPanic
  /\ ReadyListExact
  /\ OneRunning
  /\ OwnAddressSpace
  /\ FramesResumable
  /\ ThdListComplete
  /\ MainRunnable

(* A READY thread runs in the end, although woken threads jump the queue:   *)
(* a thread keeps what is left of its slice when it blocks, so it cannot    *)
(* jump for ever before the clock sends it to the tail.                     *)
ReadyRuns ==
  \A t \in Threads : (status[t] = "READY") ~> (status[t] = "RUNNING")
=============================================================================
