------------------------------ MODULE Interrupt ------------------------------
(***************************************************************************)
(* How the kernel boots and how interrupts reach it: __initAll (init.c) with *)
(* __initIdt (interrupt.c), the entry and exit of an interrupt              *)
(* (prointrhdl.asm), and the words of the kernel stacks through which       *)
(* threads are interrupted, switched (switch.asm), started (thread.c) and   *)
(* sent to ring 3 (process.c).                                              *)
(*                                                                         *)
(* A step of the processor is one stretch of code between the points where  *)
(* an interrupt can be taken; eip names the place.  Which thread is next is *)
(* left open: Thread.tla models the scheduler.                              *)
(***************************************************************************)
EXTENDS Pic, MemPool, Sequences, Functions

CONSTANTS Main, Threads, Procs,
          Lines,       \* the lines of the 8259A pair that devices raise
          Exceptions,  \* the exceptions that the code of threads runs into
          MemSizes,    \* the sizes of memory, in pages, a machine may have
          StackBound   \* bound on the words of a kernel stack that an
                       \* exception may still be taken on

(* The stub of vector 0x0c pushes a zero although the processor has pushed   *)
(* an error code; the stubs that push none although the processor does not  *)
(* either are those of reserved vectors.                                    *)
CpuErrorCode == {8, 10, 11, 12, 13, 14, 17}
StubKnows == {8, 10, 11, 13, 14, 17, 24, 26, 27, 29, 30}

ASSUME InterruptAssumption ==
  /\ Procs \subseteq Threads \ {Main} /\ Main \in Threads
  /\ Lines \subseteq 0..15
  /\ Exceptions \subseteq {vec \in 0..31 : vec \in CpuErrorCode <=> vec \in StubKnows}
  /\ MemSizes \subseteq usedMem + 1 .. Pages4G - 1

VARIABLES
  boot,      \* how many calls of InitOrder have returned
  pic,       \* the two 8259A: m and s
  hdlr,      \* _intrhdlprog
  memPages,  \* memSize in __initMem, 0 outside
  cur,       \* the thread on whose stack esp is
  regs,      \* the registers but esp
  stack,     \* the words in use on each kernel stack, the top first
  phase,     \* history: which values a thread's own code has in its registers
  served     \* history: what was taken last, and its handler

vars == <<boot, pic, hdlr, memPages, cur, regs, stack, phase, served>>

General == {"eax", "ecx", "edx", "ebx", "ebp", "esi", "edi"}
CalleeSaved == {"ebx", "ebp", "esi", "edi"}
Segments == {"gs", "fs", "es", "ds"}
Registers == General \cup Segments \cup {"eip", "cs", "eflags"}

(* Words: selectors of ring 0, ring 3 and the screen, IF set, zero, and what *)
(* a C function left.                                                       *)
K == <<"K">>    U == <<"U">>    Video == <<"video">>    On == <<"IF">>    Zero == <<"0">>
Scratch == <<"scratch">>

(* Two functions together; where both are defined, the first.               *)
f ++ g == [x \in DOMAIN f \cup DOMAIN g |-> IF x \in DOMAIN f THEN f[x] ELSE g[x]]

At(place) == regs["eip"] = <<place>>

(* The registers of t's own code: all zero in a new process, then two sets  *)
(* in turn; in the second, a thread of ring 0 is inside __printchar.        *)
Own(t, k) == [r \in General |-> CASE k = 1 -> Zero
                                 [] k = 2 -> <<t, r>>
                                 [] k = 3 -> <<t, r, "second">>]
Printing(t) == t \notin Procs /\ phase[t] = 3

(* The registers in new are loaded, the others stay.                        *)
With(new) == [r \in Registers |-> IF r \in DOMAIN new THEN new[r] ELSE regs[r]]

Init ==
  /\ boot = 0
  /\ pic = [m |-> [icw |-> 0, base |-> 8, mask |-> {}, irr |-> {}, isr |-> {}, link |-> 4],
            s |-> [icw |-> 0, base |-> 112, mask |-> {}, irr |-> {}, isr |-> {}, link |-> 2]]
  /\ hdlr = [v \in 0..47 |-> "none"]
  /\ memPages = 0
  /\ cur = Main
  /\ regs = [r \in Registers |-> IF r \in Segments \cup {"cs"} THEN K
                                 ELSE IF r = "eip" THEN <<"boot">> ELSE Zero]
  /\ stack = [t \in Threads |-> <<>>]
  /\ phase = [t \in Threads |-> 0]
  /\ served = [line |-> "none", by |-> "none"]

-----------------------------------------------------------------------------
(* Booting: __initAll and main(), with IF clear.                            *)

(* A mutant of InitOrder: the clock is registered before the IDT.           *)
InitOrderTimerFirst == <<"initTimer", "initIdt", "initMem", "initThreadMulti",
                         "initKeyboard", "startThreads", "intrEnable">>

InitOrder == <<"initIdt", "initTimer", "initMem", "initThreadMulti",
               "initKeyboard", "startThreads", "intrEnable">>

Calls(f) == /\ At("boot") /\ InitOrder[boot + 1] = f
            /\ boot' = boot + 1

(* __initPic: ICW1 to the control port of a chip, then ICW2 to ICW4 and its *)
(* mask to the data port.  The chips do not see each other's words.         *)
Initialized(c, icw2, icw3, ocw1) ==
  Data(Data(Data(Data(Control(c, 17), icw2), icw3), 1), ocw1)

(* A mutant of intrSpecify: its loop goes one too far, behind the table.    *)
intrSpecifyPastEnd == [v \in 0..48 |-> "general"]

intrSpecify == [v \in 0..47 |-> "general"]

InitIdt ==
  /\ Calls("initIdt")
  /\ hdlr' = intrSpecify
  /\ pic' = [m |-> Initialized(pic.m, 32, 4, 254),  \* vectors from 0x20, only line 0 open
             s |-> Initialized(pic.s, 40, 2, 255)]
  /\ UNCHANGED <<memPages, cur, regs, stack, phase, served>>

registerIntr(vec, function) == hdlr' = [hdlr EXCEPT ![vec] = function]

InitTimer ==
  /\ Calls("initTimer") /\ registerIntr(32, "timer")
  /\ UNCHANGED <<pic, memPages, cur, regs, stack, phase, served>>

InitKeyboard ==
  /\ Calls("initKeyboard") /\ registerIntr(33, "keyboard")
  /\ UNCHANGED <<pic, memPages, cur, regs, stack, phase, served>>

(* __initMem: the loader has left the size of memory at 0x700.              *)
InitMem ==
  /\ At("boot") /\ InitOrder[boot + 1] = "initMem" /\ memPages = 0
  /\ memPages' \in MemSizes
  /\ UNCHANGED <<boot, pic, hdlr, cur, regs, stack, phase, served>>

InitMemReturn ==
  /\ Calls("initMem") /\ memPages # 0
  /\ memPages' = 0
  /\ UNCHANGED <<pic, hdlr, cur, regs, stack, phase, served>>

InitThreadMulti ==
  /\ Calls("initThreadMulti")
  /\ UNCHANGED <<pic, hdlr, memPages, cur, regs, stack, phase, served>>

(* __createThread writes a struct thdStack, which __switchTo pops.          *)
ThdStackOrder == <<"ebp", "ebx", "edi", "esi", "eip", "unused", "function", "funcArg">>

thdStack(t) ==
  [ebp |-> Zero, ebx |-> Zero, edi |-> Zero, esi |-> Zero, eip |-> <<"thdKernel">>,
   unused |-> Zero, function |-> IF t \in Procs THEN <<"startProcess">> ELSE <<"own">>,
   funcArg |-> <<t, "arg">>]

createThread(t) == [i \in 1..8 |-> thdStack(t)[ThdStackOrder[i]]]

StartThreads ==
  /\ Calls("startThreads")
  /\ stack' = [t \in Threads |-> IF t = Main THEN stack[t] ELSE createThread(t)]
  /\ UNCHANGED <<pic, hdlr, memPages, cur, regs, phase, served>>

IntrEnable ==
  /\ Calls("intrEnable")
  /\ regs' = With([eflags |-> On, eip |-> <<"own">>])
  /\ UNCHANGED <<pic, hdlr, memPages, cur, stack, phase, served>>

Booting ==
  \/ InitIdt \/ InitTimer \/ InitMem \/ InitMemReturn \/ InitThreadMulti
  \/ InitKeyboard \/ StartThreads \/ IntrEnable

-----------------------------------------------------------------------------
(* Taking an interrupt or an exception, and returning from it.              *)

(* What the stub pushes last comes first.                                   *)
SaveOrder == <<"edi", "esi", "ebp", "esp", "ebx", "edx", "ecx", "eax",
               "gs", "fs", "es", "ds">>

ErrorCode(vec) ==
  (IF vec \in StubKnows THEN <<>> ELSE <<Zero>>)
    \o (IF vec \in CpuErrorCode THEN << <<"error">> >> ELSE <<>>)

Ring3Stack(cs) == IF cs = U THEN << <<"esp">>, U >> ELSE <<>>

Saved(vec) ==
  << <<"vector">> >>
    \o [i \in 1..12 |-> IF SaveOrder[i] = "esp" THEN <<"esp">> ELSE regs[SaveOrder[i]]]
    \o ErrorCode(vec)
    \o <<regs["eip"], regs["cs"], regs["eflags"]>> \o Ring3Stack(regs["cs"])

(* Mutants of Sent: the EOI is left to the handler, which sends none; only  *)
(* the slave is told.                                                       *)
SentNot(p) == p

SentToSlave(p) == [p EXCEPT !.s = Control(@, 32)]

(* OCW2 to the slave and the master, before the handler is called.          *)
Sent(p) == [m |-> Control(p.m, 32), s |-> Control(p.s, 32)]

(* The processor's and the stub's part: the gate clears IF.                 *)
Enter(vec, line, p) ==
  /\ stack' = [stack EXCEPT ![cur] = Saved(vec) \o @]
  /\ pic' = Sent(p)
  /\ LET loaded == With([eip |-> <<hdlr[vec]>>, cs |-> K, eflags |-> Zero])
     IN regs' = [r \in Registers |-> IF r \in General THEN Scratch ELSE loaded[r]]
  /\ served' = [line |-> line, by |-> hdlr[vec]]
  /\ UNCHANGED <<boot, hdlr, memPages, cur, phase>>

Acknowledges == regs["eflags"] = On /\ Asking(pic) # {}

External ==
  /\ Acknowledges
  /\ LET line == Winner(pic)
     IN Enter(Vector(pic, line), IF line = 0 THEN "clock" ELSE "other",
              Acknowledged(pic, line))

(* Noise on an open line that is gone when the processor acknowledges comes *)
(* as line 7 of the chip and is not in service.                             *)
Spurious ==
  /\ regs["eflags"] = On /\ Asking(pic) = {} /\ Open(pic.m) # {}
  /\ Enter(Vector(pic, 7), "spurious", pic)

Exception ==
  /\ At("own") \/ At("timer")
  /\ Len(stack[cur]) <= StackBound
  /\ \E vec \in Exceptions : Enter(vec, "exception", pic)

(* A mutant of PopOrder: the segments are popped in the order of the pushes. *)
PopOrderSwapped == <<"vecNo", "edi", "esi", "ebp", "espDummy", "ebx", "edx", "ecx",
                     "eax", "ds", "es", "fs", "gs", "err_code", "eip", "cs", "eflags">>

(* __intrext: what is popped into what; vecNo, esp and err_code are skipped. *)
PopOrder == <<"vecNo", "edi", "esi", "ebp", "espDummy", "ebx", "edx", "ecx", "eax",
              "gs", "fs", "es", "ds", "err_code", "eip", "cs", "eflags">>

IntrExit ==
  /\ At("intrext")
  /\ LET s == stack[cur]
         popped == [r \in Range(PopOrder) |-> s[CHOOSE i \in 1..17 : PopOrder[i] = r]]
     IN /\ regs' = With(popped)
        /\ stack' = [stack EXCEPT ![cur] =
                       SubSeq(s, 18 + Len(Ring3Stack(popped["cs"])), Len(s))]
  /\ UNCHANGED <<boot, pic, hdlr, memPages, cur, phase, served>>

-----------------------------------------------------------------------------
(* Switching and the code of threads.                                       *)

(* Calls __switchTo(cur, next): the arguments, the return address and four  *)
(* registers are pushed, esp goes to the next thread's kStack, and the same *)
(* is popped there.  A process is not followed further if it is switched    *)
(* off before it has left __startProcess.                                   *)
SwitchTo(next, return) ==
  LET pushed == [stack EXCEPT ![cur] =
                   <<regs["ebp"], regs["ebx"], regs["edi"], regs["esi"],
                     <<return>>, <<"cur">>, <<"next">> >> \o @]
      s == pushed[next]
  IN /\ cur \in Procs => phase[cur] > 0
     /\ cur' = next
     /\ regs' = With([ebp |-> s[1], ebx |-> s[2], edi |-> s[3], esi |-> s[4],
                      eip |-> s[5], eax |-> Scratch, ecx |-> Scratch, edx |-> Scratch])
     /\ stack' = [pushed EXCEPT ![next] = SubSeq(s, 6, Len(s))]
     /\ UNCHANGED <<boot, pic, hdlr, memPages, phase, served>>

Goto(place) == regs' = With([eip |-> <<place>>])

Drop(n) == stack' = [stack EXCEPT ![cur] = SubSeq(@, n + 1, Len(@))]

(* __intrTimer: the slice goes on or __schedule picks a thread.             *)
TimerGoesOn == At("timer") /\ Goto("intrext")
               /\ UNCHANGED <<boot, pic, hdlr, memPages, cur, stack, phase, served>>

TimerSchedules == At("timer") /\ \E next \in Threads : SwitchTo(next, "timerReturn")

TimerReturn == At("timerReturn") /\ Drop(2) /\ Goto("intrext")
               /\ UNCHANGED <<boot, pic, hdlr, memPages, cur, phase, served>>

(* __intrGeneral and __intrKeyboard.                                        *)
Handler == (At("general") \/ At("keyboard")) /\ Goto("intrext")
           /\ UNCHANGED <<boot, pic, hdlr, memPages, cur, stack, phase, served>>

(* __thdKernel: set IF and call the function, which it finds as arguments   *)
(* of its own.                                                              *)
ThdKernel ==
  /\ At("thdKernel")
  /\ LET s == stack[cur]
     IN /\ regs' = With([eflags |-> On, eip |-> s[2]])
        /\ stack' = [stack EXCEPT ![cur] = << <<"return">>, s[3]>> \o s]
  /\ UNCHANGED <<boot, pic, hdlr, memPages, cur, phase, served>>

(* struct intrStack, from low to high.                                      *)
IntrStackOrder ==
  <<"vecNo", "edi", "esi", "ebp", "espDummy", "ebx", "edx", "ecx", "eax",
    "gs", "fs", "es", "ds", "err_code", "eip", "cs", "eflags", "esp", "ss">>

procStack ==
  [r \in {"vecNo", "espDummy", "err_code"} |-> <<"unwritten">>] ++
  [r \in General \cup {"gs"} |-> Zero] ++
  [ds |-> U, es |-> U, fs |-> U, eip |-> <<"own">>, cs |-> U, eflags |-> On,
   esp |-> <<"esp">>, ss |-> U]

(* __startProcess builds a struct intrStack where kStack said, above what   *)
(* is in use, and returns through it as if it had been interrupted.         *)
StartProcess ==
  /\ At("startProcess")
  /\ stack' = [stack EXCEPT ![cur] = [i \in 1..19 |-> procStack[IntrStackOrder[i]]]]
  /\ phase' = [phase EXCEPT ![cur] = 1]
  /\ Goto("intrext")
  /\ UNCHANGED <<boot, pic, hdlr, memPages, cur, served>>

(* A thread's own code: it computes and, in ring 0, prints (__printchar     *)
(* loads gs and leaves it so); in ring 0 it may also clear IF, and then set *)
(* it again or block, but not while it prints.                              *)
Work ==
  /\ At("own") /\ regs["eflags"] = On
  /\ LET k == IF phase[cur] = 2 THEN 3 ELSE 2
     IN /\ phase' = [phase EXCEPT ![cur] = k]
        /\ regs' = [r \in Registers |->
                     IF r \in General THEN Own(cur, k)[r]
                     ELSE IF r = "gs" /\ k = 3 /\ cur \notin Procs THEN Video ELSE regs[r]]
  /\ UNCHANGED <<boot, pic, hdlr, memPages, cur, stack, served>>

SetIF(from, to) ==
  /\ At("own") /\ regs["cs"] = K /\ regs["eflags"] = from /\ ~Printing(cur)
  /\ regs' = With([eflags |-> to])
  /\ UNCHANGED <<boot, pic, hdlr, memPages, cur, stack, phase, served>>

Block == /\ At("own") /\ regs["eflags"] = Zero
         /\ \E next \in Threads : SwitchTo(next, "blockReturn")

BlockReturn ==
  /\ At("blockReturn") /\ Drop(2)
  /\ regs' = With([r \in General \ CalleeSaved |->
                     IF phase[cur] = 0 THEN Zero ELSE Own(cur, phase[cur])[r]]
                  ++ [eflags |-> On, eip |-> <<"own">>])
  /\ UNCHANGED <<boot, pic, hdlr, memPages, cur, phase, served>>

Code ==
  \/ TimerGoesOn \/ TimerSchedules \/ TimerReturn \/ Handler \/ IntrExit
  \/ ThdKernel \/ StartProcess \/ Work \/ SetIF(On, Zero) \/ SetIF(Zero, On)
  \/ Block \/ BlockReturn \/ Exception

(* A request is acknowledged before the next instruction.                   *)
Processor == Booting \/ External \/ (~Acknowledges /\ Code)

Raise(line) ==
  /\ pic' = Raised(pic, line) /\ pic' # pic
  /\ UNCHANGED <<boot, hdlr, memPages, cur, regs, stack, phase, served>>

Next == Processor \/ Spurious \/ \E line \in Lines : Raise(line)

(* The processor goes on, the 8253 raises line 0 again and again, and code  *)
(* that runs with IF clear does not meet exceptions for ever: every such    *)
(* stretch in src/ ends.                                                    *)
Fairness ==
  /\ WF_vars(Processor) /\ WF_vars(Raise(0))
  /\ SF_vars(TimerGoesOn \/ TimerSchedules)
  /\ SF_vars(SetIF(Zero, On) \/ Block)

Spec == Init /\ [][Next]_vars /\ Fairness

-----------------------------------------------------------------------------
(* The type invariant of booting, the controllers and the saved flow.       *)
InterruptTypeOK ==
  /\ boot \in 0..Len(InitOrder)
  /\ pic.m \in Chip /\ pic.s \in Chip
  /\ hdlr \in [0..47 -> {"none", "general", "timer", "keyboard"}]
  /\ memPages \in MemSizes \cup {0}
  /\ cur \in Threads
  /\ DOMAIN regs = Registers
  /\ phase \in [Threads -> 0..3]

(* Whatever interrupts, exceptions and switches come in between, the code   *)
(* of a thread finds its own registers, selectors and stack again: what     *)
(* INTR_VERTOR, __switchTo, __createThread and __startProcess put on a      *)
(* stack is what __intrext, __switchTo and __thdKernel take off it.  (The   *)
(* entry does not load the selectors of ring 0, so a thread that blocked    *)
(* may go on with those of ring 3, which reach the same memory.)            *)
OwnContext ==
  /\ At("own") /\ phase[cur] > 0 =>
       /\ \A r \in General : regs[r] = Own(cur, phase[cur])[r]
       /\ IF cur \in Procs
          THEN regs["cs"] = U /\ regs["gs"] = Zero
          ELSE regs["cs"] = K /\ (Printing(cur) => regs["gs"] = Video)
       /\ \A r \in {"ds", "es", "fs"} : regs[r] = U \/ (regs[r] = K /\ cur \notin Procs)
       /\ stack[cur] = IF cur \in Procs \cup {Main} THEN <<>>
                       ELSE << <<"return">>, <<cur, "arg">>, Zero, <<"own">>, <<cur, "arg">> >>
  /\ At("blockReturn") /\ phase[cur] > 0 =>
       \A r \in CalleeSaved : regs[r] = Own(cur, phase[cur])[r]

(* No interrupt is left in service when interrupts are on: the EOI is sent  *)
(* before the handler, which may switch to a thread that never comes back   *)
(* to that handler; nothing then holds back the clock.                      *)
NothingInService ==
  regs["eflags"] = On => pic.m.isr = {} /\ pic.s.isr = {}

(* __intrTimer handles the clock and nothing else; what cannot be masked    *)
(* (interrupt.c:219) and the exceptions go to __intrGeneral; no other line  *)
(* gets through.                                                           *)
HandlerOfLine ==
  <<served.line, served.by>> \in
    {<<"none", "none">>, <<"clock", "timer">>,
     <<"spurious", "general">>, <<"exception", "general">>}

(* For every size of memory, the pools __initMem lays out fit.              *)
PoolLayout == memPages # 0 => PoolsFit(memPages)

(* After boot the clock interrupts again and again, whatever the threads do *)
(* with IF and whoever runs: what Thread.tla's fairness takes for granted.  *)
ClockComes == []<>At("timer")
=============================================================================
