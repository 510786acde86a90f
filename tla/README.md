# A verification project for pre-hoo

pre-hoo is a small x86 kernel: a boot loader, interrupt handling with the 8259A
and the 8253, page allocation, preemptive threads, semaphores and locks, user
processes, a console and a keyboard. There is one processor; concurrency comes
from the clock interrupt, which may take the processor from a thread between
any two instructions that run with the interrupt flag (IF) set.

This directory holds TLA+ models of the kernel, TLC configurations that check
them on small instances, and TLAPS proofs about them for every instance.
Source files are named relative to the repository (`src/...`).

## 1. The system

| part | source | state | operations | interacts with |
|---|---|---|---|---|
| scheduler | `src/thread/thread.c`, `switch.asm` | `thdReadyList`, `thdList`, pcbs (status, ticks, saved stack) | `__startThread`, `__schedule`, `__switchTo`, `__thdBlock`, `__thdUnblock` | called by the clock, by semaphores, by `main` |
| clock | `src/device/timer.c` | `ticks`, the 8253 | `__setFrequency`, `__intrTimer` | calls `__schedule` when a slice is used up |
| semaphores, locks | `src/thread/sync.c` | value, waiters, holder, holderRepeatNr | `__semaDown/Up`, `__lockAcquire/Release` | block and unblock threads; used by memory and console |
| processes | `src/usr/process.c`, `tss.c` | page directory, user bitmap, `tss.esp0`, CR3 | `__processExecute`, `__startProcess`, `__processActivate` | created on the scheduler's lists; activated by `__schedule` |
| interrupt flag, entry | `src/kernel/interrupt.c`, `prointrhdl.asm` | IF, IDT, handler table | `__intrEnable/Disable/SetStatus`, entry stubs | everything |
| bitmaps | `src/lib/kernel/bitmap.c` | bits | `__btmpInit/Scan/ScanTest/Set` | memory pools, user address space |
| page allocation | `src/kernel/memory.c` | pools `pkernel`, `puser`, `vkernel`, page tables | `__kpageAlloc`, `__upageAlloc`, `__apageAlloc` | takes pool locks; used by threads and processes |
| lists | `src/lib/kernel/list.c` | prev/next pointers | push, append, pop, remove, find | ready list, thread list, waiters |
| console, printing | `src/device/console.c`, `src/lib/kernel/print.asm` | console lock, VGA cursor | `__consolePrint*`, `__print*` | a lock; I/O ports |
| keyboard | `src/device/keyboard.c` | modifier flags, extended prefix | `__intrKeyboard` | prints |
| assertions | `src/kernel/debug.c` | - | `__panic` | stops the machine |
| boot | `src/boot/*`, `src/kernel/main.c`, `init.c` | - | load kernel, memory map, paging, `__initAll` | - |

What is hard about it:

* the clock against everything: the ready list, the statuses, CR3, `tss.esp0`,
  IF and the saved stacks must agree after every switch, and there are three
  ways of leaving a thread and of coming back to it;
* `__lockAcquire` reads `holder` unprotected, locks are recursive, and
  `__semaUp` only makes the unit available: anyone may take it before the
  woken waiter runs;
* no idle thread: `main` must always be runnable;
* `__thdUnblock` pushes to the head of the ready list;
* boundaries of bitmaps, what happens when a pool is empty, and byte arithmetic;
* a page table is taken from `pkernel` by threads that hold only `puser.lock`;
* five descriptions of one stack layout in three files, and an EOI that is sent
  before the handler, which may never return to this thread;
* printing reads and writes the cursor registers byte by byte, and rolls the
  screen cell by cell, with IF set.

What makes each part correct: the scheduler - the ready list is exact, one
thread runs, in its own address space, and every READY thread runs in the end;
locks - exclusion, no lost wake-up, no failed ASSERT, a recursive mutex to
their users; bitmaps and pools - a page is handed out once, inside its pool,
and only an empty pool stops the kernel; interrupt entry - a return frame of the right
shape; keyboard - the modifier flags tell what is pressed, and a key prints its own
character; console - no two writers, and whole texts also while it rolls.

`PROJECT.json` lists the components and their status, the hazards with their
lines, the runs, the mutants, and for each definition the lines it models.

## 2. What is modelled

### Grain

A stretch of code that runs with IF clear cannot be interleaved with anything,
so it is one action up to the next change of thread or of IF. Code that runs
with IF set is cut where another thread could see or change what the next
action uses: at each statement of `sync.c` on a lock's fields, each pointer
statement of `list.c`, each read or write of a byte of `pkernel`'s bitmap, each
write of a cell of the screen and each access to the cursor registers. What only
the holder of a lock or the thread itself uses (a virtual bitmap under its pool's
lock, a pcb that is in no list yet) is read and written in one action. An
`ASSERT` that fails leads to `__panic`, which clears IF and loops: the state
`panic`.

### `Thread` - scheduler, clock handler, switch, dispatch of processes

| variable | code |
|---|---|
| `intr` | IF |
| `cur` | the pcb of the current stack, `__thdAddr()` |
| `status`, `ticks` | pcb fields; `"FREE"` is a pcb that does not exist yet |
| `thdReadyList`, `thdList` | the lists, as sequences |
| `frame` | where the saved stack of a thread resumes: in `__thdKernel` (`"fresh"`), in the clock handler (`"intr"`), in `__thdBlock` (`"block"`); `"live"` while it executes |
| `old` | `oldStatus` in `__thdBlock` |
| `cr3`, `esp0` | the page directory loaded, the stack in the TSS; `NULL` is the kernel's directory and the zeroed TSS |
| `panic` | the kernel has stopped |

`Schedule` is `__schedule` (requeue a thread whose slice is used up, assert,
pop, activate, switch), used by `IntrTimer` (`__intrTimer`) and by `ThdBlock`
(`__thdBlock` up to the switch); `ThdBlockReturn` is the rest of `__thdBlock`
when the thread is dispatched again. `ThdUnblock`, `StartThread`,
`ProcessExecute`, `IntrDisable` and `IntrEnable` are the functions of those
names. The caller is left open (`ClientStep`): any thread calls any of them at
any time, as far as the code's rules let it. The rules come from the source:
threads are started only by `main()` before it sets IF (`main.c:20-25`), `main()`
never blocks afterwards (`main.c:37`), and only blocked threads are unblocked.

The creation of a thread (page, pcb, first frame) is one action: until it is
linked into the lists nobody else can see the pcb. Its allocation is left out
here; the locks it takes are those of `Sync`.

### `RoundRobin` - a history of preemptions

Adds, for each READY thread, the threads the clock has preempted since it
waits, to state a bound on the wait.

### `Sync` - semaphores and locks

Extends `Thread`; replaces its open client by threads that acquire and release
locks. `pc` says at which statement of `sync.c` a thread is, `want` with which
lock, `outer` is `oldStatus` in `__semaDown`, `depth` counts the acquisitions
it has to give back. `value`, `waiters`, `holder`, `holderRepeatNr` are the
fields of the lock. The bodies of `__semaDown` and `__semaUp` run with IF
clear. As in `src/`, a thread uses one lock at a time (the pool locks and the
console lock are never nested in each other), and `main()` uses locks only
while it boots.

### `Mutex` - what a lock promises

An abstract recursive mutex: owner and nesting. `Sync` is shown to implement it
with `owner <- holder` and the nesting derived from `holderRepeatNr`.

### `Bitmap` - the scan, and pages taken from one bitmap

`btmpScan` is the three phases of `__btmpScan`: first byte that is not full, first
free bit in it, then the count of free bits in a row, as a recursive function
over the positions. The domain has one bit more than the bitmap: the first bit
of what follows in memory, because the code reads it. `Valloc` scans and sets
(`__valloc`; `__palloc` is the case of one page), `Mark` is the bit that
`__apageAlloc` sets.

### `Timer` - programming the 8253

The three port writes of `__setFrequency`, and of the 8253 (external) that it
takes the low and the high byte of the reload value in turn.

### `Memory` - page allocation

| variable | code |
|---|---|
| `phys` | the bitmaps of `pkernel` (`"K"`) and `puser` (`"U"`) |
| `virt` | `vkernel.vaddrBtmp`, and each process's `usrvAddr.vaddrBtmp` |
| `pte`, `pde` | the page tables (the kernel's part is shared) and the user part of the page directories |
| `holder` | the pool locks, as the mutexes that `Sync` implements |
| `call` | the allocation a thread is in: place, kind, pages asked for and done, the frame and the byte it holds |
| `raced` | history: a page table was taken while a thread under the other lock was between its first read and its store in `pkernel`'s bitmap |

`kpageAlloc`, `upageAlloc` and `apageAlloc` are the three entries; `Valloc` is
`__valloc` (under the pool's lock, on a bitmap nobody else touches, so one
action, with `Bitmap`'s `btmpScan`). `__palloc` uses `pkernel`'s bitmap without
its lock when `__pageTableAdd` calls it, so it is cut at each access to a byte:
`ScanByte` is a turn of the loop at `bitmap.c:31`, which reads a byte, `ScanBit` a
turn of the loop at `bitmap.c:56`, which reads it again for each bit, `SetLoad`
and `SetStore` the two halves of the `|=` (what gcc emits without `-O`). A byte
that another thread fills between line 31 and line 56 sends the bit index one
behind the byte, where the shifted mask is 0. `PageTableAdd` and `NewPageTable`
are `__pageTableAdd`.

`__palloc` never returns NULL: on a full bitmap the ASSERT at `bitmap.c:49` stops
the kernel before the -1, so the test at `memory.c:225` and its callers' tests
for NULL (`memory.c:291`, `408`) have no action. `__valloc`'s tests (`memory.c:172`,
`187`) do: a request for two pages finds none in a bitmap that has free bits but
no two in a row, and the call ends with nothing.

`MemoryAssumption` asks that the user bitmap is larger than the user pool: `src/`
has 32768 frames in a pool at most and 753592 pages in `usrvAddr`.
`upageAlloc` has no caller in `src/`; a process that has its stack page may call
it here.

`raced` is why the properties of frames can be stated: a race corrupts the pools,
and run `memory_race` shows it. The others say that nothing ELSE goes wrong;
those of pages hold in spite of it. The model stops at a frame with two uses, or
of a bit behind the pool, because what follows is garbage. In `src/` no
caller allocates kernel pages with IF set except through `__processExecute`,
which a thread may call.

### `MemPool` - where the pools lie

`initMemPool` is the arithmetic of `__initMemPool`, with `freePage` cut to 16
bits; `PoolsFit` is what it has to satisfy. It is used by `Interrupt`, whose
boot picks a size of memory.

### `Pic` and `Interrupt` - boot, interrupt entry, stacks

`Pic` is the pair of 8259A (external): initialization words, mask, requests,
what is in service, priority. `Interrupt` has the processor's registers (values
are symbols), the words of each thread's kernel stack, the handler table and the
boot.

* Boot: `InitOrder` is `__initAll` and `main`; `Initialized` what the five bytes
  that `__initPic` writes to each of the chips make of it. `__initConsole` and
  `__initTss` change nothing that is modelled.
* Entry: `Saved` is what the processor and the stub of a vector push, `Sent` the
  EOI to both chips before the handler; exit: `IntrExit` is `__intrext` and
  `iret`, in ring 0 or to ring 3.
* `SwitchTo` is `__switchTo` with its arguments and return address on the stack;
  who is next is left open, since `Thread` is the scheduler. `createThread` and
  `procStack` are the first frames that `__createThread` and `__startProcess`
  write, word by word in the order of the structs.
* A thread's own code (`Work`) puts values of its own in its registers, so that
  a register lost on the way is seen; `SetIF` and `Block` are the paths through
  `__intrDisable`, `__thdBlock` and `__intrSetStatus`.

Restrictions: exceptions are taken only in a thread's own code and in the clock
handler; `InterruptAssumption` admits only vectors whose stub agrees with the
processor about the error code, which leaves out 0x0c (its stub pushes a zero
although the processor pushes a code: the return frame would be off by one word)
and reserved ones that `src/` never raises; a process is not
followed if it is switched off inside `__startProcess`, where `process.c:18`
reads a `kStack` that such a switch has changed; memory is larger than the
2 MB that `usedMem` subtracts. The entry does not load the selectors of ring 0,
so a thread that blocked may go on with those of ring 3 in ds, es and fs; both
are flat, and `OwnContext` allows it.

### `Queues` and `List` - lists

`Queues` promises sequences and that a node is in one list at most. `List` is
`list.c`: `next` and `prev` of every node and sentinel, one action per
statement of `__listInsert` and `__listRemove`, `off` the thread that runs with
IF clear. `Walk` is what a traversal sees: the longest way along `next` over
nodes only, at most as long as there are nodes, so that it is defined on a torn list, too.
`ListAssumption`: the nodes are finitely many and no sentinel is one of them.
`ListAppend` may be called with IF set (`__startThread` does);
`ListPush` and `ListPop` read the head's neighbour before IF is cleared, and
their callers have cleared it (`OffFor`). The mutant that lets anybody call
them breaks the refinement.

### `Console` - printing under the console lock

Extends `Sync`: `at` says between which two accesses of `__printchar` a thread
is, `bx` the cursor it has read, `left` what is still to be printed; `screen`,
`cursor` and `index` are the screen and the registers of the CRT controller.
`Write` puts one character in its cell and works out the next position in
registers; a roll is one action for each double word that `rep movsd` moves
(`Move`: two cells; an interrupt may come in between) and one for each cell that
`.cleanlastline` clears (`Clear`), and `edge` is how far it has come. Colours,
backspace and the digits of `__printint` are left out. `main.c:46` and `56` print
without the lock: that is the mutant `LockNothing`, and with it texts are mixed.
`ConsoleAssumption`: one lock, which a thread takes once (`console.c` uses no
other), two bytes hold every cursor up to the line below the screen, the cells
that a roll moves are whole double words (1920 in `src/`), and texts have no
character that looks like an empty cell. `TextsWhole` speaks of
neighbours: of two characters with only blank cells between them, the second
follows the first in one text, or a text ends with the first and a text begins
with the second. While the screen rolls this cannot hold of every cell: the
characters from `edge` up to a line further on stand where they were, although
they have been moved up a line already or belong to the line that is dropped.
`Torn` is these cells, which the roll is about to overwrite, and `TextsWhole`
takes them for blank.

### `Keyboard` - scan codes

The five flags of `keyboard.c` and one handler that reads one byte. The keyboard
(external) sends the bytes of keys that are pressed, repeat and are released;
several bytes may wait. `KeyboardAssumption`: a key has a make code below 0x80,
with or without the prefix 0xe0, and none whose break code would be the prefix.
The rest is history, kept by the sender's side and never by the handler: `sent`
are the scan codes whose bytes still wait, `last` is the key whose make code has
just been read to its end, `down` which keys are down as far as the bytes have
been read, `shared` the keys of pairs of which one was released while the other
was down, `capsOn` the parity of the presses of Caps Lock. So the properties
compare what the handler made of the bytes with what was sent.

In today's boot the handler never runs: `__initPic` masks IRQ1
(`interrupt.c:185`), and `Interrupt` has it masked. `Keyboard` is the handler as
it will be used once the line is opened.

### Mutants

A definition introduced by "a mutant of X" is X with a mistake somebody could
make; no specification uses it. Each property of a passing run is violated when
the mutant that `PROJECT.json` names for it takes the place of X.

## 3. Runs

| run | module, configuration | instance | shows |
|---|---|---|---|
| `thread_safety` | `MCRoundRobin` | main, one kernel thread, two processes; slices of 0 and 1 ticks; 67 674 states | the seven scheduler invariants, `OneSliceEach`, and `ReadyRuns` under fairness |
| `sync_safety` | `MCSync` | main, two threads, a process, one lock, nesting 2; 164 471 states | exclusion, holder, waiters, wake-ups, no panic, refinement of `Thread` and of `Mutex` |
| `console` | `MCConsole` | main and two threads that print texts of two characters for ever (one ends a line), a screen of 3 lines of 3, bytes of 4 values; 74 070 states | `TextsWhole`, `CursorAtEnd`, and `LockGoesOn` under fairness |
| `interrupts` | `MCInterrupt` | main, a kernel thread, a process; lines 0 (open) and 12 (masked), page faults, spurious interrupts; 126 sizes of memory; stacks up to 24 words before a fault; 167 568 states | `OwnContext`, `NothingInService`, `HandlerOfLine`, `PoolLayout`, and `ClockComes` under fairness |
| `memory` | `MCMemory` | two kernel threads, two processes; bytes of 2 bits, pools of 4 frames (two bytes, `pkernel`) and 2 (`puser`), 4 user pages, page tables of 2 entries, up to 2 pages a call, up to symmetry; 690 039 states | `FramesExact`, `PagesExact`, `LocksHeldByCalls`, `StopsOnlyWhenFull`, `MappedInBitmap` |
| `memory_race` | `MCMemory`, `MCMemoryRace.cfg` | one kernel thread, one process | VIOLATED: one frame for a heap page and a page table |
| `list` | `MCList` | two threads, two lists, three nodes, up to symmetry; 22 937 states | `BothWays`, refinement of `Queues` |
| `keyboard` | `MCKeyboard` | seven control keys, four others and a cursor key; three keys down, three bytes waiting; 2.7 million states | `FlagsTold`, `PrefixTold`, `CharTold` |
| `keyboard_shared` | `MCKeyboard`, `MCKeyboardShared.cfg` | same | VIOLATED: one of two Shift keys is released, and the flag is clear while the other is down |
| `bitmap` | `MCBitmap` | two bytes of four bits and the bit behind them: all contents | first fit, no page handed out twice |
| `bitmap_past_end` | `MCBitmap`, `MCBitmapPastEnd.cfg` | same | VIOLATED: a range that ends behind the bitmap |
| `timer_reload` | `Timer` | the code's value 1193180/100 | VIOLATED: the 8253 gets 0x009b, not 0x2e9b |

Why the bounds are enough. Two processes and a kernel thread besides `main` give
every kind of switch (process to process, to kernel thread, and back) and ready
lists with two waiting threads, so the head and the tail differ. Slices of 0 and
1 ticks make a thread be preempted at its first or second tick; longer slices
add states in which only the counter differs. With three competing threads one
can hold the lock, one sleep and one barge. In `console` two threads compete:
the temporal check does not finish with more. Its screen is small enough that a
character fills the last cell and that a line feed rolls, with two lines to move
so that a roll has several steps of each kind, and its bytes that the cursor
needs both registers. Two bytes of four bits have a byte boundary, a range that
crosses it, and a boundary at the end; the byte width is a parameter. In
`memory` `pkernel` has a byte boundary, each pool runs empty, also between the
two pages of a call, two threads wait for each lock, and both processes need
page tables while kernel threads allocate. In `interrupts` there is one thread
of each kind, so every pair of kinds is switched; 24 words let an exception hit
the clock handler of a ring-3 interrupt and of a ring-0 one. The sizes of memory
lie around those at which a count of `__initMemPool` rounds, first wraps at 16
bits, or is largest. In `list` three nodes give an inner node, and two lists a
node that changes its list. In `keyboard` both keys of a pair can be down with a
third key, and a prefix can wait alone or behind another byte. The safety
properties of all modules are also proved for all instances (section 5).

Deadlock is checked in all runs but these: in the memory and bitmap runs every
page may be taken and the kernel stop; in the timer run the programming ends.

### Properties worth a remark

* `OneSliceEach`: while a thread is READY, the clock preempts every other
  thread at most once. So the wait of a READY thread is bounded by one slice of
  each, although wake-ups overtake it: a preempted thread goes to the tail, and
  a thread that blocks keeps what is left of its slice (`ticks` is refilled
  only at preemption). The mutant that refills it lets two threads that wake
  each other starve a third (`ReadyRuns`).
* `NoLostWakeup`: value 1 with sleepers only while a woken thread is on its way.
* `LockGoesOn` says that the lock goes to SOME waiter again and again. One
  waiter may starve: the releasing thread may take the lock again before the
  woken one runs (`__semaUp` does not hand over), and the code makes no other
  promise.
* `FramesExact` relates three bookkeepings: bitmaps, page tables and directories,
  and calls under way; `PagesExact` the virtual bitmaps with the page tables.
* `MappedInBitmap`: the scan may include the page behind the bitmap
  (`bitmap_past_end`) and `__valloc` takes what it finds, but that page is never
  mapped: `vkernel` has as many pages as `pkernel` has frames (`memory.c:117`),
  and they run out first, unless a race has given one frame to two pages; a
  process has its last page, the stack, before it asks for others. The mutant
  that gives the heap's bitmap fewer pages than the pool has frames breaks it.
* `PoolLayout` holds because of a defect: the cut to 16 bits (`memory.c:57`)
  loses memory beyond 258 MB, and without it the bitmaps would reach the pcb of
  `main`.
* `ClockComes` is what `Thread` takes for granted with `SF(IntrTimer)`.
* `FlagsTold` excepts pairs of which one key was released while the other was
  down: the code clears the flag they share, and `FlagsAreKeys`, without the
  exception, is violated (`keyboard_shared`).
* `PrefixTold` goes both ways: a handler that never sets the flag violates it as
  one that never clears it does, and the byte that follows must be joined to its
  own prefix. `CharTold` ties the character to the key whose make code was read.
* `ThreadSafety` is `Thread`'s whole specification: locks only use the
  scheduler's API as its client may.

## 4. Fairness

* `SF(IntrTimer)`: IRQ0 stays latched in the 8259A while IF is clear, so a clock
  interrupt that is possible again and again is taken.
* `WF(ThdBlockReturn)`: a dispatched thread executes.
* `SF(IntrEnable)`: each `__intrDisable` in `src/` is followed by its
  `__intrSetStatus` on a path of bounded length, but for the switches that
  `__thdBlock` makes in between; those make it strong.
* `Console`: per thread, its next step in `__printchar` or in `sync.c` is taken if
  it runs again and again (a slice is longer than a step); `main()` sets IF
  (`main.c:25`). Nothing is assumed about which thread the scheduler picks, nor
  that a lock is given back: that follows from the steps of printing.
* `Interrupt`: the processor goes on (weak); the 8253 raises line 0 again and
  again (weak); the clock handler ends and code that has cleared IF sets it or
  blocks, exceptions notwithstanding (strong: no stretch of `src/` with IF clear
  faults for ever). `ClockComes` needs nothing about the threads beyond that.

## 5. Proofs

All are checked by TLAPS for every value of the constants that the named
assumption of the module admits; TLC evaluates the assumptions in each run.

| module | proves about | under |
|---|---|---|
| `ThreadProof` | `Thread`, `RoundRobin`, and appending to, pushing to and popping from a duplicate-free sequence | `ThreadAssumption`: main is a thread and no process, priorities fit `uint8`, `NULL` is no thread |
| `SyncProof` | `Sync`, `Mutex` | and `SyncAssumption`: the bound on nesting is positive |
| `ConsoleProof` | `Console` | and `ConsoleAssumption` (section 2) |
| `ListProof` | `List`, `Queues` | `ListAssumption` (section 2) |
| `BitmapProof` | `Bitmap` | `BitmapAssumption`: width and length are positive |
| `MemoryProof` | `Memory` | `MemoryAssumption`: processes are threads, sizes are positive, the user bitmap is larger than the user pool |
| `KeyboardProof` | `Keyboard` | `KeyboardAssumption`: keys are make codes |
| `InterruptProof` | `Interrupt`, `Pic`, `MemPool` | `InterruptAssumption`: processes are threads other than main, there are sixteen lines, vectors have the right stub, memory is larger than 2 MB and smaller than 4 GB |

`ThreadProof`: `ThreadInv`, the conjunction of the invariants, is inductive.
None of the parts is by itself: that `__schedule` finds a thread (`NoPanic`)
needs `MainRunnable` and that the ready list holds every READY thread; that a
preempted thread is not already listed needs `ReadyListExact` with
`OneRunning`; that the frame popped is resumable needs `FramesResumable` for
threads off the processor. The step is split as the code is: `Dispatch` and
`Schedule` have lemmas of their own, used for the clock and for blocking.
Theorems: `ThreadInvariant`, and from it `ThreadTypes`, `ReadyListIsExact`,
`OneThreadRuns`, `AddressSpaceIsOwn`, `FramesAreResumable`,
`ThdListIsComplete`, `SchedulerNeverPanics`.

Of `RoundRobin`, `OneSliceEach` follows from where the preempted threads stand.
`RRInv` adds `ExpiredBehind` to `ThreadInv`: whoever lost the processor to the
clock while t waits is READY and behind t in the ready list. So it is not
dispatched before t, whatever is pushed to the head. Theorems: `RRInvariant`,
`OneSliceForEach`, an action property.

`SyncProof`: `SyncInv` adds to the properties what a place in `sync.c` tells
about the nesting (`PlaceInv`), about IF (`IntrInv`: the loop of `__semaDown`
runs with IF clear, and only there a thread blocks), about the boot (`BootInv`),
and about the lock's fields (`HolderInv`). `ThreadInv` is part of it, because
`__semaUp` relies on the waiter being blocked and in no other list, and the
proof of `Thread`'s step lemma is reused through the simulation of `Thread`.
Theorems: `SyncInvariant`, `SyncTypes`, `LocksExclude`, `LocksNeverPanic`,
`WakeupsAreKept`, `WaitersAreExact`, `HolderIsTold`, `SyncImplementsThread` and
`SyncImplementsMutex` (both refinements: initial states, and each step is a
step or a stutter).

`ConsoleProof`: `ConsoleInv` adds to `SyncInv` who prints and what of its text is
left (`Turns`, `LeftOfText`). A thread in `__printchar` has the lock, and
`LocksExclude`'s invariant leaves room for one (`OnePrinter`), so
what it has read of the cursor is still the cursor, place by place (`CursorInv`,
with `Word(Bytes(n)) = n`). For the screen the invariant must say more than
`TextsWhole`: which character may stand last on it, given how much of the text
under way is written (`Behind`), so that the next one follows it (`ScreenInv`).
During a roll it is the screen as it will be when the roll is over (`Rolled`, from
`edge` on) of which this is said: no `Move` and no `Clear` changes that one
(`MoveRolls`, `ClearRolls`), and what the screen shows outside `Torn` is a part of
it, the cells behind `Torn` one line lower, which gives `TextsWhole` at each step
(`SeenWhole`). That `sync.c`'s steps are
harmless is a lemma about how a thread moves through them (`Moves`). Theorems:
`ConsoleInvariant`, `TextsAreWhole`, `CursorStaysAtEnd`.

`ListProof`: `ListInv` says that one thread at a time is inside an insertion or
removal, what each call under way knows (`InsertOK`: its node is in no list, and
the neighbour it was called with is the tail, or still the first cell because IF
is clear; `RemoveOK`: its node is still in the list), and that the
pointers are those `nx` and `pv` of soundly linked lists, but for the statements
already executed (`Half`). So each statement but the last is easy, and all the
work is in four lemmas without time: the cells of sound lists are
different (`CellsApart`), the pointers that all four statements leave are sound
for the longer lists (`InsertSound`), the same for removal (`RemoveSound`), and on
sound lists `Walk` finds what they contain, backwards too (`WalkIs`; the least
place where two ways part, as in `BitmapProof`). The abstract operation happens
at `Restore`. Theorems: `ListInvariant`, `ListsReadBothWays`,
`ListImplementsQueues` (initial states, and each step is a step or a stutter).

`BitmapProof`: the contract of the scan, `Scanned`: a result is free bits in a
row, the first such row, or there is none, or the bitmap is full, for
a bitmap of any size. The count of free bits is a recursive function of the
position; what is needed of it is argued by the least position at which a claim
would fail (`NatLeast`), because the library's induction is out of reach here.
Theorems: `ScanIsFirstFit`, `PagesAreHandedOutOnce` (action properties),
`BitmapTypes`. `MemoryProof` uses the contract for its three bitmaps, through
`INSTANCE`.

`MemoryProof`: `MemoryInv` says of each call under way what its place tells of
its fields (`CallOK`), that the bits of the pages it has taken are set
(`TakenOK`), and which of them it has mapped so far (`MappedOK`); of the tables,
that a mapped page has its bit set (`MappedTaken`), that a set bit is a mapped
page or that of a call (`TakenMapped`), that pages are taken from the bottom up
(`FilledUp`) and the one behind the heap's bitmap is mapped last (`HeapMapped`);
and that a lock is held by the call that is in it. These hold whatever happens to the frames. Until
two calls have raced (`~raced`) also `FramesOK`: one thread at a time is inside
`pkernel`'s bitmap, the bits it has passed are still set and the byte it has
loaded is still the byte there (`FoundOK`; `ScanStart` and `ScanMoves` follow the
scan through bytes and bits), and bits and uses agree (`UsesOK`). `MappedInBitmap`
counts: with the page behind the bitmap mapped, the heap would have one page more
than `pkernel` has frames, and no frame has two. Theorems: `MemoryInvariant`,
`MemoryTypes`, `LocksAreGivenBack`, `PagesAreExact`, `FramesAreExact`,
`OnlyFullPoolsStop`, `OnlyBitmapsAreMapped`.

`KeyboardProof`: the handler works byte by byte, so the invariant speaks of the
bytes in the port: they are whole scan codes, but for a prefix that has been read
(`PortWhole`), and these are the codes that were sent and not yet read to their
end, in their order (`PortSent`, with a witness of where each one ends). So what
the handler puts together at a last byte is the oldest code sent, which gives
`PrefixTold` at once and, with `capsOn = capsStatus`, each step of `FlagsTold` and
`CharTold`. Theorems: `KeyboardInvariant`, `FlagsAreTold`, `PrefixIsTold`,
`CharIsTold`, `ScanCodesAreWhole`.

`InterruptProof`: `InterruptInv` is `Types`, `Controllers` (the 8259A as
`__initPic` leaves them, nothing in service while IF is set, the last line went
to its handler) and the saved flow: during the boot nothing is on a stack
(`Boots`), afterwards (`Running`) the running thread `Proceeds` and each other
one `Waits`. Those two read the words of a kernel stack from the top: a thread in
its own code has an empty stack or, in ring 3, none in use (`Runs`); a handler
has the 17 or 19 words of an interrupt frame below its return addresses
(`Handles`), and if that frame is of the clock handler itself, hit by an
exception, another frame below it (`HandlesNested`); a thread that was switched
off has `__switchTo`'s words on top, and below them the clock handler's or
`__thdBlock`'s frame, or the first frame that `__createThread` wrote. That each
action keeps this is a lemma per action; that entry and exit are inverse
(`PopOrder` undoes `Saved` and `intrentry`, word by word) is what `OwnContext`
comes down to. Theorems: `InterruptInvariant`, `InterruptTypes`,
`ContextIsKept`, `NothingStaysInService`, `LinesFindHandlers`, and
`PoolsFitMemory` (the arithmetic of `__initMemPool` for each size of memory).

Only model-checked: the liveness properties (`ReadyRuns`, `LockGoesOn`,
`ClockComes`: TLAPS does not reason about fairness and `ENABLED` here). The runs
that expect a violation have no theorem: they exhibit the findings of section 6.

## 6. Findings

* `src/lib/kernel/bitmap.c:78`: the search for several pages looks one bit too far
  and may return a range whose last page is not in the bitmap; setting it
  changes what lies behind (`bitmap_past_end`).
* `src/device/timer.c:41`: `(uint8)value >> 8` is 0, so the clock runs at about
  7.7 kHz, not 100 Hz (`timer_reload`). The properties of `Thread` do not
  depend on the rate.
* `src/kernel/memory.c:261`: a page table's frame is taken from `pkernel` under
  `puser.lock`; a kernel thread between its scan and its store gets the same
  frame (`memory_race`).
* `src/device/keyboard.c:131`: the two keys of a pair share a flag, which the
  release of one clears while the other is down (`keyboard_shared`). IRQ1 is
  masked today, so nobody sees it yet.

Seen while modelling, and not shown by a run of its own: the ASSERT at
`bitmap.c:49` comes before the branch that returns -1 for a full bitmap, so that
branch, `__palloc`'s test for -1 (`memory.c:225`) and the tests for NULL that rest
on it (`memory.c:291`, `408`) are dead. Those of `__valloc` (`memory.c:172`, `187`)
are not: the scan also returns -1 when bits are free but no run of them is long
enough (`bitmap.c:77`, `98`). Further: vector 0x0c has the wrong stub
(`prointrhdl.asm:61`), `__startProcess` relies on not being switched off before
line 18 (`process.c:18`), and a page index of 0 is refused (`memory.c:396`; the
only caller asks for another).

## 7. Not modelled, and the plan

Every safety property of a passing run has its theorem. What could come next are
theorems that tie modules together:

1. That `Memory`'s use of its locks is one that `Mutex` admits, so that `Sync`,
   which implements `Mutex`, may stand below `Memory` as it stands below `Console`.
2. That switching word by word in `Interrupt` is the switch of `Thread`, with the
   kind of the saved flow as `frame`.

Left out for good: code that only copies, formats or prints
(`src/lib/string.c`, wording of messages), descriptors written once
(`__initTss`, `__initIdt`), constants and port access, the sector-level I/O of the
boot loader, the build files. The boot loader as a whole is sequential 16-bit
code that runs once; what it leaves (page tables, the size of memory) is an
initial state here. Of printing: colours, backspace, the digits of
`__printint`. Stack overflow (`magicNumber`) and hardware
faults are not modelled.
