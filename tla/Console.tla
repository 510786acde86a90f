------------------------------- MODULE Console -------------------------------
(***************************************************************************)
(* Printing (src/device/console.c, src/lib/kernel/print.asm) under the      *)
(* console lock, on the locks of Sync.tla and the threads of Thread.tla.    *)
(* The clock may come in between any two accesses to the screen and to the  *)
(* registers of the CRT controller.                                         *)
(***************************************************************************)
EXTENDS Sync

CONSTANTS Text,        \* what each thread prints: NL, and other characters
          NL, Blank,
          Cols, Rows,  \* of the screen, 80 and 25 in the code
          Base         \* how many values a byte has, 256

Cells == Cols * Rows

ASSUME ConsoleAssumption ==
  /\ {Cols, Rows, Base} \subseteq Nat \ {0}
  /\ Rows > 1 /\ (Cells - Cols) % 2 = 0  \* the roll moves two cells at a time
  /\ Base * Base >= Cells + Cols
  /\ \A t \in Threads : Text[t] \in Seq(Range(Text[t]) \ {Blank})
  /\ MaxNest = 1 /\ \E console \in Locks : Locks = {console}

VARIABLES
  screen,  \* the characters on the screen
  cursor,  \* the cursor registers of the CRT controller, hi and lo
  index,   \* which of the two its data port stands for
  left,    \* what is still to be printed of the text of each thread
  at,      \* where in __printchar a thread is
  bx,      \* the cursor in a thread's bx, hi and lo
  edge     \* how far a thread that rolls the screen has come (its edi, then ebx)

con_vars == <<screen, cursor, index, left, at, bx, edge>>
vars == <<sync_vars, con_vars>>

Word(b) == b.hi * Base + b.lo
Bytes(n) == [hi |-> (n \div Base) % Base, lo |-> n % Base]

ConsoleInit ==
  /\ SyncInit
  /\ screen = [c \in 0..Cells - 1 |-> Blank]
  /\ cursor = Bytes(0) /\ index = "hi"
  /\ left = [t \in Threads |-> <<>>]
  /\ at = [t \in Threads |-> "idle"]
  /\ bx = [t \in Threads |-> Bytes(0)]
  /\ edge = [t \in Threads |-> 0]

-----------------------------------------------------------------------------
(* __printchar, by the running thread, one access to the screen or to the   *)
(* CRT controller at a time.  The cursor is read, the character written and *)
(* the cursor set, byte by byte; the colours are left out.                  *)

Goes(from, to) ==
  /\ At("run") /\ left[cur] # <<>> /\ at[cur] = from
  /\ at' = [at EXCEPT ![cur] = to]
  /\ UNCHANGED sync_vars

Select(from, to, which) == /\ Goes(from, to) /\ index' = which
                           /\ UNCHANGED <<screen, cursor, left, bx, edge>>

In(from, to, which) == /\ Goes(from, to)
                       /\ bx' = [bx EXCEPT ![cur][which] = cursor[index]]
                       /\ UNCHANGED <<screen, cursor, index, left, edge>>

Out(from, to, which, rest) ==
  /\ Goes(from, to)
  /\ cursor' = [cursor EXCEPT ![index] = bx[cur][which]]
  /\ left' = [left EXCEPT ![cur] = rest]
  /\ UNCHANGED <<screen, index, bx, edge>>

Put(s, n, char) == IF char # NL /\ n \in DOMAIN s THEN [s EXCEPT ![n] = char] ELSE s

(* The next position: at the next line when the character is a line feed or *)
(* the screen is full.                                                      *)
Line(n) == n - (n % Cols) + Cols

Onward(n, char) ==
  LET beyond == IF char # NL THEN n + 1 ELSE n
  IN IF char = NL \/ beyond >= Cells THEN Line(beyond) ELSE beyond

(* The screen is rolled when there is no next line.                         *)
Write ==
  /\ LET n == Word(bx[cur])
         char == Head(left[cur])
         next == Onward(n, char)
     IN /\ Goes("write", IF next < Cells THEN "selectHi2" ELSE "move")
        /\ screen' = Put(screen, n, char)
        /\ bx' = [bx EXCEPT ![cur] = Bytes(next)]
  /\ UNCHANGED <<cursor, index, left, edge>>

(* rep movsd, which an interrupt may halt between two double words: two     *)
(* cells take what stands a line below them.                                *)
Moved(s, e) == [c \in DOMAIN s |-> IF c \in {e, e + 1} THEN s[c + Cols] ELSE s[c]]

Move ==
  /\ Goes("move", IF edge[cur] + 2 < Cells - Cols THEN "move" ELSE "clear")
  /\ screen' = Moved(screen, edge[cur])
  /\ edge' = [edge EXCEPT ![cur] = edge[cur] + 2]
  /\ UNCHANGED <<cursor, index, left, bx>>

(* .cleanlastline.  A mutant of Cleared: the last line stays.               *)
ClearedNot(s, e) == s

Cleared(s, e) == [s EXCEPT ![e] = Blank]

Clear ==
  /\ LET more == edge[cur] + 1 < Cells
     IN /\ Goes("clear", IF more THEN "clear" ELSE "selectHi2")
        /\ edge' = [edge EXCEPT ![cur] = IF more THEN edge[cur] + 1 ELSE 0]
        /\ bx' = [bx EXCEPT ![cur] = IF more THEN bx[cur] ELSE Bytes(Cells - Cols)]
  /\ screen' = Cleared(screen, edge[cur])
  /\ UNCHANGED <<cursor, index, left>>

PrintChar ==
  \/ Select("idle", "readHi", "hi") \/ In("readHi", "selectLo", "hi")
  \/ Select("selectLo", "readLo", "lo") \/ In("readLo", "write", "lo")
  \/ Write \/ Move \/ Clear
  \/ Select("selectHi2", "setHi", "hi") \/ Out("setHi", "selectLo2", "hi", left[cur])
  \/ Select("selectLo2", "setLo", "lo") \/ Out("setLo", "idle", "lo", Tail(left[cur]))

(* __consolePrintStr, and the like: acquire, print, release.  A mutant of   *)
(* LockConsole: the screen is used without the lock, as main.c:46 and 56 do. *)
LockNothing == UNCHANGED sync_vars

LockConsole == CallAcquire

ConsolePrint ==
  /\ At("run") /\ cur # Main /\ depth[cur] = 0 /\ left[cur] = <<>>
  /\ LockConsole
  /\ left' = [left EXCEPT ![cur] = Text[cur]]
  /\ UNCHANGED <<screen, cursor, index, at, bx, edge>>

ConsoleRelease == left[cur] = <<>> /\ CallRelease /\ UNCHANGED con_vars

Quietly(A) == A /\ UNCHANGED con_vars

ConsoleNext ==
  \/ ConsolePrint \/ PrintChar \/ ConsoleRelease
  \/ Quietly(Interrupt) \/ Quietly(Wake) \/ Quietly(MainStep) \/ Quietly(SyncStep)

(* A slice is long enough for a thread to get on, so a thread that runs     *)
(* again and again takes its steps (SF), and main() sets IF in the end      *)
(* (main.c:25).  That a lock is given back is not assumed: it follows from  *)
(* the steps of __printchar.                                                *)
ConsoleFairness ==
  /\ SF_vars(Quietly(Interrupt))
  /\ WF_vars(Quietly(Wake))
  /\ SF_vars(Quietly(MainStep /\ intr = "OFF" /\ intr' = "ON"))
  /\ \A t \in Threads :
       SF_vars(cur = t /\ (PrintChar \/ ConsoleRelease \/ Quietly(SyncStep)))

ConsoleSpec == ConsoleInit /\ [][ConsoleNext]_vars /\ ConsoleFairness

-----------------------------------------------------------------------------
(* Nothing of the text s between i and j is seen on the screen.             *)
Unseen(s, i, j) == \A k \in i + 1 .. j - 1 : s[k] = NL

Begins(c) == \E t \in Threads : \E i \in DOMAIN Text[t] :
               c = Text[t][i] /\ c # NL /\ Unseen(Text[t], 0, i)

Ends(c) == \E t \in Threads : \E i \in DOMAIN Text[t] :
             c = Text[t][i] /\ c # NL /\ Unseen(Text[t], i, Len(Text[t]) + 1)

(* d may stand behind c: it is the next character of the same text, or      *)
(* begins a text when c ends one.                                           *)
Follows(c, d) ==
  \/ Ends(c) /\ Begins(d)
  \/ \E t \in Threads : \E i, j \in DOMAIN Text[t] :
       /\ i < j /\ c = Text[t][i] /\ d = Text[t][j] /\ NL \notin {c, d}
       /\ Unseen(Text[t], i, j)

(* A roll has moved the cells from edge to the end of a line up, or drops   *)
(* them: until it has overwritten them they are seen, but count no more.    *)
Torn == {c \in DOMAIN screen :
           \E t \in Threads : /\ at[t] \in {"move", "clear"}
                              /\ c \in edge[t] .. edge[t] + Cols - 1}

(* Whatever the clock did between the accesses of __printchar, what is on   *)
(* the screen are whole texts, one after the other; while it is rolled,     *)
(* with a torn line in between that is left out here.                       *)
TextsWhole ==
  LET seen == [c \in DOMAIN screen |-> IF c \in Torn THEN Blank ELSE screen[c]]
  IN \A c, d \in DOMAIN screen :
       /\ c < d /\ Blank \notin {seen[c], seen[d]}
       /\ \A e \in c + 1 .. d - 1 : seen[e] = Blank
       => Follows(seen[c], seen[d])

(* When nobody is inside __printchar the cursor is on the screen, and there *)
(* is nothing at or behind it.                                              *)
CursorAtEnd ==
  (\A t \in Threads : at[t] = "idle") =>
    /\ Word(cursor) < Cells
    /\ \A c \in Word(cursor) .. Cells - 1 : screen[c] = Blank
=============================================================================
