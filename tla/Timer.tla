-------------------------------- MODULE Timer -------------------------------
(***************************************************************************)
(* How often the clock of Thread.tla ticks: __setFrequency programs channel *)
(* 0 of the 8253 (src/device/timer.c).  The 8253 takes the two bytes of the *)
(* reload value one after the other from the same port.                     *)
(***************************************************************************)
EXTENDS Integers

FREQUENCY_IRQ0    == 100
FREQUENCY_COUNTER == 1193180
VALUE             == FREQUENCY_COUNTER \div FREQUENCY_IRQ0

VARIABLES pc,     \* the next __outB of __setFrequency
          phase,  \* 8253: the byte it expects next
          latch,  \* 8253: the low byte it has got
          reload  \* 8253: the reload value, 0 before there is one

timer_vars == <<pc, phase, latch, reload>>

Init == pc = "control" /\ phase = "none" /\ latch = 0 /\ reload = 0

uint8(n) == n % 256

(* 8253: a control word with RW = 3 makes it expect the low byte.           *)
WriteControl == phase' = "low" /\ UNCHANGED <<latch, reload>>

(* 8253: a byte written to the counter's port.                              *)
WriteCounter(byte) ==
  \/ /\ phase = "low"
     /\ latch' = byte
     /\ phase' = "high"
     /\ UNCHANGED reload
  \/ /\ phase = "high"
     /\ reload' = byte * 256 + latch
     /\ phase' = "low"
     /\ UNCHANGED latch

(* timer.c:37                                                              *)
SetControl == pc = "control" /\ WriteControl /\ pc' = "low"

(* timer.c:39                                                              *)
SetLow == pc = "low" /\ WriteCounter(uint8(VALUE)) /\ pc' = "high"

(* timer.c:41: the cast binds tighter than the shift.                       *)
SetHigh == pc = "high" /\ WriteCounter(uint8(VALUE) \div 256) /\ pc' = "done"

Next == SetControl \/ SetLow \/ SetHigh

Spec == Init /\ [][Next]_timer_vars

(* timer.c:40 says that the second byte written is the high byte of the     *)
(* value: the clock then ticks FREQUENCY_IRQ0 times a second.               *)
ReloadIsValue == pc = "done" => reload = VALUE
=============================================================================
