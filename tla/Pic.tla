--------------------------------- MODULE Pic --------------------------------
(***************************************************************************)
(* The two 8259A interrupt controllers, as far as __initPic                 *)
(* (src/kernel/interrupt.c) programs them and the interrupt entry           *)
(* (src/kernel/prointrhdl.asm) ends their interrupts: cascaded, fully       *)
(* nested, edge-triggered.  This hardware is not part of the repository.    *)
(***************************************************************************)
EXTENDS Integers, Sequences, FiniteSetsExt

Weight == <<1, 2, 4, 8, 16, 32, 64, 128>>

Bits(byte) == {i \in 0..7 : (byte \div Weight[i+1]) % 2 = 1}

(* A chip: the next initialization word it waits for (0: none), its vector  *)
(* base, mask, requests, interrupts in service, and the byte of ICW3.       *)
Chip == [icw : {0, 2, 3, 4}, base : 0..255, mask : SUBSET (0..7),
         irr : SUBSET (0..7), isr : SUBSET (0..7), link : 0..255]

(* A byte to the control port: ICW1 resets the chip; 0x20 is the EOI that   *)
(* takes the interrupt of highest priority out of service.                  *)
Eoi(c) == [c EXCEPT !.isr = @ \ (IF @ = {} THEN {} ELSE {Min(@)})]

Control(c, byte) ==
  IF 4 \in Bits(byte)
  THEN [c EXCEPT !.icw = 2, !.mask = {}, !.irr = {}, !.isr = {}]
  ELSE Eoi(c)

(* A byte to the data port: the word the chip waits for, else the mask.     *)
Data(c, byte) ==
  CASE c.icw = 2 -> [c EXCEPT !.icw = 3, !.base = byte - (byte % 8)]
    [] c.icw = 3 -> [c EXCEPT !.icw = 4, !.link = byte]
    [] c.icw = 4 -> [c EXCEPT !.icw = 0]
    [] OTHER -> [c EXCEPT !.mask = Bits(byte)]

(* The unmasked lines that what is in service does not hold back.           *)
Open(c) == {i \in 0..7 \ c.mask : \A j \in c.isr : i < j}

(* The line of the master at which the slave asks, if it does.              *)
Cascade(pic) == IF pic.s.irr \cap Open(pic.s) # {} /\ pic.s.link \in Bits(pic.m.link)
                THEN {pic.s.link} ELSE {}

Asking(pic) == (pic.m.irr \cup Cascade(pic)) \cap Open(pic.m)

Raised(pic, line) == IF line < 8 THEN [pic EXCEPT !.m.irr = @ \cup {line}]
                                 ELSE [pic EXCEPT !.s.irr = @ \cup {line - 8}]

(* The processor acknowledges: the line that wins, and what becomes of it.  *)
Winner(pic) == LET i == Min(Asking(pic)) IN
  IF i \in Cascade(pic) THEN 8 + Min(pic.s.irr \cap Open(pic.s)) ELSE i

Vector(pic, line) == IF line < 8 THEN pic.m.base + line ELSE pic.s.base + line - 8

InService(c, i) == [c EXCEPT !.irr = @ \ {i}, !.isr = @ \cup {i}]

Acknowledged(pic, line) ==
  IF line < 8
  THEN [pic EXCEPT !.m = InService(@, line)]
  ELSE [pic EXCEPT !.s = InService(@, line - 8), !.m.isr = @ \cup {pic.s.link}]
=============================================================================
