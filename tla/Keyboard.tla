------------------------------ MODULE Keyboard ------------------------------
(***************************************************************************)
(* The keyboard handler (src/device/keyboard.c): it takes one byte of a     *)
(* scan code at each interrupt and remembers which control keys are down.   *)
(* The keyboard itself, which sends one or two bytes when a key is pressed, *)
(* repeated or released, is not part of the repository.                     *)
(***************************************************************************)
EXTENDS Integers, Sequences, FiniteSets

CONSTANTS Keys,     \* keys, by make code; + 0xe000 for those with a prefix
          MaxHeld,  \* bound on the keys held down at a time
          MaxPort   \* bound on the bytes that wait to be read

Ext == 57344  \* 0xe000

(* Make codes are positive and below 0x80; none is 0x60, whose release would *)
(* be the byte of the prefix.                                               *)
Makes == 1..127 \ {96}

ASSUME KeyboardAssumption == Keys \subseteq Makes \cup {Ext + i : i \in Makes}

VARIABLES
  ctlStatus, shiftStatus, altStatus, capsStatus, extScancode,
  printed,  \* the character the last interrupt printed, <<>> for none
  port,     \* the bytes the keyboard has sent and nobody has read
  held,     \* the keys held down
  sent,     \* history: the scan codes sent and not yet read to their end
  last,     \* history: the key whose make code the last interrupt has read to
            \* its end, 0 for none
  down,     \* history: the keys that are down, as far as has been read
  shared,   \* history: control keys released while their twin was down
  capsOn    \* history: Caps Lock has been pressed an odd number of times

flags == <<ctlStatus, shiftStatus, altStatus, capsStatus, extScancode>>
history == <<last, down, shared, capsOn>>
vars == <<flags, printed, port, held, sent, history>>

shiftLMake == 42    shiftRMake == 54
altLMake == 56      altRMake == Ext + 56
ctlLMake == 29      ctlRMake == Ext + 29
capsMake == 58

Ctls == {ctlLMake, ctlRMake}
Shifts == {shiftLMake, shiftRMake}
Alts == {altLMake, altRMake}

Init ==
  /\ ctlStatus = FALSE /\ shiftStatus = FALSE /\ altStatus = FALSE
  /\ capsStatus = FALSE /\ extScancode = FALSE
  /\ printed = <<>> /\ port = <<>> /\ held = {}
  /\ sent = <<>> /\ last = 0 /\ down = {} /\ shared = {} /\ capsOn = FALSE

-----------------------------------------------------------------------------
(* The keyboard.                                                           *)

Bytes(code) == IF code >= Ext THEN <<224, code % 256>> ELSE <<code>>

Send(code) == /\ port' = port \o Bytes(code)
              /\ Len(port') <= MaxPort
              /\ sent' = Append(sent, code)
              /\ UNCHANGED <<flags, printed, history>>

Press(k) == /\ k \notin held /\ Cardinality(held) < MaxHeld
            /\ Send(k) /\ held' = held \cup {k}

(* A key held down repeats its make code; Caps Lock is not held that long.  *)
Repeat(k) == k \in held \ {capsMake} /\ Send(k) /\ UNCHANGED held

Release(k) == k \in held /\ Send(k + 128) /\ held' = held \ {k}

-----------------------------------------------------------------------------
(* __intrKeyboard.                                                         *)

(* keymap: a character is named by its key and, for keys that have two, the *)
(* column; the control keys have none.                                      *)
Invisible == {0} \cup {29, 42, 54, 56, 58}
OneChar == {1, 14, 15, 28, 55, 57}  \* esc, backspace, tab, enter, *, space

keymap(index, shift) ==
  IF index \in Invisible THEN <<>>
  ELSE <<index, shift /\ index \notin OneChar>>

Symbols == 1..13 \cup {26, 27, 39, 40, 41, 43, 51, 52, 53}

(* A mutant of Column: Shift and Caps Lock do not cancel out.               *)
ColumnOr(code) == shiftStatus \/ (capsStatus /\ code \notin Symbols)

Column(code) == IF code \in Symbols THEN shiftStatus ELSE shiftStatus # capsStatus

Prefix ==
  /\ extScancode' = TRUE /\ printed' = <<>>
  /\ UNCHANGED <<ctlStatus, shiftStatus, altStatus, capsStatus>>

(* A mutant of Break: only the left keys are released.                      *)
BreakLeft(make) ==
  /\ ctlStatus' = (ctlStatus /\ make # ctlLMake)
  /\ shiftStatus' = (shiftStatus /\ make # shiftLMake)
  /\ altStatus' = (altStatus /\ make # altLMake)
  /\ printed' = <<>>
  /\ UNCHANGED capsStatus

Break(make) ==
  /\ ctlStatus' = (ctlStatus /\ make \notin Ctls)
  /\ shiftStatus' = (shiftStatus /\ make \notin Shifts)
  /\ altStatus' = (altStatus /\ make \notin Alts)
  /\ printed' = <<>>
  /\ UNCHANGED capsStatus

(* The flags are set by the low byte: the prefix has been cut off.          *)
Make(code) ==
  LET index == code % 256
      char == keymap(index, Column(code))
  IN /\ printed' = char
     /\ ctlStatus' = (ctlStatus \/ index = ctlLMake)
     /\ shiftStatus' = (shiftStatus \/ index \in Shifts)
     /\ altStatus' = (altStatus \/ index = altLMake)
     /\ capsStatus' = (capsStatus # (index = capsMake))

Unknown ==
  /\ printed' = <<"unknown key">>
  /\ UNCHANGED <<ctlStatus, shiftStatus, altStatus, capsStatus>>

Twins(k) == UNION {s \in {Ctls, Shifts, Alts} : k \in s}

IsBreak(code) == (code \div 128) % 2 = 1

(* The history of what the user did, whatever the handler makes of it: the  *)
(* byte that is read ends the oldest code, or is its prefix.                *)
NotePrefix == last' = 0 /\ UNCHANGED <<sent, down, shared, capsOn>>

Note(code) ==
  /\ sent' = Tail(sent)
  /\ last' = IF IsBreak(code) THEN 0 ELSE code
  /\ capsOn' = (capsOn # (code = capsMake))
  /\ IF IsBreak(code)
     THEN /\ down' = down \ {code - 128}
          /\ shared' = IF Twins(code - 128) \cap down \subseteq {code - 128}
                       THEN shared \ Twins(code - 128)
                       ELSE shared \cup Twins(code - 128)
     ELSE down' = down \cup {code} /\ UNCHANGED shared

(* A mutant of ForgetPrefix.                                                *)
RememberPrefix == UNCHANGED extScancode

ForgetPrefix == extScancode' = FALSE

(* What the handler takes for the scan code when it has read a byte.        *)
Scancode == IF extScancode THEN Ext + Head(port) ELSE Head(port)

IntrKeyboard ==
  /\ port # <<>>
  /\ port' = Tail(port) /\ UNCHANGED held
  /\ IF Head(port) = 224 THEN Prefix /\ NotePrefix
     ELSE /\ ForgetPrefix
          /\ Note(Head(sent))
          /\ IF IsBreak(Scancode) THEN Break(Scancode - 128)
             ELSE IF Scancode \in 1..58 \cup {altRMake, ctlRMake} THEN Make(Scancode)
             ELSE Unknown

Next == IntrKeyboard \/ \E k \in Keys : Press(k) \/ Repeat(k) \/ Release(k)

Spec == Init /\ [][Next]_vars

-----------------------------------------------------------------------------
(* keyboard.c:37 says of the flags that they define "the pressed state of   *)
(* the control keys": a flag is set exactly while one of its keys is down.  *)
FlagsAreKeys ==
  /\ ctlStatus <=> Ctls \cap down # {}
  /\ shiftStatus <=> Shifts \cap down # {}
  /\ altStatus <=> Alts \cap down # {}

(* That is so unless one key of a pair was released while the other was     *)
(* down: they share the flag, and the release clears it (keyboard.c:128-134, *)
(* run keyboard_shared).                                                    *)
FlagsTold ==
  /\ Ctls \cap shared = {} => (ctlStatus <=> Ctls \cap down # {})
  /\ Shifts \cap shared = {} => (shiftStatus <=> Shifts \cap down # {})
  /\ Alts \cap shared = {} => (altStatus <=> Alts \cap down # {})

(* The prefix is remembered exactly while the byte to be read next is the   *)
(* second one of a scan code with prefix, and the handler then takes that   *)
(* byte for the scan code that was sent: it joins no byte to the prefix of  *)
(* another key and parts none from its own (keyboard.c:112-120).            *)
PrefixTold ==
  /\ extScancode <=> port # <<>> /\ Head(port) # 224 /\ Head(sent) >= Ext
  /\ port # <<>> /\ Head(port) # 224 => Scancode = Head(sent)

Letters == 16..25 \cup 30..38 \cup 44..50
Characters == 1..58 \ Invisible

(* A key that has a character prints its own, and no other key prints one.  *)
(* A letter is a capital if either Shift or Caps Lock says so but not both; *)
(* the other keys look at Shift alone (keyboard.c:137-163).  Shift is what  *)
(* the user holds, but for the case that FlagsTold leaves out.              *)
CharTold ==
  LET shift == Shifts \cap down # {}
      second == IF last \in Letters THEN shift # capsOn
                ELSE shift /\ last \notin OneChar
  IN IF last \in Characters
     THEN \E column \in BOOLEAN :
            /\ printed = <<last, column>>
            /\ Shifts \cap shared = {} => column = second
     ELSE printed \in {<<>>, <<"unknown key">>}
=============================================================================
