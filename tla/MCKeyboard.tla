----------------------------- MODULE MCKeyboard ------------------------------
EXTENDS Keyboard

(* Every control key, keys at the edges of the handler's ranges (13, 14,    *)
(* 59), a letter, and a cursor key.                                         *)
MCKeys == Ctls \cup Shifts \cup Alts \cup
          {capsMake, 13, 14, 30, 59, Ext + 72}
=============================================================================
