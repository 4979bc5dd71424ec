----------------------------- MODULE MCKeyboard -----------------------------
(* Keyboard with four slots and two typed keys, one with a table entry. *)
EXTENDS Keyboard

MCByte  == 0 .. 2
MCTable == [b \in MCByte |-> IF b = 1 THEN 7777 ELSE 0]
=============================================================================
