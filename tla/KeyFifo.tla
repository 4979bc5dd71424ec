------------------------------ MODULE KeyFifo ------------------------------
(***************************************************************************)
(* What keyboard.c promises its reader: the keys the terminal delivered    *)
(* come out once each and in the order they were typed.  queue holds the   *)
(* keys accepted and not yet read, out the last byte handed to the reader. *)
(* Spec is the queue the comment "ring queue" of struct key_poll names;    *)
(* WeakSpec is the strongest variant the code meets.                       *)
(***************************************************************************)
EXTENDS Naturals, Sequences

CONSTANTS
  Capacity,   \* most keys that are accepted and unread at one time
  Byte        \* the bytes a key slot can hold

VARIABLES queue, out

fvars == <<queue, out>>

Init == queue = << >> /\ out = 0

Accept(key) ==
  /\ Len(queue) < Capacity
  /\ queue' = Append(queue, key)
  /\ UNCHANGED out

Take ==
  /\ queue # << >>
  /\ out' = Head(queue)
  /\ queue' = Tail(queue)

\* The reader overtakes the writer of the one key in the queue: it consumes
\* that key's place in the order and gets whatever byte the slot held before.
TakeTorn ==
  /\ Len(queue) = 1
  /\ out' \in Byte
  /\ queue' = << >>

\* Reading the empty queue gives the byte 0.
Poll ==
  /\ queue = << >>
  /\ out' = 0
  /\ UNCHANGED queue

Next     == Take \/ Poll \/ \E key \in Byte : Accept(key)
WeakNext == Next \/ TakeTorn

Spec     == Init /\ [][Next]_fvars
WeakSpec == Init /\ [][WeakNext]_fvars
=============================================================================
