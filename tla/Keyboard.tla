------------------------------ MODULE Keyboard ------------------------------
(***************************************************************************)
(* keyboard.c: the ring g_keypoll between thread_keyboard_receive, which    *)
(* pushes every character of the terminal, and the CPU thread, which pops   *)
(* in keyboard_read.  There is no lock, so every access to a field that the *)
(* other thread also touches is a step of its own, in program order (the    *)
(* Makefile builds with -O0).                                               *)
(*                                                                          *)
(* unread and owed are history: the keys published by an advance of top and *)
(* not yet passed by head, and the key the pop in progress should return.   *)
(***************************************************************************)
EXTENDS Naturals, Sequences

CONSTANTS
  N,          \* KEYPOLL_INIT_TOP, 256 in the code
  Byte,       \* the bytes getch() can deliver, 0 included
  KeyTable    \* g_key_table: byte -> ascii | scancode << 8, 0 for no entry

ASSUME NAssumption == N \in Nat \ {0, 1}
ASSUME ByteAssumption == 0 \in Byte
ASSUME TableAssumption == KeyTable \in [Byte -> Nat] /\ KeyTable[0] = 0

VARIABLES
  head, top, ascii,     \* struct key_poll
  rpc, ch,              \* thread_keyboard_receive: next step, local ch
  kpc, r, code,         \* keyboard_read: next step, local r, last result
  unread, owed

ring == <<head, top, ascii>>
rvars == <<rpc, ch>>
kvars == <<kpc, r, code>>
vars == <<head, top, ascii, rpc, ch, kpc, r, code, unread, owed>>

Slot == 0 .. N - 1
\* Mutant of NextSlot: the wrap at KEYPOLL_INIT_TOP forgotten.
NextSlot_NoWrap(i) == i + 1

NextSlot(i) == (i + 1) % N

TypeOK ==
  /\ head \in Slot /\ top \in Slot /\ ascii \in [Slot -> Byte]
  /\ rpc \in {"getch", "full", "advance", "store", "done"} /\ ch \in Byte
  /\ kpc \in {"idle", "advance", "take"} /\ r \in Byte /\ code \in Nat
  /\ unread \in Seq(Byte) /\ owed \in Byte

\* keyboard_init; malloc leaves the slots unspecified.
Init ==
  /\ head = 0 /\ top = 0 /\ ascii \in [Slot -> Byte]
  /\ rpc = "getch" /\ ch = 0
  /\ kpc = "idle" /\ r = 0 /\ code = 0
  /\ unread = << >> /\ owed = 0

\* Mutants: no test for empty; full tested without the wrap, and one slot early.
keypoll_empty_Never == FALSE
keypoll_full_NoWrap == top + 1 = head
keypoll_full_Early == NextSlot(NextSlot(top)) = head

keypoll_empty == top = head
keypoll_full  == NextSlot(top) = head

-----------------------------------------------------------------------------
(* thread_keyboard_receive and keypoll_push *)

\* while(ch = getch()): a 0 byte ends the thread.
Getch ==
  /\ rpc = "getch"
  /\ \E c \in Byte : ch' = c /\ rpc' = IF c = 0 THEN "done" ELSE "full"
  /\ UNCHANGED <<ring, kvars, unread, owed>>

\* A full ring drops the key silently.
PushCheck ==
  /\ rpc = "full"
  /\ rpc' = IF keypoll_full THEN "getch" ELSE "advance"
  /\ UNCHANGED <<ring, ch, kvars, unread, owed>>

\* top moves first, which shows the slot to the reader ...
PushAdvance ==
  /\ rpc = "advance"
  /\ top' = NextSlot(top)
  /\ unread' = Append(unread, ch)
  /\ rpc' = "store"
  /\ UNCHANGED <<head, ascii, ch, kvars, owed>>

\* Mutant: top is advanced again before the store.
PushStore_NextSlot ==
  /\ rpc = "store"
  /\ ascii' = [ascii EXCEPT ![NextSlot(top)] = ch]
  /\ rpc' = "getch"
  /\ UNCHANGED <<head, top, ch, kvars, unread, owed>>

\* ... and only then is the key stored in it.
PushStore ==
  /\ rpc = "store"
  /\ ascii' = [ascii EXCEPT ![top] = ch]
  /\ rpc' = "getch"
  /\ UNCHANGED <<head, top, ch, kvars, unread, owed>>

-----------------------------------------------------------------------------
(* keyboard_read and keypoll_pop, on the CPU thread *)

PopCheck ==
  /\ kpc = "idle"
  /\ IF keypoll_empty
       THEN kpc' = "idle" /\ r' = 0 /\ code' = 0
       ELSE kpc' = "advance" /\ UNCHANGED <<r, code>>
  /\ UNCHANGED <<ring, rvars, unread, owed>>

PopAdvance ==
  /\ kpc = "advance"
  /\ head' = NextSlot(head)
  /\ owed' = Head(unread)
  /\ unread' = Tail(unread)
  /\ kpc' = "take"
  /\ UNCHANGED <<top, ascii, rvars, r, code>>

\* Mutant: the newest key instead of the oldest.
PopTake_Newest ==
  /\ kpc = "take"
  /\ r' = ascii[top]
  /\ code' = KeyTable[ascii[top]]
  /\ kpc' = "idle"
  /\ UNCHANGED <<ring, rvars, unread, owed>>

\* A byte without a table entry reads as 0, like an empty ring.
PopTake ==
  /\ kpc = "take"
  /\ r' = ascii[head]
  /\ code' = KeyTable[ascii[head]]
  /\ kpc' = "idle"
  /\ UNCHANGED <<ring, rvars, unread, owed>>

receive == Getch \/ PushCheck \/ PushAdvance \/ PushStore
keyboard_read == PopCheck \/ PopAdvance \/ PopTake

Next == receive \/ keyboard_read
Spec == Init /\ [][Next]_vars

-----------------------------------------------------------------------------
(* Properties *)

Distance == IF top >= head THEN top - head ELSE top - head + N
SlotAt(i) == IF head + i < N THEN head + i ELSE head + i - N

\* The slot whose key is published but not stored yet.
Pending(slot) == rpc = "store" /\ slot = top

\* Slots head+1 .. top hold exactly the unread keys in order, except the one
\* slot keypoll_push has published and not filled: no overrun, no key lost
\* from the middle, whatever the interleaving and however often it wraps.
RingHoldsUnread ==
  /\ Len(unread) = Distance
  /\ \A i \in 1 .. Len(unread) :
       IF Pending(SlotAt(i)) THEN unread[i] = ch ELSE ascii[SlotAt(i)] = unread[i]

\* A pop in progress still finds its key in its slot: the writer cannot come
\* round and reuse it.  The only other case is its key not being stored yet.
PopFindsItsKey ==
  kpc = "take" => IF Pending(head) THEN owed = ch ELSE ascii[head] = owed

\* A pop that saw a nonempty ring advances over a key that is there, and a
\* push that saw room still has room when it moves top.
ChecksStayValid ==
  /\ kpc = "advance" => unread # << >>
  /\ rpc = "advance" => Len(unread) < N - 1

\* keypoll_push drops a key only if N - 1 keys are waiting.
DropOnlyWhenFull ==
  [][rpc = "full" /\ rpc' = "getch" => Len(unread) = N - 1]_vars

\* Refinement: the keys accepted and not handed over, oldest first.
waiting == IF kpc = "take" THEN <<owed>> \o unread ELSE unread

Fifo == INSTANCE KeyFifo WITH Capacity <- N, queue <- waiting, out <- r

\* keyboard.c:58 calls the buffer a ring queue: keys come out once, in order.
IsFifo == Fifo!Spec

\* What it is: a queue whose only key may be replaced by the slot's old byte.
IsWeakFifo == Fifo!WeakSpec
=============================================================================
