--------------------------- MODULE Keyboard_proof ---------------------------
(***************************************************************************)
(* Type correctness and the ring invariants of keyboard.c for every ring    *)
(* size, byte set and key table.                                            *)
(***************************************************************************)
EXTENDS Keyboard, TLAPS

IInv == TypeOK /\ RingHoldsUnread /\ PopFindsItsKey /\ ChecksStayValid

\* Advancing an index of the ring, without the remainder.
LEMMA NextSlotIs ==
  ASSUME NEW i \in Slot
  PROVE  /\ NextSlot(i) = IF i = N - 1 THEN 0 ELSE i + 1
         /\ NextSlot(i) \in Slot
<1>1. i \in Nat /\ i <= N - 1 /\ N \in Nat /\ N > 1
  BY NAssumption DEF Slot
<1>2. CASE i = N - 1
  <2>1. (i + 1) % N = 0
    BY <1>1, <1>2
  <2>2. QED
    BY <1>1, <1>2, <2>1 DEF NextSlot, Slot
<1>3. CASE i # N - 1
  <2>1. (i + 1) % N = i + 1
    BY <1>1, <1>3
  <2>2. QED
    BY <1>1, <1>3, <2>1 DEF NextSlot, Slot
<1>4. QED
  BY <1>2, <1>3

LEMMA InitTypeOK == Init => TypeOK
BY NAssumption, ByteAssumption DEF Init, TypeOK, Slot

\* Head and Tail of the keys waiting.
LEMMA FirstKey ==
  ASSUME NEW s \in Seq(Byte), s # << >>
  PROVE  /\ Len(s) \in Nat /\ Len(s) > 0
         /\ Head(s) \in Byte /\ Tail(s) \in Seq(Byte)
         /\ Head(s) = s[1]
         /\ Len(Tail(s)) = Len(s) - 1
         /\ \A i \in 1 .. Len(s) - 1 : Tail(s)[i] = s[i + 1]
OBVIOUS

LEMMA StepTypeOK ==
  ASSUME TypeOK, ChecksStayValid, [Next]_vars
  PROVE  TypeOK'
<1> USE DEF TypeOK
<1>1. CASE Getch
  BY <1>1 DEF Getch, ring, kvars
<1>2. CASE PushCheck
  BY <1>2 DEF PushCheck, ring, kvars
<1>3. CASE PushAdvance
  BY <1>3, NextSlotIs DEF PushAdvance, kvars
<1>4. CASE PushStore
  BY <1>4 DEF PushStore, kvars
<1>5. CASE PopCheck
  BY <1>5, ByteAssumption DEF PopCheck, ring, rvars
<1>6. CASE PopAdvance
  <2>1. unread # << >>
    BY <1>6 DEF PopAdvance, ChecksStayValid
  <2>2. owed' \in Byte /\ unread' \in Seq(Byte)
    BY <1>6, <2>1, FirstKey DEF PopAdvance
  <2>3. QED
    BY <1>6, <2>2, NextSlotIs DEF PopAdvance, rvars
<1>7. CASE PopTake
  <2>1. ascii[head] \in Byte
    OBVIOUS
  <2>2. KeyTable[ascii[head]] \in Nat
    BY <2>1, TableAssumption
  <2>3. QED
    BY <1>7, <2>1, <2>2 DEF PopTake, ring, rvars
<1>8. CASE UNCHANGED vars
  BY <1>8 DEF vars
<1>9. QED
  BY <1>1, <1>2, <1>3, <1>4, <1>5, <1>6, <1>7, <1>8
     DEF Next, receive, keyboard_read

-----------------------------------------------------------------------------
(* The ring *)

\* Distance and SlotAt in terms of each other, and what one advance of top or
\* head does to them.
LEMMA SlotsApart ==
  ASSUME TypeOK
  PROVE  /\ Distance \in 0 .. N - 1
         /\ \A i \in 1 .. Distance : SlotAt(i) \in Slot /\ SlotAt(i) # head
         /\ \A i, j \in 1 .. Distance : SlotAt(i) = SlotAt(j) => i = j
         /\ Distance > 0 => SlotAt(Distance) = top
         /\ Distance = 0 <=> top = head
         /\ NextSlot(top) = head <=> Distance = N - 1
<1>1. N \in Nat /\ N > 1 /\ head \in Nat /\ top \in Nat /\ head <= N - 1 /\ top <= N - 1
  BY NAssumption DEF TypeOK, Slot
<1>2. NextSlot(top) = IF top = N - 1 THEN 0 ELSE top + 1
  BY NextSlotIs DEF TypeOK
<1>3. Distance \in 0 .. N - 1
  BY <1>1 DEF Distance
<1>4. \A i \in 1 .. Distance : SlotAt(i) \in Slot /\ SlotAt(i) # head
  BY <1>1, <1>3 DEF SlotAt, Slot
<1>5. \A i, j \in 1 .. Distance : SlotAt(i) = SlotAt(j) => i = j
  BY <1>1, <1>3 DEF SlotAt
<1>6. Distance > 0 => SlotAt(Distance) = top
  BY <1>1, <1>3 DEF SlotAt, Distance
<1>7. Distance = 0 <=> top = head
  BY <1>1 DEF Distance
<1>8. NextSlot(top) = head <=> Distance = N - 1
  BY <1>1, <1>2 DEF Distance
<1>9. QED
  BY <1>3, <1>4, <1>5, <1>6, <1>7, <1>8

LEMMA StepRing ==
  ASSUME IInv, [Next]_vars
  PROVE  (RingHoldsUnread /\ PopFindsItsKey /\ ChecksStayValid)'
<1> DEFINE Goal == (RingHoldsUnread /\ PopFindsItsKey /\ ChecksStayValid)'
<1>t. TypeOK /\ TypeOK'
  BY StepTypeOK DEF IInv
<1>n. N \in Nat /\ N > 1 /\ head \in Nat /\ top \in Nat /\ head <= N - 1 /\ top <= N - 1
  BY <1>t, NAssumption DEF TypeOK, Slot
<1>1. CASE Getch
  <2>1. UNCHANGED <<head, top, ascii, kpc, unread, owed>>
        /\ rpc = "getch" /\ rpc' \in {"done", "full"}
    BY <1>1 DEF Getch, ring, kvars
  <2>2. QED
    BY <2>1 DEF IInv, RingHoldsUnread, PopFindsItsKey, ChecksStayValid, Pending, Distance, SlotAt
<1>2. CASE PushCheck
  <2>1. UNCHANGED <<head, top, ascii, kpc, unread, owed>> /\ rpc = "full"
        /\ rpc' = IF NextSlot(top) = head THEN "getch" ELSE "advance"
    BY <1>2 DEF PushCheck, ring, kvars, keypoll_full
  <2>2. rpc' = "advance" => Distance < N - 1
    BY <2>1, <1>t, <1>n, SlotsApart
  <2>3. QED
    BY <2>1, <2>2 DEF IInv, RingHoldsUnread, PopFindsItsKey, ChecksStayValid, Pending, Distance, SlotAt
<1>3. CASE PushAdvance
  <2>1. UNCHANGED <<head, ascii, kpc, owed, ch>> /\ rpc = "advance" /\ rpc' = "store"
        /\ top' = NextSlot(top) /\ unread' = Append(unread, ch)
    BY <1>3 DEF PushAdvance, kvars
  <2>2. Len(unread) = Distance /\ Distance < N - 1 /\ Distance \in Nat
    BY <2>1, <1>t, SlotsApart DEF IInv, RingHoldsUnread, ChecksStayValid
  <2>3. top' = IF top = N - 1 THEN 0 ELSE top + 1
    BY <2>1, <1>t, NextSlotIs DEF TypeOK
  <2>4. Distance' = Distance + 1 /\ \A i \in Nat : SlotAt(i)' = SlotAt(i)
    BY <2>1, <2>2, <2>3, <1>n DEF Distance, SlotAt
  <2>5. Len(unread') = Distance + 1 /\ unread'[Distance + 1] = ch
        /\ \A i \in 1 .. Distance : unread'[i] = unread[i]
    BY <2>1, <2>2, <1>t DEF TypeOK
  <2>6. SlotAt(Distance)' = top' /\ top' # head
        /\ \A i \in 1 .. Distance : SlotAt(i)' # top'
    BY <2>1, <2>2, <2>3, <1>n DEF SlotAt, Distance
  <2>7. RingHoldsUnread'
    <3>1. Len(unread') = Distance'
      BY <2>4, <2>5
    <3>2. ASSUME NEW i \in 1 .. Len(unread')
          PROVE  (IF Pending(SlotAt(i)) THEN unread[i] = ch ELSE ascii[SlotAt(i)] = unread[i])'
      <4>1. CASE i = Distance + 1
        BY <4>1, <2>1, <2>4, <2>5, <2>6 DEF Pending
      <4>2. CASE i \in 1 .. Distance
        BY <4>2, <2>1, <2>2, <2>4, <2>5, <2>6 DEF Pending, IInv, RingHoldsUnread
      <4>3. QED
        BY <4>1, <4>2, <2>2, <2>5
    <3>3. QED
      BY <3>1, <3>2 DEF RingHoldsUnread
  <2>8. QED
    BY <2>1, <2>6, <2>7 DEF IInv, PopFindsItsKey, ChecksStayValid, Pending
<1>4. CASE PushStore
  <2>1. UNCHANGED <<head, top, kpc, owed, ch, unread>> /\ rpc = "store" /\ rpc' = "getch"
        /\ ascii' = [ascii EXCEPT ![top] = ch]
    BY <1>4 DEF PushStore, kvars
  <2>2. Distance' = Distance /\ \A i \in Nat : SlotAt(i)' = SlotAt(i)
    BY <2>1 DEF Distance, SlotAt
  <2>3. Len(unread) = Distance /\ \A i \in 1 .. Len(unread) : SlotAt(i) \in Slot
    BY <1>t, SlotsApart DEF IInv, RingHoldsUnread
  <2>4. ascii'[top] = ch /\ \A s \in Slot \ {top} : ascii'[s] = ascii[s]
    BY <2>1, <1>t DEF TypeOK
  <2>5. RingHoldsUnread'
    BY <2>1, <2>2, <2>3, <2>4 DEF Pending, IInv, RingHoldsUnread
  <2>6. PopFindsItsKey'
    BY <2>1, <2>4, <1>t DEF Pending, IInv, PopFindsItsKey, TypeOK
  <2>7. QED
    BY <2>1, <2>5, <2>6 DEF IInv, ChecksStayValid
<1>5. CASE PopCheck
  <2>1. UNCHANGED <<head, top, ascii, rpc, ch, owed, unread>> /\ kpc = "idle"
        /\ kpc' = IF top = head THEN "idle" ELSE "advance"
    BY <1>5 DEF PopCheck, ring, rvars, keypoll_empty
  <2>2. kpc' = "advance" => unread # << >>
    BY <2>1, <1>t, SlotsApart DEF IInv, RingHoldsUnread
  <2>3. QED
    BY <2>1, <2>2 DEF IInv, RingHoldsUnread, PopFindsItsKey, ChecksStayValid, Pending, Distance, SlotAt
<1>6. CASE PopAdvance
  <2>1. UNCHANGED <<top, ascii, rpc, ch>> /\ kpc = "advance" /\ kpc' = "take"
        /\ head' = NextSlot(head) /\ owed' = Head(unread) /\ unread' = Tail(unread)
    BY <1>6 DEF PopAdvance, rvars
  <2>2. unread # << >> /\ Len(unread) = Distance /\ Distance \in Nat /\ Distance > 0
    BY <2>1, <1>t, SlotsApart, FirstKey DEF IInv, RingHoldsUnread, ChecksStayValid, TypeOK
  <2>3. head' = IF head = N - 1 THEN 0 ELSE head + 1
    BY <2>1, <1>t, NextSlotIs DEF TypeOK
  <2>4. Distance' = Distance - 1 /\ head' = SlotAt(1)
        /\ \A i \in 1 .. Distance - 1 : SlotAt(i)' = SlotAt(i + 1)
    BY <2>1, <2>2, <2>3, <1>n DEF Distance, SlotAt
  <2>5. Len(unread') = Distance - 1 /\ owed' = unread[1]
        /\ \A i \in 1 .. Distance - 1 : unread'[i] = unread[i + 1]
    BY <2>1, <2>2, <1>t, FirstKey DEF TypeOK
  <2>6. \A i \in 1 .. Distance :
          IF Pending(SlotAt(i)) THEN unread[i] = ch ELSE ascii[SlotAt(i)] = unread[i]
    BY <2>2 DEF IInv, RingHoldsUnread
  <2>7. RingHoldsUnread'
    BY <2>1, <2>2, <2>4, <2>5, <2>6 DEF Pending, RingHoldsUnread
  <2>8. PopFindsItsKey'
    BY <2>1, <2>2, <2>4, <2>5, <2>6 DEF Pending, PopFindsItsKey
  <2>9. QED
    BY <2>1, <2>2, <2>5, <2>7, <2>8, <1>n DEF IInv, ChecksStayValid
<1>7. CASE PopTake
  <2>1. UNCHANGED <<head, top, ascii, rpc, ch, owed, unread>> /\ kpc' = "idle"
    BY <1>7 DEF PopTake, ring, rvars
  <2>2. QED
    BY <2>1 DEF IInv, RingHoldsUnread, PopFindsItsKey, ChecksStayValid, Pending, Distance, SlotAt
<1>8. CASE UNCHANGED vars
  BY <1>8 DEF vars, IInv, RingHoldsUnread, PopFindsItsKey, ChecksStayValid, Pending, Distance, SlotAt
<1>9. QED
  BY <1>1, <1>2, <1>3, <1>4, <1>5, <1>6, <1>7, <1>8
     DEF Next, receive, keyboard_read, IInv

LEMMA Inductive == Spec => []IInv
<1>1. Init => IInv
  <2>1. ASSUME Init PROVE RingHoldsUnread /\ PopFindsItsKey /\ ChecksStayValid
    BY <2>1, NAssumption DEF Init, RingHoldsUnread, PopFindsItsKey, ChecksStayValid, Distance
  <2>2. QED
    BY <2>1, InitTypeOK DEF IInv
<1>2. IInv /\ [Next]_vars => IInv'
  BY StepTypeOK, StepRing DEF IInv
<1>3. QED
  BY <1>1, <1>2, PTL DEF Spec

\* The indices of g_keypoll stay inside the buffer, and what the two threads
\* hold between their steps keeps its type.
THEOREM TypeCorrect == Spec => []TypeOK
BY Inductive, PTL DEF IInv

\* The slots between head and top hold the unread keys in order, whatever the
\* ring size and the interleaving of keypoll_push and keypoll_pop.
THEOREM RingCorrect == Spec => []RingHoldsUnread
BY Inductive, PTL DEF IInv

\* A pop gets its own key or, only while keypoll_push is between moving top
\* and storing, the old byte of that slot.
THEOREM PopCorrect == Spec => []PopFindsItsKey
BY Inductive, PTL DEF IInv

\* The tests of keypoll_full and keypoll_empty still hold when the index moves.
THEOREM ChecksAreValid == Spec => []ChecksStayValid
BY Inductive, PTL DEF IInv

\* keypoll_push loses a key only when N - 1 keys are waiting.
THEOREM DropCorrect == Spec => DropOnlyWhenFull
<1>1. ASSUME IInv, [Next]_vars, rpc = "full", rpc' = "getch"
      PROVE  Len(unread) = N - 1
  <2>1. PushCheck \/ rpc' = rpc
    BY <1>1 DEF Next, receive, keyboard_read, Getch, PushAdvance, PushStore,
                PopCheck, PopAdvance, PopTake, rvars, vars
  <2>2. NextSlot(top) = head
    BY <2>1, <1>1 DEF PushCheck, keypoll_full
  <2>3. QED
    BY <2>2, <1>1, SlotsApart DEF IInv, RingHoldsUnread
<1>2. IInv /\ [Next]_vars => [rpc = "full" /\ rpc' = "getch" => Len(unread) = N - 1]_vars
  BY <1>1
<1>3. QED
  BY Inductive, <1>2, PTL DEF DropOnlyWhenFull, Spec
-----------------------------------------------------------------------------
(* Refinement *)

\* The sequence facts behind the mapping waiting.
LEMMA Prepend ==
  ASSUME NEW k \in Byte, NEW s \in Seq(Byte), NEW c \in Byte
  PROVE  /\ <<k>> \o s \in Seq(Byte) /\ <<k>> \o s # << >>
         /\ Len(<<k>> \o s) = Len(s) + 1
         /\ Head(<<k>> \o s) = k
         /\ Tail(<<k>> \o s) = s
         /\ Append(<<k>> \o s, c) = <<k>> \o Append(s, c)
         /\ s # << >> => <<Head(s)>> \o Tail(s) = s
         /\ Len(s) = 0 => s = << >>
OBVIOUS

\* keyboard.c is a queue of at most N keys in which only a key that is alone
\* in it can come out as another byte.
THEOREM ImplementsWeakFifo == Spec => IsWeakFifo
<1> DEFINE Vis == <<waiting, r>>
<1>1. Init => Fifo!Init
  BY DEF Init, Fifo!Init, waiting
<1>2. ASSUME IInv, [Next]_vars
      PROVE  [Fifo!WeakNext]_Vis
  <2> USE DEF Fifo!WeakNext, Fifo!Next
  <2>t. TypeOK
    BY <1>2 DEF IInv
  <2>1. CASE Getch \/ PushCheck \/ PushStore \/ UNCHANGED vars
    BY <2>1 DEF Getch, PushCheck, PushStore, vars, kvars, ring, waiting
  <2>2. CASE PushAdvance
    <3>1. unread' = Append(unread, ch) /\ UNCHANGED <<kpc, owed, r>> /\ rpc = "advance"
      BY <2>2 DEF PushAdvance, kvars
    <3>2. Len(unread) < N - 1
      BY <3>1, <1>2 DEF IInv, ChecksStayValid
    <3>3. waiting' = Append(waiting, ch)
      BY <3>1, <2>t, Prepend DEF TypeOK, waiting
    <3>4. Len(waiting) < N
      BY <3>1, <3>2, <2>t, NAssumption, Prepend DEF TypeOK, waiting
    <3>5. QED
      BY <3>1, <3>3, <3>4, <2>t DEF Fifo!Accept, TypeOK
  <2>3. CASE PopCheck
    <3>1. kpc = "idle" /\ UNCHANGED <<unread, owed>>
          /\ IF top = head THEN kpc' = "idle" /\ r' = 0 ELSE kpc' = "advance" /\ UNCHANGED r
      BY <2>3 DEF PopCheck, keypoll_empty
    <3>2. waiting' = waiting /\ waiting = unread
      BY <3>1 DEF waiting
    <3>3. CASE top = head
      <4>1. Len(unread) = 0
        BY <3>3, <2>t, <1>2, SlotsApart DEF IInv, RingHoldsUnread
      <4>2. waiting = << >>
        BY <4>1, <3>2, <2>t, Prepend DEF TypeOK
      <4>3. QED
        BY <4>2, <3>1, <3>2, <3>3 DEF Fifo!Poll
    <3>4. CASE top # head
      BY <3>1, <3>2, <3>4
    <3>5. QED
      BY <3>3, <3>4
  <2>4. CASE PopAdvance
    <3>1. kpc = "advance" /\ kpc' = "take" /\ owed' = Head(unread) /\ unread' = Tail(unread) /\ UNCHANGED r
      BY <2>4 DEF PopAdvance
    <3>2. unread # << >>
      BY <3>1, <1>2 DEF IInv, ChecksStayValid
    <3>3. waiting' = waiting
      BY <3>1, <3>2, <2>t, Prepend DEF TypeOK, waiting
    <3>4. QED
      BY <3>1, <3>3
  <2>5. CASE PopTake
    <3>1. kpc = "take" /\ kpc' = "idle" /\ r' = ascii[head] /\ UNCHANGED <<unread, owed, top, head>>
      BY <2>5 DEF PopTake, ring
    <3>2. waiting = <<owed>> \o unread /\ waiting' = unread
      BY <3>1 DEF waiting
    <3>3. waiting # << >> /\ Head(waiting) = owed /\ Tail(waiting) = waiting'
      BY <3>2, <2>t, Prepend DEF TypeOK
    <3>4. CASE ~Pending(head)
      <4>1. r' = owed
        BY <3>1, <3>4, <1>2 DEF IInv, PopFindsItsKey
      <4>2. QED
        BY <4>1, <3>3 DEF Fifo!Take
    <3>5. CASE Pending(head)
      <4>1. Len(unread) = 0
        BY <3>5, <2>t, <1>2, SlotsApart DEF IInv, RingHoldsUnread, Pending
      <4>2. Len(waiting) = 1 /\ waiting' = << >>
        BY <4>1, <3>2, <2>t, Prepend DEF TypeOK
      <4>3. r' \in Byte
        BY <3>1, <2>t DEF TypeOK
      <4>4. QED
        BY <4>2, <4>3 DEF Fifo!TakeTorn
    <3>6. QED
      BY <3>4, <3>5
  <2>6. QED
    BY <1>2, <2>1, <2>2, <2>3, <2>4, <2>5 DEF Next, receive, keyboard_read
<1>3. QED
  BY <1>1, <1>2, Inductive, PTL DEF Spec, IsWeakFifo, Fifo!WeakSpec, Fifo!fvars
=============================================================================
