-------------------------------- MODULE Mem --------------------------------
(***************************************************************************)
(* The guest memory as the CPU thread uses it: any sequence of the          *)
(* accessors of mem.h, on any of the addresses in Addr.  Only the CPU       *)
(* thread calls them, so an access is one step.                             *)
(***************************************************************************)
EXTENDS Integers, MemMap

CONSTANTS
  Addr,       \* the addresses the guest uses
  Value,      \* the words it stores; a byte store has their low half
  WordAddr,   \* those where it also stores and loads words
  MaxWire     \* bound of the model: commands sent to the screen

ASSUME AddrAssumption == Addr \subseteq Nat
ASSUME ValueAssumption == Value \subseteq Word
ASSUME WordAssumption == WordAddr \subseteq Addr
ASSUME BoundAssumption == MaxWire \in Nat

VARIABLES mem, req, ret   \* memory and cursor; the last call, its result
vars == <<mem, req, ret>>

TypeOK ==
  /\ DOMAIN mem.cell \subseteq 0 .. MemSize - 1
  /\ mem.cell \in [DOMAIN mem.cell -> Byte]
  /\ mem = [cell |-> mem.cell, x |-> mem.x, y |-> mem.y,
            wire |-> mem.wire, wild |-> mem.wild]
  /\ mem.x \in 0 .. VGIO_WIDTH - 1 /\ mem.y \in Byte
  /\ \A i \in DOMAIN mem.wire : mem.wire[i].x < VGIO_WIDTH
  /\ ret \in Word \cup {-1}

Init == mem = vm_init /\ req = [op |-> "none"] /\ ret = 0

Call(op, a, v) == req' = [op |-> op, addr |-> a, val |-> v]

WriteByte(a, v) ==
  /\ Len(mem.wire) < MaxWire
  /\ Call("store8", a, v)
  /\ mem' = vm_write_byte(mem, a, v)
  /\ ret' = IF ByteBacked(a) THEN 0 ELSE -1

WriteWord(a, w) ==
  /\ a \in WordAddr /\ Len(mem.wire) < MaxWire
  /\ Call("store16", a, w)
  /\ mem' = vm_write_word(mem, a, w)
  /\ ret' = IF WordBacked(a) THEN 0 ELSE -1

ReadByte(a) ==
  /\ Call("load8", a, 0)
  /\ ret' = vm_read_byte(mem, a)
  /\ UNCHANGED mem

ReadWord(a) ==
  /\ a \in WordAddr
  /\ Call("load16", a, 0)
  /\ ret' = vm_read_word(mem, a)
  /\ UNCHANGED mem

Next ==
  \E a \in Addr :
    \/ \E w \in Value : WriteByte(a, Lo8(w)) \/ WriteWord(a, w)
    \/ ReadByte(a) \/ ReadWord(a)

Spec == Init /\ [][Next]_vars

-----------------------------------------------------------------------------
(* Properties *)

Backed == {a \in Addr : ByteBacked(a)}

Flat == INSTANCE FlatMemory WITH flat <- [a \in Addr |-> vm_read_byte(mem, a)]

\* Where a word is stored in its own two bytes: at the start of a region,
\* where the doubled index is 0 (but 0x500, which the branch of 0x400 takes),
\* and where neither byte has memory behind it.
WordFits(a) ==
  IF WordBacked(a)
    THEN StoreCell(a) = a /\ a + 1 \in Addr /\ ByteBacked(a) /\ ByteBacked(a + 1)
    ELSE ~ByteBacked(a) /\ ~ByteBacked(a + 1)

\* mem.h:8 calls the accessors reads and writes of the given memory: whatever
\* branch an address falls in, each store is seen by later loads of its bytes
\* and by no other.  It holds of bytes, and of words where they fit; it does
\* not hold of words elsewhere.
IsFlatMemory == Flat!Spec
=============================================================================
