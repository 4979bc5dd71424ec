----------------------------- MODULE Mem_proof -----------------------------
(***************************************************************************)
(* For every set of addresses and values: the accessors of mem.c implement  *)
(* a flat memory, as long as words are used only where they fit.  The twelve*)
(* branches, the overlap of the second and the third and the hole above     *)
(* 0xe8000 are in the argument through ByteBacked and WordFits; with words  *)
(* anywhere the statement is false (README).                                *)
(***************************************************************************)
EXTENDS Mem, MemMap_proof

\* A byte store changes what a load of its own address returns, and only if
\* some branch takes the address.
LEMMA WriteByteReads ==
  ASSUME NEW m, IsMem(m), NEW a \in Nat, NEW v \in Byte, NEW b \in Nat
  PROVE  /\ IsMem(vm_write_byte(m, a, v))
         /\ vm_read_byte(vm_write_byte(m, a, v), b) =
              IF ByteBacked(a) /\ b = a THEN v ELSE vm_read_byte(m, b)
<1> DEFINE shown == IF IsText(a) /\ a % 2 = 0 THEN vgui_set_char(m, v) ELSE m
<1>1. IsMem(shown) /\ shown.cell = m.cell
  BY SetCharKeepsCells
<1>2. Peek(shown, b) = Peek(m, b)
  BY <1>1 DEF Peek
<1> HIDE DEF shown
<1>3. CASE ~ByteBacked(a)
  BY <1>3 DEF vm_write_byte
<1>4. CASE ByteBacked(a)
  <2>1. vm_write_byte(m, a, v) = Poke(shown, a, v)
    BY <1>4 DEF vm_write_byte, shown
  <2>2. IsMem(Poke(shown, a, v))
    BY <1>1, PokeIsMem
  <2>3. Peek(Poke(shown, a, v), b) = IF b = a THEN v ELSE Peek(m, b)
    BY <1>1, <1>2, PeekPoke
  <2> QED
    BY <1>4, <2>1, <2>2, <2>3 DEF vm_read_byte
<1> QED
  BY <1>3, <1>4

\* Placing the cursor is no change of the memory either.
LEMMA ShowKeepsCells ==
  ASSUME NEW m, IsMem(m), NEW a, NEW w
  PROVE  IsMem(ShowWord(m, a, w)) /\ ShowWord(m, a, w).cell = m.cell
<1> DEFINE nword == (a - TextLo) \div 2
           placed == vgui_cursor_set(m, nword % VGIO_WIDTH, nword \div VGIO_WIDTH)
           x == (nword % VGIO_WIDTH) % 256
           y == (nword \div VGIO_WIDTH) % 256
           sent == Append(m.wire, [command |-> "set_cursor", x |-> x, y |-> y, c |-> 0])
<1>1. placed = [m EXCEPT !.wire = sent, !.x = x, !.y = y]
  BY DEF vgui_cursor_set
<1>2. ShowWord(m, a, w) = vgui_set_char(placed, Lo8(w))
  BY DEF ShowWord
<1> HIDE DEF placed, sent, x, y
<1>3. placed = [cell |-> m.cell, x |-> x, y |-> y, wire |-> sent, wild |-> m.wild]
  BY <1>1 DEF IsMem
<1>4. IsMem(placed) /\ placed.cell = m.cell
  BY <1>3 DEF IsMem
<1> QED
  BY <1>2, <1>4, SetCharKeepsCells

\* A word store where words fit changes its own two bytes.
LEMMA WriteWordReads ==
  ASSUME NEW m, IsMem(m), NEW a \in Nat, NEW w \in Word, NEW b \in Nat,
         WordBacked(a), StoreCell(a) = a, ByteBacked(a), ByteBacked(a + 1)
  PROVE  /\ IsMem(vm_write_word(m, a, w))
         /\ vm_read_byte(vm_write_word(m, a, w), b) =
              IF b = a THEN Lo8(w) ELSE IF b = a + 1 THEN Hi8(w) ELSE vm_read_byte(m, b)
<1> DEFINE shown == IF IsText(a) THEN ShowWord(m, a, w) ELSE m
           low == Poke(shown, a, Lo8(w))
<1>1. IsMem(shown) /\ shown.cell = m.cell
  BY ShowKeepsCells
<1>2. Peek(shown, b) = Peek(m, b)
  BY <1>1 DEF Peek
<1>3. vm_write_word(m, a, w) = StoreWord(shown, a, w)
  BY DEF vm_write_word
<1>4. a + 1 < MemSize
  BY BackedInStruct
<1>5. Lo8(w) \in Byte /\ Hi8(w) \in Byte
  BY Halves
<1> HIDE DEF shown
<1>6. vm_write_word(m, a, w) = Poke(low, a + 1, Hi8(w))
  BY <1>3, <1>4 DEF StoreWord
<1>7. IsMem(low) /\ Peek(low, b) = IF b = a THEN Lo8(w) ELSE Peek(m, b)
  BY <1>1, <1>2, <1>5, PokeIsMem, PeekPoke
<1> HIDE DEF low
<1>8. IsMem(vm_write_word(m, a, w))
  BY <1>5, <1>6, <1>7, PokeIsMem
<1>9. Peek(vm_write_word(m, a, w), b) =
        IF b = a THEN Lo8(w) ELSE IF b = a + 1 THEN Hi8(w) ELSE Peek(m, b)
  BY <1>6, <1>7, PeekPoke
<1> QED
  BY <1>8, <1>9 DEF vm_read_byte

IInv == IsMem(mem)

LEMMA LowIsByte == ASSUME NEW w \in Value PROVE Lo8(w) \in Byte
BY Halves, ValueAssumption

\* The step of a word store: all of it, where words fit.
LEMMA WordStep ==
  ASSUME IInv, NEW a \in WordAddr, WordFits(a), NEW w \in Value, WriteWord(a, w)
  PROVE  /\ IInv'
         /\ IF WordBacked(a)
              THEN /\ {a, a + 1} \subseteq Backed /\ ret' = 0
                   /\ \A b \in Addr : vm_read_byte(mem', b) =
                        IF b = a THEN Lo8(w) ELSE IF b = a + 1 THEN Hi8(w)
                                            ELSE vm_read_byte(mem, b)
              ELSE a \notin Backed /\ ret' = -1 /\ mem' = mem
<1>1. a \in Addr /\ a \in Nat /\ w \in Word /\ Addr \subseteq Nat
  BY WordAssumption, AddrAssumption, ValueAssumption
<1>2. mem' = vm_write_word(mem, a, w) /\ ret' = IF WordBacked(a) THEN 0 ELSE -1
  BY DEF WriteWord
<1>3. CASE WordBacked(a)
  <2>1. StoreCell(a) = a /\ a + 1 \in Addr /\ ByteBacked(a) /\ ByteBacked(a + 1)
    BY <1>3 DEF WordFits
  <2>2. \A b \in Nat :
          /\ IsMem(mem')
          /\ vm_read_byte(mem', b) =
               IF b = a THEN Lo8(w) ELSE IF b = a + 1 THEN Hi8(w) ELSE vm_read_byte(mem, b)
    BY <1>1, <1>2, <1>3, <2>1, WriteWordReads DEF IInv
  <2>3. IInv'
    BY <1>1, <2>2 DEF IInv, IsMem
  <2> QED
    BY <1>1, <1>2, <1>3, <2>1, <2>2, <2>3 DEF Backed
<1>4. CASE ~WordBacked(a)
  <2>1. mem' = mem
    BY <1>2, <1>4 DEF vm_write_word
  <2>2. ~ByteBacked(a)
    BY <1>4 DEF WordFits
  <2> QED
    BY <1>2, <1>4, <2>1, <2>2 DEF Backed, IInv, IsMem
<1> QED
  BY <1>3, <1>4

LEMMA Inductive ==
  ASSUME \A a \in WordAddr : WordFits(a)
  PROVE  Spec => []IInv
<1>1. Init => IInv
  BY DEF Init, IInv, IsMem, vm_init
<1>2. IInv /\ [Next]_vars => IInv'
  <2> SUFFICES ASSUME IInv, [Next]_vars PROVE IInv'
    OBVIOUS
  <2>1. CASE UNCHANGED vars
    BY <2>1 DEF vars, IInv, IsMem
  <2>2. ASSUME NEW a \in Addr, NEW w \in Value, WriteByte(a, Lo8(w)) PROVE IInv'
    <3>1. mem' = vm_write_byte(mem, a, Lo8(w)) /\ a \in Nat
      BY <2>2, AddrAssumption DEF WriteByte
    <3>2. IsMem(vm_write_byte(mem, a, Lo8(w)))
      BY <3>1, WriteByteReads, LowIsByte DEF IInv
    <3> QED
      BY <3>1, <3>2 DEF IInv, IsMem
  <2>3. ASSUME NEW a \in Addr, NEW w \in Value, WriteWord(a, w) PROVE IInv'
    BY <2>3, WordStep DEF WriteWord
  <2>4. ASSUME NEW a \in Addr, ReadByte(a) \/ ReadWord(a) PROVE IInv'
    BY <2>4 DEF ReadByte, ReadWord, IInv, IsMem
  <2> QED
    BY <2>1, <2>2, <2>3, <2>4 DEF Next
<1> QED
  BY <1>1, <1>2, PTL DEF Spec

\* The memory of mem.c is the flat memory of mem.h for byte accesses at any
\* address and for words where they fit: the if-chain of each accessor stores
\* and loads the bytes it names.
THEOREM AccessesAreFlat ==
  ASSUME \A a \in WordAddr : WordFits(a)
  PROVE  Spec => IsFlatMemory
<1> DEFINE view == [a \in Addr |-> vm_read_byte(mem, a)]
<1>1. Init => Flat!Init
  BY AddrAssumption DEF Init, Flat!Init, vm_init, vm_read_byte, Peek
<1>2. IInv /\ [Next]_vars => [Flat!Next]_<<view, req, ret>>
  <2> SUFFICES ASSUME IInv, [Next]_vars PROVE [Flat!Next]_<<view, req, ret>>
    OBVIOUS
  <2>1. CASE UNCHANGED vars
    BY <2>1 DEF vars
  <2>2. ASSUME NEW a \in Addr, NEW w \in Value, WriteByte(a, Lo8(w))
        PROVE  Flat!Next
    <3>1. req' = [op |-> "store8", addr |-> a, val |-> Lo8(w)]
      BY <2>2 DEF WriteByte, Call
    <3>2. \A b \in Addr : vm_read_byte(mem', b) =
             IF ByteBacked(a) /\ b = a THEN Lo8(w) ELSE vm_read_byte(mem, b)
      BY <2>2, WriteByteReads, LowIsByte, AddrAssumption DEF WriteByte, IInv
    <3>3. CASE ByteBacked(a)
      <4>1. a \in Backed /\ ret' = 0
        BY <2>2, <3>3 DEF WriteByte, Backed
      <4>2. view' = [view EXCEPT ![a] = Lo8(w)]
        BY <3>2, <3>3
      <4> QED
        BY <3>1, <4>1, <4>2 DEF Flat!Next, Flat!Do, Flat!StoreByte
    <3>4. CASE ~ByteBacked(a)
      <4>1. a \notin Backed /\ ret' = -1
        BY <2>2, <3>4 DEF WriteByte, Backed
      <4>2. view' = view
        BY <3>2, <3>4
      <4> QED
        BY <3>1, <4>1, <4>2 DEF Flat!Next, Flat!Do, Flat!Refuse
    <3> QED
      BY <3>3, <3>4
  <2>3. ASSUME NEW a \in Addr, ReadByte(a) PROVE Flat!Next
    BY <2>3 DEF ReadByte, Call, Flat!Next, Flat!Do, Flat!LoadByte, Flat!At
  <2>4. ASSUME NEW a \in Addr, NEW w \in Value, WriteWord(a, w) PROVE Flat!Next
    <3>1. a \in WordAddr /\ req' = [op |-> "store16", addr |-> a, val |-> w]
      BY <2>4 DEF WriteWord, Call
    <3>2. CASE WordBacked(a)
      <4>1. /\ {a, a + 1} \subseteq Backed /\ ret' = 0
            /\ \A b \in Addr : vm_read_byte(mem', b) =
                 IF b = a THEN Lo8(w) ELSE IF b = a + 1 THEN Hi8(w)
                                     ELSE vm_read_byte(mem, b)
        BY <2>4, <3>1, <3>2, WordStep
      <4>2. view' = [view EXCEPT ![a] = Lo8(w), ![a + 1] = Hi8(w)]
        <5>1. a \in Nat /\ a # a + 1
          BY AddrAssumption
        <5> QED
          BY <4>1, <5>1
      <4>3. view' = [view EXCEPT ![a] = w % 256, ![a + 1] = w \div 256]
        BY <4>2 DEF Lo8, Hi8
      <4> HIDE DEF view
      <4> QED
        BY <3>1, <4>1, <4>3 DEF Flat!Next, Flat!Do, Flat!StoreWord, view
    <3>3. CASE ~WordBacked(a)
      <4>1. a \notin Backed /\ ret' = -1 /\ mem' = mem
        BY <2>4, <3>1, <3>3, WordStep
      <4>2. view' = view
        BY <4>1
      <4> QED
        BY <3>1, <4>1, <4>2 DEF Flat!Next, Flat!Do, Flat!Refuse
    <3> QED
      BY <3>2, <3>3
  <2>5. ASSUME NEW a \in Addr, ReadWord(a) PROVE Flat!Next
    <3>1. /\ a \in WordAddr /\ req' = [op |-> "load16", addr |-> a, val |-> 0]
          /\ ret' = vm_read_word(mem, a) /\ mem' = mem
      BY <2>5 DEF ReadWord, Call
    <3>2. WordFits(a)
      BY <3>1
    <3>3. vm_read_word(mem, a) = Flat!At(a) + 256 * Flat!At(a + 1)
      BY <3>2 DEF WordFits, vm_read_word, vm_read_byte, Flat!At
    <3> QED
      BY <3>1, <3>3 DEF Flat!Next, Flat!Do, Flat!LoadWord
  <2> QED
    BY <2>1, <2>2, <2>3, <2>4, <2>5 DEF Next
<1> QED
  BY <1>1, <1>2, Inductive, PTL DEF Spec, IsFlatMemory, Flat!Spec

-----------------------------------------------------------------------------
(* Types *)

Typed == MemOK(mem) /\ ret \in Word \cup {-1}

\* For any sequence of the accessors on any addresses, words that do not fit
\* and stores that run out of the struct included: the touched bytes are bytes
\* of the struct, the cursor of vgui.c stays in its row, every column on the
\* wire is one of the screen, and an accessor returns -1 or a word.
THEOREM TypeCorrect == Spec => []TypeOK
<1>1. Init => Typed
  <2> SUFFICES ASSUME Init PROVE Typed
    OBVIOUS
  <2>1. mem = [cell |-> [a \in {} |-> 0], x |-> 0, y |-> 0, wire |-> << >>, wild |-> FALSE]
    BY DEF Init, vm_init
  <2>2. IsMem(mem)
    BY <2>1 DEF IsMem
  <2>3. 0 \in Column /\ 0 \in Byte
    BY WidthAssumption DEF Column, Byte
  <2>4. MemOK(mem)
    BY <2>1, <2>2, <2>3 DEF MemOK
  <2>5. ret \in Word
    BY IsWord DEF Init
  <2> QED
    BY <2>4, <2>5 DEF Typed
<1>2. Typed /\ [Next]_vars => Typed'
  <2> SUFFICES ASSUME Typed, [Next]_vars PROVE MemOK(mem') /\ ret' \in Word \cup {-1}
    BY DEF Typed, MemOK, IsMem
  <2>0. IsMem(mem) /\ 0 \in Word /\ Addr \subseteq Nat
    BY IsWord, AddrAssumption DEF Typed, MemOK
  <2>1. CASE UNCHANGED vars
    BY <2>1 DEF vars, Typed
  <2>2. ASSUME NEW a \in Addr, NEW w \in Value, WriteByte(a, Lo8(w))
        PROVE  MemOK(mem') /\ ret' \in Word \cup {-1}
    BY <2>0, <2>2, WriteByteKeeps, LowIsByte DEF WriteByte, Typed
  <2>3. ASSUME NEW a \in Addr, NEW w \in Value, WriteWord(a, w)
        PROVE  MemOK(mem') /\ ret' \in Word \cup {-1}
    BY <2>0, <2>3, WriteWordKeeps, ValueAssumption DEF WriteWord, Typed
  <2>4. ASSUME NEW a \in Addr, ReadByte(a)
        PROVE  MemOK(mem') /\ ret' \in Word \cup {-1}
    <3>1. vm_read_byte(mem, a) \in Nat /\ vm_read_byte(mem, a) < 256
      BY <2>0, ReadByteIsByte DEF Byte
    <3>2. vm_read_byte(mem, a) \in Word
      BY <3>1, IsWord
    <3> QED
      BY <2>4, <3>2 DEF ReadByte, Typed
  <2>5. ASSUME NEW a \in Addr, ReadWord(a)
        PROVE  MemOK(mem') /\ ret' \in Word \cup {-1}
    BY <2>0, <2>5, ReadWordIsWord DEF ReadWord, Typed
  <2> QED
    BY <2>1, <2>2, <2>3, <2>4, <2>5 DEF Next
<1>3. Typed => TypeOK
  <2> SUFFICES ASSUME Typed PROVE TypeOK
    OBVIOUS
  <2>1. \A i \in DOMAIN mem.wire : mem.wire[i].x < VGIO_WIDTH
    <3>1. \A i \in DOMAIN mem.wire : mem.wire[i] \in Command
      BY DEF Typed, MemOK
    <3>2. \A c \in Command : c.x \in 0 .. VGIO_WIDTH - 1
      BY DEF Command, Column
    <3>3. \A x \in 0 .. VGIO_WIDTH - 1 : x < VGIO_WIDTH
      BY WidthAssumption
    <3> QED
      BY <3>1, <3>2, <3>3
  <2> QED
    BY <2>1 DEF Typed, TypeOK, MemOK, IsMem, Column
<1> QED
  BY <1>1, <1>2, <1>3, PTL DEF Spec
=============================================================================
