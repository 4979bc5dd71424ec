---------------------------- MODULE MemMap_proof ----------------------------
(***************************************************************************)
(* What the accessors of mem.c and the sending half of vgui.c keep of the   *)
(* record of MemMap, for every width of the screen: the cells are bytes     *)
(* inside the struct, the cursor stays in its row, and the commands on the  *)
(* wire carry columns of the screen.                                        *)
(***************************************************************************)
EXTENDS Integers, MemMap, TLAPS

Column == 0 .. VGIO_WIDTH - 1
Command == [command : {"set_cursor", "set_char"}, x : Column, y : Byte, c : Byte]

\* The operators are EXCEPTs of a record of these fields.
IsMem(m) ==
  /\ m = [cell |-> m.cell, x |-> m.x, y |-> m.y, wire |-> m.wire, wild |-> m.wild]
  /\ m.cell \in [DOMAIN m.cell -> Byte]

MemOK(m) ==
  /\ IsMem(m)
  /\ DOMAIN m.cell \subseteq 0 .. MemSize - 1
  /\ m.x \in Column /\ m.y \in Byte /\ m.wire \in Seq(Command)

-----------------------------------------------------------------------------
(* One byte *)

\* Peek sees exactly the byte Poke stored.
LEMMA PeekPoke ==
  ASSUME NEW m, IsMem(m), NEW a, NEW v, NEW b
  PROVE  Peek(Poke(m, a, v), b) = IF b = a THEN v ELSE Peek(m, b)
BY DEF IsMem, Peek, Poke

LEMMA PokeIsMem ==
  ASSUME NEW m, IsMem(m), NEW a, NEW v \in Byte
  PROVE  IsMem(Poke(m, a, v))
BY DEF IsMem, Poke

LEMMA PokeKeeps ==
  ASSUME NEW m, MemOK(m), NEW a \in 0 .. MemSize - 1, NEW v \in Byte
  PROVE  MemOK(Poke(m, a, v))
<1>1. IsMem(Poke(m, a, v))
  BY PokeIsMem DEF MemOK
<1>2. Poke(m, a, v).x = m.x /\ Poke(m, a, v).y = m.y /\ Poke(m, a, v).wire = m.wire
  BY DEF Poke, MemOK, IsMem
<1>3. DOMAIN Poke(m, a, v).cell = DOMAIN m.cell \cup {a}
  BY DEF Poke, MemOK, IsMem
<1> QED
  BY <1>1, <1>2, <1>3 DEF MemOK

LEMMA PeekIsByte ==
  ASSUME NEW m, IsMem(m), NEW a
  PROVE  Peek(m, a) \in Byte
BY DEF IsMem, Peek, Byte

LEMMA Halves ==
  ASSUME NEW w \in Word
  PROVE  Lo8(w) \in Byte /\ Hi8(w) \in Byte
<1>1. w \in Nat /\ w =< 65535
  BY DEF Word
<1>2. w % 256 \in 0 .. 255 /\ w \div 256 \in 0 .. 255
  BY <1>1
<1> QED
  BY <1>2 DEF Lo8, Hi8, Byte

\* Membership in Word without its bounds spelled out to the provers.
LEMMA IsWord ==
  ASSUME NEW x \in Int, 0 =< x, x =< 65535
  PROVE  x \in Word
<1> DEFINE top == 65535
<1>1. top \in Int /\ x =< top
  OBVIOUS
<1>2. Word = 0 .. top
  BY DEF Word
<1> HIDE DEF top
<1>3. x \in 0 .. top
  BY <1>1
<1> QED
  BY <1>2, <1>3

\* A word is its halves.
LEMMA TwoBytes ==
  ASSUME NEW l \in Byte, NEW h \in Byte
  PROVE  l + 256 * h \in Word
<1> DEFINE w == l + 256 * h
<1>1. l \in Int /\ h \in Int /\ 0 =< l /\ l =< 255 /\ 0 =< h /\ h =< 255
  BY DEF Byte
<1>2. w \in Int /\ 0 =< w /\ w =< 65535
  BY <1>1
<1> HIDE DEF w
<1>3. w \in Word
  BY <1>2, IsWord
<1> QED
  BY <1>3 DEF w

-----------------------------------------------------------------------------
(* The screen's commands *)

\* Sending a character changes neither the memory nor the shape of the record.
LEMMA SetCharKeepsCells ==
  ASSUME NEW m, IsMem(m), NEW c
  PROVE  IsMem(vgui_set_char(m, c)) /\ vgui_set_char(m, c).cell = m.cell
<1> DEFINE sent == Append(m.wire, [command |-> "set_char", x |-> m.x, y |-> m.y, c |-> c])
           nx == IF m.x + 1 < VGIO_WIDTH THEN m.x + 1 ELSE 0
           ny == IF m.x + 1 < VGIO_WIDTH THEN m.y ELSE (m.y + 1) % 256
<1>1. vgui_set_char(m, c) = [m EXCEPT !.wire = sent, !.x = nx, !.y = ny]
  BY DEF vgui_set_char
<1> HIDE DEF sent, nx, ny
<1>2. vgui_set_char(m, c) =
        [cell |-> m.cell, x |-> nx, y |-> ny, wire |-> sent, wild |-> m.wild]
  BY <1>1 DEF IsMem
<1> QED
  BY <1>2 DEF IsMem

\* vgui_set_char sends one command, at the cursor, which moves on in the row
\* or to the start of the next.
NextX(x) == IF x + 1 < VGIO_WIDTH THEN x + 1 ELSE 0
NextY(x, y) == IF x + 1 < VGIO_WIDTH THEN y ELSE (y + 1) % 256

LEMMA SetCharKeeps ==
  ASSUME NEW m, MemOK(m), NEW c \in Byte
  PROVE  /\ MemOK(vgui_set_char(m, c))
         /\ vgui_set_char(m, c).wire =
              Append(m.wire, [command |-> "set_char", x |-> m.x, y |-> m.y, c |-> c])
         /\ vgui_set_char(m, c).x = NextX(m.x) /\ vgui_set_char(m, c).y = NextY(m.x, m.y)
<1> DEFINE vc == [command |-> "set_char", x |-> m.x, y |-> m.y, c |-> c]
           nx == NextX(m.x)
           ny == NextY(m.x, m.y)
<1>1. vc \in Command /\ Append(m.wire, vc) \in Seq(Command)
  BY DEF MemOK, Command
<1>2. nx \in Column /\ ny \in Byte
  <2>0. m.x \in 0 .. VGIO_WIDTH - 1 /\ m.y \in 0 .. 255
    BY DEF MemOK, Column, Byte
  <2>1. m.x \in Nat /\ m.x < VGIO_WIDTH /\ VGIO_WIDTH \in Nat /\ m.y \in Nat /\ m.y < 256
    BY <2>0, WidthAssumption
  <2>2. nx \in Nat /\ nx < VGIO_WIDTH
    BY <2>1, WidthAssumption DEF NextX
  <2>3. (m.y + 1) % 256 \in 0 .. 255
    BY <2>1
  <2> QED
    BY <2>1, <2>2, <2>3 DEF Column, Byte, NextY
<1>3. vgui_set_char(m, c) = [m EXCEPT !.wire = Append(m.wire, vc), !.x = nx, !.y = ny]
  BY DEF vgui_set_char, NextX, NextY
<1> HIDE DEF vc, nx, ny
<1>4. vgui_set_char(m, c) =
        [cell |-> m.cell, x |-> nx, y |-> ny, wire |-> Append(m.wire, vc), wild |-> m.wild]
  BY <1>3 DEF MemOK, IsMem
<1>5. MemOK(vgui_set_char(m, c))
  BY <1>1, <1>2, <1>4 DEF MemOK, IsMem
<1> QED
  BY <1>4, <1>5 DEF vc, nx, ny

\* vgui_cursor_set cuts both coordinates to a byte.
LEMMA CursorSetKeeps ==
  ASSUME NEW m, MemOK(m), NEW x \in Column, NEW y \in Nat
  PROVE  LET s == vgui_cursor_set(m, x, y)
         IN  /\ MemOK(s) /\ s.cell = m.cell /\ s.x = x % 256 /\ s.y = y % 256
             /\ s.wire = Append(m.wire, [command |-> "set_cursor", x |-> x % 256,
                                         y |-> y % 256, c |-> 0])
<1> DEFINE vc == [command |-> "set_cursor", x |-> x % 256, y |-> y % 256, c |-> 0]
           bx == x % 256
           by == y % 256
<1>1. bx \in Column /\ by \in Byte
  <2>1. x \in Nat /\ x < VGIO_WIDTH /\ VGIO_WIDTH \in Nat
    BY WidthAssumption DEF Column
  <2>2. bx \in Nat /\ bx =< x /\ by \in 0 .. 255
    BY <2>1
  <2> QED
    BY <2>1, <2>2 DEF Column, Byte
<1>2. vc \in Command
  BY <1>1 DEF Command, Byte
<1>3. Append(m.wire, vc) \in Seq(Command)
  BY <1>2 DEF MemOK
<1>4. vgui_cursor_set(m, x, y) = [m EXCEPT !.wire = Append(m.wire, vc), !.x = bx, !.y = by]
  BY DEF vgui_cursor_set
<1> HIDE DEF vc, bx, by
<1>5. vgui_cursor_set(m, x, y) =
        [cell |-> m.cell, x |-> bx, y |-> by, wire |-> Append(m.wire, vc), wild |-> m.wild]
  BY <1>4 DEF MemOK, IsMem
<1>6. MemOK(vgui_cursor_set(m, x, y))
  BY <1>1, <1>3, <1>5 DEF MemOK, IsMem
<1> QED
  BY <1>5, <1>6 DEF vc, bx, by

-----------------------------------------------------------------------------
(* The accessors *)

LEMMA SizeIsNat == MemSize \in Nat
BY SMT DEF MemSize

\* Every branch of the accessors lies in the struct.
LEMMA BackedInStruct ==
  ASSUME NEW a \in Nat, ByteBacked(a)
  PROVE  a < MemSize
<1>1. PICK i \in DOMAIN Region : InByteBranch(i, a)
  BY DEF ByteBacked
<1>2. i \in 1 .. 12
  BY DEF Region
<1>3. Region[i].hi < MemSize
  BY <1>2 DEF Region, MemSize, TextHi
<1>4. a =< Region[i].hi /\ Region[i].hi \in Nat
  BY <1>1, <1>2 DEF InByteBranch, Region, TextHi
<1> QED
  BY <1>3, <1>4 DEF MemSize

LEMMA ReadByteIsByte ==
  ASSUME NEW m, IsMem(m), NEW a
  PROVE  vm_read_byte(m, a) \in Byte
BY PeekIsByte DEF vm_read_byte, Byte

LEMMA ReadWordIsWord ==
  ASSUME NEW m, IsMem(m), NEW a
  PROVE  vm_read_word(m, a) \in Word
<1>1. Peek(m, a) + 256 * Peek(m, a + 1) \in Word
  BY PeekIsByte, TwoBytes
<1>2. 0 \in Word
  BY IsWord
<1> QED
  BY <1>1, <1>2 DEF vm_read_word

LEMMA WriteByteKeeps ==
  ASSUME NEW m, MemOK(m), NEW a \in Nat, NEW v \in Byte
  PROVE  MemOK(vm_write_byte(m, a, v))
<1> DEFINE shown == IF IsText(a) /\ a % 2 = 0 THEN vgui_set_char(m, v) ELSE m
<1>1. MemOK(shown)
  BY SetCharKeeps
<1>2. CASE ~ByteBacked(a)
  BY <1>2 DEF vm_write_byte
<1>3. CASE ByteBacked(a)
  <2>1. a \in 0 .. MemSize - 1
    BY <1>3, BackedInStruct, SizeIsNat
  <2>2. vm_write_byte(m, a, v) = Poke(shown, a, v)
    BY <1>3 DEF vm_write_byte
  <2> HIDE DEF shown
  <2> QED
    BY <1>1, <2>1, <2>2, PokeKeeps
<1> QED
  BY <1>2, <1>3

\* What ShowWord sends: the column and row of the word, then its low byte.
LEMMA ShowWordKeeps ==
  ASSUME NEW m, MemOK(m), NEW a \in Nat, IsText(a), NEW w \in Word
  PROVE  MemOK(ShowWord(m, a, w))
<1> DEFINE nword == (a - TextLo) \div 2
           placed == vgui_cursor_set(m, nword % VGIO_WIDTH, nword \div VGIO_WIDTH)
<1>1. nword \in Nat
  BY DEF IsText, TextLo
<1> HIDE DEF nword
<1>2. nword % VGIO_WIDTH \in Column /\ nword \div VGIO_WIDTH \in Nat
  BY <1>1, WidthAssumption DEF Column
<1>3. MemOK(placed)
  BY <1>2, CursorSetKeeps
<1>4. ShowWord(m, a, w) = vgui_set_char(placed, Lo8(w))
  BY DEF ShowWord, nword
<1> HIDE DEF placed
<1> QED
  BY <1>3, <1>4, Halves, SetCharKeeps

\* Where a word store lands: in the array or beyond it, never before it.
LEMMA StoreCellIsNat ==
  ASSUME NEW a \in Nat, WordBacked(a)
  PROVE  StoreCell(a) \in Nat /\ a =< StoreCell(a)
<1> DEFINE First(i) == InWordBranch(i, a) /\ \A j \in 1 .. i - 1 : ~InWordBranch(j, a)
<1>1. \E i \in 1 .. 12 : First(i)
  <2>1. \E i \in 1 .. 12 : InWordBranch(i, a)
    BY SMT DEF WordBacked, Region
  <2> QED
    BY <2>1
<1>2. DOMAIN Region = 1 .. 12
  BY SMT DEF Region
<1>3. PICK i \in 1 .. 12 : First(i) /\ WordBranch(a) = Region[i]
  BY <1>1, <1>2 DEF WordBranch
<1>4. Region[i].lo \in Nat
  BY <1>3, SMT DEF Region, TextLo, TextHi
<1>5. Region[i].lo =< a
  BY <1>3 DEF InWordBranch
<1> QED
  BY <1>3, <1>4, <1>5 DEF StoreCell

LEMMA WriteWordKeeps ==
  ASSUME NEW m, MemOK(m), NEW a \in Nat, NEW w \in Word
  PROVE  MemOK(vm_write_word(m, a, w))
<1> DEFINE shown == IF IsText(a) THEN ShowWord(m, a, w) ELSE m
           t == StoreCell(a)
<1>1. MemOK(shown)
  BY ShowWordKeeps
<1>2. CASE ~WordBacked(a)
  BY <1>2 DEF vm_write_word
<1>3. CASE WordBacked(a)
  <2>1. t \in Nat
    BY <1>3, StoreCellIsNat
  <2>2. vm_write_word(m, a, w) = StoreWord(shown, t, w)
    BY <1>3 DEF vm_write_word
  <2> HIDE DEF shown, t
  <2>3. CASE t + 1 < MemSize
    <3>1. t \in 0 .. MemSize - 1 /\ t + 1 \in 0 .. MemSize - 1
      BY <2>1, <2>3, SizeIsNat
    <3>2. MemOK(Poke(shown, t, Lo8(w)))
      BY <1>1, <3>1, Halves, PokeKeeps
    <3>3. MemOK(Poke(Poke(shown, t, Lo8(w)), t + 1, Hi8(w)))
      BY <3>1, <3>2, Halves, PokeKeeps
    <3> QED
      BY <2>2, <2>3, <3>3 DEF StoreWord
  <2>4. CASE ~(t + 1 < MemSize)
    <3>1. vm_write_word(m, a, w) = [shown EXCEPT !.wild = TRUE]
      BY <2>2, <2>4 DEF StoreWord
    <3>2. vm_write_word(m, a, w) =
            [cell |-> shown.cell, x |-> shown.x, y |-> shown.y, wire |-> shown.wire,
             wild |-> TRUE]
      BY <1>1, <3>1 DEF MemOK, IsMem
    <3>3. IsMem(vm_write_word(m, a, w))
      BY <1>1, <3>2 DEF MemOK, IsMem
    <3> QED
      BY <1>1, <3>2, <3>3 DEF MemOK
  <2> QED
    BY <2>3, <2>4
<1> QED
  BY <1>2, <1>3

-----------------------------------------------------------------------------
(* What goes over the socket *)

LEMMA RowAndColumn ==
  ASSUME NEW i \in Nat
  PROVE  /\ i % VGIO_WIDTH \in Column /\ i \div VGIO_WIDTH \in Nat
         /\ (i \div VGIO_WIDTH) * VGIO_WIDTH + (i % VGIO_WIDTH) = i
BY WidthAssumption DEF Column

\* Storing in the array leaves the screen's part alone, and what lies below.
LEMMA PokeKeepsScreen ==
  ASSUME NEW m, IsMem(m), NEW a, NEW v
  PROVE  /\ Poke(m, a, v).wire = m.wire
         /\ Poke(m, a, v).x = m.x /\ Poke(m, a, v).y = m.y
BY DEF Poke, IsMem

LEMMA StoreWordKeepsScreen ==
  ASSUME NEW m, IsMem(m), NEW t \in Nat, NEW w \in Word
  PROVE  LET s == StoreWord(m, t, w)
         IN  /\ s.wire = m.wire /\ s.x = m.x /\ s.y = m.y
             /\ \A b \in Nat : b < t => Peek(s, b) = Peek(m, b)
<1> DEFINE low == Poke(m, t, Lo8(w))
<1>1. /\ IsMem(low) /\ low.wire = m.wire /\ low.x = m.x /\ low.y = m.y
      /\ \A b : b # t => Peek(low, b) = Peek(m, b)
  BY Halves, PokeIsMem, PeekPoke, PokeKeepsScreen
<1> HIDE DEF low
<1> DEFINE both == Poke(low, t + 1, Hi8(w))
<1>2. /\ both.wire = m.wire /\ both.x = m.x /\ both.y = m.y
      /\ \A b : b # t + 1 => Peek(both, b) = Peek(low, b)
  BY <1>1, PeekPoke, PokeKeepsScreen
<1> DEFINE off == [m EXCEPT !.wild = TRUE]
<1>3. /\ off.wire = m.wire /\ off.x = m.x /\ off.y = m.y
      /\ \A b : Peek(off, b) = Peek(m, b)
  BY DEF IsMem, Peek
<1>4. StoreWord(m, t, w) = IF t + 1 < MemSize THEN both ELSE off
  BY DEF StoreWord, low
<1> HIDE DEF both, off
<1> QED
  BY <1>1, <1>2, <1>3, <1>4

\* The commands for the i-th word of the text page, both coordinates cut to
\* bytes.
CharAt(i, c) == [command |-> "set_char", x |-> (i % VGIO_WIDTH) % 256,
                 y |-> (i \div VGIO_WIDTH) % 256, c |-> c]
PlaceAt(i) == [command |-> "set_cursor", x |-> (i % VGIO_WIDTH) % 256,
               y |-> (i \div VGIO_WIDTH) % 256, c |-> 0]

LEMMA TextWordSends ==
  ASSUME NEW m, MemOK(m), NEW a \in Nat, IsText(a), WordBacked(a), NEW w \in Word,
         NEW i, i = (a - TextLo) \div 2
  PROVE  LET s == vm_write_word(m, a, w)
             vc == CharAt(i, Lo8(w))
         IN  /\ s.wire = Append(Append(m.wire, PlaceAt(i)), vc)
             /\ s.x = NextX(vc.x) /\ s.y = NextY(vc.x, vc.y)
             /\ \A b \in Nat : b < a => Peek(s, b) = Peek(m, b)
<1> DEFINE x == i % VGIO_WIDTH
           y == i \div VGIO_WIDTH
           c == Lo8(w)
           placed == vgui_cursor_set(m, x, y)
           shown == vgui_set_char(placed, c)
           s == vm_write_word(m, a, w)
<1>1. i \in Nat
  BY DEF IsText, TextLo
<1>2. x \in Column /\ y \in Nat
  BY <1>1, WidthAssumption DEF Column
<1>3. c \in Byte
  BY Halves
<1>4. s = StoreWord(shown, StoreCell(a), w)
  BY DEF vm_write_word, ShowWord
<1>5. StoreCell(a) \in Nat /\ a =< StoreCell(a)
  BY StoreCellIsNat
<1> HIDE DEF x, y, c, s
<1>6. /\ MemOK(placed) /\ placed.wire = Append(m.wire, PlaceAt(i)) /\ placed.cell = m.cell
      /\ placed.x = CharAt(i, c).x /\ placed.y = CharAt(i, c).y
  BY <1>2, CursorSetKeeps DEF PlaceAt, CharAt, x, y
<1> HIDE DEF placed
<1>7. /\ MemOK(shown)
      /\ shown.wire = Append(placed.wire, [command |-> "set_char", x |-> placed.x,
                                           y |-> placed.y, c |-> c])
      /\ shown.x = NextX(placed.x) /\ shown.y = NextY(placed.x, placed.y)
  BY <1>3, <1>6, SetCharKeeps
<1>8. shown.cell = m.cell
  BY <1>6, SetCharKeepsCells DEF MemOK
<1>9. [command |-> "set_char", x |-> placed.x, y |-> placed.y, c |-> c] = CharAt(i, c)
  BY <1>6 DEF CharAt
<1> HIDE DEF shown
<1>10. /\ s.wire = shown.wire /\ s.x = shown.x /\ s.y = shown.y
       /\ \A b \in Nat : b < StoreCell(a) => Peek(s, b) = Peek(shown, b)
  BY <1>4, <1>5, <1>7, StoreWordKeepsScreen DEF MemOK
<1>11. \A b \in Nat : b < a => Peek(s, b) = Peek(m, b)
  BY <1>5, <1>8, <1>10 DEF Peek
<1> QED
  BY <1>6, <1>7, <1>9, <1>10, <1>11 DEF s, c

\* A byte at an even address is sent where the cursor is, any other byte not.
LEMMA TextByteSends ==
  ASSUME NEW m, MemOK(m), NEW a \in Nat, IsText(a), NEW v \in Byte
  PROVE  LET s == vm_write_byte(m, a, v)
         IN  /\ s.wire = IF a % 2 = 0
                           THEN Append(m.wire, [command |-> "set_char", x |-> m.x, y |-> m.y,
                                                c |-> v])
                           ELSE m.wire
             /\ s.x = (IF a % 2 = 0 THEN NextX(m.x) ELSE m.x)
             /\ s.y = (IF a % 2 = 0 THEN NextY(m.x, m.y) ELSE m.y)
             /\ \A b \in Nat : b < a => Peek(s, b) = Peek(m, b)
<1> DEFINE char == vgui_set_char(m, v)
           shown == IF a % 2 = 0 THEN char ELSE m
           s == vm_write_byte(m, a, v)
<1>1. 9 \in DOMAIN Region /\ InByteBranch(9, a)
  BY SMT DEF Region, InByteBranch, IsText
<1>2. s = Poke(shown, a, v)
  BY <1>1 DEF vm_write_byte, ByteBacked
<1>3. /\ MemOK(char) /\ char.cell = m.cell
      /\ char.wire = Append(m.wire, [command |-> "set_char", x |-> m.x, y |-> m.y, c |-> v])
      /\ char.x = NextX(m.x) /\ char.y = NextY(m.x, m.y)
  BY SetCharKeeps, SetCharKeepsCells DEF MemOK
<1> HIDE DEF s, char
<1>4. MemOK(shown) /\ shown.cell = m.cell
  BY <1>3
<1>5. /\ s.wire = shown.wire /\ s.x = shown.x /\ s.y = shown.y
      /\ \A b : b # a => Peek(s, b) = Peek(shown, b)
  <2> HIDE DEF shown
  <2> QED
    BY <1>2, <1>4, PokeKeepsScreen, PeekPoke DEF MemOK
<1>6. \A b \in Nat : b < a => Peek(s, b) = Peek(m, b)
  <2> HIDE DEF shown
  <2> QED
    BY <1>4, <1>5 DEF Peek
<1> QED
  BY <1>3, <1>5, <1>6 DEF s

\* Taking the oldest command off the wire.
LEMMA TakeKeeps ==
  ASSUME NEW m, MemOK(m), m.wire # << >>
  PROVE  LET t == [m EXCEPT !.wire = Tail(@)]
         IN  MemOK(t) /\ t.wire = Tail(m.wire) /\ t.cell = m.cell /\ t.x = m.x /\ t.y = m.y
<1> DEFINE rest == Tail(m.wire)
           t == [m EXCEPT !.wire = Tail(@)]
<1>1. rest \in Seq(Command)
  BY DEF MemOK
<1>2. t = [m EXCEPT !.wire = rest]
  OBVIOUS
<1> HIDE DEF rest
<1>3. t = [cell |-> m.cell, x |-> m.x, y |-> m.y, wire |-> rest, wild |-> m.wild]
  BY <1>2 DEF MemOK, IsMem
<1> HIDE DEF t
<1>4. IsMem(t) /\ t.cell = m.cell /\ t.x = m.x /\ t.y = m.y /\ t.wire = rest
  BY <1>3 DEF MemOK, IsMem
<1>5. MemOK(t)
  BY <1>1, <1>4 DEF MemOK
<1> QED
  BY <1>4, <1>5 DEF t, rest
=============================================================================
