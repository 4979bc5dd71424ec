------------------------------- MODULE MemMap -------------------------------
(***************************************************************************)
(* arch/8086/mem.c and the sending half of vgui.c, as operators on one      *)
(* record m:                                                                *)
(*   cell  the touched bytes of struct vm_mem (calloc: the others are 0);   *)
(*         the struct is packed and its arrays lie end to end, so the       *)
(*         offset of a byte in the struct is its guest address              *)
(*   x, y  g_vgui_screen_info.cursor                                        *)
(*   wire  the vgio_command records written to the socket, oldest first     *)
(*   wild  TRUE once a store has landed beyond the struct                   *)
(***************************************************************************)
EXTENDS Naturals, Sequences

CONSTANT VGIO_WIDTH     \* columns of the screen, 80 in vgio.h
ASSUME WidthAssumption == VGIO_WIDTH \in Nat \ {0}

Byte == 0 .. 255
Word == 0 .. 65535
Lo8(w) == w % 256
Hi8(w) == w \div 256

MemSize == 1048576
TextLo == 753664    \* 0xb8000
TextHi == 786431    \* 0xbffff
MbrLo  == 31744     \* 0x7c00

\* The branches of the accessors in the order they are tested.  The second
\* runs to 0xfff, over the start of the third; the one for the ROM stops at
\* 0xe7fff, where the struct goes on to 0xeffff.
Region ==
  << [lo |-> 0,       hi |-> 1023],        \* ivt
     [lo |-> 1024,    hi |-> 4095],        \* biosda
     [lo |-> 1280,    hi |-> 31743],       \* a
     [lo |-> 31744,   hi |-> 32255],       \* mbr
     [lo |-> 32256,   hi |-> 654335],      \* b
     [lo |-> 654336,  hi |-> 655359],      \* ebda
     [lo |-> 655360,  hi |-> 720895],      \* c_adapter
     [lo |-> 720896,  hi |-> 753663],      \* bw_adapter
     [lo |-> TextLo,  hi |-> TextHi],      \* t_adapter
     [lo |-> 786432,  hi |-> 819199],      \* adapter
     [lo |-> 819200,  hi |-> 950271],      \* rom
     [lo |-> 983040,  hi |-> 1048575] >>   \* bios

vm_init == [cell |-> [a \in {} |-> 0], x |-> 0, y |-> 0, wire |-> << >>, wild |-> FALSE]

Peek(m, a) == IF a \in DOMAIN m.cell THEN m.cell[a] ELSE 0

Poke(m, a, v) ==
  [m EXCEPT !.cell = [b \in DOMAIN @ \cup {a} |-> IF b = a THEN v ELSE @[b]]]

-----------------------------------------------------------------------------
(* Bytes: every branch indexes its array with maddr - lo. *)

InByteBranch(i, a) == Region[i].lo =< a /\ a =< Region[i].hi
ByteBacked(a) == \E i \in DOMAIN Region : InByteBranch(i, a)

vm_read_byte(m, a) == IF ByteBacked(a) THEN Peek(m, a) ELSE 0

\* Mutant: <= for < at the end of the row.
vgui_set_char_OffByOne(m, c) ==
  [m EXCEPT !.wire = Append(@, [command |-> "set_char", x |-> m.x, y |-> m.y, c |-> c]),
            !.x = IF m.x < VGIO_WIDTH THEN m.x + 1 ELSE 0,
            !.y = IF m.x < VGIO_WIDTH THEN m.y ELSE (m.y + 1) % 256]

\* The character goes out at the local cursor, which then moves on (uint8_t).
vgui_set_char(m, c) ==
  [m EXCEPT !.wire = Append(@, [command |-> "set_char", x |-> m.x, y |-> m.y, c |-> c]),
            !.x = IF m.x + 1 < VGIO_WIDTH THEN m.x + 1 ELSE 0,
            !.y = IF m.x + 1 < VGIO_WIDTH THEN m.y ELSE (m.y + 1) % 256]

vgui_cursor_set(m, x, y) ==
  [m EXCEPT !.wire = Append(@, [command |-> "set_cursor", x |-> x % 256, y |-> y % 256, c |-> 0]),
            !.x = x % 256, !.y = y % 256]

IsText(a) == TextLo =< a /\ a =< TextHi

\* Mutant: the text branch returns after it has sent the character.
vm_write_byte_SendsOnly(m, a, v) ==
  IF ~ByteBacked(a) THEN m
  ELSE IF IsText(a) /\ a % 2 = 0 THEN vgui_set_char(m, v) ELSE Poke(m, a, v)

\* A byte stored at an even text address is sent where the cursor happens to
\* be: the call that would place the cursor is commented out.
vm_write_byte(m, a, v) ==
  IF ~ByteBacked(a) THEN m
  ELSE Poke(IF IsText(a) /\ a % 2 = 0 THEN vgui_set_char(m, v) ELSE m, a, v)

-----------------------------------------------------------------------------
(* Words: the last byte of a branch does not qualify (maddr < hi). *)

InWordBranch(i, a) == Region[i].lo =< a /\ a < Region[i].hi
WordBacked(a) == \E i \in DOMAIN Region : InWordBranch(i, a)
WordBranch(a) ==
  Region[CHOOSE i \in DOMAIN Region :
           /\ InWordBranch(i, a)
           /\ \A j \in 1 .. i - 1 : ~InWordBranch(j, a)]

vm_read_word(m, a) ==
  IF WordBacked(a) THEN Peek(m, a) + 256 * Peek(m, a + 1) ELSE 0

\* ((uint16_t*)array)[maddr - lo]: the index counts words, not bytes.
StoreCell(a) == LET lo == WordBranch(a).lo IN lo + 2 * (a - lo)

StoreWord(m, t, w) ==
  IF t + 1 < MemSize THEN Poke(Poke(m, t, Lo8(w)), t + 1, Hi8(w))
                     ELSE [m EXCEPT !.wild = TRUE]

\* Mutant: the cursor is not placed first, as in vm_write_byte.
ShowWord_NoCursor(m, a, w) == vgui_set_char(m, Lo8(w))

ShowWord(m, a, w) ==
  LET nword == (a - TextLo) \div 2
  IN  vgui_set_char(vgui_cursor_set(m, nword % VGIO_WIDTH, nword \div VGIO_WIDTH), Lo8(w))

vm_write_word(m, a, w) ==
  IF ~WordBacked(a) THEN m
  ELSE StoreWord(IF IsText(a) THEN ShowWord(m, a, w) ELSE m, StoreCell(a), w)

\* Reads index the array in units of four bytes; a read that runs beyond the
\* struct delivers bytes this model takes as 0.
vm_read_dword_word(m, t) == Peek(m, t) + 256 * Peek(m, t + 1)
vm_read_dword(m, a) ==
  IF WordBacked(a)
    THEN LET lo == WordBranch(a).lo
             t  == lo + 4 * (a - lo)
         IN  [low |-> vm_read_dword_word(m, t), high |-> vm_read_dword_word(m, t + 2)]
    ELSE [low |-> 0, high |-> 0]

vm_addr_calc(base, offset) == base * 16 + offset

\* loadhd: the disk image is copied to vm_mbr before the CPU starts.
loadhd(image) ==
  [vm_init EXCEPT !.cell = [a \in MbrLo .. MbrLo + Len(image) - 1 |-> image[a - MbrLo + 1]]]
=============================================================================
