--------------------------- MODULE Display_proof ---------------------------
(***************************************************************************)
(* For every width and height of the screen, every set of cells and         *)
(* characters and any number of stores.  What the screen still has to       *)
(* become is on the wire: the last command for a cell carries what the      *)
(* guest stored there last, and a cell without one shows it already.        *)
(***************************************************************************)
EXTENDS Display, MemMap_proof

\* The cell of g_vgio_screen a command addresses.
Target(vc) == vc.y * VGIO_WIDTH + vc.x

Screen == [0 .. ScreenSize - 1 -> Byte]

Typed ==
  /\ MemOK(mem)
  /\ stores \in 0 .. MaxStores /\ overrun \in BOOLEAN
  /\ screen \in Screen /\ frame \in Screen /\ shown \in Screen
  /\ next \in 0 .. ScreenSize - 1
  /\ ideal \in [Cells -> Byte]

-----------------------------------------------------------------------------
(* Arithmetic of the screen *)

LEMMA SizeIsPositive == ScreenSize \in Nat \ {0}
BY WidthAssumption, HeightAssumption DEF ScreenSize

\* A command that reaches less far than one on the screen is on the screen.
LEMMA SmallerIsOnScreen ==
  ASSUME NEW x \in Nat, NEW y \in Nat, NEW bx \in Nat, NEW by \in Nat,
         bx =< x, by =< y, y * VGIO_WIDTH + x < ScreenSize
  PROVE  by * VGIO_WIDTH + bx < ScreenSize
<1>1. by * VGIO_WIDTH =< y * VGIO_WIDTH
  BY WidthAssumption
<1> QED
  BY <1>1, WidthAssumption, SizeIsPositive

LEMMA TargetIsNat ==
  ASSUME NEW vc \in Command
  PROVE  Target(vc) \in Nat
<1>1. vc.x \in 0 .. VGIO_WIDTH - 1 /\ vc.y \in 0 .. 255
  BY DEF Command, Column, Byte
<1> QED
  BY <1>1, WidthAssumption DEF Target

-----------------------------------------------------------------------------
(* A store of the guest *)

LEMMA TextCell ==
  ASSUME NEW i \in Cells
  PROVE  LET a == TextLo + 2 * i
         IN  i \in Nat /\ a \in Nat /\ IsText(a) /\ WordBacked(a) /\ (a - TextLo) \div 2 = i
<1> DEFINE a == TextLo + 2 * i
<1>1. i \in Nat /\ IsText(a)
  BY GuestAssumption
<1>2. a \in Nat /\ IsText(a) /\ a < TextHi /\ (a - TextLo) \div 2 = i
  BY <1>1, SMT DEF IsText, TextLo, TextHi
<1>3. 9 \in DOMAIN Region /\ Region[9].lo = TextLo /\ Region[9].hi = TextHi
  BY SMT DEF Region
<1> HIDE DEF a
<1>4. InWordBranch(9, a)
  BY <1>2, <1>3 DEF InWordBranch, IsText
<1> QED
  BY <1>1, <1>2, <1>3, <1>4 DEF WordBacked, a

LEMMA CharIsWord ==
  ASSUME NEW c \in Byte
  PROVE  c \in Word /\ Lo8(c) = c
<1>1. c \in Int /\ 0 =< c /\ c =< 255
  BY DEF Byte
<1> QED
  BY <1>1, IsWord DEF Lo8

LEMMA CellSends ==
  ASSUME NEW m, MemOK(m), NEW i \in Cells, NEW c \in Byte
  PROVE  vm_write_word(m, TextLo + 2 * i, c).wire
           = Append(Append(m.wire, PlaceAt(i)), CharAt(i, c))
BY TextCell, CharIsWord, TextWordSends

-----------------------------------------------------------------------------
(* Types *)

LEMMA TypedInit == Init => Typed
<1> SUFFICES ASSUME Init PROVE Typed
  OBVIOUS
<1>1. mem = [cell |-> [a \in {} |-> 0], x |-> 0, y |-> 0, wire |-> << >>, wild |-> FALSE]
  BY DEF Init, vm_init
<1>2. IsMem(mem)
  BY <1>1 DEF IsMem
<1>3. 0 \in Column /\ 0 \in Byte
  BY WidthAssumption DEF Column, Byte
<1>4. MemOK(mem)
  BY <1>1, <1>2, <1>3 DEF MemOK
<1>5. Blank \in Screen /\ 0 \in 0 .. ScreenSize - 1
  BY <1>3, SizeIsPositive DEF Blank, Screen
<1>6. 0 \in 0 .. MaxStores
  BY GuestAssumption
<1> QED
  BY <1>3, <1>4, <1>5, <1>6 DEF Init, Typed

LEMMA TypedStep == Typed /\ [Next]_vars => Typed'
<1> SUFFICES ASSUME Typed, [Next]_vars
             PROVE  /\ MemOK(mem')
                    /\ stores' \in 0 .. MaxStores /\ overrun' \in BOOLEAN
                    /\ screen' \in Screen /\ frame' \in Screen /\ shown' \in Screen
                    /\ next' \in 0 .. ScreenSize - 1
                    /\ ideal' \in [Cells -> Byte]
  BY DEF Typed, MemOK, IsMem
<1>1. CASE UNCHANGED vars
  BY <1>1 DEF vars, Typed
<1>2. ASSUME NEW op \in Ops, NEW i \in Cells, NEW c \in Chars, Store(op, i, c)
      PROVE  MemOK(mem') /\ stores' \in 0 .. MaxStores /\ ideal' \in [Cells -> Byte]
  <2>1. c \in Byte /\ c \in Word /\ TextLo + 2 * i \in Nat
    BY GuestAssumption, CharIsWord, TextCell
  <2>2. /\ MemOK(vm_write_word(mem, TextLo + 2 * i, c))
        /\ MemOK(vm_write_byte(mem, TextLo + 2 * i, c))
    BY <2>1, WriteWordKeeps, WriteByteKeeps DEF Typed
  <2>3. stores' \in 0 .. MaxStores
    BY <1>2, GuestAssumption DEF Store, Typed
  <2>4. ideal' \in [Cells -> Byte]
    BY <1>2, <2>1 DEF Store, Typed
  <2> QED
    BY <1>2, <2>2, <2>3, <2>4 DEF Store
<1>3. CASE StoreText
  BY <1>2, <1>3 DEF StoreText, Store, Typed, flush
<1>4. CASE command_proc
  <2>1. MemOK(mem')
    BY <1>4, TakeKeeps DEF command_proc, Typed
  <2> DEFINE vc == Head(mem.wire)
  <2>2. vc \in Command
    BY <1>4 DEF command_proc, Typed, MemOK
  <2>3. Target(vc) \in Nat /\ vc.c \in Byte
    BY <2>2, TargetIsNat DEF Command
  <2> HIDE DEF vc
  <2>4. \/ UNCHANGED <<screen, overrun>>
        \/ Target(vc) < ScreenSize /\ screen' = [screen EXCEPT ![Target(vc)] = vc.c]
           /\ UNCHANGED overrun
        \/ overrun' = TRUE /\ UNCHANGED screen
    BY <1>4 DEF command_proc, Target, vc
  <2>5. screen' \in Screen /\ overrun' \in BOOLEAN
    BY <2>3, <2>4, SizeIsPositive DEF Typed, Screen
  <2> QED
    BY <1>4, <2>1, <2>5 DEF command_proc, Typed, flush
<1>5. CASE vgio_flush
  <2>1. screen[next] \in Byte
    BY DEF Typed, Screen
  <2> DEFINE printed == [frame EXCEPT ![next] = screen[next]]
  <2>2. printed \in Screen
    BY <2>1 DEF Typed, Screen
  <2>3. (next + 1) % ScreenSize \in 0 .. ScreenSize - 1
    BY SizeIsPositive DEF Typed
  <2> QED
    BY <1>5, <2>2, <2>3 DEF vgio_flush, Typed, cpu
<1> QED
  BY <1>1, <1>3, <1>4, <1>5 DEF Next

\* What is sent and what is drawn keep their shape for a screen of any size,
\* byte stores and stores beyond the last row included: the columns on the wire
\* stay in a row, and g_vgio_screen and the frames are screens of bytes.
THEOREM TypeCorrect == Spec => []TypeOK
<1>1. Typed => TypeOK
  <2> SUFFICES ASSUME Typed PROVE TypeOK
    OBVIOUS
  <2>1. \A c \in Command : c.x \in 0 .. VGIO_WIDTH - 1 /\ c.y \in Byte
    BY DEF Command, Column
  <2>2. \A x \in 0 .. VGIO_WIDTH - 1 : x < VGIO_WIDTH
    BY WidthAssumption
  <2>3. \A k \in DOMAIN mem.wire : mem.wire[k] \in Command
    BY DEF Typed, MemOK
  <2>4. mem.x < VGIO_WIDTH /\ mem.y \in Byte
    BY <2>2 DEF Typed, MemOK, Column
  <2> QED
    BY <2>1, <2>2, <2>3, <2>4 DEF TypeOK, Typed, Screen
<1> QED
  BY <1>1, TypedInit, TypedStep, PTL DEF Spec

-----------------------------------------------------------------------------
(* A guest that stores words to cells of the screen *)

OnlyWords == Ops = {"word"} /\ \A i \in Cells : OnScreen(i)

\* The steps of such a guest, seen on the wire.
LEMMA WordStore ==
  ASSUME Typed, OnlyWords, StoreText
  PROVE  \E i \in Cells, c \in Byte :
           /\ mem'.wire = Append(Append(mem.wire, PlaceAt(i)), CharAt(i, c))
           /\ ideal' = [ideal EXCEPT ![i] = c]
           /\ screen' = screen /\ overrun' = overrun
<1>1. PICK i \in Cells, c \in Chars : Store("word", i, c)
  BY DEF StoreText, OnlyWords, Store
<1>2. c \in Byte
  BY GuestAssumption
<1>3. mem' = vm_write_word(mem, TextLo + 2 * i, c)
  BY <1>1 DEF Store
<1>4. mem'.wire = Append(Append(mem.wire, PlaceAt(i)), CharAt(i, c))
  BY <1>2, <1>3, CellSends DEF Typed
<1> QED
  BY <1>1, <1>2, <1>4 DEF Store

LEMMA CutIsOnScreen ==
  ASSUME NEW i \in Cells, OnScreen(i), NEW c \in Byte
  PROVE  Target(CharAt(i, c)) < ScreenSize
<1> DEFINE x == i % VGIO_WIDTH
           y == i \div VGIO_WIDTH
<1>1. i \in Nat
  BY GuestAssumption
<1>2. x \in Nat /\ y \in Nat /\ y * VGIO_WIDTH + x < ScreenSize
  BY <1>1, RowAndColumn, WidthAssumption DEF OnScreen, Column
<1> HIDE DEF x, y
<1>3. x % 256 \in Nat /\ x % 256 =< x /\ y % 256 \in Nat /\ y % 256 =< y
  BY <1>2
<1>4. (y % 256) * VGIO_WIDTH + (x % 256) < ScreenSize
  BY <1>2, <1>3, SmallerIsOnScreen
<1> QED
  BY <1>4 DEF Target, CharAt, x, y

WireOnScreen ==
  \A k \in DOMAIN mem.wire :
    mem.wire[k].command = "set_char" => Target(mem.wire[k]) < ScreenSize

InBounds == OnlyWords => ~overrun /\ WireOnScreen

LEMMA WordTaken ==
  ASSUME Typed, InBounds, OnlyWords, command_proc
  PROVE  LET vc == Head(mem.wire)
         IN  /\ mem.wire \in Seq(Command) /\ mem.wire # << >> /\ vc = mem.wire[1]
             /\ mem'.wire = Tail(mem.wire) /\ overrun' = overrun /\ ideal' = ideal
             /\ \/ vc.command = "set_cursor" /\ screen' = screen
                \/ /\ vc.command = "set_char" /\ Target(vc) < ScreenSize
                   /\ screen' = [screen EXCEPT ![Target(vc)] = vc.c]
<1> DEFINE vc == Head(mem.wire)
<1>1. mem.wire \in Seq(Command) /\ mem.wire # << >> /\ mem'.wire = Tail(mem.wire)
  BY TakeKeeps DEF command_proc, Typed, MemOK
<1>2. vc \in Command /\ vc = mem.wire[1] /\ 1 \in DOMAIN mem.wire
  BY <1>1
<1> HIDE DEF vc
<1>3. vc.command = "set_cursor" \/ vc.command = "set_char"
  BY <1>2 DEF Command
<1>4. vc.command = "set_char" => Target(vc) < ScreenSize
  BY <1>2 DEF InBounds, WireOnScreen
<1>5. /\ overrun' = overrun
      /\ \/ vc.command = "set_cursor" /\ screen' = screen
         \/ /\ vc.command = "set_char" /\ Target(vc) < ScreenSize
            /\ screen' = [screen EXCEPT ![Target(vc)] = vc.c]
  <2>1. CASE vc.command = "set_cursor"
    BY <2>1 DEF command_proc, vc
  <2>2. CASE vc.command = "set_char"
    BY <1>4, <2>2 DEF command_proc, Target, vc
  <2> QED
    BY <1>3, <2>1, <2>2
<1> QED
  BY <1>1, <1>2, <1>5 DEF command_proc, vc

LEMMA BoundsInit == Init => InBounds
BY DEF Init, InBounds, WireOnScreen, vm_init

LEMMA BoundsStep == Typed /\ InBounds /\ [Next]_vars => InBounds'
<1> SUFFICES ASSUME Typed, InBounds, [Next]_vars, OnlyWords
             PROVE  ~overrun' /\ WireOnScreen'
  BY DEF InBounds
<1>1. CASE UNCHANGED vars
  BY <1>1 DEF vars, InBounds, WireOnScreen
<1>2. CASE StoreText
  <2>1. PICK i \in Cells, c \in Byte :
          /\ mem'.wire = Append(Append(mem.wire, PlaceAt(i)), CharAt(i, c))
          /\ overrun' = overrun
    BY <1>2, WordStore
  <2> DEFINE w == mem.wire
             p == PlaceAt(i)
             q == CharAt(i, c)
  <2>2. w \in Seq(Command) /\ p.command = "set_cursor" /\ Target(q) < ScreenSize
    BY CutIsOnScreen DEF OnlyWords, Typed, MemOK, PlaceAt
  <2> HIDE DEF p, q
  <2>3. \A k \in DOMAIN Append(Append(w, p), q) :
          \/ k \in DOMAIN w /\ Append(Append(w, p), q)[k] = w[k]
          \/ Append(Append(w, p), q)[k] = p
          \/ Append(Append(w, p), q)[k] = q
    BY <2>2
  <2> QED
    BY <2>1, <2>2, <2>3 DEF InBounds, WireOnScreen, p, q
<1>3. CASE command_proc
  <2>1. /\ mem.wire \in Seq(Command) /\ mem.wire # << >>
        /\ mem'.wire = Tail(mem.wire) /\ overrun' = overrun
    BY <1>3, WordTaken
  <2>2. \A k \in DOMAIN Tail(mem.wire) :
          k + 1 \in DOMAIN mem.wire /\ Tail(mem.wire)[k] = mem.wire[k + 1]
    BY <2>1
  <2> QED
    BY <2>1, <2>2 DEF InBounds, WireOnScreen
<1>4. CASE vgio_flush
  BY <1>4 DEF vgio_flush, cpu, InBounds, WireOnScreen
<1> QED
  BY <1>1, <1>2, <1>3, <1>4 DEF Next

\* The cursor the bytes of a store are cut to never leaves the screen, so
\* whatever the size of the screen and however far vgio_cli has fallen behind,
\* a guest that stores words to its cells never makes it index beyond
\* g_vgio_screen: every character on the wire is preceded by a cursor inside.
THEOREM WordsStayOnScreen == Spec => []StaysOnScreen
<1>1. InBounds => StaysOnScreen
  BY DEF InBounds, StaysOnScreen, OnlyWords
<1> QED
  BY <1>1, TypedInit, TypedStep, BoundsInit, BoundsStep, PTL DEF Spec

-----------------------------------------------------------------------------
(* What the screen still has to become is on the wire. *)

\* The commands that will change cell i.
For(w, i) == {k \in DOMAIN w : w[k].command = "set_char" /\ Target(w[k]) = i}

LastIs(w, i, c) ==
  \A k \in For(w, i) : (\A j \in For(w, i) : j =< k) => w[k].c = c

Pending ==
  \A i \in Cells :
    /\ For(mem.wire, i) = {} => screen[i] = ideal[i]
    /\ LastIs(mem.wire, i, ideal[i])

\* A word adds one command for its own cell, after all the others.
LEMMA ForAppended ==
  ASSUME NEW w \in Seq(Command), NEW p \in Command, NEW q \in Command,
         p.command = "set_cursor", q.command = "set_char", NEW i
  PROVE  LET u == Append(Append(w, p), q)
         IN  /\ Target(q) # i => /\ For(u, i) = For(w, i)
                                 /\ \A k \in For(w, i) : u[k] = w[k]
             /\ Target(q) = i => LastIs(u, i, q.c) /\ For(u, i) # {}
<1> DEFINE u == Append(Append(w, p), q)
           n == Len(w)
<1>1. n \in Nat /\ DOMAIN w = 1 .. n /\ DOMAIN u = 1 .. n + 2
  OBVIOUS
<1>2. /\ \A k \in 1 .. n : u[k] = w[k]
      /\ u[n + 1] = p /\ u[n + 2] = q
  OBVIOUS
<1> HIDE DEF u, n
<1>3. ASSUME Target(q) # i
      PROVE  For(u, i) = For(w, i) /\ \A k \in For(w, i) : u[k] = w[k]
  <2>1. \A k \in 1 .. n + 2 : k \in 1 .. n \/ k = n + 1 \/ k = n + 2
    BY <1>1
  <2>2. \A k \in 1 .. n : k \in 1 .. n + 2
    BY <1>1
  <2>3. p.command # "set_char"
    OBVIOUS
  <2> QED
    BY <1>1, <1>2, <1>3, <2>1, <2>2, <2>3 DEF For
<1>4. ASSUME Target(q) = i
      PROVE  LastIs(u, i, q.c) /\ For(u, i) # {}
  <2>1. n + 2 \in For(u, i)
    BY <1>1, <1>2, <1>4 DEF For
  <2>2. \A k \in For(u, i) : k \in Int /\ k =< n + 2
    BY <1>1 DEF For
  <2>3. \A k \in For(u, i) : n + 2 =< k => k = n + 2
    BY <1>1, <2>2
  <2> QED
    BY <1>2, <2>1, <2>3 DEF LastIs
<1> QED
  BY <1>3, <1>4 DEF u

\* Taking the oldest command moves the others up by one.
LEMMA ForTaken ==
  ASSUME NEW w \in Seq(Command), w # << >>, NEW i
  PROVE  /\ \A k \in For(Tail(w), i) : k + 1 \in For(w, i) /\ Tail(w)[k] = w[k + 1]
         /\ \A k \in For(w, i) : k = 1 \/ k - 1 \in For(Tail(w), i)
         /\ For(w, i) \subseteq Int
<1> DEFINE r == Tail(w)
           n == Len(w)
<1>1. /\ n \in Nat /\ n >= 1 /\ DOMAIN w = 1 .. n /\ DOMAIN r = 1 .. n - 1
      /\ \A k \in 1 .. n - 1 : r[k] = w[k + 1]
  OBVIOUS
<1> HIDE DEF r, n
<1>2. \A k \in 1 .. n - 1 : k + 1 \in 1 .. n
  BY <1>1
<1>3. \A k \in 1 .. n : k \in Int /\ (k = 1 \/ k - 1 \in 1 .. n - 1)
  BY <1>1
<1>4. \A k \in For(r, i) : k + 1 \in For(w, i) /\ r[k] = w[k + 1]
  BY <1>1, <1>2 DEF For
<1>5. \A k \in For(w, i) : k = 1 \/ k - 1 \in For(r, i)
  <2> SUFFICES ASSUME NEW k \in For(w, i), k # 1 PROVE k - 1 \in For(r, i)
    OBVIOUS
  <2>1. k \in Int /\ k - 1 \in 1 .. n - 1 /\ w[k].command = "set_char" /\ Target(w[k]) = i
    BY <1>1, <1>3 DEF For
  <2>2. r[k - 1] = w[k]
    BY <1>1, <2>1
  <2> QED
    BY <1>1, <2>1, <2>2 DEF For
<1>6. For(w, i) \subseteq Int
  BY <1>1 DEF For
<1> QED
  BY <1>4, <1>5, <1>6 DEF r

\* On a screen whose coordinates fit in a byte the cut changes nothing.
LEMMA ExactlyAt ==
  ASSUME VGIO_WIDTH =< 256, VGIO_HEGIHT =< 256,
         NEW i \in Cells, OnScreen(i), NEW c \in Byte
  PROVE  CharAt(i, c) \in Command /\ PlaceAt(i) \in Command /\ Target(CharAt(i, c)) = i
<1> DEFINE x == i % VGIO_WIDTH
           y == i \div VGIO_WIDTH
<1>1. i \in Nat /\ i < VGIO_HEGIHT * VGIO_WIDTH
  BY GuestAssumption DEF OnScreen, ScreenSize
<1>2. x \in 0 .. VGIO_WIDTH - 1 /\ y \in Nat /\ y * VGIO_WIDTH + x = i
  BY <1>1, RowAndColumn DEF Column
<1> HIDE DEF x, y
<1>3. y < VGIO_HEGIHT
  <2> SUFFICES ASSUME y >= VGIO_HEGIHT PROVE FALSE
    BY <1>2, HeightAssumption
  <2>1. y * VGIO_WIDTH >= VGIO_HEGIHT * VGIO_WIDTH
    BY <1>2, WidthAssumption, HeightAssumption
  <2>2. VGIO_HEGIHT * VGIO_WIDTH \in Nat /\ y * VGIO_WIDTH \in Nat
    BY <1>2, WidthAssumption, HeightAssumption
  <2> QED
    BY <1>1, <1>2, <2>1, <2>2, WidthAssumption
<1>4. x \in Nat /\ x < 256 /\ y < 256
  BY <1>2, <1>3, WidthAssumption, HeightAssumption
<1>5. x % 256 = x /\ y % 256 = y /\ y \in 0 .. 255
  BY <1>2, <1>4
<1>6. x \in Column /\ y \in Byte /\ 0 \in Byte
  BY <1>2, <1>5 DEF Column, Byte
<1>7. CharAt(i, c) = [command |-> "set_char", x |-> x, y |-> y, c |-> c]
  BY <1>5 DEF CharAt, x, y
<1>8. PlaceAt(i) = [command |-> "set_cursor", x |-> x, y |-> y, c |-> 0]
  BY <1>5 DEF PlaceAt, x, y
<1> QED
  BY <1>2, <1>6, <1>7, <1>8 DEF Command, Target

\* vgio_cli may be any number of commands behind and stores may overwrite one
\* another, cell by cell and in any order: when it has taken the last command
\* off the socket, every cell shows the low byte of the last word stored to
\* it.  The screen has to fit coordinates of one byte (80 x 25 does), and the
\* guest has to store words to cells of the screen.
THEOREM CaughtUpShows ==
  ASSUME VGIO_WIDTH =< 256, VGIO_HEGIHT =< 256, OnlyWords
  PROVE  Spec => []ShowsWhatWasStored
<1>1. Init => Pending
  <2> SUFFICES ASSUME Init PROVE Pending
    OBVIOUS
  <2>1. DOMAIN mem.wire = {}
    BY DEF Init, vm_init
  <2>2. \A i \in Cells : screen[i] = 0 /\ ideal[i] = 0
    BY GuestAssumption, SizeIsPositive DEF Init, Blank, OnlyWords, OnScreen
  <2> QED
    BY <2>1, <2>2 DEF Pending, For, LastIs
<1>2. Typed /\ InBounds /\ Pending /\ [Next]_vars => Pending'
  <2> SUFFICES ASSUME Typed, InBounds, Pending, [Next]_vars PROVE Pending'
    OBVIOUS
  <2>1. CASE UNCHANGED vars
    BY <2>1 DEF vars, Pending, For, LastIs
  <2>2. CASE StoreText
    <3>1. PICK i \in Cells, c \in Byte :
            /\ mem'.wire = Append(Append(mem.wire, PlaceAt(i)), CharAt(i, c))
            /\ ideal' = [ideal EXCEPT ![i] = c]
            /\ screen' = screen
      BY <2>2, WordStore
    <3> DEFINE p == PlaceAt(i)
               q == CharAt(i, c)
    <3>2. /\ mem.wire \in Seq(Command) /\ p \in Command /\ q \in Command
          /\ p.command = "set_cursor" /\ q.command = "set_char"
          /\ Target(q) = i /\ q.c = c
      BY ExactlyAt DEF OnlyWords, Typed, MemOK, PlaceAt, CharAt
    <3> HIDE DEF p, q
    <3>3. ideal'[i] = c /\ \A j \in Cells : j # i => ideal'[j] = ideal[j]
      BY <3>1 DEF Typed
    <3> DEFINE w == mem.wire
               u == Append(Append(w, p), q)
    <3>4. \A j : /\ i # j => For(u, j) = For(w, j) /\ \A k \in For(w, j) : u[k] = w[k]
                 /\ i = j => LastIs(u, j, c) /\ For(u, j) # {}
      BY <3>2, ForAppended
    <3>5. mem'.wire = u
      BY <3>1 DEF p, q
    <3> HIDE DEF u
    <3> SUFFICES ASSUME NEW j \in Cells
                 PROVE  /\ For(u, j) = {} => screen'[j] = ideal'[j]
                        /\ LastIs(u, j, ideal'[j])
      BY <3>5 DEF Pending, For, LastIs
    <3>6. CASE j = i
      BY <3>3, <3>4, <3>6
    <3>7. CASE j # i
      <4>1. For(u, j) = For(w, j) /\ \A k \in For(w, j) : u[k] = w[k]
        BY <3>4, <3>7
      <4>2. /\ For(w, j) = {} => screen[j] = ideal[j]
            /\ LastIs(w, j, ideal[j])
        BY DEF Pending
      <4>3. LastIs(u, j, ideal[j])
        BY <4>1, <4>2 DEF LastIs
      <4> QED
        BY <3>1, <3>3, <3>7, <4>1, <4>2, <4>3
    <3> QED
      BY <3>6, <3>7
  <2>3. CASE command_proc
    <3> DEFINE vc == Head(mem.wire)
               w == mem.wire
    <3>1. /\ w \in Seq(Command) /\ w # << >> /\ vc = w[1] /\ 1 \in DOMAIN w
          /\ mem'.wire = Tail(w) /\ ideal' = ideal
          /\ \/ vc.command = "set_cursor" /\ screen' = screen
             \/ /\ vc.command = "set_char"
                /\ screen' = [screen EXCEPT ![Target(vc)] = vc.c]
      BY <2>3, WordTaken
    <3> HIDE DEF vc
    <3> SUFFICES ASSUME NEW i \in Cells
                 PROVE  /\ For(Tail(w), i) = {} => screen'[i] = ideal[i]
                        /\ LastIs(Tail(w), i, ideal[i])
      BY <3>1 DEF Pending, For, LastIs
    <3>2. /\ \A k \in For(Tail(w), i) : k + 1 \in For(w, i) /\ Tail(w)[k] = w[k + 1]
          /\ \A k \in For(w, i) : k = 1 \/ k - 1 \in For(Tail(w), i)
          /\ For(w, i) \subseteq Int /\ For(Tail(w), i) \subseteq Int
      BY <3>1, ForTaken DEF For
    <3>3. LastIs(Tail(w), i, ideal[i])
      <4> SUFFICES ASSUME NEW k \in For(Tail(w), i), \A j \in For(Tail(w), i) : j =< k
                   PROVE  w[k + 1].c = ideal[i]
        BY <3>2 DEF LastIs
      <4>1. k \in Int /\ k >= 1
        BY <3>1 DEF For
      <4>2. \A j \in For(w, i) : j =< k + 1
        BY <3>2, <4>1
      <4> QED
        BY <3>2, <4>2 DEF Pending, LastIs
    <3>4. ASSUME For(Tail(w), i) = {} PROVE screen'[i] = ideal[i]
      <4>1. \A k \in For(w, i) : k = 1
        BY <3>2, <3>4
      <4>2. CASE 1 \in For(w, i)
        <5>1. w[1].c = ideal[i] /\ w[1].command = "set_char" /\ Target(w[1]) = i
          BY <4>1, <4>2 DEF Pending, LastIs, For
        <5>2. i \in 0 .. ScreenSize - 1
          BY GuestAssumption, SizeIsPositive DEF OnlyWords, OnScreen
        <5> QED
          BY <3>1, <5>1, <5>2 DEF Typed, Screen
      <4>3. CASE 1 \notin For(w, i)
        <5>1. screen[i] = ideal[i]
          BY <4>1, <4>3 DEF Pending
        <5>2. vc.command = "set_char" => Target(vc) # i
          BY <3>1, <4>3 DEF For
        <5>3. i \in 0 .. ScreenSize - 1
          BY GuestAssumption, SizeIsPositive DEF OnlyWords, OnScreen
        <5>4. screen'[i] = screen[i]
          BY <3>1, <5>2, <5>3 DEF Typed, Screen
        <5> QED
          BY <5>1, <5>4
      <4> QED
        BY <4>2, <4>3
    <3> QED
      BY <3>3, <3>4
  <2>4. CASE vgio_flush
    BY <2>4 DEF vgio_flush, cpu, Pending, For, LastIs
  <2> QED
    BY <2>1, <2>2, <2>3, <2>4 DEF Next
<1>3. Pending => ShowsWhatWasStored
  BY DEF Pending, For, ShowsWhatWasStored
<1> QED
  BY <1>1, <1>2, <1>3, TypedInit, TypedStep, BoundsInit, BoundsStep, PTL DEF Spec
=============================================================================
