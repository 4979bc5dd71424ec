------------------------------ MODULE Display ------------------------------
(***************************************************************************)
(* From the text memory to the screen, across two processes and three       *)
(* threads: the CPU thread of vm stores to the text memory (MemMap) and     *)
(* writes commands to a stream socket, the main thread of vgio_cli reads    *)
(* one command at a time and changes g_vgio_screen, and its flush thread    *)
(* prints g_vgio_screen character by character, without a lock.             *)
(*                                                                          *)
(* ideal is history: what the guest has put in each cell of the text page,  *)
(* the low byte of its last word or the byte at the cell's even address.    *)
(***************************************************************************)
EXTENDS MemMap, FiniteSets

CONSTANTS
  VGIO_HEGIHT,    \* rows, 25 in vgio.h
  Ops,            \* which stores the guest uses: a subset of {"byte", "word"}
  Cells,          \* text cells it stores to: word number from 0xb8000
  Chars,          \* character codes it stores
  MaxStores       \* bound of the model: stores in a run

ASSUME HeightAssumption == VGIO_HEGIHT \in Nat \ {0}
ASSUME GuestAssumption ==
  /\ Ops \subseteq {"byte", "word"} /\ Chars \subseteq Byte /\ MaxStores \in Nat
  /\ Cells \subseteq Nat /\ \A i \in Cells : IsText(TextLo + 2 * i)

VARIABLES
  mem,            \* vm: memory, local cursor, and the socket as mem.wire
  stores,         \* stores made
  screen,         \* g_vgio_screen, row after row
  overrun,        \* g_vgio_screen[y][x] was written beyond its last row
  next, frame,    \* flush thread: cell to print next, the frame so far
  shown,          \* the last frame printed to its end
  ideal

vars == <<mem, stores, screen, overrun, next, frame, shown, ideal>>
cpu == <<mem, stores, ideal>>
flush == <<next, frame, shown>>

ScreenSize == VGIO_HEGIHT * VGIO_WIDTH
Blank == [i \in 0 .. ScreenSize - 1 |-> 0]

Init ==
  /\ mem = vm_init /\ stores = 0
  /\ screen = Blank /\ overrun = FALSE
  /\ next = 0 /\ frame = Blank /\ shown = Blank
  /\ ideal = [i \in Cells |-> 0]

-----------------------------------------------------------------------------
(* The CPU thread: a store to the text memory. *)

Store(op, i, c) ==
  /\ stores < MaxStores /\ op \in Ops
  /\ LET a == TextLo + 2 * i
     IN  mem' = IF op = "word" THEN vm_write_word(mem, a, c)
                               ELSE vm_write_byte(mem, a, c)
  /\ stores' = stores + 1
  /\ ideal' = [ideal EXCEPT ![i] = c]
  /\ UNCHANGED <<screen, overrun, flush>>

StoreText == \E op \in Ops, i \in Cells, c \in Chars : Store(op, i, c)

-----------------------------------------------------------------------------
(* vgio_cli *)

\* Mutant: row and column swapped.
command_proc_Swapped ==
  /\ mem.wire # << >>
  /\ LET vc == Head(mem.wire)
         at == vc.x * VGIO_WIDTH + vc.y
     IN  CASE vc.command = "set_cursor" -> UNCHANGED <<screen, overrun>>
           [] vc.command = "set_char" /\ at < ScreenSize ->
                screen' = [screen EXCEPT ![at] = vc.c] /\ UNCHANGED overrun
           [] OTHER -> overrun' = TRUE /\ UNCHANGED screen
  /\ mem' = [mem EXCEPT !.wire = Tail(@)]
  /\ UNCHANGED <<stores, ideal, flush>>

\* One round of main's loop; set_cursor only moves the terminal's cursor.
command_proc ==
  /\ mem.wire # << >>
  /\ LET vc == Head(mem.wire)
         at == vc.y * VGIO_WIDTH + vc.x
     IN  CASE vc.command = "set_cursor" -> UNCHANGED <<screen, overrun>>
           [] vc.command = "set_char" /\ at < ScreenSize ->
                screen' = [screen EXCEPT ![at] = vc.c] /\ UNCHANGED overrun
           [] OTHER -> overrun' = TRUE /\ UNCHANGED screen
  /\ mem' = [mem EXCEPT !.wire = Tail(@)]
  /\ UNCHANGED <<stores, ideal, flush>>

\* Mutants: the loop over the cells runs on beyond the last one, or stays there.
vgio_flush_RunsOn ==
  /\ frame' = IF next < ScreenSize THEN [frame EXCEPT ![next] = screen[next]] ELSE frame
  /\ next' = (next + 1) % (ScreenSize + 1)
  /\ UNCHANGED <<cpu, screen, overrun, shown>>

vgio_flush_Once ==
  LET printed == [frame EXCEPT ![next] = screen[next]]
      last == next + 1 = ScreenSize
  IN  /\ frame' = printed
      /\ next' = IF last THEN next ELSE next + 1
      /\ shown' = IF last THEN printed ELSE shown
      /\ UNCHANGED <<cpu, screen, overrun>>

\* vgio_flush prints cell after cell; after the last one it sleeps and starts
\* over.
vgio_flush ==
  LET printed == [frame EXCEPT ![next] = screen[next]]
  IN  /\ frame' = printed
      /\ next' = (next + 1) % ScreenSize
      /\ shown' = IF next + 1 = ScreenSize THEN printed ELSE shown
      /\ UNCHANGED <<cpu, screen, overrun>>

Next == StoreText \/ command_proc \/ vgio_flush
Spec == Init /\ [][Next]_vars

\* Both threads of vgio_cli run loops without an exit; the guest need not
\* store anything.
FairSpec == Spec /\ WF_vars(command_proc) /\ WF_vars(vgio_flush)

-----------------------------------------------------------------------------
(* Properties *)

OnScreen(i) == i < ScreenSize

\* The columns on the wire never leave a row; the rows may.
TypeOK ==
  /\ \A k \in DOMAIN mem.wire : mem.wire[k].x < VGIO_WIDTH /\ mem.wire[k].y \in Byte
  /\ mem.x < VGIO_WIDTH /\ mem.y \in Byte
  /\ stores \in 0 .. MaxStores /\ overrun \in BOOLEAN
  /\ {screen, frame, shown} \subseteq [0 .. ScreenSize - 1 -> Byte]
  /\ next \in 0 .. ScreenSize - 1

\* When vgio_cli has caught up, every cell of the screen the guest stores to
\* shows what it stored there last (README.md:10, the contents of the text
\* memory are displayed).  For word stores it holds, although vm_write_word
\* puts the word itself at the doubled offset.
ShowsWhatWasStored ==
  mem.wire = << >> => \A i \in Cells : OnScreen(i) => screen[i] = ideal[i]

\* A guest that stores words to cells of the screen never makes vgio_cli index
\* beyond g_vgio_screen, although the cursor moves on to the row below the last
\* one: the next word places it before it is used.
StaysOnScreen == (Ops = {"word"} /\ \A i \in Cells : OnScreen(i)) => ~overrun

\* When the guest leaves the text memory alone, the frames printed from some
\* point on are what it stored: frames torn by concurrent commands heal.
FramesConverge ==
  <>[](\A i \in Cells : OnScreen(i) => shown[i] = ideal[i])
=============================================================================
