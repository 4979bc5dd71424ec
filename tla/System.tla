------------------------------- MODULE System -------------------------------
(***************************************************************************)
(* The two programs of README.md together: vm, whose CPU thread runs a      *)
(* guest program that writes to the text memory (Cpu, MemMap), and          *)
(* vgio_cli, which turns the commands on the socket into g_vgio_screen      *)
(* (command_proc of Display).  The processes share mem.wire only.  How the  *)
(* flush thread prints g_vgio_screen is checked in Display.                 *)
(***************************************************************************)
EXTENDS Cpu

CONSTANT VGIO_HEGIHT

VARIABLES screen, overrun    \* see Display

vgio == <<screen, overrun>>
svars == <<vars, vgio>>

\* The guest's stores are the CPU's own steps: of Display only vgio_cli's main
\* thread is used.
D == INSTANCE Display
       WITH stores <- 0, ideal <- << >>, next <- 0, frame <- << >>, shown <- << >>,
            Ops <- {}, Cells <- {}, Chars <- {}, MaxStores <- 0

cells == 0 .. D!ScreenSize - 1

SystemInit ==
  /\ Init
  /\ screen = D!Blank /\ overrun = FALSE

vm == cpu8086_proc /\ UNCHANGED vgio
vgio_main == D!command_proc /\ UNCHANGED <<reg, port, rep, status>>

SystemNext == vm \/ vgio_main
SystemSpec == SystemInit /\ [][SystemNext]_svars

\* cpu_proc_thread and the main thread of vgio_cli run loops without an exit,
\* in processes of their own.
SystemFairSpec == SystemSpec /\ WF_svars(vm) /\ WF_svars(vgio_main)

-----------------------------------------------------------------------------
(* Properties *)

\* The characters of text in row 0, blanks after them.
Text(text, n) == [i \in cells |-> IF i < n THEN text[i + 1] ELSE 0]

\* The screen fills from the left: at any moment it shows a prefix of the
\* text, because one socket delivers the commands in the order of the stores
\* and every character travels behind the command that places it.
FillsInOrder(text) == \E n \in 0 .. Len(text) : screen = Text(text, n)

\* README.md:12: the hello world program of test/ has been verified to print
\* on vgio_cli.  From some point on the whole text is on the screen.
Prints(text) == <>[](screen = Text(text, Len(text)))
=============================================================================
