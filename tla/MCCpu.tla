------------------------------- MODULE MCCpu -------------------------------
(* The programs the core is checked on.  A program that does not halt falls  *)
(* or jumps into the zeros around it, which are instructions too (add         *)
(* [bx + si], al); InProgram, the constraint of the run, stops there.        *)
EXTENDS Alu8086

Imm(w) == <<Lo8(w), Hi8(w)>>
MovAx(w) == <<184>> \o Imm(w)
MovCx(w) == <<185>> \o Imm(w)

-----------------------------------------------------------------------------
(* Every handler: one instruction after each of two preludes. *)

\* Segments and flags as cpu8086_init leaves them, the registers different.
Registers ==
  MovAx(17682) \o MovCx(2) \o <<186>> \o Imm(503) \o <<187>> \o Imm(64) \o
  <<188>> \o Imm(256) \o <<189>> \o Imm(80) \o <<190>> \o Imm(96) \o <<191>> \o Imm(112)

\* ds and ss on the program, es on the text memory; flags with CF, PF, ZF, SF,
\* DF and OF come from the first two bytes, which the program jumps over.
Segments ==
  <<235, 2>> \o Imm(3269) \o MovAx(47104) \o <<142, 192>> \o MovAx(1984) \o
  <<142, 216, 142, 208, 188, 2, 0, 157, 188>> \o Imm(512) \o MovCx(2) \o
  <<190, 24, 0, 191, 4, 0, 187, 1, 0>>

OperandBytes == <<1, 2, 3, 4>>
\* Forms of mod r/m: every r/m field, every reg field, every mod.
ModRm == {64 * mod + 8 * rf + rm : mod \in 0 .. 3, rf \in {0, 3, 7}, rm \in {0, 2, 4, 6}}
           \cup {64 * mod + 8 * f + (7 - f) : mod \in {0, 3}, f \in 0 .. 7}
           \cup {2, 3, 5, 7}
Prefixed == {<<p, op>> : p \in {242, 243}, op \in {144, 164, 165, 166, 170}}
Arithmetic == TwoRegisters \cup 128 .. 131 \cup 208 .. 211 \cup {246, 247, 254, 255}
Instructions ==
  {<<op, 1>> : op \in (0 .. 255) \ (WithModRm \cup DirectAddress \cup {242, 243})}
    \cup {<<op, m>> : op \in (WithModRm \ (Arithmetic \cup 217 .. 223)) \cup DirectAddress, m \in ModRm}
    \cup {<<217, 70>>, <<223, 192>>}
AllHandlers ==
  {Registers \o i \o OperandBytes : i \in Instructions \cup {<<243, 164>>, <<243, 165>>}}
    \cup {Segments \o i \o OperandBytes : i \in Instructions \cup {<<242, 164>>, <<242, 174>>}}

-----------------------------------------------------------------------------
(* Arithmetic, after both preludes.  A displacement-only operand lies at      *)
(* 0x7c00 and the five bytes after it, and on: every value of its low address *)
(* byte that the tables tell apart.  ax is the register at CoreAt.            *)

Registers8(f) == {<<192 + 8 * f>>, <<193 + 8 * f>>, <<199 + 8 * f>>}
InMemory8(f) ==
  {<<6 + 8 * f, low, 124>> : low \in {0, 1, 2, 4}} \cup {<<66 + 8 * f, 6>>, <<135 + 8 * f, 2, 125>>}
AluInstructions ==
  {<<op>> \o rm : op \in TwoRegisters, rm \in UNION {Registers8(f) \cup InMemory8(f) : f \in {1, 7}}}
    \cup {<<op>> \o rm : op \in Arithmetic \ TwoRegisters,
                         rm \in UNION {Registers8(f) \cup InMemory8(f) : f \in 0 .. 7}}
AluPrograms ==
  {p \o i \o <<200, 255>> : p \in {Registers, Segments}, i \in AluInstructions}
  \* Division with a word quotient, by a byte and by 0; cl = 0 and cl > 8.
    \cup {<<186, 3, 0>> \o MovAx(500) \o <<op, 6 + 8 * f, 2, 124>> : op \in {246, 247}, f \in {6, 7}}
    \cup {MovAx(500) \o <<op, 6 + 8 * f, 2, 125>> : op \in {246, 247}, f \in {6, 7}}
    \cup {MovAx(65036) \o <<246, 62, 2, 124>>}
    \cup {MovAx(181) \o MovCx(n) \o <<210, 192 + 8 * f>> : n \in {0, 1, 8, 9}, f \in 0 .. 7}

-----------------------------------------------------------------------------
(* Loops and short jumps: mov dx, n; mov cx, n; inc ax; loop; hlt *)

CountingLoop(n) == <<186>> \o Imm(n) \o MovCx(n) \o <<64, 226, 253, 244>>
CountingLoops == {CountingLoop(n) : n \in {1, 2, 7}}
\* jcxz, jmp, loope and loopne, forward and backward, with CF and ZF clear or set.
ShortJumpPrograms ==
  {a \o MovCx(n) \o <<op, 2, 244, 244, 235, 252, 244>> :
     a \in {<< >>, MovAx(17682) \o <<158>>}, n \in 0 .. 2, op \in {224, 225, 227}}

\* loop runs the instructions it closes cx times: a counting loop (the only
\* programs that begin with mov dx) stops with ax = dx.
CountsRounds == (status = "spin" /\ Peek(mem, MbrLo) = 186) => reg.ax = reg.dx

-----------------------------------------------------------------------------
(* Rep loops: flags from the second and third byte; rep op; hlt *)

WithFlags(f) == <<235, 2>> \o Imm(f) \o MovAx(1984) \o <<142, 216, 142, 192, 142, 208, 188, 2, 0, 157>>
\* Source at 40 and up or down, target at 60 and up or down.
RepProgram(f, n, prefix, op) ==
  WithFlags(f) \o MovCx(n) \o <<190, 40, 0, 191, 60, 0, prefix, op, 244>> \o
  [i \in 1 .. 16 |-> 15 * i + 1]
RepPrograms ==
  {RepProgram(f, n, 243, 164) : f \in {1, 1025}, n \in 1 .. 4}
    \cup {RepProgram(f, 3, 243, op) : f \in {1, 1025}, op \in {144, 165, 166, 170, 172, 175}}
    \cup {RepProgram(65, 3, 242, op) : op \in {144, 164, 174}}
    \cup {RepProgram(1, 0, 243, 144), RepProgram(65, 2, 243, 144), RepProgram(1, 3, 242, 144)}

CpuPrograms == AllHandlers \cup AluPrograms \cup CountingLoops \cup ShortJumpPrograms \cup RepPrograms
\* The constraint of the run.  A repne loop is followed for RepneRounds rounds.
RepneRounds == 16
InProgram ==
  /\ status = "run" => opcode # 0 \/ modrm # 0
  /\ \A i \in DOMAIN rep : rep[i].kind = "repne" => rep[i].n < RepneRounds
TakenJump == {<<117, 1, 144, 144, 144>>}                       \* jnz
=============================================================================
