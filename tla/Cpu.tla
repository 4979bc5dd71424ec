-------------------------------- MODULE Cpu --------------------------------
(***************************************************************************)
(* arch/8086/cpu.c and pci.c: the string instructions, the port             *)
(* instructions, and the core as a whole, running a program that loadhd has *)
(* placed at 0x7c00.                                                        *)
(***************************************************************************)
EXTENDS CpuGroup

CONSTANTS
  Programs,      \* disk images, as sequences of bytes
  Device,        \* ports with a device behind them
  DeviceValue    \* the words the devices answer

ASSUME ProgramAssumption == \A p \in Programs : p \in Seq(Byte)
ASSUME DeviceAssumption == Device \subseteq Word /\ DeviceValue \subseteq Word

Init ==
  /\ reg = cpu8086_init
  /\ \E p \in Programs : mem = loadhd(p)
  /\ port = [n \in {} |-> 0]
  /\ rep = << >>
  /\ status = "run"

-----------------------------------------------------------------------------
(* String instructions *)

DF == Masked(10)
Source == vm_addr_calc(reg.ds, reg.si)
Target == vm_addr_calc(reg.es, reg.di)

\* Mutant: DF moves si only.
Moved_DiForward(n) ==
  [At(ip1) EXCEPT !.si = Wrap(IF DF = 0 THEN @ + n ELSE @ - n), !.di = Wrap(@ + n)]

\* si and di move together, also in the instructions that use one of them.
Moved(n) ==
  LET d == IF DF = 0 THEN n ELSE -n
  IN  [At(ip1) EXCEPT !.si = Wrap(@ + d), !.di = Wrap(@ + d)]

movsw_8  == Opcode({164}) /\ Done(Moved(1), vm_write_byte(mem, Target, vm_read_byte(mem, Source)))
\* Mutant: one byte per word, as stos_16 and lods_16 move.
movsw_16_OneByte ==
  Opcode({165}) /\ Done(Moved(1), vm_write_word(mem, Target, vm_read_word(mem, Source)))

movsw_16 == Opcode({165}) /\ Done(Moved(2), vm_write_word(mem, Target, vm_read_word(mem, Source)))
stos_8  == Opcode({170}) /\ Done(Moved(1), vm_write_byte(mem, Target, Lo8(reg.ax)))
stos_16 == Opcode({171}) /\ Done(Moved(1), vm_write_word(mem, Target, reg.ax))
\* lods reads es:di.
lods_8  == Opcode({172}) /\ DoneReg(SetRegByte(Moved(1), Reg8(0), vm_read_byte(mem, Target)))
lods_16 == Opcode({173}) /\ DoneReg([Moved(1) EXCEPT !.ax = vm_read_word(mem, Target)])
\* cmps and scas compute flags, which update_flags drops.
cmps == Opcode({166, 167}) /\ DoneReg(Moved(1))
scas == Opcode({174, 175}) /\ DoneReg(Moved(1))

string == movsw_8 \/ movsw_16 \/ stos_8 \/ stos_16 \/ lods_8 \/ lods_16 \/ cmps \/ scas

-----------------------------------------------------------------------------
(* Ports: without a device, a port holds what was last written to it.  The    *)
(* devices are modelled in Keyboard and Harddisk; here they answer anything.  *)

PortValue(n) == IF n \in DOMAIN port THEN port[n] ELSE 0
PortAnswer(n) == IF n \in Device THEN DeviceValue ELSE {PortValue(n)}
SetPort(n, v) == [k \in DOMAIN port \cup {n} |-> IF k = n THEN v ELSE port[k]]

pci_in_byte(ip, n)  == \E v \in PortAnswer(n) : DoneReg(SetRegByte(At(ip), Reg8(0), Lo8(v)))
pci_in_word(ip, n)  == \E v \in PortAnswer(n) : DoneReg([At(ip) EXCEPT !.ax = v])

Out(ip, n, v) ==
  /\ reg' = At(ip)
  /\ port' = IF n \in Device THEN port ELSE SetPort(n, v)
  /\ status' = IF rep = << >> THEN "run" ELSE "again"
  /\ UNCHANGED <<mem, rep>>

pci_out_byte(ip, n) == Out(ip, n, Hi8(PortValue(n)) * 256 + Lo8(reg.ax))
pci_out_word(ip, n) == Out(ip, n, reg.ax)

in_imm ==
  LET o == parse_format_imm_8
  IN  \/ Opcode({228}) /\ pci_in_byte(o.ip, o.im)
      \/ Opcode({229}) /\ pci_in_word(o.ip, o.im)
out_imm ==
  LET o == parse_format_imm_8
  IN  \/ Opcode({230}) /\ pci_out_byte(o.ip, o.im)
      \/ Opcode({231}) /\ pci_out_word(o.ip, o.im)

in_aldx == Opcode({236}) /\ pci_in_byte(ip1, reg.dx)

\* in ax, dx keeps the bits of ah and sets more: ax = (ax & 0xff00) | word.
in_axdx ==
  /\ Opcode({237})
  /\ \E v \in PortAnswer(reg.dx) : DoneReg([At(ip1) EXCEPT !.ax = BitOr(Hi8(@) * 256, v)])

\* out dx, al and out dx, ax take the port number from cx.
out_dx ==
  \/ Opcode({238}) /\ pci_out_byte(ip1, reg.cx)
  \/ Opcode({239}) /\ pci_out_word(ip1, reg.cx)

ports == in_imm \/ out_imm \/ in_aldx \/ in_axdx \/ out_dx

-----------------------------------------------------------------------------
(* cpu_proc_thread runs until the process ends. *)

cpu8086_proc == move \/ control \/ arithmetic \/ group \/ string \/ ports
Ended == ~(status \in {"run", "again"}) /\ UNCHANGED vars

Next == cpu8086_proc \/ Ended
Spec == Init /\ [][Next]_vars

-----------------------------------------------------------------------------
(* Properties *)

\* The length of an instruction in the encoding of the 8086, by opcode.
TwoRegisters == {op \in 0 .. 63 : op % 8 < 4}
WithModRm == TwoRegisters \cup 128 .. 143 \cup 196 .. 199 \cup 208 .. 211 \cup 216 .. 223
               \cup {246, 247, 254, 255}
DirectAddress == 160 .. 163
ByteOperand == {op \in 0 .. 63 : op % 8 = 4} \cup {128, 130, 131, 168, 198, 205, 212, 213} \cup 112 .. 127 \cup 176 .. 183 \cup 224 .. 231 \cup {235}
WordOperand == {op \in 0 .. 63 : op % 8 = 5} \cup {129, 169, 194, 199, 202, 232, 233} \cup 184 .. 191 \cup DirectAddress
Jumps == 112 .. 127 \cup {154, 194, 195} \cup 202 .. 207 \cup 224 .. 227 \cup 232 .. 235

Length(op) ==
  1 + (IF op \in WithModRm THEN 1 ELSE 0)
    + (IF op \in WithModRm /\ Mod = 1 THEN 1 ELSE 0)
    + (IF op \in WithModRm /\ (Mod = 2 \/ (Mod = 0 /\ RmField = 6)) THEN 2 ELSE 0)
    + (IF op \in ByteOperand THEN 1 ELSE 0)
    + (IF op \in WordOperand THEN 2 ELSE 0)
    + (IF op \in {246, 247} /\ RegField = 0 THEN op - 245 ELSE 0)      \* test

Consumes(ops) ==
  (status = "run" /\ opcode \in ops /\ status' \in {"run", "again"})
     => reg'.ip = Wrap(reg.ip + Length(opcode))

\* The parse format the table gives an opcode and the mod r/m forms consume
\* exactly the instruction, so decoding never falls out of step with the
\* program (0xa0 - 0xa3 and 0x83 apart, and what 0xff would call or jump to).
DecodesInstructions == [][Consumes((0 .. 255) \ (Jumps \cup DirectAddress \cup {131}))]_vars

\* cpu.c:185 names the operand IP-Inc8, an increment of ip: the target is the
\* next instruction plus a signed byte.
ShortTarget == Wrap(reg.ip + 2 + Signed8(Byte1(ip1)))
ShortJumps == {235, 224, 225, 226, 227}

JumpsToTarget(ops) ==
  (status = "run" /\ opcode \in ops /\ status' \in {"run", "again"})
     => reg'.ip \in {ShortTarget, Wrap(reg.ip + 2)}
ConditionalJumpsToTarget == [][JumpsToTarget(112 .. 127)]_vars

\* The eight bits of ip kept by parse_format_ipinc_8 are enough as long as
\* the jump and its target are in the first 256 bytes of the segment.
LoopJumpsInFirstPage ==
  [][(reg.ip < 254 /\ ShortTarget < 256) => JumpsToTarget(ShortJumps)]_vars

\* A rep loop that ends has run its instruction cx times, and 65536 times if
\* cx was 0: the test comes after the first round.
LoopEnds == status = "again" /\ Len(rep') < Len(rep)
RepRunsCxTimes ==
  [][LoopEnds => LET loop == rep[Len(rep)]
                 IN  loop.n + 1 = IF loop.from = 0 THEN 65536 ELSE loop.from]_vars

\* A repe loop gets to an end, whatever ZF is and even if it starts with
\* cx = 0, although its condition (cx is not 0 or ZF is 1) reads as if a set ZF
\* kept it going for ever.
RepeIsBounded == \A i \in DOMAIN rep : rep[i].kind = "repe" => rep[i].n < MaxRounds

\* A repne loop does not look at cx as long as ZF is clear, and no instruction
\* it can repeat sets ZF, popf and sahf apart, since none of the others computes
\* flags that stay: it outlives every passage of cx through 0.
RepneStays ==
  (rep # << >> /\ rep[Len(rep)].kind = "repne" /\ ZF = 0
     /\ (status = "run" => Byte1(rep[Len(rep)].ip) \notin {157, 158}))
    => Len(rep') >= Len(rep) /\ ZF' = 0
RepneOutlivesCx == [][RepneStays]_vars

\* rep movsb moves a block: when the loop ends, the bytes di has passed are
\* those si has passed, in either direction, unless the blocks overlap.
RepMovesBlock ==
  [][(LoopEnds /\ Byte1(rep[Len(rep)].ip) = 164) =>
       LET n == rep[Len(rep)].from
           passed(i) == IF DF = 0 THEN i - n ELSE n - i
       IN  \A i \in 0 .. n - 1 :
             Peek(mem, vm_addr_calc(reg.es, Wrap(reg.di + passed(i))))
               = Peek(mem, vm_addr_calc(reg.ds, Wrap(reg.si + passed(i))))]_vars
=============================================================================
