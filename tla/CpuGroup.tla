------------------------------ MODULE CpuGroup ------------------------------
(***************************************************************************)
(* arch/8086/cpu.c: the opcodes whose operation is the reg field of the mod *)
(* r/m byte: immediate operands 0x80 - 0x83, shifts 0xd0 - 0xd3, 0xf6, 0xf7,*)
(* 0xfe, 0xff; and aam and aad.                                             *)
(***************************************************************************)
EXTENDS CpuArith

\* The low byte of the host address of g_cpu8086_core, a constant of the
\* linked program.
CONSTANT CoreAt
ASSUME CoreAssumption == CoreAt \in Byte /\ CoreAt % 4 = 0

-----------------------------------------------------------------------------
(* 0x80 - 0x83: an operation on the r/m operand and an immediate value *)

\* sbb (3) reads CF through a pointer that only adc's branch initializes; cmp
\* (7) stores nothing.
Immediate8(o) ==
  \/ o.op1 = 3 /\ Stop("undefined")
  \/ o.op1 = 7 /\ DoneReg(At(o.ip))
  \/ o.op1 \notin {3, 7} /\ Put8(At(o.ip), o.op2, Operation(o.op1, Value8(o.op2), o.op3) % 256)
Immediate16(o) ==
  \/ o.op1 = 3 /\ Stop("undefined")
  \/ o.op1 = 7 /\ DoneReg(At(o.ip))
  \/ o.op1 \notin {3, 7} /\ Put16(At(o.ip), o.op2, Wrap(Operation(o.op1, Value16(o.op2), o.op3)))

\* The byte tables ask for OPERAND_REG16, which the byte format never delivers.
table_80 ==
  /\ Opcode({128})
  /\ LET o == parse_format_rm2imm_8
     IN  IF o.op2.type = "addr" THEN Immediate8(o) ELSE Stop("exit")
table_81 == Opcode({129}) /\ Immediate16(parse_format_rm2imm_16)
\* 0x82 and 0x83 do without or, and and xor.
table_82 ==
  /\ Opcode({130})
  /\ LET o == parse_format_rm2imm_8
     IN  IF o.op2.type = "addr" /\ o.op1 \notin {1, 4, 6} THEN Immediate8(o) ELSE Stop("exit")
\* 0x83 has the format of 0x81, an immediate word.
table_83 ==
  /\ Opcode({131})
  /\ LET o == parse_format_rm2imm_16
     IN  IF o.op1 \notin {1, 4, 6} THEN Immediate16(o) ELSE Stop("exit")

-----------------------------------------------------------------------------
(* The other tables compare operand2.op with the operand types instead of     *)
(* operand2_type: in the union, that is the low byte of the guest address, or *)
(* of the host pointer to the register.                                       *)

OffsetOf == [ax |-> 0, bx |-> 2, cx |-> 4, dx |-> 6, sp |-> 10, bp |-> 12, si |-> 14, di |-> 16]
Tag(o) == IF o.type = "addr" THEN o.addr % 256 ELSE (CoreAt + OffsetOf[o.name]) % 256

OPERAND_REG8  == 0
OPERAND_REG16 == 1
OPERAND_ADDR  == 2

InMemory(o) == o.type = "addr" /\ Tag(o) = OPERAND_ADDR
InRegister(o, type) == o.type # "addr" /\ Tag(o) = type
\* Taken for the other kind: a guest address is dereferenced by the host, or a
\* host pointer is a guest address.
Confused(o, type) == Tag(o) \in {type, OPERAND_ADDR} /\ ~InMemory(o) /\ ~InRegister(o, type)
Unknown(o, type) == Tag(o) \notin {type, OPERAND_ADDR}

-----------------------------------------------------------------------------
(* Shifts and rotations *)

\* s << 1 + CF and s >> 1 + CF << 7 shift by 1 + CF.  sar keeps the sign bit
\* of the shifted value only, which is 0.
ShiftedOnce(i, s) ==
  CASE i \in {0, 2} -> s * 2^(1 + CF)
    [] i = 1 -> (s \div 2^(1 + CF)) * 128
    [] i = 3 -> s \div 2^(1 + CF)
    [] i = 4 -> s * 2
    [] i = 5 -> s \div 2
    [] i = 7 -> 0

\* By n in 1 .. 8; the bit shifted out last comes in at the other end.
ShiftedBy(i, s, n) ==
  CASE i \in {0, 2} -> s * 2^n + Bit(s, 2^(8 - n))
    [] i \in {1, 3} -> s \div 2^n + Bit(s, 2^(n - 1)) * 128
    [] i = 4 -> s * 2^n
    [] i = 5 -> s \div 2^n
    [] i = 7 -> 0

\* What was read from memory is stored through the host pointer.
ShiftInMemory(o, is_shift) ==
  Stop(IF o.op1 = 6 /\ is_shift THEN "exit" ELSE "undefined")

table_d0 ==
  /\ Opcode({208})
  /\ LET o == parse_format_table_rm_8
     IN  \/ Unknown(o.op2, OPERAND_REG8) /\ Stop("exit")
         \/ Confused(o.op2, OPERAND_REG8) /\ Stop("undefined")
         \/ InMemory(o.op2) /\ ShiftInMemory(o, TRUE)
         \/ /\ InRegister(o.op2, OPERAND_REG8)
            /\ IF o.op1 = 6 THEN Stop("exit")
               ELSE Put8(At(o.ip), o.op2, ShiftedOnce(o.op1, Value8(o.op2)) % 256)

\* Read as OPERAND_REG8, but only stored as OPERAND_REG16: the result is lost.
table_d1 ==
  /\ Opcode({209})
  /\ LET o == parse_format_table_rm_16
     IN  \/ Unknown(o.op2, OPERAND_REG8) /\ Stop("exit")
         \/ Confused(o.op2, OPERAND_REG8) /\ Stop("undefined")
         \/ InMemory(o.op2) /\ ShiftInMemory(o, TRUE)
         \/ /\ InRegister(o.op2, OPERAND_REG8)
            /\ IF o.op1 = 6 THEN Stop("exit") ELSE DoneReg(At(o.ip))

cl == Lo8(reg.cx)
table_d2 ==
  /\ Opcode({210})
  /\ LET o == parse_format_table_rm_8
         shifted == cl \in 1 .. 8
     IN  \/ Unknown(o.op2, OPERAND_REG8) /\ Stop("exit")
         \/ Confused(o.op2, OPERAND_REG8) /\ Stop("undefined")
         \/ InMemory(o.op2) /\ ShiftInMemory(o, shifted)
         \/ /\ InRegister(o.op2, OPERAND_REG8)
            /\ IF o.op1 = 6 /\ shifted THEN Stop("exit")
               ELSE Put8(At(o.ip), o.op2,
                      IF cl > 8 THEN 0
                      ELSE IF cl = 0 THEN Value8(o.op2)
                      ELSE ShiftedBy(o.op1, Value8(o.op2), cl) % 256)

\* A register has an even host address, never OPERAND_REG16.
table_d3 ==
  /\ Opcode({211})
  /\ LET o == parse_format_table_rm_16
     IN  \/ Unknown(o.op2, OPERAND_REG16) /\ Stop("exit")
         \/ Confused(o.op2, OPERAND_REG16) /\ Stop("undefined")
         \/ InMemory(o.op2) /\ ShiftInMemory(o, cl \in 1 .. 16)

-----------------------------------------------------------------------------
(* aam, aad *)

\* a << 8 + b: the remainder shifts the quotient.  aad shifts 0.
aam ==
  /\ Opcode({212})
  /\ DoneReg([At(parse_format_imm_8.ip) EXCEPT !.ax = Wrap((al \div 10) * 2^(8 + (al % 10)))])
aad == Opcode({213}) /\ DoneReg([At(parse_format_imm_8.ip) EXCEPT !.ax = 0])

-----------------------------------------------------------------------------
(* test, not, neg, multiplication and division *)

\* high << 8 + low & 0xff00, with the count of a shift taken modulo 32 as the
\* machines the program is built for do.
Shifted(high, low) ==
  LET n == (8 + low) % 32
  IN  IF n < 16 THEN 256 * Hi8(Wrap(high * 2^n)) ELSE 0

Signed16(w) == IF w < 32768 THEN w ELSE w - 65536
\* Division in C rounds to 0, and by 0 it kills the process.
Quotient(a, s) == IF a >= 0 THEN a \div s ELSE -((-a) \div s)
Divided8(ip, a, s) ==
  IF s = 0 THEN Stop("crash")
  ELSE LET q == Quotient(a, s)
       IN  DoneReg([At(ip) EXCEPT !.ax = Shifted((a - q * s) % 256, q % 256)])

\* Mutant: neg without the 1.
Unary8_NegIsNot(o, v) ==
  \/ o.op1 = 0 /\ DoneReg(At(Wrap(o.ip + 1)))
  \/ o.op1 = 1 /\ DoneReg(At(o.ip))
  \/ o.op1 \in {2, 3} /\ Put8(At(o.ip), o.op2, 255 - v)
  \/ o.op1 \in {4, 5} /\ DoneReg([At(o.ip) EXCEPT !.ax = al * v])
  \/ o.op1 = 6 /\ Divided8(o.ip, reg.ax, v)
  \/ o.op1 = 7 /\ Divided8(o.ip, Signed16(reg.ax), v)

\* imul extends al and the operand with 0, like mul.
Unary8(o, v) ==
  \/ o.op1 = 0 /\ DoneReg(At(Wrap(o.ip + 1)))
  \/ o.op1 = 1 /\ DoneReg(At(o.ip))
  \/ o.op1 = 2 /\ Put8(At(o.ip), o.op2, 255 - v)
  \/ o.op1 = 3 /\ Put8(At(o.ip), o.op2, (0 - v) % 256)
  \/ o.op1 \in {4, 5} /\ DoneReg([At(o.ip) EXCEPT !.ax = al * v])
  \/ o.op1 = 6 /\ Divided8(o.ip, reg.ax, v)
  \/ o.op1 = 7 /\ Divided8(o.ip, Signed16(reg.ax), v)

table_f6 ==
  /\ Opcode({246})
  /\ LET o == parse_format_table_rm_8
     IN  \/ Unknown(o.op2, OPERAND_REG8) /\ Stop("exit")
         \/ Confused(o.op2, OPERAND_REG8) /\ Stop("undefined")
         \/ (InMemory(o.op2) \/ InRegister(o.op2, OPERAND_REG8)) /\ Unary8(o, Value8(o.op2))

\* dx:ax / s byte by byte, which keeps every number below 2^24.
Divided16(ip, s) ==
  IF s = 0 THEN Stop("crash")
  ELSE LET high == (reg.dx % s) * 256 + ah
           low  == (high % s) * 256 + al
       IN  DoneReg([At(ip) EXCEPT !.ax = (high \div s) * 256 + (low \div s), !.dx = low % s])

\* The products are those of al, and d, which holds them, has 16 bits: dx is
\* 0.  idiv divides unsigned numbers.
table_f7 ==
  /\ Opcode({247})
  /\ LET o == parse_format_table_rm_16
         v == Value16(o.op2)
     IN  \/ Unknown(o.op2, OPERAND_REG16) /\ Stop("exit")
         \/ Confused(o.op2, OPERAND_REG16) /\ Stop("undefined")
         \/ /\ InMemory(o.op2)
            /\ \/ o.op1 = 0 /\ DoneReg(At(Wrap(o.ip + 2)))
               \/ o.op1 = 1 /\ DoneReg(At(o.ip))
               \/ o.op1 = 2 /\ Put16(At(o.ip), o.op2, 65535 - v)
               \/ o.op1 = 3 /\ Put16(At(o.ip), o.op2, Wrap(0 - v))
               \/ o.op1 \in {4, 5} /\ DoneReg([At(o.ip) EXCEPT !.ax = Wrap(al * v), !.dx = 0])
               \/ o.op1 \in {6, 7} /\ Divided16(o.ip, v)

-----------------------------------------------------------------------------
(* inc, dec; what 0xff calls, jumps and pushes is not implemented *)

table_fe ==
  /\ Opcode({254})
  /\ LET o == parse_format_table_rm_8
         v == Value8(o.op2)
     IN  \/ Unknown(o.op2, OPERAND_REG8) /\ Stop("exit")
         \/ Confused(o.op2, OPERAND_REG8) /\ Stop("undefined")
         \/ /\ InMemory(o.op2) \/ InRegister(o.op2, OPERAND_REG8)
            /\ Put8(At(o.ip), o.op2, CASE o.op1 = 0 -> (v + 1) % 256
                                       [] o.op1 = 1 -> (v - 1) % 256
                                       [] OTHER -> 0)

\* The low byte of the result is stored.
table_ff ==
  /\ Opcode({255})
  /\ LET o == parse_format_table_rm_16
         v == Value16(o.op2)
     IN  \/ Unknown(o.op2, OPERAND_REG16) /\ Stop("exit")
         \/ Confused(o.op2, OPERAND_REG16) /\ Stop("undefined")
         \/ /\ InMemory(o.op2)
            /\ \/ o.op1 = 0 /\ Put8(At(o.ip), o.op2, (v + 1) % 256)
               \/ o.op1 = 1 /\ Put8(At(o.ip), o.op2, (v - 1) % 256)
               \/ o.op1 > 1 /\ DoneReg(At(o.ip))

group ==
  \/ table_80 \/ table_81 \/ table_82 \/ table_83
  \/ table_d0 \/ table_d1 \/ table_d2 \/ table_d3 \/ aam \/ aad
  \/ table_f6 \/ table_f7 \/ table_fe \/ table_ff
=============================================================================
