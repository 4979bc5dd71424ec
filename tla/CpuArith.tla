------------------------------ MODULE CpuArith ------------------------------
(***************************************************************************)
(* arch/8086/cpu.c: the arithmetic and logic handlers 0x00 - 0x3f.  Eight   *)
(* operations come in six forms each, and most handlers of a form differ in *)
(* the operator only; what one of them does apart from that is spelled out. *)
(* The flags each of them computes go to update_flags, which drops them.    *)
(***************************************************************************)
EXTENDS CpuControl

-----------------------------------------------------------------------------
(* Words bit by bit; w is the weight of a bit. *)

Bit(n, w) == (n \div w) % 2
FromBits(b(_)) ==
  b(1) + 2 * b(2) + 4 * b(4) + 8 * b(8) + 16 * b(16) + 32 * b(32) + 64 * b(64)
    + 128 * b(128) + 256 * b(256) + 512 * b(512) + 1024 * b(1024) + 2048 * b(2048)
    + 4096 * b(4096) + 8192 * b(8192) + 16384 * b(16384) + 32768 * b(32768)

BitAnd(m, n) == FromBits(LAMBDA w : IF Bit(m, w) + Bit(n, w) = 2 THEN 1 ELSE 0)
BitOr(m, n)  == FromBits(LAMBDA w : IF Bit(m, w) + Bit(n, w) > 0 THEN 1 ELSE 0)
BitXor(m, n) == FromBits(LAMBDA w : IF Bit(m, w) # Bit(n, w) THEN 1 ELSE 0)

\* Mutant: adc without the carry.
Operation_NoCarry(i, d, s) ==
  CASE i \in {0, 2} -> d + s
    [] i = 1 -> BitOr(d, s)
    [] i = 3 -> d - s - CF
    [] i = 4 -> BitAnd(d, s)
    [] i = 5 -> d - s
    [] i = 6 -> BitXor(d, s)

\* The operators, on int: the handlers store the low byte or word.
Operation(i, d, s) ==
  CASE i = 0 -> d + s
    [] i = 1 -> BitOr(d, s)
    [] i = 2 -> d + s + CF
    [] i = 3 -> d - s - CF
    [] i = 4 -> BitAnd(d, s)
    [] i = 5 -> d - s
    [] i = 6 -> BitXor(d, s)

-----------------------------------------------------------------------------
(* The six forms of operation i *)

reg2rm_8(i) ==
  /\ Opcode({8 * i})
  /\ LET o == parse_format_reg2rm_8
     IN  Put8(At(o.ip), o.op2, Operation(i, Value8(o.op2), Value8(o.op1)) % 256)
reg2rm_16(i) ==
  /\ Opcode({8 * i + 1})
  /\ LET o == parse_format_reg2rm_16
     IN  Put16(At(o.ip), o.op2, Wrap(Operation(i, Value16(o.op2), Value16(o.op1))))
rm2reg_8(i) ==
  /\ Opcode({8 * i + 2})
  /\ LET o == parse_format_reg2rm_8
     IN  Put8(At(o.ip), o.op1, Operation(i, Value8(o.op1), Value8(o.op2)) % 256)
rm2reg_16(i) ==
  /\ Opcode({8 * i + 3})
  /\ LET o == parse_format_reg2rm_16
     IN  Put16(At(o.ip), o.op1, Wrap(Operation(i, Value16(o.op1), Value16(o.op2))))
i8al(i) ==
  /\ Opcode({8 * i + 4})
  /\ LET o == parse_format_imm_8
     IN  Put8(At(o.ip), Reg8(0), Operation(i, Lo8(reg.ax), o.im) % 256)
i16ax(i) ==
  /\ Opcode({8 * i + 5})
  /\ LET o == parse_format_imm_16
     IN  Put16(At(o.ip), Reg16(0), Wrap(Operation(i, reg.ax, o.im)))

RegisterForm == Mod = 3
SixForms(i) ==
  reg2rm_8(i) \/ reg2rm_16(i) \/ rm2reg_8(i) \/ rm2reg_16(i) \/ i8al(i) \/ i16ax(i)

-----------------------------------------------------------------------------
(* The operations *)

\* Between two word registers the sum is not stored (0x01), or is that of the
\* destination and 0 (0x03, which asks for OPERAND_REG8).
add ==
  \/ reg2rm_8(0) \/ rm2reg_8(0) \/ i8al(0) \/ i16ax(0)
  \/ ~RegisterForm /\ (reg2rm_16(0) \/ rm2reg_16(0))
  \/ RegisterForm /\ Opcode({1, 3}) /\ DoneReg(At(ip2))

\* The r/m operand is taken for an address, whatever it is: the pointer to a
\* register becomes a guest address.
or ==
  \/ ~RegisterForm /\ (reg2rm_8(1) \/ reg2rm_16(1) \/ rm2reg_8(1) \/ rm2reg_16(1))
  \/ RegisterForm /\ Opcode(8 .. 11) /\ Stop("undefined")
  \/ i8al(1) \/ i16ax(1)

adc == SixForms(2)
sbb == SixForms(3)
and == SixForms(4)
sub == SixForms(5)

\* Between two byte registers (0x30) the result is not stored.
xor ==
  \/ ~RegisterForm /\ reg2rm_8(6)
  \/ RegisterForm /\ Opcode({48}) /\ DoneReg(At(ip2))
  \/ reg2rm_16(6) \/ rm2reg_8(6) \/ rm2reg_16(6) \/ i8al(6) \/ i16ax(6)

\* cmp computes flags only.
cmp ==
  \/ Opcode(56 .. 59) /\ DoneReg(At(ip2))
  \/ Opcode({60}) /\ DoneReg(At(parse_format_imm_8.ip))
  \/ Opcode({61}) /\ DoneReg(At(parse_format_imm_16.ip))

-----------------------------------------------------------------------------
(* Decimal and ASCII adjustment.  AF is never equal to 1 (see Masked); both   *)
(* halves of al are read before the first correction.                         *)

al == Lo8(reg.ax)
ah == Hi8(reg.ax)
LowDigitOver == al % 16 > 9
HighDigitOver == al \div 16 > 9 \/ CF = 1

\* A word from two bytes that wrap.
Join(high, low) == 256 * (high % 256) + (low % 256)

\* daa adds and das subtracts 6 and 0x60.
daa ==
  /\ Opcode({39})
  /\ Put8(At(ip1), Reg8(0), (al + (IF LowDigitOver THEN 6 ELSE 0)
                                + (IF HighDigitOver THEN 96 ELSE 0)) % 256)
das ==
  /\ Opcode({47})
  /\ Put8(At(ip1), Reg8(0), (al - (IF LowDigitOver THEN 6 ELSE 0)
                                - (IF HighDigitOver THEN 96 ELSE 0)) % 256)

\* aaa leaves the high half of al as it is.
aaa ==
  /\ Opcode({55})
  /\ DoneReg([At(ip1) EXCEPT !.ax =
       IF LowDigitOver THEN Join(ah + 1, al + 6) ELSE @])
aas ==
  /\ Opcode({63})
  /\ DoneReg([At(ip1) EXCEPT !.ax =
       IF LowDigitOver THEN Join(ah - 1, (al - 6) % 16) ELSE @])

arithmetic ==
  \/ add \/ or \/ adc \/ sbb \/ and \/ sub \/ xor \/ cmp
  \/ daa \/ das \/ aaa \/ aas
=============================================================================
