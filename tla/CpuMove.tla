------------------------------ MODULE CpuMove ------------------------------
(***************************************************************************)
(* arch/8086/cpu.c: the handlers that move data: mov, xchg, lea, les, lds,  *)
(* xlat, cbw, cwd, inc and dec of a register, and those without an effect   *)
(* on the machine.  update_flags computes FLAGS_x_SET and drops the result, *)
(* so its calls change nothing.                                             *)
(***************************************************************************)
EXTENDS CpuCore

At(ip) == [reg EXCEPT !.ip = ip]

Value8(o)  == IF o.type = "addr" THEN vm_read_byte(mem, o.addr) ELSE RegByte(reg, o)
Value16(o) == IF o.type = "addr" THEN vm_read_word(mem, o.addr) ELSE reg[o.name]

\* The handler ends by storing v in the operand o; r holds its other changes.
Put8(r, o, v) ==
  IF o.type = "addr" THEN Done(r, vm_write_byte(mem, o.addr, v))
                     ELSE Done(SetRegByte(r, o, v), mem)
Put16(r, o, v) ==
  IF o.type = "addr" THEN Done(r, vm_write_word(mem, o.addr, v))
                     ELSE Done([r EXCEPT ![o.name] = v], mem)

-----------------------------------------------------------------------------
(* mov between registers, segment registers and memory *)

mov_reg2rm_8 ==
  /\ Opcode({136})                                              \* 0x88
  /\ LET o == parse_format_reg2rm_8 IN Put8(At(o.ip), o.op2, Value8(o.op1))

mov_reg2rm_16 ==
  /\ Opcode({137})
  /\ LET o == parse_format_reg2rm_16 IN Put16(At(o.ip), o.op2, Value16(o.op1))

\* The test for a register asks for OPERAND_REG16, which the byte format
\* never delivers: a register source is an error.
mov_rm2reg_8 ==
  /\ Opcode({138})
  /\ LET o == parse_format_reg2rm_8
     IN  IF o.op2.type = "addr" THEN Put8(At(o.ip), o.op1, Value8(o.op2))
                                ELSE Stop("exit")

mov_rm2reg_16 ==
  /\ Opcode({139})
  /\ LET o == parse_format_reg2rm_16 IN Put16(At(o.ip), o.op1, Value16(o.op2))

\* With the high bit of the reg field set the format returns before it fills
\* in the operands, and the handler goes on with those of an earlier one.
StaleOperands == RegField >= 4

mov_seg2rm_16 ==
  /\ Opcode({140})
  /\ LET o == parse_format_seg2rm_16
     IN  IF StaleOperands THEN Stop("undefined")
                          ELSE Put16(At(o.ip), o.op2, Value16(o.op1))

mov_rm2seg_16 ==
  /\ Opcode({142})
  /\ LET o == parse_format_seg2rm_16
     IN  IF StaleOperands THEN Stop("undefined")
                          ELSE Put16(At(o.ip), o.op1, Value16(o.op2))

\* 0xa0 - 0xa3 are given the mod r/m format.  The two stores dereference the
\* guest address as a host pointer.
mov_rm2ax ==
  /\ Opcode({160, 161})
  /\ LET o == parse_format_reg2rm_16
     IN  \/ o.op2.type # "addr" /\ Stop("exit")
         \/ o.op2.type = "addr" /\ opcode = 160 /\ Put8(At(o.ip), Reg8(0), Value8(o.op2))
         \/ o.op2.type = "addr" /\ opcode = 161 /\ Put16(At(o.ip), Reg16(0), Value16(o.op2))

mov_ax2rm ==
  /\ Opcode({162, 163})
  /\ Stop(IF Mod = 3 THEN "exit" ELSE "undefined")

-----------------------------------------------------------------------------
(* mov of immediate values *)

\* 0xb0 - 0xb7; the handler for bh writes dh.
mov_im82reg ==
  /\ Opcode(176 .. 183)
  /\ LET o == parse_format_imm_8
     IN  Put8(At(o.ip), Reg8(IF opcode = 183 THEN 6 ELSE opcode - 176), o.im)

mov_im162reg ==
  /\ Opcode(184 .. 191)
  /\ LET o == parse_format_imm_16 IN Put16(At(o.ip), Reg16(opcode - 184), o.im)

mov_im2rm_8 ==
  /\ Opcode({198})
  /\ LET o == parse_format_rm2imm_8
     IN  IF o.op1 = 0 THEN Put8(At(o.ip), o.op2, o.op3) ELSE Stop("exit")

mov_im2rm_16 ==
  /\ Opcode({199})
  /\ LET o == parse_format_rm2imm_16
     IN  IF o.op1 = 0 THEN Put16(At(o.ip), o.op2, o.op3) ELSE Stop("exit")

-----------------------------------------------------------------------------
(* xchg, lea, les, lds, xlat *)

xchg_reg2rm_8 ==
  /\ Opcode({134})
  /\ LET o == parse_format_reg2rm_8
     IN  Put8(SetRegByte(At(o.ip), o.op1, Value8(o.op2)), o.op2, Value8(o.op1))

xchg_reg2rm_16 ==
  /\ Opcode({135})
  /\ LET o == parse_format_reg2rm_16
     IN  Put16([At(o.ip) EXCEPT ![o.op1.name] = Value16(o.op2)], o.op2, Value16(o.op1))

xchg_regax ==
  /\ Opcode(145 .. 151)
  /\ LET other == registers16[opcode - 144 + 1]
     IN  DoneReg([At(ip1) EXCEPT !.ax = reg[other], ![other] = reg.ax])

lea_rm2reg ==
  /\ Opcode({141})
  /\ LET o == parse_format_reg2rm_lea
     IN  IF o.op2.type = "im16" THEN Put16(At(o.ip), o.op1, o.op2.im) ELSE Stop("exit")

\* les and lds: the offset goes to the register, then the segment.
les_rm2reg_16 ==
  /\ Opcode({196, 197})
  /\ LET o == parse_format_reg2rm_16
         im == vm_read_dword(mem, o.op2.addr)
         seg == IF opcode = 196 THEN "es" ELSE "ds"
     IN  IF o.op2.type = "addr"
           THEN DoneReg([At(o.ip) EXCEPT ![o.op1.name] = im.low, ![seg] = im.high])
           ELSE Stop("exit")

xlat ==
  /\ Opcode({215})
  /\ LET a == vm_addr_calc(reg.ds, Wrap(reg.bx + Lo8(reg.ax)))
     IN  Put8(At(ip1), Reg8(0), vm_read_byte(mem, a))

-----------------------------------------------------------------------------
(* cbw, cwd, inc and dec of a word register *)

\* (al & 0x80) == 1 and (ax & 0x8000) == 1 never hold: both extend with 0.
cbw == Opcode({152}) /\ DoneReg(SetRegByte(At(ip1), Reg8(4), 0))
cwd == Opcode({153}) /\ DoneReg([At(ip1) EXCEPT !.dx = 0])

inc_reg == Opcode(64 .. 71) /\ DoneReg([At(ip1) EXCEPT ![registers16[opcode - 63]] = Wrap(@ + 1)])
dec_reg == Opcode(72 .. 79) /\ DoneReg([At(ip1) EXCEPT ![registers16[opcode - 71]] = Wrap(@ - 1)])

-----------------------------------------------------------------------------
(* No effect beyond ip *)

\* Entries of the table without a handler are passed over as one byte.
not_an_opcode ==
  /\ Opcode({15, 38, 46, 54, 62} \cup 96 .. 111 \cup {192, 193, 200, 201, 214, 241})
  /\ DoneReg(At(ip1))

\* nop, wait, lock; cmc, clc, stc, cli, sti, cld and std only call
\* update_flags.
nop == Opcode({144, 155, 240, 245} \cup 248 .. 253) /\ DoneReg(At(ip1))

\* test and esc decode their operands and store nothing.
test_reg2rm == Opcode({132, 133} \cup 216 .. 223) /\ DoneReg(At(ip2))
test_im8 == Opcode({168}) /\ DoneReg(At(parse_format_imm_8.ip))
test_im16 == Opcode({169}) /\ DoneReg(At(parse_format_imm_16.ip))

move ==
  \/ mov_reg2rm_8 \/ mov_reg2rm_16 \/ mov_rm2reg_8 \/ mov_rm2reg_16
  \/ mov_seg2rm_16 \/ mov_rm2seg_16 \/ mov_rm2ax \/ mov_ax2rm
  \/ mov_im82reg \/ mov_im162reg \/ mov_im2rm_8 \/ mov_im2rm_16
  \/ xchg_reg2rm_8 \/ xchg_reg2rm_16 \/ xchg_regax
  \/ lea_rm2reg \/ les_rm2reg_16 \/ xlat
  \/ cbw \/ cwd \/ inc_reg \/ dec_reg
  \/ not_an_opcode \/ nop \/ test_reg2rm \/ test_im8 \/ test_im16
=============================================================================
