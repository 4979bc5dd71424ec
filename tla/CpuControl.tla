----------------------------- MODULE CpuControl -----------------------------
(***************************************************************************)
(* arch/8086/cpu.c: the stack, the flag register, jumps, loops, calls,      *)
(* interrupts, the rep prefixes and halt.                                   *)
(***************************************************************************)
EXTENDS CpuMove

-----------------------------------------------------------------------------
(* The stack: the word goes to ss:sp before sp moves down, and comes from     *)
(* ss:sp before sp moves up.                                                  *)

StackTop(r) == vm_addr_calc(r.ss, r.sp)
Down(r) == [r EXCEPT !.sp = Wrap(@ - 2)]

\* On a pair s of registers and memory, as int pushes three times.
Push(s, v) == [r |-> Down(s.r), m |-> vm_write_word(s.m, StackTop(s.r), v)]

\* push_stack_16 asserts that the value is not 0.
push_stack_16(ip, v) ==
  IF v = 0 THEN Stop("abort")
  ELSE LET s == Push([r |-> At(ip), m |-> mem], v) IN Done(s.r, s.m)

\* pop_stack_16: sp moves after the register is set, so pop sp adds 2 to it.
pop_stack_16(name) ==
  DoneReg([[At(ip1) EXCEPT ![name] = vm_read_word(mem, StackTop(reg))]
             EXCEPT !.sp = Wrap(@ + 2)])

push_reg == Opcode(80 .. 87) /\ push_stack_16(ip1, reg[registers16[opcode - 79]])
pop_reg  == Opcode(88 .. 95) /\ pop_stack_16(registers16[opcode - 87])

push_seg ==
  \/ Opcode({6})  /\ push_stack_16(ip1, reg.es)
  \/ Opcode({14}) /\ push_stack_16(ip1, reg.cs)
  \/ Opcode({30}) /\ push_stack_16(ip1, reg.ds)
\* push ss does without push_stack_16, and so without its assertion.
push_ss ==
  /\ Opcode({22})
  /\ LET s == Push([r |-> At(ip1), m |-> mem], reg.ss) IN Done(s.r, s.m)
pop_seg ==
  \/ Opcode({7})  /\ pop_stack_16("es")
  \/ Opcode({23}) /\ pop_stack_16("ss")
\* pop ds passes the value of ds where the pointer belongs: the assertion
\* fails for 0, and below 64 KB the host has no memory to write to.
pop_ds == Opcode({31}) /\ Stop(IF reg.ds = 0 THEN "abort" ELSE "crash")

pop_rm16 ==
  /\ Opcode({143})
  /\ LET o == parse_format_seg2rm_16
     IN  IF StaleOperands THEN Stop("undefined")
         ELSE Put16([At(o.ip) EXCEPT !.sp = Wrap(@ + 2)], o.op2,
                    vm_read_word(mem, StackTop(reg)))

-----------------------------------------------------------------------------
(* flags *)

pushf ==
  /\ Opcode({156})
  /\ LET s == Push([r |-> At(ip1), m |-> mem], reg.flags) IN Done(s.r, s.m)
popf ==
  /\ Opcode({157})
  /\ DoneReg([At(ip1) EXCEPT !.sp = Wrap(@ + 2),
                             !.flags = vm_read_word(mem, StackTop(reg))])
sahf == Opcode({158}) /\ DoneReg([At(ip1) EXCEPT !.flags = Hi8(@) * 256 + Hi8(reg.ax)])
lahf == Opcode({159}) /\ DoneReg(SetRegByte(At(ip1), Reg8(4), Lo8(reg.flags)))

\* FLAGS_CF(core) and so on: the masked register, not 0 or 1.
Masked(k) == ((reg.flags \div 2^k) % 2) * 2^k
CF == Masked(0)
PF == Masked(2)
ZF == Masked(6)
SF == Masked(7)
OF == Masked(11)

-----------------------------------------------------------------------------
(* Jumps *)

\* 0x70 - 0x7f, with the comparisons of the sixteen handlers as they stand.
\* Only CF can equal 1: the tests for 1 of the other flags never hold.
Condition ==
  << OF = 1, OF = 0 \/ ZF = 1,
     CF = 1, CF = 0 \/ ZF = 1,
     ZF = 1, ZF = 0,
     CF = 1 \/ ZF = 1, CF = 0 \/ ZF = 0,
     SF = 1, SF = 0,
     PF = 1, PF = 0,
     ZF = 0 /\ SF = 1 /\ OF = 1, ZF = 1 \/ (SF = 0 /\ OF = 0),
     ZF = 1 \/ (SF = 1 /\ OF = 1), ZF = 0 /\ SF = 0 /\ OF = 0 >>

Signed8(b) == IF b < 128 THEN b ELSE b - 256

\* The offset the format has computed is already a target; the handlers add
\* it to ip once more.
jcc_ip8 ==
  /\ Opcode(112 .. 127)
  /\ LET o == parse_format_ipinc_8
     IN  DoneReg(At(IF Condition[opcode - 111] THEN Wrap(o.ip + Signed8(o.offset))
                                               ELSE o.ip))

jmp_near_8 == Opcode({235}) /\ DoneReg(At(parse_format_ipinc_8.offset))
jmp_near_16 == Opcode({233}) /\ DoneReg(At(parse_format_ipinc_16.offset))
jmp_far ==
  /\ Opcode({234})
  /\ LET o == parse_format_call_16 IN DoneReg([At(o.offset) EXCEPT !.cs = o.segment])

\* Mutant: cx is tested before it is decremented.
loop_8_TestsFirst ==
  /\ Opcode({224, 225, 226})
  /\ LET o == parse_format_ipinc_8
         taken == /\ reg.cx # 0
                  /\ opcode = 224 => ZF # 1
                  /\ opcode = 225 => ZF = 1
     IN  DoneReg([At(IF taken THEN o.offset ELSE o.ip) EXCEPT !.cx = Wrap(@ - 1)])

\* loopne, loope, loop: the target replaces ip.
loop_8 ==
  /\ Opcode({224, 225, 226})
  /\ LET o == parse_format_ipinc_8
         cx == Wrap(reg.cx - 1)
         taken == /\ cx # 0
                  /\ opcode = 224 => ZF # 1
                  /\ opcode = 225 => ZF = 1
     IN  DoneReg([At(IF taken THEN o.offset ELSE o.ip) EXCEPT !.cx = cx])

jcxz_8 ==
  /\ Opcode({227})
  /\ LET o == parse_format_ipinc_8 IN DoneReg(At(IF reg.cx = 0 THEN o.offset ELSE o.ip))

-----------------------------------------------------------------------------
(* Calls, returns, interrupts *)

\* Both calls write ip at ss:sp and cs two below, and move sp once.  The
\* address (uint32_t) does not wrap at the segment: below 0 it is beyond the
\* memory, where nothing is stored.
Call(ip, r) ==
  LET top == StackTop(reg)
      below == IF top < 2 THEN MemSize ELSE top - 2
  IN  Done(Down(r), vm_write_word(vm_write_word(mem, top, ip), below, reg.cs))

call_near ==
  /\ Opcode({232})
  /\ LET o == parse_format_ipinc_16 IN Call(o.ip, At(o.offset))
call_far ==
  /\ Opcode({154})
  /\ LET o == parse_format_call_16 IN Call(o.ip, [At(o.offset) EXCEPT !.cs = o.segment])

ret ==
  /\ Opcode({195})
  /\ DoneReg([At(vm_read_word(mem, StackTop(reg))) EXCEPT !.sp = Wrap(@ + 2)])
\* The operand of ret imm16 becomes ip.
ret_im16 == Opcode({194}) /\ DoneReg(At(parse_format_imm_16.im))
retf ==
  /\ Opcode({203})
  /\ DoneReg([At(vm_read_word(mem, StackTop(reg)))
                EXCEPT !.cs = vm_read_word(mem, StackTop(reg) + 2), !.sp = Wrap(@ + 4)])
retf_im16 ==
  /\ Opcode({202})
  /\ DoneReg([At(parse_format_imm_16.im)
                EXCEPT !.cs = vm_read_word(mem, StackTop(reg)), !.sp = Wrap(@ + 2)])

\* int, int 3 and into (whatever OF is) push flags, cs and ip, and jump into
\* the vector table itself.  push_stack_16 aborts on the first zero.
Interrupt(ip, n) ==
  IF 0 \in {reg.flags, reg.cs, ip} THEN Stop("abort")
  ELSE LET s == Push(Push(Push([r |-> reg, m |-> mem], reg.flags), reg.cs), ip)
       IN  Done([s.r EXCEPT !.cs = 4 * n + 2, !.ip = 4 * n], s.m)

int ==
  \/ Opcode({204}) /\ Interrupt(ip1, 3)
  \/ Opcode({205}) /\ LET o == parse_format_imm_8 IN Interrupt(o.ip, o.im)
  \/ Opcode({206}) /\ Interrupt(ip1, 4)

\* iret pushes ip, cx and flags.
iret ==
  /\ Opcode({207})
  /\ IF 0 \in {ip1, reg.cx, reg.flags} THEN Stop("abort")
     ELSE LET s == Push(Push(Push([r |-> At(ip1), m |-> mem], ip1), reg.cx), reg.flags)
          IN  Done(s.r, s.m)

-----------------------------------------------------------------------------
(* rep prefixes and halt *)

\* do { ip = oldip; one instruction; cx-- } while (...).  from and n are
\* history: cx at the prefix, and the rounds completed, up to MaxRounds.
MaxRounds == 65536
repe ==
  /\ Opcode({242, 243})
  /\ rep' = Append(rep, [kind |-> IF opcode = 242 THEN "repne" ELSE "repe", ip |-> ip1,
                         from |-> reg.cx, n |-> 0])
  /\ reg' = At(ip1)
  /\ UNCHANGED <<mem, port, status>>

\* The end of a round: another one, or on with what follows the loop.
Round(goes_on) ==
  LET outer == SubSeq(rep, 1, Len(rep) - 1)
      counted == [reg EXCEPT !.cx = Wrap(@ - 1)]
  IN  /\ status = "again"
      /\ IF goes_on
           THEN /\ reg' = [counted EXCEPT !.ip = rep[Len(rep)].ip]
                /\ status' = "run"
                /\ rep' = [rep EXCEPT ![Len(rep)].n = IF @ < MaxRounds THEN @ + 1 ELSE @]
           ELSE /\ reg' = counted
                /\ rep' = outer
                /\ status' = IF outer = << >> THEN "run" ELSE "again"
      /\ UNCHANGED <<mem, port>>

\* FLAGS_ZF is 0 or 64: it never equals 1, so ZF never keeps a repe going.
\* It keeps a repne going for as long as it is clear.
ZFGoesOn == IF rep[Len(rep)].kind = "repne" THEN ZF = 0 ELSE ZF = 1

\* Mutants: cx is tested before it is decremented; ZF is taken for a truth
\* value; cx alone counts.
rep_again_TestsFirst == rep # << >> /\ Round(reg.cx # 0 \/ ZFGoesOn)
rep_again_OnZF ==
  rep # << >> /\ Round(reg.cx # 1 \/ (rep[Len(rep)].kind = "repe") = (ZF # 0))
rep_again_OnCx == rep # << >> /\ Round(reg.cx # 1)

\* cx is 0 after the decrement if it is 1 now.
rep_again == rep # << >> /\ Round(reg.cx # 1 \/ ZFGoesOn)

\* Nothing ever sets core->halt, on which the handler spins.
halt == Opcode({244}) /\ Stop("spin")

control ==
  \/ push_reg \/ pop_reg \/ push_seg \/ push_ss \/ pop_seg \/ pop_ds \/ pop_rm16
  \/ pushf \/ popf \/ sahf \/ lahf
  \/ jcc_ip8 \/ jmp_near_8 \/ jmp_near_16 \/ jmp_far \/ loop_8 \/ jcxz_8
  \/ call_near \/ call_far \/ ret \/ ret_im16 \/ retf \/ retf_im16 \/ int \/ iret
  \/ repe \/ rep_again \/ halt
=============================================================================
