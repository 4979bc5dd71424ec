------------------------------ MODULE CpuCore ------------------------------
(***************************************************************************)
(* arch/8086/cpu.c: the core's registers, fetching and the parse formats.   *)
(* One instruction is one step: only the CPU thread touches the registers   *)
(* and the memory.  An action of the modules that extend this one is a      *)
(* handler with its parse format: which opcodes it serves, how far the      *)
(* format moves ip, and what the handler then changes.                      *)
(***************************************************************************)
EXTENDS Integers, MemMap

VARIABLES
  reg,      \* core->reg
  mem,      \* the record of MemMap
  port,     \* g_pci_port[].v where it is not 0, without the devices' ports
  rep,      \* the rep loops in progress, outermost first
  status    \* "run"; "again": a rep loop's body has just run; the others are
            \* the ends of the VM: "exit" (exit(-1)), "abort" (assert), "crash"
            \* (a null page, a division by 0), "spin" (halt), "undefined" (the C code works on
            \* stale operands or a wild host pointer; not followed further)

vars == <<reg, mem, port, rep, status>>

RegName == {"ax", "bx", "cx", "dx", "ip", "sp", "bp", "si", "di",
            "ss", "cs", "ds", "es", "flags"}

cpu8086_init == [r \in RegName |-> IF r = "cs" THEN 1984 ELSE 0]   \* 0x7c0

\* Mutant: registers wider than 16 bits.
Wrap_Never(n) == n

Wrap(n) == n % 65536

\* The tables the parse formats index with the reg and r/m fields.
registers16 == <<"ax", "cx", "dx", "bx", "sp", "bp", "si", "di">>
segments == <<"es", "cs", "ss", "ds">>
Reg16(i) == [type |-> "reg16", name |-> registers16[i + 1]]
Seg(i) == [type |-> "segment", name |-> segments[i + 1]]
\* The reg field of a byte format: al, cl, dl, bl, ah, ch, dh, bh.
Reg8(i) == [type |-> "reg8", name |-> registers16[(i % 4) + 1], high |-> i >= 4]
\* Its r/m field points into registers2: code 4 is the low byte of sp.
Rm8(i) == [type |-> "reg8", name |-> registers16[i + 1], high |-> FALSE]
Addr(a) == [type |-> "addr", addr |-> a]

-----------------------------------------------------------------------------
(* instruct_read_byte, instruct_read_word *)

Byte1(ip) == vm_read_byte(mem, vm_addr_calc(reg.cs, ip))
Word1(ip) == vm_read_word(mem, vm_addr_calc(reg.cs, ip))
opcode == Byte1(reg.ip)
ip1 == Wrap(reg.ip + 1)           \* after the opcode

-----------------------------------------------------------------------------
(* The mod r/m byte *)

modrm == Byte1(ip1)
Mod == modrm \div 64
RegField == (modrm \div 8) % 8
RmField == modrm % 8

\* Bytes of displacement after the mod r/m byte.
DispLen == CASE Mod = 0 -> IF RmField = 6 THEN 2 ELSE 0
             [] Mod = 1 -> 1
             [] Mod = 2 -> 2
             [] Mod = 3 -> 0
Disp == CASE DispLen = 0 -> 0
          [] DispLen = 1 -> Byte1(Wrap(ip1 + 1))     \* zero-extended
          [] DispLen = 2 -> Word1(Wrap(ip1 + 1))
ip2 == Wrap(ip1 + 1 + DispLen)    \* after mod r/m and displacement

\* The registers an address form adds up.
RmBase == CASE RmField = 0 -> reg.bx + reg.si
            [] RmField = 1 -> reg.bx + reg.di
            [] RmField = 2 -> reg.bp + reg.si
            [] RmField = 3 -> reg.bp + reg.di
            [] RmField = 4 -> reg.si
            [] RmField = 5 -> reg.di
            [] RmField = 6 -> IF Mod = 0 THEN 0 ELSE reg.bp
            [] RmField = 7 -> reg.bx
RmSegment == IF RmField \in {2, 3} THEN reg.ss ELSE reg.ds

\* The sum does not wrap at 64 KB.  The displacement-only form hands
\* ds * 16 to vm_addr_calc, whose first parameter is a uint16_t.
addr_rm == IF Mod = 0 /\ RmField = 6
             THEN vm_addr_calc(Wrap(reg.ds * 16), Disp)
             ELSE RmSegment * 16 + RmBase + Disp
addr_rm_offset == Wrap(RmBase + Disp)

Rm(register) == IF Mod = 3 THEN register ELSE Addr(addr_rm)

-----------------------------------------------------------------------------
(* The parse formats: the operands, and ip after them. *)

parse_format_imm_8  == [im |-> Byte1(ip1), ip |-> Wrap(ip1 + 1)]
parse_format_imm_16 == [im |-> Word1(ip1), ip |-> Wrap(ip1 + 2)]

\* Mutant: ip before the displacement byte.
parse_format_ipinc_8_Early ==
  [offset |-> (Lo8(ip1) + Byte1(ip1)) % 256, ip |-> Wrap(ip1 + 1)]

\* The target of a short jump keeps eight bits of ip only.
parse_format_ipinc_8 ==
  [offset |-> (Lo8(ip1 + 1) + Byte1(ip1)) % 256, ip |-> Wrap(ip1 + 1)]
parse_format_ipinc_16 ==
  [offset |-> Wrap(ip1 + 2 + Word1(ip1)), ip |-> Wrap(ip1 + 2)]

parse_format_call_16 ==
  [offset |-> Word1(ip1), segment |-> Word1(Wrap(ip1 + 2)), ip |-> Wrap(ip1 + 4)]

parse_format_seg2rm_16 ==
  [op1 |-> Seg(RegField % 4), op2 |-> Rm(Reg16(RmField)), ip |-> ip2]
parse_format_reg2rm_8 ==
  [op1 |-> Reg8(RegField), op2 |-> Rm(Rm8(RmField)), ip |-> ip2]
parse_format_reg2rm_16 ==
  [op1 |-> Reg16(RegField), op2 |-> Rm(Reg16(RmField)), ip |-> ip2]
parse_format_reg2rm_lea ==
  [op1 |-> Reg16(RegField), ip |-> ip2,
   op2 |-> IF Mod = 3 THEN Reg16(RmField) ELSE [type |-> "im16", im |-> addr_rm_offset]]

parse_format_rm2imm_8 ==
  [op1 |-> RegField, op2 |-> Rm(Rm8(RmField)), op3 |-> Byte1(ip2), ip |-> Wrap(ip2 + 1)]
\* Mutant: an immediate of one byte.
parse_format_rm2imm_16_Short ==
  [op1 |-> RegField, op2 |-> Rm(Reg16(RmField)), op3 |-> Byte1(ip2), ip |-> Wrap(ip2 + 1)]

parse_format_rm2imm_16 ==
  [op1 |-> RegField, op2 |-> Rm(Reg16(RmField)), op3 |-> Word1(ip2), ip |-> Wrap(ip2 + 2)]
parse_format_table_rm_8 ==
  [op1 |-> RegField, op2 |-> Rm(Rm8(RmField)), ip |-> ip2]
parse_format_table_rm_16 ==
  [op1 |-> RegField, op2 |-> Rm(Reg16(RmField)), ip |-> ip2]

-----------------------------------------------------------------------------
(* Reading and writing operands *)

RegByte(r, o) == IF o.high THEN Hi8(r[o.name]) ELSE Lo8(r[o.name])
SetRegByte(r, o, v) ==
  [r EXCEPT ![o.name] = IF o.high THEN v * 256 + Lo8(@) ELSE Hi8(@) * 256 + v]

-----------------------------------------------------------------------------
(* cpu8086_proc_instruction.  Handlers that end without a return (a few moves, *)
(* 0x80 - 0x83) hand back what fprintf returned last, a count, which is no    *)
(* error either.                                                              *)

Running == status = "run"
Opcode(ops) == Running /\ opcode \in ops

\* The handler returned: inside a rep loop, the loop's test comes next.
Done(r, m) ==
  /\ reg' = r /\ mem' = m
  /\ status' = IF rep = << >> THEN "run" ELSE "again"
  /\ UNCHANGED <<port, rep>>

\* The VM ends; what the handler did before does not matter any more.
Stop(how) == status' = how /\ UNCHANGED <<reg, mem, port, rep>>

\* A register-only handler: r are the registers after the format and handler.
DoneReg(r) == Done(r, mem)

TypeOK ==
  /\ reg \in [RegName -> Word]
  /\ mem.cell \in [DOMAIN mem.cell -> Byte]
  /\ DOMAIN mem.cell \subseteq 0 .. MemSize - 1
  /\ port \in [DOMAIN port -> Word] /\ DOMAIN port \subseteq Word
  /\ status \in {"run", "again", "exit", "abort", "crash", "spin", "undefined"}
  /\ \A i \in DOMAIN rep : rep[i].kind \in {"repe", "repne"} /\ rep[i].ip \in Word
  /\ status = "again" => rep # << >>
=============================================================================
