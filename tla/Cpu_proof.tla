----------------------------- MODULE Cpu_proof -----------------------------
(***************************************************************************)
(* For every program, device and location of the core: what a step of the   *)
(* CPU may do.  Every handler that returns leaves words in the registers and *)
(* bytes in the memory, keeps flags unless it is popf or sahf, and, jumps    *)
(* apart, leaves ip after its own instruction.                               *)
(***************************************************************************)
EXTENDS Cpu, MemMap_proof

\* The registers handlers and formats name; nothing but the formats, the jumps
\* and popf and sahf touches ip and flags.
GenReg == RegName \ {"ip", "flags"}
SetsFlags == {157, 158}

IsOp16(o) == (o.type = "addr" /\ o.addr \in Nat) \/ (o.type # "addr" /\ o.name \in GenReg)
IsOp8(o) ==
  \/ o.type = "addr" /\ o.addr \in Nat
  \/ o.type # "addr" /\ o.name \in GenReg /\ o.high \in BOOLEAN

Loop == [kind : {"repe", "repne"}, ip : Word, from : Word, n : Nat]
Ends == {"exit", "abort", "crash", "spin", "undefined"}

Typed ==
  /\ reg \in [RegName -> Word] /\ MemOK(mem)
  /\ port \in [DOMAIN port -> Word] /\ DOMAIN port \subseteq Word
  /\ rep \in Seq(Loop)
  /\ status \in {"run", "again"} \cup Ends
  /\ status = "again" => rep # << >>
  /\ (status = "run" /\ rep # << >>) => reg.ip = rep[Len(rep)].ip

-----------------------------------------------------------------------------
(* Numbers *)

LEMMA WordBounds ==
  ASSUME NEW w \in Word
  PROVE  w \in Nat /\ 0 =< w /\ w =< 65535
BY DEF Word

LEMMA ByteBounds ==
  ASSUME NEW b \in Byte
  PROVE  b \in Nat /\ 0 =< b /\ b =< 255 /\ b \in Word
<1>1. b \in Nat /\ 0 =< b /\ b =< 255
  BY DEF Byte
<1> QED
  BY <1>1, IsWord

LEMMA WrapIsWord ==
  ASSUME NEW n \in Int
  PROVE  Wrap(n) \in Word
<1>1. n % 65536 \in Int /\ 0 =< n % 65536 /\ n % 65536 =< 65535
  OBVIOUS
<1> QED
  BY <1>1, IsWord DEF Wrap

LEMMA CutIsByte ==
  ASSUME NEW n \in Int
  PROVE  n % 256 \in Byte
BY DEF Byte

\* Counting on from a wrapped ip.
LEMMA WrapAgain ==
  ASSUME NEW n \in Nat, NEW k \in Nat
  PROVE  Wrap(Wrap(n) + k) = Wrap(n + k)
BY DEF Wrap

LEMMA WordIsWrapped ==
  ASSUME NEW w \in Word
  PROVE  Wrap(w) = w
BY WordBounds DEF Wrap

LEMMA Joined ==
  ASSUME NEW h \in Byte, NEW l \in Byte
  PROVE  h * 256 + l \in Word /\ 256 * h + l \in Word
<1>1. l + 256 * h \in Word
  BY TwoBytes
<1>2. h * 256 + l = l + 256 * h /\ 256 * h + l = l + 256 * h
  BY ByteBounds
<1> QED
  BY <1>1, <1>2

LEMMA DWordIsWords ==
  ASSUME NEW m, IsMem(m), NEW a
  PROVE  vm_read_dword(m, a).low \in Word /\ vm_read_dword(m, a).high \in Word
<1>1. \A t : vm_read_dword_word(m, t) \in Word
  BY PeekIsByte, TwoBytes DEF vm_read_dword_word
<1>2. 0 \in Word
  BY IsWord
<1> QED
  BY <1>1, <1>2 DEF vm_read_dword

-----------------------------------------------------------------------------
(* Fetching and the parse formats *)

LEMMA Fetched ==
  ASSUME Typed, NEW ip
  PROVE  Byte1(ip) \in Byte /\ Word1(ip) \in Word
BY ReadByteIsByte, ReadWordIsWord DEF Typed, MemOK, Byte1, Word1

LEMMA RegIsWord ==
  ASSUME Typed, NEW n \in RegName
  PROVE  reg[n] \in Word /\ reg[n] \in Nat
<1>1. reg[n] \in Word
  BY DEF Typed
<1> QED
  BY <1>1, WordBounds

LEMMA Fields ==
  ASSUME Typed
  PROVE  /\ opcode \in Byte /\ opcode \in Nat
         /\ Mod \in 0 .. 3 /\ RegField \in 0 .. 7 /\ RmField \in 0 .. 7
<1>1. opcode \in Byte /\ modrm \in Byte
  BY Fetched DEF opcode, modrm
<1>2. opcode \in Nat /\ modrm \in Nat /\ modrm =< 255
  BY <1>1, ByteBounds
<1>3. modrm \div 64 \in 0 .. 3 /\ (modrm \div 8) % 8 \in 0 .. 7 /\ modrm % 8 \in 0 .. 7
  BY <1>2
<1> QED
  BY <1>1, <1>2, <1>3 DEF Mod, RegField, RmField

LEMMA Displacement ==
  ASSUME Typed
  PROVE  DispLen \in 0 .. 2 /\ Disp \in Nat
<1>1. Mod \in 0 .. 3
  BY Fields
<1>2. DispLen \in 0 .. 2
  BY <1>1 DEF DispLen
<1>3. Byte1(Wrap(ip1 + 1)) \in Nat /\ Word1(Wrap(ip1 + 1)) \in Nat
  BY Fetched, ByteBounds, WordBounds
<1>4. DispLen = 0 \/ DispLen = 1 \/ DispLen = 2
  BY <1>2
<1> QED
  BY <1>2, <1>3, <1>4 DEF Disp

LEMMA NextIp ==
  ASSUME Typed
  PROVE  /\ reg.ip \in Nat /\ ip1 \in Word /\ ip2 \in Word
         /\ ip1 = Wrap(reg.ip + 1) /\ ip2 = Wrap(reg.ip + 2 + DispLen)
<1>1. reg.ip \in Nat
  BY RegIsWord DEF RegName
<1>2. ip1 \in Word /\ ip1 \in Nat /\ ip1 = Wrap(reg.ip + 1)
  BY <1>1, WrapIsWord, WordBounds DEF ip1
<1>3. DispLen \in Nat
  BY Displacement
<1>4. ip2 = Wrap(Wrap(reg.ip + 1) + (1 + DispLen))
  BY <1>2, <1>3 DEF ip2
<1>5. ip2 = Wrap((reg.ip + 1) + (1 + DispLen))
  BY <1>1, <1>3, <1>4, WrapAgain
<1>6. (reg.ip + 1) + (1 + DispLen) = reg.ip + 2 + DispLen /\ reg.ip + 2 + DispLen \in Int
  BY <1>1, <1>3
<1> QED
  BY <1>1, <1>2, <1>5, <1>6, WrapIsWord

LEMMA RmAddress ==
  ASSUME Typed
  PROVE  addr_rm \in Nat /\ addr_rm_offset \in Word
<1>1. /\ reg["bx"] \in Nat /\ reg["si"] \in Nat /\ reg["di"] \in Nat /\ reg["bp"] \in Nat
      /\ reg["ss"] \in Nat /\ reg["ds"] \in Nat
  BY RegIsWord DEF RegName
<1>2. RmField \in 0 .. 7 /\ Disp \in Nat
  BY Fields, Displacement
<1>3. RmBase \in Nat
  BY <1>1, <1>2 DEF RmBase
<1>4. RmSegment \in Nat
  BY <1>1 DEF RmSegment
<1>5. Wrap(reg.ds * 16) \in Nat
  BY <1>1, WrapIsWord, WordBounds
<1>6. addr_rm \in Nat
  BY <1>2, <1>3, <1>4, <1>5 DEF addr_rm, vm_addr_calc
<1>7. RmBase + Disp \in Int
  BY <1>2, <1>3
<1> QED
  BY <1>6, <1>7, WrapIsWord DEF addr_rm_offset

LEMMA Operands ==
  ASSUME NEW i \in 0 .. 7
  PROVE  /\ IsOp16(Reg16(i)) /\ IsOp16(Seg(i % 4)) /\ IsOp8(Reg8(i)) /\ IsOp8(Rm8(i))
         /\ Reg16(i).type # "addr" /\ Seg(i % 4).type # "addr"
         /\ Reg8(i).type # "addr" /\ Rm8(i).type # "addr"
<1>1. i = 0 \/ i = 1 \/ i = 2 \/ i = 3 \/ i = 4 \/ i = 5 \/ i = 6 \/ i = 7
  OBVIOUS
<1>2. registers16[i + 1] \in GenReg
  BY <1>1 DEF registers16, GenReg, RegName
<1>3. registers16[(i % 4) + 1] \in GenReg
  BY <1>1 DEF registers16, GenReg, RegName
<1>4. segments[(i % 4) + 1] \in GenReg
  BY <1>1 DEF segments, GenReg, RegName
<1>5. (i >= 4) \in BOOLEAN
  OBVIOUS
<1> QED
  BY <1>2, <1>3, <1>4, <1>5 DEF IsOp16, IsOp8, Reg16, Seg, Reg8, Rm8

LEMMA RmOperands ==
  ASSUME Typed
  PROVE  IsOp8(Rm(Rm8(RmField))) /\ IsOp16(Rm(Reg16(RmField)))
BY Fields, RmAddress, Operands DEF Rm, Addr, IsOp8, IsOp16

-----------------------------------------------------------------------------
(* What a handler leaves *)

\* r is a core whose ip a handler has moved to ip.
After(r, ip) ==
  /\ r \in [RegName -> Word] /\ r.ip = ip
  /\ opcode \in SetsFlags \/ r.flags = reg.flags

\* The handler has returned and ip is at ip.
Returned(ip) ==
  /\ status = "run"
  /\ After(reg', ip) /\ MemOK(mem')
  /\ port' \in [DOMAIN port' -> Word] /\ DOMAIN port' \subseteq Word
  /\ rep' = rep /\ status' = IF rep = << >> THEN "run" ELSE "again"

Stopped == status' \in Ends /\ UNCHANGED <<reg, mem, port, rep>>

Effect(ip) == Returned(ip) \/ Stopped

LEMMA AtAfter ==
  ASSUME Typed, NEW ip \in Word
  PROVE  After(At(ip), ip)
BY DEF Typed, After, At, RegName

LEMMA SetAfter ==
  ASSUME NEW r, NEW ip, After(r, ip), NEW n \in GenReg, NEW v \in Word
  PROVE  After([r EXCEPT ![n] = v], ip)
BY DEF After, GenReg, RegName

LEMMA SetByteAfter ==
  ASSUME NEW r, NEW ip, After(r, ip), NEW o, o.type # "addr", IsOp8(o), NEW v \in Byte
  PROVE  After(SetRegByte(r, o, v), ip)
<1>1. o.name \in GenReg /\ o.name \in RegName /\ o.high \in BOOLEAN
  BY DEF IsOp8, GenReg
<1>2. r[o.name] \in Word
  BY <1>1 DEF After
<1>3. Lo8(r[o.name]) \in Byte /\ Hi8(r[o.name]) \in Byte
  BY <1>2, Halves
<1> DEFINE w == IF o.high THEN v * 256 + Lo8(r[o.name]) ELSE Hi8(r[o.name]) * 256 + v
<1>4. w \in Word
  BY <1>3, Joined
<1>5. SetRegByte(r, o, v) = [r EXCEPT ![o.name] = w]
  BY DEF SetRegByte
<1> HIDE DEF w
<1>6. After([r EXCEPT ![o.name] = w], ip)
  BY <1>1, <1>4, SetAfter
<1> QED
  BY <1>5, <1>6

LEMMA ByteOperandIsByte ==
  ASSUME Typed, NEW o, IsOp8(o)
  PROVE  Value8(o) \in Byte /\ Value8(o) \in Int
<1>1. CASE o.type = "addr"
  BY <1>1, ReadByteIsByte, ByteBounds DEF Value8, Typed, MemOK
<1>2. CASE o.type # "addr"
  <2>1. reg[o.name] \in Word
    BY <1>2, RegIsWord DEF IsOp8, GenReg
  <2> QED
    BY <1>2, <2>1, Halves, ByteBounds DEF Value8, RegByte
<1> QED
  BY <1>1, <1>2

LEMMA WordOperandIsWord ==
  ASSUME Typed, NEW o, IsOp16(o)
  PROVE  Value16(o) \in Word /\ Value16(o) \in Int
<1>1. CASE o.type = "addr"
  BY <1>1, ReadWordIsWord, WordBounds DEF Value16, Typed, MemOK
<1>2. CASE o.type # "addr"
  BY <1>2, RegIsWord DEF Value16, IsOp16, GenReg
<1> QED
  BY <1>1, <1>2

LEMMA DoneReturns ==
  ASSUME Typed, Running, NEW r, NEW ip, After(r, ip), NEW m, MemOK(m), Done(r, m)
  PROVE  Effect(ip)
BY DEF Done, Effect, Returned, After, Running, Typed

LEMMA DoneRegReturns ==
  ASSUME Typed, Running, NEW r, NEW ip, After(r, ip), DoneReg(r)
  PROVE  Effect(ip)
BY DoneReturns DEF DoneReg, Typed

LEMMA Put8Returns ==
  ASSUME Typed, Running, NEW r, NEW ip, After(r, ip), NEW o, IsOp8(o), NEW v \in Byte,
         Put8(r, o, v)
  PROVE  Effect(ip)
<1>1. CASE o.type = "addr"
  <2>1. MemOK(vm_write_byte(mem, o.addr, v))
    BY <1>1, WriteByteKeeps DEF IsOp8, Typed
  <2> QED
    BY <1>1, <2>1, DoneReturns DEF Put8
<1>2. CASE o.type # "addr"
  <2>1. After(SetRegByte(r, o, v), ip)
    BY <1>2, SetByteAfter
  <2> QED
    BY <1>2, <2>1, DoneReturns DEF Put8, Typed
<1> QED
  BY <1>1, <1>2

LEMMA Put16Returns ==
  ASSUME Typed, Running, NEW r, NEW ip, After(r, ip), NEW o, IsOp16(o), NEW v \in Word,
         Put16(r, o, v)
  PROVE  Effect(ip)
<1>1. CASE o.type = "addr"
  <2>1. MemOK(vm_write_word(mem, o.addr, v))
    BY <1>1, WriteWordKeeps DEF IsOp16, Typed
  <2> QED
    BY <1>1, <2>1, DoneReturns DEF Put16
<1>2. CASE o.type # "addr"
  <2>1. After([r EXCEPT ![o.name] = v], ip)
    BY <1>2, SetAfter DEF IsOp16
  <2> QED
    BY <1>2, <2>1, DoneReturns DEF Put16, Typed
<1> QED
  BY <1>1, <1>2

LEMMA StopStops ==
  ASSUME NEW how \in Ends, Stop(how), NEW ip
  PROVE  Effect(ip)
BY DEF Stop, Effect, Stopped

-----------------------------------------------------------------------------
(* The end of the instruction, by parse format *)

NextInstruction == Wrap(reg.ip + Length(opcode))

\* The opcodes whose operands are a mod r/m byte and its displacement only;
\* test (0xf6, 0xf7) adds an immediate value to them.
RmOnly == (WithModRm \ (ByteOperand \cup WordOperand))
UnaryTable == {246, 247}

LEMMA LengthOfRm ==
  ASSUME Typed, opcode \in RmOnly, opcode \notin UnaryTable \/ RegField # 0
  PROVE  ip2 = NextInstruction
<1>1. Mod \in 0 .. 3
  BY Fields
<1>2. DispLen = (IF Mod = 1 THEN 1 ELSE 0) + (IF (Mod = 2 \/ (Mod = 0 /\ RmField = 6)) THEN 2 ELSE 0)
  BY <1>1 DEF DispLen
<1>3. Length(opcode) = 2 + DispLen
  BY <1>2, SMT DEF Length, RmOnly, UnaryTable
<1>4. reg.ip + Length(opcode) = reg.ip + 2 + DispLen
  BY <1>3, NextIp, Displacement
<1> QED
  BY <1>4, NextIp DEF NextInstruction

LEMMA LengthOfRmImm ==
  ASSUME Typed, NEW k \in {1, 2}, opcode \in WithModRm, opcode \notin UnaryTable,
         (opcode \in ByteOperand /\ opcode \notin WordOperand /\ k = 1)
           \/ (opcode \in WordOperand /\ opcode \notin ByteOperand /\ k = 2)
  PROVE  Wrap(ip2 + k) = NextInstruction /\ Wrap(ip2 + k) \in Word
<1>1. Mod \in 0 .. 3
  BY Fields
<1>2. DispLen = (IF Mod = 1 THEN 1 ELSE 0) + (IF (Mod = 2 \/ (Mod = 0 /\ RmField = 6)) THEN 2 ELSE 0)
  BY <1>1 DEF DispLen
<1>3. Length(opcode) = 2 + DispLen + k
  BY <1>2, SMT DEF Length, UnaryTable
<1>4. ip2 = Wrap(reg.ip + 2 + DispLen) /\ reg.ip \in Nat /\ DispLen \in Nat /\ ip2 \in Nat
  BY NextIp, Displacement, WordBounds
<1>5. Wrap(ip2 + k) = Wrap((reg.ip + 2 + DispLen) + k)
  <2>1. reg.ip + 2 + DispLen \in Nat /\ k \in Nat
    BY <1>4
  <2> QED
    BY <1>4, <2>1, WrapAgain
<1>6. (reg.ip + 2 + DispLen) + k = reg.ip + Length(opcode) /\ ip2 + k \in Int
  BY <1>3, <1>4
<1> QED
  BY <1>5, <1>6, WrapIsWord DEF NextInstruction

LEMMA LengthOfImm ==
  ASSUME Typed, NEW k \in {1, 2}, opcode \notin WithModRm,
         (opcode \in ByteOperand /\ opcode \notin WordOperand /\ k = 1)
           \/ (opcode \in WordOperand /\ opcode \notin ByteOperand /\ k = 2)
  PROVE  Wrap(ip1 + k) = NextInstruction /\ Wrap(ip1 + k) \in Word
<1>1. Length(opcode) = 1 + k
  BY SMT DEF Length, WithModRm
<1>2. ip1 = Wrap(reg.ip + 1) /\ reg.ip \in Nat /\ ip1 \in Nat
  BY NextIp, WordBounds
<1>3. Wrap(ip1 + k) = Wrap((reg.ip + 1) + k)
  <2>1. reg.ip + 1 \in Nat /\ k \in Nat
    BY <1>2
  <2> QED
    BY <1>2, <2>1, WrapAgain
<1>4. (reg.ip + 1) + k = reg.ip + Length(opcode) /\ ip1 + k \in Int
  BY <1>1, <1>2
<1> QED
  BY <1>3, <1>4, WrapIsWord DEF NextInstruction

LEMMA LengthOfOne ==
  ASSUME Typed, opcode \notin WithModRm, opcode \notin ByteOperand, opcode \notin WordOperand
  PROVE  ip1 = NextInstruction
<1>1. Length(opcode) = 1
  BY SMT DEF Length, WithModRm
<1> QED
  BY <1>1, NextIp DEF NextInstruction

\* The opcodes that do not leave ip after themselves: jumps, and those given a
\* format of another length.
Exempt == Jumps \cup DirectAddress \cup {131}
Plain(ip) ==
  /\ ip \in Word
  /\ opcode \notin Exempt => ip = NextInstruction
  /\ opcode \in ShortJumps => ip \in {parse_format_ipinc_8.offset, Wrap(reg.ip + 2)}
StepsOn == Stopped \/ \E ip : Plain(ip) /\ Returned(ip)

LEMMA RmOpcodes ==
  ASSUME NEW op \in Nat,
         \/ op < 64 /\ op % 8 < 4
         \/ op \in {132, 133, 134, 135, 136, 137, 138, 139, 140, 141, 142, 143}
         \/ op \in {196, 197, 208, 209, 210, 211, 246, 247, 254, 255} \cup 216 .. 223
  PROVE  op \in RmOnly
BY SMT DEF RmOnly, WithModRm, TwoRegisters, ByteOperand, WordOperand, DirectAddress

LEMMA RmIp ==
  ASSUME Typed, opcode \in RmOnly, opcode \notin UnaryTable \/ RegField # 0
  PROVE  Plain(ip2)
<1>1. opcode \notin ShortJumps
  BY SMT DEF RmOnly, WithModRm, TwoRegisters, ShortJumps
<1> QED
  BY <1>1, LengthOfRm, NextIp DEF Plain

LEMMA RmOpcodeIp ==
  ASSUME Typed,
         \/ opcode < 64 /\ opcode % 8 < 4
         \/ opcode \in {132, 133, 134, 135, 136, 137, 138, 139, 140, 141, 142, 143}
         \/ opcode \in {196, 197, 208, 209, 210, 211, 254, 255} \cup 216 .. 223
  PROVE  Plain(ip2)
<1>1. opcode \in RmOnly
  BY Fields, RmOpcodes
<1>2. opcode \notin UnaryTable
  BY DEF UnaryTable
<1> QED
  BY <1>1, <1>2, RmIp

LEMMA RmImm8Ip ==
  ASSUME Typed, opcode \in {128, 130, 198}
  PROVE  Plain(parse_format_rm2imm_8.ip)
<1>1. /\ opcode \in WithModRm /\ opcode \notin UnaryTable
      /\ opcode \in ByteOperand /\ opcode \notin WordOperand
  BY SMT DEF WithModRm, UnaryTable, ByteOperand, WordOperand, DirectAddress
<1> QED
  BY <1>1, LengthOfRmImm DEF Plain, ShortJumps, parse_format_rm2imm_8

LEMMA RmImm16Ip ==
  ASSUME Typed, opcode \in {129, 131, 199}
  PROVE  Plain(parse_format_rm2imm_16.ip)
<1>1. CASE opcode = 131
  <2>1. Wrap(ip2 + 2) \in Word
    BY NextIp, WordBounds, WrapIsWord
  <2> QED
    BY <1>1, <2>1 DEF Plain, Exempt, ShortJumps, parse_format_rm2imm_16
<1>2. CASE opcode # 131
  <2>1. /\ opcode \in WithModRm /\ opcode \notin UnaryTable
        /\ opcode \notin ByteOperand /\ opcode \in WordOperand
    BY <1>2, SMT DEF WithModRm, UnaryTable, ByteOperand, WordOperand, DirectAddress
  <2> QED
    BY <2>1, LengthOfRmImm DEF Plain, ShortJumps, parse_format_rm2imm_16
<1> QED
  BY <1>1, <1>2

LEMMA Imm8Ip ==
  ASSUME Typed,
         \/ opcode < 64 /\ opcode % 8 = 4
         \/ opcode \in {168, 205, 212, 213, 228, 229, 230, 231} \cup 176 .. 183
  PROVE  Plain(parse_format_imm_8.ip)
<1>1. opcode \notin WithModRm /\ opcode \in ByteOperand /\ opcode \notin WordOperand
  BY Fields, SMT DEF WithModRm, TwoRegisters, ByteOperand, WordOperand, DirectAddress
<1> QED
  BY <1>1, LengthOfImm DEF Plain, ShortJumps, parse_format_imm_8

LEMMA Imm16Ip ==
  ASSUME Typed,
         (opcode < 64 /\ opcode % 8 = 5) \/ opcode = 169 \/ opcode \in 184 .. 191
  PROVE  Plain(parse_format_imm_16.ip)
<1>1. opcode \notin WithModRm /\ opcode \notin ByteOperand /\ opcode \in WordOperand
  BY Fields, SMT DEF WithModRm, TwoRegisters, ByteOperand, WordOperand, DirectAddress
<1> QED
  BY <1>1, LengthOfImm DEF Plain, ShortJumps, parse_format_imm_16

\* Segment registers, decimal adjustment, one-byte instructions and prefixes.
LEMMA OneIp ==
  ASSUME Typed,
         \/ opcode < 64 /\ opcode % 8 > 5
         \/ opcode \in 64 .. 111 \cup 144 .. 153 \cup 155 .. 159 \cup 164 .. 167
         \/ opcode \in 170 .. 175 \cup {192, 193, 200, 201, 214, 215} \cup 236 .. 245
         \/ opcode \in 248 .. 253
  PROVE  Plain(ip1)
<1>1. opcode \notin WithModRm /\ opcode \notin ByteOperand /\ opcode \notin WordOperand
  BY Fields, SMT DEF WithModRm, TwoRegisters, ByteOperand, WordOperand, DirectAddress
<1> QED
  BY <1>1, LengthOfOne, NextIp DEF Plain, ShortJumps

-----------------------------------------------------------------------------
(* The operands of the formats *)

LEMMA Format_reg2rm_8 ==
  ASSUME Typed
  PROVE  LET o == parse_format_reg2rm_8
         IN  /\ IsOp8(o.op1) /\ o.op1.type # "addr" /\ IsOp8(o.op2) /\ o.ip = ip2
             /\ Value8(o.op1) \in Byte /\ Value8(o.op2) \in Byte
BY Fields, Operands, RmOperands, ByteOperandIsByte DEF parse_format_reg2rm_8

LEMMA Format_reg2rm_16 ==
  ASSUME Typed
  PROVE  LET o == parse_format_reg2rm_16
         IN  /\ IsOp16(o.op1) /\ o.op1.type # "addr" /\ IsOp16(o.op2) /\ o.ip = ip2
             /\ Value16(o.op1) \in Word /\ Value16(o.op2) \in Word
BY Fields, Operands, RmOperands, WordOperandIsWord DEF parse_format_reg2rm_16

LEMMA Format_seg2rm_16 ==
  ASSUME Typed
  PROVE  LET o == parse_format_seg2rm_16
         IN  /\ IsOp16(o.op1) /\ IsOp16(o.op2) /\ o.ip = ip2
             /\ Value16(o.op1) \in Word /\ Value16(o.op2) \in Word
BY Fields, Operands, RmOperands, WordOperandIsWord DEF parse_format_seg2rm_16

LEMMA Format_lea ==
  ASSUME Typed
  PROVE  LET o == parse_format_reg2rm_lea
         IN  IsOp16(o.op1) /\ o.ip = ip2 /\ (o.op2.type = "im16" => o.op2.im \in Word)
<1>1. Reg16(RmField).type = "reg16"
  BY DEF Reg16
<1> QED
  BY <1>1, Fields, Operands, RmAddress DEF parse_format_reg2rm_lea

LEMMA Format_rm2imm_8 ==
  ASSUME Typed
  PROVE  LET o == parse_format_rm2imm_8
         IN  o.op1 \in 0 .. 7 /\ IsOp8(o.op2) /\ o.op3 \in Byte /\ Value8(o.op2) \in Byte
BY Fields, RmOperands, ByteOperandIsByte, Fetched DEF parse_format_rm2imm_8

LEMMA Format_rm2imm_16 ==
  ASSUME Typed
  PROVE  LET o == parse_format_rm2imm_16
         IN  o.op1 \in 0 .. 7 /\ IsOp16(o.op2) /\ o.op3 \in Word /\ Value16(o.op2) \in Word
BY Fields, RmOperands, WordOperandIsWord, Fetched DEF parse_format_rm2imm_16

LEMMA Format_table ==
  ASSUME Typed
  PROVE  /\ LET o == parse_format_table_rm_8
            IN  /\ o.op1 = RegField /\ o.op1 \in 0 .. 7 /\ IsOp8(o.op2) /\ o.ip = ip2
                /\ Value8(o.op2) \in Byte
         /\ LET o == parse_format_table_rm_16
            IN  /\ o.op1 = RegField /\ o.op1 \in 0 .. 7 /\ IsOp16(o.op2) /\ o.ip = ip2
                /\ Value16(o.op2) \in Word
BY Fields, RmOperands, ByteOperandIsByte, WordOperandIsWord
   DEF parse_format_table_rm_8, parse_format_table_rm_16

LEMMA Format_imm ==
  ASSUME Typed
  PROVE  parse_format_imm_8.im \in Byte /\ parse_format_imm_16.im \in Word
BY Fetched DEF parse_format_imm_8, parse_format_imm_16

-----------------------------------------------------------------------------
(* Handlers, by what they end with *)

LEMMA Stops ==
  ASSUME NEW how \in Ends, Stop(how)
  PROVE  StepsOn
BY DEF Stop, StepsOn, Stopped

LEMMA Stores8 ==
  ASSUME Typed, Running, NEW ip, Plain(ip), NEW o, IsOp8(o), NEW v \in Byte,
         Put8(At(ip), o, v)
  PROVE  StepsOn
<1>1. Effect(ip)
  BY AtAfter, Put8Returns DEF Plain
<1> QED
  BY <1>1 DEF Effect, StepsOn

LEMMA Stores16 ==
  ASSUME Typed, Running, NEW ip, Plain(ip), NEW o, IsOp16(o), NEW v \in Word,
         Put16(At(ip), o, v)
  PROVE  StepsOn
<1>1. Effect(ip)
  BY AtAfter, Put16Returns DEF Plain
<1> QED
  BY <1>1 DEF Effect, StepsOn

LEMMA Sets ==
  ASSUME Typed, Running, NEW ip, Plain(ip), NEW r, After(r, ip), DoneReg(r)
  PROVE  StepsOn
<1>1. Effect(ip)
  BY DoneRegReturns
<1> QED
  BY <1>1 DEF Effect, StepsOn

LEMMA OnlyMoves ==
  ASSUME Typed, Running, NEW ip, Plain(ip), DoneReg(At(ip))
  PROVE  StepsOn
BY AtAfter, Sets DEF Plain

\* One general register gets a word.
LEMMA SetsOne ==
  ASSUME Typed, Running, NEW ip, Plain(ip), NEW n \in GenReg, NEW v \in Word,
         DoneReg([At(ip) EXCEPT ![n] = v])
  PROVE  StepsOn
BY AtAfter, SetAfter, Sets DEF Plain

LEMMA SetsTwo ==
  ASSUME Typed, Running, NEW ip, Plain(ip), NEW n \in GenReg, NEW v \in Word,
         NEW k \in GenReg, NEW w \in Word,
         DoneReg([[At(ip) EXCEPT ![n] = v] EXCEPT ![k] = w])
  PROVE  StepsOn
<1>1. After([At(ip) EXCEPT ![n] = v], ip)
  BY AtAfter, SetAfter DEF Plain
<1>2. After([[At(ip) EXCEPT ![n] = v] EXCEPT ![k] = w], ip)
  BY <1>1, SetAfter
<1> QED
  BY <1>2, Sets

-----------------------------------------------------------------------------
(* CpuMove *)

LEMMA MoveSteps ==
  ASSUME Typed, move
  PROVE  StepsOn
<1>1. CASE mov_reg2rm_8
  <2>1. Running /\ opcode = 136
    BY <1>1 DEF mov_reg2rm_8, Opcode
  <2>2. Plain(ip2)
    BY <2>1, RmOpcodeIp
  <2> QED
    BY <1>1, <2>1, <2>2, Format_reg2rm_8, Stores8 DEF mov_reg2rm_8
<1>2. CASE mov_reg2rm_16
  <2>1. Running /\ opcode = 137
    BY <1>2 DEF mov_reg2rm_16, Opcode
  <2>2. Plain(ip2)
    BY <2>1, RmOpcodeIp
  <2> QED
    BY <1>2, <2>1, <2>2, Format_reg2rm_16, Stores16 DEF mov_reg2rm_16
<1>3. CASE mov_rm2reg_8
  <2>1. Running /\ opcode = 138
    BY <1>3 DEF mov_rm2reg_8, Opcode
  <2>2. Plain(ip2)
    BY <2>1, RmOpcodeIp
  <2> QED
    BY <1>3, <2>1, <2>2, Format_reg2rm_8, Stores8, Stops DEF mov_rm2reg_8, Ends
<1>4. CASE mov_rm2reg_16
  <2>1. Running /\ opcode = 139
    BY <1>4 DEF mov_rm2reg_16, Opcode
  <2>2. Plain(ip2)
    BY <2>1, RmOpcodeIp
  <2> QED
    BY <1>4, <2>1, <2>2, Format_reg2rm_16, Stores16 DEF mov_rm2reg_16
<1>5. CASE mov_seg2rm_16
  <2>1. Running /\ opcode = 140
    BY <1>5 DEF mov_seg2rm_16, Opcode
  <2>2. Plain(ip2)
    BY <2>1, RmOpcodeIp
  <2> QED
    BY <1>5, <2>1, <2>2, Format_seg2rm_16, Stores16, Stops DEF mov_seg2rm_16, Ends
<1>6. CASE mov_rm2seg_16
  <2>1. Running /\ opcode = 142
    BY <1>6 DEF mov_rm2seg_16, Opcode
  <2>2. Plain(ip2)
    BY <2>1, RmOpcodeIp
  <2> QED
    BY <1>6, <2>1, <2>2, Format_seg2rm_16, Stores16, Stops DEF mov_rm2seg_16, Ends
<1>7. CASE mov_rm2ax
  <2>1. Running /\ opcode \in {160, 161}
    BY <1>7 DEF mov_rm2ax, Opcode
  <2>2. Plain(ip2)
    BY <2>1, NextIp DEF Plain, Exempt, DirectAddress, ShortJumps
  <2>3. IsOp8(Reg8(0)) /\ IsOp16(Reg16(0))
    BY Operands
  <2>4. LET o == parse_format_reg2rm_16
        IN  o.op2.type = "addr" => IsOp8(o.op2) /\ Value8(o.op2) \in Byte
    BY Format_reg2rm_16, ByteOperandIsByte DEF IsOp8, IsOp16
  <2> QED
    BY <1>7, <2>1, <2>2, <2>3, <2>4, Format_reg2rm_16, Stores8, Stores16, Stops
       DEF mov_rm2ax, Ends
<1>8. CASE mov_ax2rm
  BY <1>8, Stops DEF mov_ax2rm, Ends
<1>9. CASE mov_im82reg
  <2>1. Running /\ opcode \in 176 .. 183
    BY <1>9 DEF mov_im82reg, Opcode
  <2>2. Plain(parse_format_imm_8.ip)
    BY <2>1, Imm8Ip
  <2> DEFINE i == IF opcode = 183 THEN 6 ELSE opcode - 176
  <2>3. i \in 0 .. 7
    BY <2>1
  <2>4. Put8(At(parse_format_imm_8.ip), Reg8(i), parse_format_imm_8.im)
    BY <1>9 DEF mov_im82reg
  <2> HIDE DEF i
  <2>5. IsOp8(Reg8(i))
    BY <2>3, Operands
  <2> QED
    BY <2>1, <2>2, <2>4, <2>5, Format_imm, Stores8
<1>10. CASE mov_im162reg
  <2>1. Running /\ opcode \in 184 .. 191
    BY <1>10 DEF mov_im162reg, Opcode
  <2>2. Plain(parse_format_imm_16.ip)
    BY <2>1, Imm16Ip
  <2>3. IsOp16(Reg16(opcode - 184))
    BY <2>1, Operands
  <2> QED
    BY <1>10, <2>1, <2>2, <2>3, Format_imm, Stores16 DEF mov_im162reg
<1>11. CASE mov_im2rm_8
  <2>1. Running /\ opcode = 198
    BY <1>11 DEF mov_im2rm_8, Opcode
  <2>2. Plain(parse_format_rm2imm_8.ip)
    BY <2>1, RmImm8Ip
  <2> QED
    BY <1>11, <2>1, <2>2, Format_rm2imm_8, Stores8, Stops DEF mov_im2rm_8, Ends
<1>12. CASE mov_im2rm_16
  <2>1. Running /\ opcode = 199
    BY <1>12 DEF mov_im2rm_16, Opcode
  <2>2. Plain(parse_format_rm2imm_16.ip)
    BY <2>1, RmImm16Ip
  <2> QED
    BY <1>12, <2>1, <2>2, Format_rm2imm_16, Stores16, Stops DEF mov_im2rm_16, Ends
<1>13. CASE xchg_reg2rm_8
  <2> DEFINE o == parse_format_reg2rm_8
             r == SetRegByte(At(ip2), o.op1, Value8(o.op2))
  <2>1. Running /\ opcode = 134
    BY <1>13 DEF xchg_reg2rm_8, Opcode
  <2>2. Plain(ip2)
    BY <2>1, RmOpcodeIp
  <2>3. Put8(r, o.op2, Value8(o.op1))
    BY <1>13, Format_reg2rm_8 DEF xchg_reg2rm_8
  <2>4. /\ IsOp8(o.op1) /\ o.op1.type # "addr" /\ IsOp8(o.op2)
        /\ Value8(o.op1) \in Byte /\ Value8(o.op2) \in Byte
    BY Format_reg2rm_8
  <2> HIDE DEF o
  <2>5. After(r, ip2)
    BY <2>2, <2>4, AtAfter, SetByteAfter DEF Plain
  <2> HIDE DEF r
  <2>6. Effect(ip2)
    BY <2>1, <2>3, <2>4, <2>5, Put8Returns
  <2> QED
    BY <2>2, <2>6 DEF Effect, StepsOn
<1>14. CASE xchg_reg2rm_16
  <2> DEFINE o == parse_format_reg2rm_16
             r == [At(ip2) EXCEPT ![o.op1.name] = Value16(o.op2)]
  <2>1. Running /\ opcode = 135
    BY <1>14 DEF xchg_reg2rm_16, Opcode
  <2>2. Plain(ip2)
    BY <2>1, RmOpcodeIp
  <2>3. Put16(r, o.op2, Value16(o.op1))
    BY <1>14, Format_reg2rm_16 DEF xchg_reg2rm_16
  <2>4. /\ o.op1.name \in GenReg /\ IsOp16(o.op2)
        /\ Value16(o.op1) \in Word /\ Value16(o.op2) \in Word
    BY Format_reg2rm_16 DEF IsOp16
  <2> HIDE DEF o
  <2>5. After(r, ip2)
    BY <2>2, <2>4, AtAfter, SetAfter DEF Plain
  <2> HIDE DEF r
  <2>6. Effect(ip2)
    BY <2>1, <2>3, <2>4, <2>5, Put16Returns
  <2> QED
    BY <2>2, <2>6 DEF Effect, StepsOn
<1>15. CASE xchg_regax
  <2>1. Running /\ opcode \in 145 .. 151
    BY <1>15 DEF xchg_regax, Opcode
  <2>2. Plain(ip1)
    BY <2>1, OneIp
  <2>3. registers16[opcode - 144 + 1] \in GenReg
    <3>1. opcode - 144 \in 0 .. 7
      BY <2>1
    <3> QED
      BY <3>1, Operands DEF IsOp16, Reg16
  <2> DEFINE other == registers16[opcode - 144 + 1]
  <2>4. DoneReg([[At(ip1) EXCEPT !["ax"] = reg[other]] EXCEPT ![other] = reg["ax"]])
    BY <1>15 DEF xchg_regax
  <2>5. reg[other] \in Word /\ reg["ax"] \in Word /\ "ax" \in GenReg
    BY <2>3, RegIsWord DEF GenReg, RegName
  <2> HIDE DEF other
  <2> QED
    BY <2>1, <2>2, <2>3, <2>4, <2>5, SetsTwo DEF other
<1>16. CASE lea_rm2reg
  <2>1. Running /\ opcode = 141
    BY <1>16 DEF lea_rm2reg, Opcode
  <2>2. Plain(ip2)
    BY <2>1, RmOpcodeIp
  <2> QED
    BY <1>16, <2>1, <2>2, Format_lea, Stores16, Stops DEF lea_rm2reg, Ends
<1>17. CASE les_rm2reg_16
  <2> DEFINE o == parse_format_reg2rm_16
             im == vm_read_dword(mem, o.op2.addr)
             seg == IF opcode = 196 THEN "es" ELSE "ds"
  <2>1. Running /\ opcode \in {196, 197}
    BY <1>17 DEF les_rm2reg_16, Opcode
  <2>2. Plain(ip2)
    BY <2>1, RmOpcodeIp
  <2>3. /\ o.op1.name \in GenReg /\ o.ip = ip2
    BY Format_reg2rm_16 DEF IsOp16
  <2>4. im.low \in Word /\ im.high \in Word /\ seg \in GenReg
    BY DWordIsWords DEF Typed, MemOK, GenReg, RegName
  <2>5. \/ DoneReg([[At(o.ip) EXCEPT ![o.op1.name] = im.low] EXCEPT ![seg] = im.high])
        \/ Stop("exit")
    BY <1>17 DEF les_rm2reg_16
  <2> HIDE DEF o, im, seg
  <2> QED
    BY <2>1, <2>2, <2>3, <2>4, <2>5, SetsTwo, Stops DEF Ends
<1>18. CASE xlat
  <2>1. Running /\ opcode = 215
    BY <1>18 DEF xlat, Opcode
  <2>2. Plain(ip1)
    BY <2>1, OneIp
  <2>3. IsOp8(Reg8(0)) /\ \A a : vm_read_byte(mem, a) \in Byte
    BY Operands, ReadByteIsByte DEF Typed, MemOK
  <2> QED
    BY <1>18, <2>1, <2>2, <2>3, Stores8 DEF xlat
<1>19. CASE cbw
  <2>1. Running /\ opcode = 152
    BY <1>19 DEF cbw, Opcode
  <2>2. Plain(ip1)
    BY <2>1, OneIp
  <2>3. IsOp8(Reg8(4)) /\ Reg8(4).type # "addr" /\ 0 \in Byte
    BY Operands DEF Byte
  <2>4. After(SetRegByte(At(ip1), Reg8(4), 0), ip1)
    BY <2>2, <2>3, AtAfter, SetByteAfter DEF Plain
  <2> QED
    BY <1>19, <2>1, <2>2, <2>4, Sets DEF cbw
<1>20. CASE cwd
  <2>1. Running /\ opcode = 153
    BY <1>20 DEF cwd, Opcode
  <2>2. Plain(ip1)
    BY <2>1, OneIp
  <2>3. "dx" \in GenReg /\ 0 \in Word
    BY IsWord DEF GenReg, RegName
  <2> QED
    BY <1>20, <2>1, <2>2, <2>3, SetsOne DEF cwd
<1>21. CASE inc_reg
  <2> DEFINE n == registers16[opcode - 63]
  <2>1. Running /\ opcode \in 64 .. 71
    BY <1>21 DEF inc_reg, Opcode
  <2>2. Plain(ip1)
    BY <2>1, OneIp
  <2>3. n \in GenReg
    <3>1. opcode - 64 \in 0 .. 7 /\ (opcode - 64) + 1 = opcode - 63
      BY <2>1
    <3> QED
      BY <3>1, Operands DEF IsOp16, Reg16
  <2>4. n # "ip" /\ n \in RegName /\ reg[n] \in Nat
    BY <2>3, RegIsWord DEF GenReg
  <2>5. DoneReg([At(ip1) EXCEPT ![n] = Wrap(At(ip1)[n] + 1)])
    BY <1>21 DEF inc_reg
  <2> HIDE DEF n
  <2>6. At(ip1)[n] = reg[n]
    BY <2>4 DEF At, Typed
  <2>7. Wrap(reg[n] + 1) \in Word
    BY <2>4, WrapIsWord
  <2> QED
    BY <2>1, <2>2, <2>3, <2>5, <2>6, <2>7, SetsOne
<1>22. CASE dec_reg
  <2> DEFINE n == registers16[opcode - 71]
  <2>1. Running /\ opcode \in 72 .. 79
    BY <1>22 DEF dec_reg, Opcode
  <2>2. Plain(ip1)
    BY <2>1, OneIp
  <2>3. n \in GenReg
    <3>1. opcode - 72 \in 0 .. 7 /\ (opcode - 72) + 1 = opcode - 71
      BY <2>1
    <3> QED
      BY <3>1, Operands DEF IsOp16, Reg16
  <2>4. n # "ip" /\ n \in RegName /\ reg[n] \in Nat
    BY <2>3, RegIsWord DEF GenReg
  <2>5. DoneReg([At(ip1) EXCEPT ![n] = Wrap(At(ip1)[n] - 1)])
    BY <1>22 DEF dec_reg
  <2> HIDE DEF n
  <2>6. At(ip1)[n] = reg[n]
    BY <2>4 DEF At, Typed
  <2>7. Wrap(reg[n] - 1) \in Word
    BY <2>4, WrapIsWord
  <2> QED
    BY <2>1, <2>2, <2>3, <2>5, <2>6, <2>7, SetsOne
<1>23. CASE not_an_opcode
  <2>1. Running /\ opcode \in {15, 38, 46, 54, 62} \cup 96 .. 111 \cup {192, 193, 200, 201, 214, 241}
    BY <1>23 DEF not_an_opcode, Opcode
  <2>2. Plain(ip1)
    BY <2>1, OneIp
  <2> QED
    BY <1>23, <2>1, <2>2, OnlyMoves DEF not_an_opcode
<1>24. CASE nop
  <2>1. Running /\ opcode \in {144, 155, 240, 245} \cup 248 .. 253
    BY <1>24 DEF nop, Opcode
  <2>2. Plain(ip1)
    BY <2>1, OneIp
  <2> QED
    BY <1>24, <2>1, <2>2, OnlyMoves DEF nop
<1>25. CASE test_reg2rm
  <2>1. Running /\ opcode \in {132, 133} \cup 216 .. 223
    BY <1>25 DEF test_reg2rm, Opcode
  <2>2. Plain(ip2)
    BY <2>1, RmOpcodeIp
  <2> QED
    BY <1>25, <2>1, <2>2, OnlyMoves DEF test_reg2rm
<1>26. CASE test_im8
  <2>1. Running /\ opcode = 168
    BY <1>26 DEF test_im8, Opcode
  <2>2. Plain(parse_format_imm_8.ip)
    BY <2>1, Imm8Ip
  <2> QED
    BY <1>26, <2>1, <2>2, OnlyMoves DEF test_im8
<1>27. CASE test_im16
  <2>1. Running /\ opcode = 169
    BY <1>27 DEF test_im16, Opcode
  <2>2. Plain(parse_format_imm_16.ip)
    BY <2>1, Imm16Ip
  <2> QED
    BY <1>27, <2>1, <2>2, OnlyMoves DEF test_im16
<1> QED
  BY <1>1, <1>2, <1>3, <1>4, <1>5, <1>6, <1>7, <1>8, <1>9, <1>10, <1>11,
     <1>12, <1>13, <1>14, <1>15, <1>16, <1>17, <1>18, <1>19, <1>20, <1>21,
     <1>22, <1>23, <1>24, <1>25, <1>26, <1>27 DEF move

-----------------------------------------------------------------------------
(* CpuControl *)

LEMMA Returns ==
  ASSUME NEW ip, Plain(ip), Effect(ip)
  PROVE  StepsOn
BY DEF Effect, StepsOn

LEMMA JumpIp ==
  ASSUME opcode \in Jumps, opcode \notin ShortJumps, NEW ip \in Word
  PROVE  Plain(ip)
BY DEF Plain, Exempt

LEMMA ShortIp ==
  ASSUME Typed, opcode \in {224, 225, 226, 227, 235}
  PROVE  Plain(parse_format_ipinc_8.offset) /\ Plain(parse_format_ipinc_8.ip)
<1>1. opcode \in Exempt
  BY SMT DEF Exempt, Jumps
<1>2. ip1 \in Nat /\ Byte1(ip1) \in Nat /\ reg.ip \in Nat /\ ip1 = Wrap(reg.ip + 1)
  BY NextIp, Fetched, WordBounds, ByteBounds
<1>3. Lo8(ip1 + 1) \in Int
  BY <1>2 DEF Lo8
<1>4. parse_format_ipinc_8.offset \in Word
  BY <1>2, <1>3, CutIsByte, ByteBounds DEF parse_format_ipinc_8
<1>5. parse_format_ipinc_8.ip = Wrap(Wrap(reg.ip + 1) + 1)
  BY <1>2 DEF parse_format_ipinc_8
<1>6. reg.ip + 1 \in Nat /\ (reg.ip + 1) + 1 = reg.ip + 2 /\ reg.ip + 2 \in Int
  BY <1>2
<1>7. parse_format_ipinc_8.ip = Wrap(reg.ip + 2) /\ parse_format_ipinc_8.ip \in Word
  BY <1>5, <1>6, WrapAgain, WrapIsWord
<1> QED
  BY <1>1, <1>4, <1>7 DEF Plain

LEMMA Format_jumps ==
  ASSUME Typed
  PROVE  /\ parse_format_ipinc_8.offset \in Nat /\ parse_format_ipinc_8.ip \in Nat
         /\ parse_format_ipinc_16.offset \in Word /\ parse_format_ipinc_16.ip \in Word
         /\ parse_format_call_16.offset \in Word /\ parse_format_call_16.segment \in Word
         /\ parse_format_call_16.ip \in Word
<1>1. ip1 \in Nat /\ Byte1(ip1) \in Nat /\ Word1(ip1) \in Nat /\ Word1(ip1) \in Word
  BY NextIp, Fetched, WordBounds, ByteBounds
<1>2. Lo8(ip1 + 1) \in Int
  BY <1>1 DEF Lo8
<1>3. (Lo8(ip1 + 1) + Byte1(ip1)) % 256 \in Nat
  BY <1>1, <1>2, CutIsByte, ByteBounds
<1>4. Wrap(ip1 + 1) \in Nat /\ Wrap(ip1 + 2) \in Word /\ Wrap(ip1 + 4) \in Word
  BY <1>1, WrapIsWord, WordBounds
<1>5. Wrap(ip1 + 2 + Word1(ip1)) \in Word /\ Word1(Wrap(ip1 + 2)) \in Word
  BY <1>1, WrapIsWord, Fetched
<1> QED
  BY <1>1, <1>3, <1>4, <1>5
     DEF parse_format_ipinc_8, parse_format_ipinc_16, parse_format_call_16

LEMMA SpAfter ==
  ASSUME NEW r, NEW ip, After(r, ip)
  PROVE  /\ After(Down(r), ip)
         /\ After([r EXCEPT !.sp = Wrap(@ + 2)], ip)
         /\ After([r EXCEPT !.sp = Wrap(@ + 4)], ip)
         /\ StackTop(r) \in Nat
<1>1. r["sp"] \in Word /\ r["ss"] \in Word /\ "sp" \in GenReg
  BY DEF After, RegName, GenReg
<1>2. r["sp"] \in Nat /\ r["ss"] \in Nat
  BY <1>1, WordBounds
<1>3. Wrap(r["sp"] - 2) \in Word /\ Wrap(r["sp"] + 2) \in Word /\ Wrap(r["sp"] + 4) \in Word
  BY <1>2, WrapIsWord
<1>4. /\ Down(r) = [r EXCEPT !["sp"] = Wrap(r["sp"] - 2)]
      /\ [r EXCEPT !.sp = Wrap(@ + 2)] = [r EXCEPT !["sp"] = Wrap(r["sp"] + 2)]
      /\ [r EXCEPT !.sp = Wrap(@ + 4)] = [r EXCEPT !["sp"] = Wrap(r["sp"] + 4)]
  BY DEF Down
<1>5. StackTop(r) \in Nat
  BY <1>2 DEF StackTop, vm_addr_calc
<1>6. \A v \in Word : After([r EXCEPT !["sp"] = v], ip)
  BY <1>1, SetAfter
<1> QED
  BY <1>3, <1>4, <1>5, <1>6

LEMMA PushKeeps ==
  ASSUME NEW s, NEW ip, After(s.r, ip), MemOK(s.m), NEW v \in Word
  PROVE  After(Push(s, v).r, ip) /\ MemOK(Push(s, v).m)
<1>1. After(Down(s.r), ip) /\ StackTop(s.r) \in Nat
  BY SpAfter
<1>2. MemOK(vm_write_word(s.m, StackTop(s.r), v))
  BY <1>1, WriteWordKeeps
<1> QED
  BY <1>1, <1>2 DEF Push

LEMMA Pushes ==
  ASSUME Typed, Running, NEW ip, Plain(ip), NEW v \in Word,
         LET s == Push([r |-> At(ip), m |-> mem], v) IN Done(s.r, s.m)
  PROVE  StepsOn
<1> DEFINE s0 == [r |-> At(ip), m |-> mem]
           s  == Push(s0, v)
<1>1. After(s0.r, ip) /\ MemOK(s0.m)
  BY AtAfter DEF Plain, Typed
<1>2. Done(s.r, s.m)
  OBVIOUS
<1> HIDE DEF s0
<1>3. After(s.r, ip) /\ MemOK(s.m)
  BY <1>1, PushKeeps
<1> HIDE DEF s
<1> QED
  BY <1>2, <1>3, DoneReturns, Returns

LEMMA PushesOrAborts ==
  ASSUME Typed, Running, NEW ip, Plain(ip), NEW v \in Word, push_stack_16(ip, v)
  PROVE  StepsOn
<1>1. CASE v = 0
  BY <1>1, Stops DEF push_stack_16, Ends
<1>2. CASE v # 0
  BY <1>2, Pushes DEF push_stack_16
<1> QED
  BY <1>1, <1>2

LEMMA StackWord ==
  ASSUME Typed, NEW a
  PROVE  vm_read_word(mem, a) \in Word
BY ReadWordIsWord DEF Typed, MemOK

LEMMA Pops ==
  ASSUME Typed, Running, Plain(ip1), NEW n \in GenReg, pop_stack_16(n)
  PROVE  StepsOn
<1> DEFINE w == vm_read_word(mem, StackTop(reg))
           r == [At(ip1) EXCEPT ![n] = w]
<1>1. DoneReg([r EXCEPT !.sp = Wrap(@ + 2)])
  BY DEF pop_stack_16
<1>2. w \in Word
  BY StackWord
<1> HIDE DEF w
<1>3. After(r, ip1)
  BY <1>2, AtAfter, SetAfter DEF Plain
<1> HIDE DEF r
<1> QED
  BY <1>1, <1>3, SpAfter, Sets

LEMMA RegAfter ==
  ASSUME Typed
  PROVE  After(reg, reg.ip)
BY DEF Typed, After, RegName

LEMMA IpAfter ==
  ASSUME NEW r, NEW ip, After(r, ip), NEW t \in Word
  PROVE  After([r EXCEPT !.ip = t], t)
BY DEF After, RegName

LEMMA Calls ==
  ASSUME Typed, Running, NEW ip \in Word, NEW r, NEW t, Plain(t), After(r, t), Call(ip, r)
  PROVE  StepsOn
<1> DEFINE top == StackTop(reg)
           below == IF top < 2 THEN MemSize ELSE top - 2
           m1 == vm_write_word(mem, top, ip)
           m2 == vm_write_word(m1, below, reg["cs"])
<1>1. Done(Down(r), m2)
  BY DEF Call
<1>2. top \in Nat
  BY RegAfter, SpAfter
<1>3. below \in Nat
  <2> HIDE DEF top
  <2> QED
    BY <1>2, SizeIsNat
<1>4. reg["cs"] \in Word
  BY RegIsWord DEF RegName
<1>5. MemOK(m1)
  <2> HIDE DEF top
  <2> QED
    BY <1>2, WriteWordKeeps DEF Typed
<1> HIDE DEF below, m1
<1>6. MemOK(m2)
  BY <1>3, <1>4, <1>5, WriteWordKeeps
<1> HIDE DEF m2
<1> QED
  BY <1>1, <1>6, SpAfter, DoneReturns, Returns

LEMMA Interrupts ==
  ASSUME Typed, Running, opcode \in Jumps, opcode \notin ShortJumps,
         NEW ip \in Word, NEW n \in Byte, Interrupt(ip, n)
  PROVE  StepsOn
<1>1. CASE 0 \in {reg.flags, reg.cs, ip}
  BY <1>1, Stops DEF Interrupt, Ends
<1>2. CASE 0 \notin {reg.flags, reg.cs, ip}
  <2> DEFINE s0 == [r |-> reg, m |-> mem]
             s1 == Push(s0, reg["flags"])
             s2 == Push(s1, reg["cs"])
             s3 == Push(s2, ip)
             r1 == [s3.r EXCEPT !["cs"] = 4 * n + 2]
             r2 == [r1 EXCEPT !.ip = 4 * n]
  <2>1. Done(r2, s3.m)
    BY <1>2 DEF Interrupt
  <2>2. reg["flags"] \in Word /\ reg["cs"] \in Word /\ "cs" \in GenReg
    BY RegIsWord DEF RegName, GenReg
  <2>3. 4 * n + 2 \in Word /\ 4 * n \in Word
    BY ByteBounds, IsWord
  <2>4. After(s0.r, reg.ip) /\ MemOK(s0.m)
    BY RegAfter DEF Typed
  <2> HIDE DEF s0
  <2>5. After(s1.r, reg.ip) /\ MemOK(s1.m)
    BY <2>2, <2>4, PushKeeps
  <2> HIDE DEF s1
  <2>6. After(s2.r, reg.ip) /\ MemOK(s2.m)
    BY <2>2, <2>5, PushKeeps
  <2> HIDE DEF s2
  <2>7. After(s3.r, reg.ip) /\ MemOK(s3.m)
    BY <2>6, PushKeeps
  <2> HIDE DEF s3
  <2>8. After(r1, reg.ip)
    BY <2>2, <2>3, <2>7, SetAfter
  <2> HIDE DEF r1
  <2>9. After(r2, 4 * n)
    BY <2>3, <2>8, IpAfter
  <2> HIDE DEF r2
  <2> QED
    BY <2>1, <2>3, <2>7, <2>9, JumpIp, DoneReturns, Returns
<1> QED
  BY <1>1, <1>2

\* All of control but the rep prefix and its loop.
without_rep ==
  \/ push_reg \/ pop_reg \/ push_seg \/ push_ss \/ pop_seg \/ pop_ds \/ pop_rm16
  \/ pushf \/ popf \/ sahf \/ lahf
  \/ jcc_ip8 \/ jmp_near_8 \/ jmp_near_16 \/ jmp_far \/ loop_8 \/ jcxz_8
  \/ call_near \/ call_far \/ ret \/ ret_im16 \/ retf \/ retf_im16 \/ int \/ iret
  \/ halt

LEMMA ControlSteps ==
  ASSUME Typed, without_rep
  PROVE  StepsOn
<1>1. CASE push_reg
  <2> DEFINE n == registers16[opcode - 79]
  <2>1. Running /\ opcode \in 80 .. 87
    BY <1>1 DEF push_reg, Opcode
  <2>2. Plain(ip1)
    BY <2>1, OneIp
  <2>3. n \in GenReg
    <3>1. opcode - 80 \in 0 .. 7 /\ (opcode - 80) + 1 = opcode - 79
      BY <2>1
    <3> QED
      BY <3>1, Operands DEF IsOp16, Reg16
  <2>4. push_stack_16(ip1, reg[n])
    BY <1>1 DEF push_reg
  <2> HIDE DEF n
  <2>5. reg[n] \in Word
    BY <2>3, RegIsWord DEF GenReg
  <2> QED
    BY <2>1, <2>2, <2>3, <2>4, <2>5, PushesOrAborts
<1>2. CASE pop_reg
  <2> DEFINE n == registers16[opcode - 87]
  <2>1. Running /\ opcode \in 88 .. 95
    BY <1>2 DEF pop_reg, Opcode
  <2>2. Plain(ip1)
    BY <2>1, OneIp
  <2>3. n \in GenReg
    <3>1. opcode - 88 \in 0 .. 7 /\ (opcode - 88) + 1 = opcode - 87
      BY <2>1
    <3> QED
      BY <3>1, Operands DEF IsOp16, Reg16
  <2>4. pop_stack_16(n)
    BY <1>2 DEF pop_reg
  <2> HIDE DEF n
  <2>5. reg[n] \in Word
    BY <2>3, RegIsWord DEF GenReg
  <2> QED
    BY <2>1, <2>2, <2>3, <2>4, <2>5, Pops
<1>3. CASE push_seg
  <2>1. Running /\ opcode \in {6, 14, 30}
    BY <1>3 DEF push_seg, Opcode
  <2>2. Plain(ip1)
    BY <2>1, OneIp
  <2>3. reg.es \in Word /\ reg.cs \in Word /\ reg.ds \in Word
    BY RegIsWord DEF RegName
  <2> QED
    BY <1>3, <2>1, <2>2, <2>3, PushesOrAborts DEF push_seg
<1>4. CASE push_ss
  <2>1. Running /\ opcode = 22
    BY <1>4 DEF push_ss, Opcode
  <2>2. Plain(ip1)
    BY <2>1, OneIp
  <2>3. reg.ss \in Word
    BY RegIsWord DEF RegName
  <2> QED
    BY <1>4, <2>1, <2>2, <2>3, Pushes DEF push_ss
<1>5. CASE pushf
  <2>1. Running /\ opcode = 156
    BY <1>5 DEF pushf, Opcode
  <2>2. Plain(ip1)
    BY <2>1, OneIp
  <2>3. reg.flags \in Word
    BY RegIsWord DEF RegName
  <2> QED
    BY <1>5, <2>1, <2>2, <2>3, Pushes DEF pushf
<1>6. CASE pop_seg
  <2>1. Running /\ opcode \in {7, 23}
    BY <1>6 DEF pop_seg, Opcode
  <2>2. Plain(ip1)
    BY <2>1, OneIp
  <2>3. "es" \in GenReg /\ "ss" \in GenReg
    BY DEF RegName, GenReg
  <2> QED
    BY <1>6, <2>1, <2>2, <2>3, Pops DEF pop_seg
<1>7. CASE pop_ds
  BY <1>7, Stops DEF pop_ds, Ends
<1>8. CASE pop_rm16
  <2> DEFINE o == parse_format_seg2rm_16
             r == [At(ip2) EXCEPT !.sp = Wrap(@ + 2)]
  <2>1. Running /\ opcode = 143
    BY <1>8 DEF pop_rm16, Opcode
  <2>2. Plain(ip2)
    BY <2>1, RmOpcodeIp
  <2>3. After(r, ip2)
    BY <2>2, AtAfter, SpAfter DEF Plain
  <2>4. IsOp16(o.op2) /\ o.ip = ip2
    BY Format_seg2rm_16
  <2>5. Stop("undefined") \/ Put16(r, o.op2, vm_read_word(mem, StackTop(reg)))
    BY <1>8, <2>4 DEF pop_rm16
  <2> HIDE DEF o, r
  <2> QED
    BY <2>1, <2>2, <2>3, <2>4, <2>5, StackWord, Put16Returns, Returns, Stops DEF Ends
<1>9. CASE popf
  <2> DEFINE w == vm_read_word(mem, StackTop(reg))
             r == [At(ip1) EXCEPT !.sp = Wrap(@ + 2)]
  <2>1. Running /\ opcode = 157
    BY <1>9 DEF popf, Opcode
  <2>2. Plain(ip1)
    BY <2>1, OneIp
  <2>3. DoneReg([r EXCEPT !["flags"] = w])
    BY <1>9 DEF popf
  <2>4. After(r, ip1)
    BY <2>2, AtAfter, SpAfter DEF Plain
  <2>5. w \in Word
    BY StackWord
  <2> HIDE DEF w, r
  <2>6. After([r EXCEPT !["flags"] = w], ip1)
    BY <2>1, <2>4, <2>5 DEF After, SetsFlags, RegName
  <2> QED
    BY <2>1, <2>2, <2>3, <2>6, Sets
<1>10. CASE sahf
  <2> DEFINE w == Hi8(reg["flags"]) * 256 + Hi8(reg["ax"])
  <2>1. Running /\ opcode = 158
    BY <1>10 DEF sahf, Opcode
  <2>2. Plain(ip1)
    BY <2>1, OneIp
  <2>3. At(ip1)["flags"] = reg["flags"] /\ reg["flags"] \in Word /\ reg["ax"] \in Word
    BY RegIsWord DEF At, Typed, RegName
  <2>4. w \in Word
    BY <2>3, Halves, Joined
  <2>5. DoneReg([At(ip1) EXCEPT !["flags"] = w])
    BY <1>10, <2>3 DEF sahf
  <2> HIDE DEF w
  <2>6. After(At(ip1), ip1)
    BY <2>2, AtAfter DEF Plain
  <2>7. After([At(ip1) EXCEPT !["flags"] = w], ip1)
    BY <2>1, <2>4, <2>6 DEF After, SetsFlags, RegName
  <2> QED
    BY <2>1, <2>2, <2>5, <2>7, Sets
<1>11. CASE lahf
  <2>1. Running /\ opcode = 159
    BY <1>11 DEF lahf, Opcode
  <2>2. Plain(ip1)
    BY <2>1, OneIp
  <2>3. IsOp8(Reg8(4)) /\ Reg8(4).type # "addr"
    BY Operands
  <2>4. Lo8(reg.flags) \in Byte
    BY RegIsWord, Halves DEF RegName
  <2>5. After(SetRegByte(At(ip1), Reg8(4), Lo8(reg.flags)), ip1)
    BY <2>2, <2>3, <2>4, AtAfter, SetByteAfter DEF Plain
  <2> QED
    BY <1>11, <2>1, <2>2, <2>5, Sets DEF lahf
<1>12. CASE jcc_ip8
  <2> DEFINE o == parse_format_ipinc_8
             t == IF Condition[opcode - 111] THEN Wrap(o.ip + Signed8(o.offset)) ELSE o.ip
  <2>1. Running /\ opcode \in 112 .. 127
    BY <1>12 DEF jcc_ip8, Opcode
  <2>2. o.ip \in Nat /\ o.offset \in Nat
    BY Format_jumps
  <2>3. o.ip \in Word
    BY NextIp, WordBounds, WrapIsWord DEF parse_format_ipinc_8
  <2>4. DoneReg(At(t))
    BY <1>12 DEF jcc_ip8
  <2> HIDE DEF o
  <2>5. o.ip + Signed8(o.offset) \in Int
    BY <2>2 DEF Signed8
  <2>6. t \in Word
    BY <2>3, <2>5, WrapIsWord
  <2>7. opcode \in Jumps /\ opcode \notin ShortJumps
    BY <2>1, SMT DEF Jumps, ShortJumps
  <2> HIDE DEF t
  <2> QED
    BY <2>1, <2>4, <2>6, <2>7, JumpIp, OnlyMoves
<1>13. CASE jmp_near_8
  <2>1. Running /\ opcode = 235
    BY <1>13 DEF jmp_near_8, Opcode
  <2>2. Plain(parse_format_ipinc_8.offset)
    BY <2>1, ShortIp
  <2> QED
    BY <1>13, <2>1, <2>2, OnlyMoves DEF jmp_near_8
<1>14. CASE jmp_near_16
  <2>1. Running /\ opcode = 233
    BY <1>14 DEF jmp_near_16, Opcode
  <2>2. opcode \in Jumps /\ opcode \notin ShortJumps
    BY <2>1, SMT DEF Jumps, ShortJumps
  <2>3. Plain(parse_format_ipinc_16.offset)
    BY <2>2, Format_jumps, JumpIp
  <2> QED
    BY <1>14, <2>1, <2>3, OnlyMoves DEF jmp_near_16
<1>15. CASE jmp_far
  <2>1. Running /\ opcode = 234
    BY <1>15 DEF jmp_far, Opcode
  <2>2. opcode \in Jumps /\ opcode \notin ShortJumps
    BY <2>1, SMT DEF Jumps, ShortJumps
  <2>3. Plain(parse_format_call_16.offset) /\ parse_format_call_16.segment \in Word
    BY <2>2, Format_jumps, JumpIp
  <2>4. "cs" \in GenReg
    BY DEF GenReg, RegName
  <2> QED
    BY <1>15, <2>1, <2>3, <2>4, SetsOne DEF jmp_far
<1>16. CASE loop_8
  <2> DEFINE o == parse_format_ipinc_8
             cx == Wrap(reg["cx"] - 1)
  <2>1. Running /\ opcode \in {224, 225, 226}
    BY <1>16 DEF loop_8, Opcode
  <2>2. Plain(o.offset) /\ Plain(o.ip)
    BY <2>1, ShortIp
  <2>3. cx \in Word /\ "cx" \in GenReg
    BY RegIsWord, WrapIsWord DEF RegName, GenReg
  <2>4. \/ DoneReg([At(o.offset) EXCEPT !["cx"] = cx])
        \/ DoneReg([At(o.ip) EXCEPT !["cx"] = cx])
    BY <1>16 DEF loop_8
  <2> HIDE DEF o, cx
  <2> QED
    BY <2>1, <2>2, <2>3, <2>4, SetsOne
<1>17. CASE jcxz_8
  <2>1. Running /\ opcode = 227
    BY <1>17 DEF jcxz_8, Opcode
  <2>2. Plain(parse_format_ipinc_8.offset) /\ Plain(parse_format_ipinc_8.ip)
    BY <2>1, ShortIp
  <2>3. \/ DoneReg(At(parse_format_ipinc_8.offset))
        \/ DoneReg(At(parse_format_ipinc_8.ip))
    BY <1>17 DEF jcxz_8
  <2> QED
    BY <2>1, <2>2, <2>3, OnlyMoves
<1>18. CASE call_near
  <2>1. Running /\ opcode = 232
    BY <1>18 DEF call_near, Opcode
  <2>2. opcode \in Jumps /\ opcode \notin ShortJumps
    BY <2>1, SMT DEF Jumps, ShortJumps
  <2>3. Plain(parse_format_ipinc_16.offset) /\ parse_format_ipinc_16.ip \in Word
    BY <2>2, Format_jumps, JumpIp
  <2>4. After(At(parse_format_ipinc_16.offset), parse_format_ipinc_16.offset)
    BY <2>3, AtAfter DEF Plain
  <2> QED
    BY <1>18, <2>1, <2>3, <2>4, Calls DEF call_near
<1>19. CASE call_far
  <2>1. Running /\ opcode = 154
    BY <1>19 DEF call_far, Opcode
  <2>2. opcode \in Jumps /\ opcode \notin ShortJumps
    BY <2>1, SMT DEF Jumps, ShortJumps
  <2> DEFINE o == parse_format_call_16
             r == [At(o.offset) EXCEPT !["cs"] = o.segment]
  <2>3. Plain(o.offset) /\ o.ip \in Word /\ o.segment \in Word
    BY <2>2, Format_jumps, JumpIp
  <2>4. Call(o.ip, r)
    BY <1>19 DEF call_far
  <2>5. "cs" \in GenReg
    BY DEF GenReg, RegName
  <2> HIDE DEF o
  <2>6. After(r, o.offset)
    BY <2>3, <2>5, AtAfter, SetAfter DEF Plain
  <2> HIDE DEF r
  <2> QED
    BY <2>1, <2>3, <2>4, <2>6, Calls
<1>20. CASE ret
  <2>1. Running /\ opcode = 195
    BY <1>20 DEF ret, Opcode
  <2>2. opcode \in Jumps /\ opcode \notin ShortJumps
    BY <2>1, SMT DEF Jumps, ShortJumps
  <2> DEFINE w == vm_read_word(mem, StackTop(reg))
  <2>3. Plain(w)
    BY <2>2, StackWord, JumpIp
  <2>4. DoneReg([At(w) EXCEPT !.sp = Wrap(@ + 2)])
    BY <1>20 DEF ret
  <2> HIDE DEF w
  <2>5. After([At(w) EXCEPT !.sp = Wrap(@ + 2)], w)
    BY <2>3, AtAfter, SpAfter DEF Plain
  <2> QED
    BY <2>1, <2>3, <2>4, <2>5, Sets
<1>21. CASE ret_im16
  <2>1. Running /\ opcode = 194
    BY <1>21 DEF ret_im16, Opcode
  <2>2. opcode \in Jumps /\ opcode \notin ShortJumps
    BY <2>1, SMT DEF Jumps, ShortJumps
  <2>3. Plain(parse_format_imm_16.im)
    BY <2>2, Format_imm, JumpIp
  <2> QED
    BY <1>21, <2>1, <2>3, OnlyMoves DEF ret_im16
<1>22. CASE retf
  <2>1. Running /\ opcode = 203
    BY <1>22 DEF retf, Opcode
  <2>2. opcode \in Jumps /\ opcode \notin ShortJumps
    BY <2>1, SMT DEF Jumps, ShortJumps
  <2> DEFINE t == vm_read_word(mem, StackTop(reg))
             cs == vm_read_word(mem, StackTop(reg) + 2)
             r == [At(t) EXCEPT !["cs"] = cs]
  <2>3. Plain(t) /\ cs \in Word /\ "cs" \in GenReg
    BY <2>2, StackWord, Format_imm, JumpIp DEF GenReg, RegName
  <2>4. DoneReg([r EXCEPT !.sp = Wrap(@ + 4)])
    BY <1>22 DEF retf
  <2> HIDE DEF t, cs
  <2>5. After(r, t)
    BY <2>3, AtAfter, SetAfter DEF Plain
  <2> HIDE DEF r
  <2> QED
    BY <2>1, <2>3, <2>4, <2>5, SpAfter, Sets
<1>23. CASE retf_im16
  <2>1. Running /\ opcode = 202
    BY <1>23 DEF retf_im16, Opcode
  <2>2. opcode \in Jumps /\ opcode \notin ShortJumps
    BY <2>1, SMT DEF Jumps, ShortJumps
  <2> DEFINE t == parse_format_imm_16.im
             cs == vm_read_word(mem, StackTop(reg))
             r == [At(t) EXCEPT !["cs"] = cs]
  <2>3. Plain(t) /\ cs \in Word /\ "cs" \in GenReg
    BY <2>2, StackWord, Format_imm, JumpIp DEF GenReg, RegName
  <2>4. DoneReg([r EXCEPT !.sp = Wrap(@ + 2)])
    BY <1>23 DEF retf_im16
  <2> HIDE DEF t, cs
  <2>5. After(r, t)
    BY <2>3, AtAfter, SetAfter DEF Plain
  <2> HIDE DEF r
  <2> QED
    BY <2>1, <2>3, <2>4, <2>5, SpAfter, Sets
<1>24. CASE int
  <2>1. Running /\ opcode \in {204, 205, 206}
    BY <1>24 DEF int, Opcode
  <2>2. opcode \in Jumps /\ opcode \notin ShortJumps
    BY <2>1, SMT DEF Jumps, ShortJumps
  <2>3. ip1 \in Word /\ parse_format_imm_8.ip \in Word
    BY NextIp, WordBounds, WrapIsWord DEF parse_format_imm_8
  <2>4. 3 \in Byte /\ 4 \in Byte /\ parse_format_imm_8.im \in Byte
    BY Format_imm DEF Byte
  <2> QED
    BY <1>24, <2>1, <2>2, <2>3, <2>4, Interrupts DEF int
<1>25. CASE iret
  <2>1. Running /\ opcode = 207
    BY <1>25 DEF iret, Opcode
  <2>2. opcode \in Jumps /\ opcode \notin ShortJumps
    BY <2>1, SMT DEF Jumps, ShortJumps
  <2> DEFINE s0 == [r |-> At(ip1), m |-> mem]
             s1 == Push(s0, ip1)
             s2 == Push(s1, reg["cx"])
             s3 == Push(s2, reg["flags"])
  <2>3. Stop("abort") \/ Done(s3.r, s3.m)
    BY <1>25 DEF iret
  <2>4. ip1 \in Word /\ reg["cx"] \in Word /\ reg["flags"] \in Word
    BY NextIp, RegIsWord DEF RegName
  <2>5. After(s0.r, ip1) /\ MemOK(s0.m)
    BY <2>4, AtAfter DEF Typed
  <2> HIDE DEF s0
  <2>6. After(s1.r, ip1) /\ MemOK(s1.m)
    BY <2>4, <2>5, PushKeeps
  <2> HIDE DEF s1
  <2>7. After(s2.r, ip1) /\ MemOK(s2.m)
    BY <2>4, <2>6, PushKeeps
  <2> HIDE DEF s2
  <2>8. After(s3.r, ip1) /\ MemOK(s3.m)
    BY <2>4, <2>7, PushKeeps
  <2> HIDE DEF s3
  <2> QED
    BY <2>1, <2>2, <2>3, <2>4, <2>8, JumpIp, DoneReturns, Returns, Stops DEF Ends
<1>26. CASE halt
  BY <1>26, Stops DEF halt, Ends
<1> QED
  BY <1>1, <1>2, <1>3, <1>4, <1>5, <1>6, <1>7, <1>8, <1>9, <1>10, <1>11,
     <1>12, <1>13, <1>14, <1>15, <1>16, <1>17, <1>18, <1>19, <1>20, <1>21,
     <1>22, <1>23, <1>24, <1>25, <1>26 DEF without_rep

-----------------------------------------------------------------------------
(* CpuArith *)

LEMMA BitwiseIsNat ==
  ASSUME NEW m, NEW n
  PROVE  BitAnd(m, n) \in Nat /\ BitOr(m, n) \in Nat /\ BitXor(m, n) \in Nat
<1>1. BitAnd(m, n) \in Nat
  BY SMT DEF BitAnd, FromBits
<1>2. BitXor(m, n) \in Nat
  BY SMT DEF BitXor, FromBits
<1>3. BitOr(m, n) \in Nat
  BY SMT DEF BitOr, FromBits
<1> QED
  BY <1>1, <1>2, <1>3

LEMMA CarryIsBit ==
  ASSUME Typed
  PROVE  CF \in {0, 1}
<1>1. reg.flags \in Nat
  BY RegIsWord DEF RegName
<1>2. 2^0 = 1
  OBVIOUS
<1> QED
  BY <1>1, <1>2 DEF CF, Masked

LEMMA OperationIsInt ==
  ASSUME Typed, NEW i \in 0 .. 6, NEW d \in Nat, NEW s \in Nat
  PROVE  Operation(i, d, s) \in Int
<1>1. i = 0 \/ i = 1 \/ i = 2 \/ i = 3 \/ i = 4 \/ i = 5 \/ i = 6
  OBVIOUS
<1>2. BitAnd(d, s) \in Nat /\ BitOr(d, s) \in Nat /\ BitXor(d, s) \in Nat
  BY BitwiseIsNat
<1>3. CF \in Int
  BY CarryIsBit
<1> QED
  BY <1>1, <1>2, <1>3 DEF Operation

LEMMA ByteResult ==
  ASSUME Typed, NEW i \in 0 .. 6, NEW d \in Byte, NEW s \in Byte
  PROVE  Operation(i, d, s) % 256 \in Byte
BY OperationIsInt, ByteBounds, CutIsByte

LEMMA WordResult ==
  ASSUME Typed, NEW i \in 0 .. 6, NEW d \in Word, NEW s \in Word
  PROVE  Wrap(Operation(i, d, s)) \in Word
<1>1. d \in Nat /\ s \in Nat
  BY WordBounds
<1> QED
  BY <1>1, OperationIsInt, WrapIsWord

LEMMA SixFormsStep ==
  ASSUME Typed, NEW i \in 0 .. 6, SixForms(i)
  PROVE  StepsOn
<1>1. CASE reg2rm_8(i)
  <2> DEFINE o == parse_format_reg2rm_8
             v == Operation(i, Value8(o.op2), Value8(o.op1)) % 256
  <2>1. Running /\ opcode = 8 * i
    BY <1>1 DEF reg2rm_8, Opcode
  <2>2. Plain(ip2)
    BY <2>1, RmOpcodeIp
  <2>3. v \in Byte /\ IsOp8(o.op2) /\ o.ip = ip2
    BY Format_reg2rm_8, ByteResult
  <2>4. Put8(At(ip2), o.op2, v)
    BY <1>1, <2>3 DEF reg2rm_8
  <2> HIDE DEF o, v
  <2> QED
    BY <2>1, <2>2, <2>3, <2>4, Stores8
<1>2. CASE reg2rm_16(i)
  <2> DEFINE o == parse_format_reg2rm_16
             v == Wrap(Operation(i, Value16(o.op2), Value16(o.op1)))
  <2>1. Running /\ opcode = 8 * i + 1
    BY <1>2 DEF reg2rm_16, Opcode
  <2>2. Plain(ip2)
    BY <2>1, RmOpcodeIp
  <2>3. v \in Word /\ IsOp16(o.op2) /\ o.ip = ip2
    BY Format_reg2rm_16, WordResult
  <2>4. Put16(At(ip2), o.op2, v)
    BY <1>2, <2>3 DEF reg2rm_16
  <2> HIDE DEF o, v
  <2> QED
    BY <2>1, <2>2, <2>3, <2>4, Stores16
<1>3. CASE rm2reg_8(i)
  <2> DEFINE o == parse_format_reg2rm_8
             v == Operation(i, Value8(o.op1), Value8(o.op2)) % 256
  <2>1. Running /\ opcode = 8 * i + 2
    BY <1>3 DEF rm2reg_8, Opcode
  <2>2. Plain(ip2)
    BY <2>1, RmOpcodeIp
  <2>3. v \in Byte /\ IsOp8(o.op1) /\ o.ip = ip2
    BY Format_reg2rm_8, ByteResult
  <2>4. Put8(At(ip2), o.op1, v)
    BY <1>3, <2>3 DEF rm2reg_8
  <2> HIDE DEF o, v
  <2> QED
    BY <2>1, <2>2, <2>3, <2>4, Stores8
<1>4. CASE rm2reg_16(i)
  <2> DEFINE o == parse_format_reg2rm_16
             v == Wrap(Operation(i, Value16(o.op1), Value16(o.op2)))
  <2>1. Running /\ opcode = 8 * i + 3
    BY <1>4 DEF rm2reg_16, Opcode
  <2>2. Plain(ip2)
    BY <2>1, RmOpcodeIp
  <2>3. v \in Word /\ IsOp16(o.op1) /\ o.ip = ip2
    BY Format_reg2rm_16, WordResult
  <2>4. Put16(At(ip2), o.op1, v)
    BY <1>4, <2>3 DEF rm2reg_16
  <2> HIDE DEF o, v
  <2> QED
    BY <2>1, <2>2, <2>3, <2>4, Stores16
<1>5. CASE i8al(i)
  <2> DEFINE v == Operation(i, Lo8(reg.ax), parse_format_imm_8.im) % 256
  <2>1. Running /\ opcode = 8 * i + 4
    BY <1>5 DEF i8al, Opcode
  <2>2. Plain(parse_format_imm_8.ip)
    BY <2>1, Imm8Ip
  <2>3. v \in Byte
    BY RegIsWord, Halves, Format_imm, ByteResult DEF RegName
  <2>4. Put8(At(parse_format_imm_8.ip), Reg8(0), v)
    BY <1>5 DEF i8al
  <2>5. IsOp8(Reg8(0))
    BY Operands
  <2> HIDE DEF v
  <2> QED
    BY <2>1, <2>2, <2>3, <2>4, <2>5, Stores8
<1>6. CASE i16ax(i)
  <2> DEFINE v == Wrap(Operation(i, reg.ax, parse_format_imm_16.im))
  <2>1. Running /\ opcode = 8 * i + 5
    BY <1>6 DEF i16ax, Opcode
  <2>2. Plain(parse_format_imm_16.ip)
    BY <2>1, Imm16Ip
  <2>3. v \in Word
    BY RegIsWord, Halves, Format_imm, WordResult DEF RegName
  <2>4. Put16(At(parse_format_imm_16.ip), Reg16(0), v)
    BY <1>6 DEF i16ax
  <2>5. IsOp16(Reg16(0))
    BY Operands
  <2> HIDE DEF v
  <2> QED
    BY <2>1, <2>2, <2>3, <2>4, <2>5, Stores16
<1> QED
  BY <1>1, <1>2, <1>3, <1>4, <1>5, <1>6 DEF SixForms

LEMMA HalvesOfAx ==
  ASSUME Typed
  PROVE  /\ al \in Byte /\ ah \in Byte /\ al \in Nat /\ ah \in Nat
         /\ "ax" \in GenReg /\ reg["ax"] \in Word
BY RegIsWord, Halves, ByteBounds DEF al, ah, RegName, GenReg

LEMMA JoinIsWord ==
  ASSUME NEW h \in Int, NEW l \in Int
  PROVE  Join(h, l) \in Word
BY CutIsByte, Joined DEF Join

LEMMA ArithmeticSteps ==
  ASSUME Typed, arithmetic
  PROVE  StepsOn
<1>1. CASE add
  <2>1. CASE RegisterForm /\ Opcode({1, 3}) /\ DoneReg(At(ip2))
    <3>1. Plain(ip2)
      BY <2>1, RmOpcodeIp DEF Opcode
    <3> QED
      BY <2>1, <3>1, OnlyMoves DEF Opcode
  <2>2. CASE SixForms(0)
    BY <2>2, SixFormsStep
  <2> QED
    BY <1>1, <2>1, <2>2 DEF add, SixForms
<1>2. CASE or
  <2>1. CASE RegisterForm /\ Opcode(8 .. 11) /\ Stop("undefined")
    BY <2>1, Stops DEF Ends
  <2>2. CASE SixForms(1)
    BY <2>2, SixFormsStep
  <2> QED
    BY <1>2, <2>1, <2>2 DEF or, SixForms
<1>3. CASE adc
  BY <1>3, SixFormsStep DEF adc
<1>4. CASE sbb
  BY <1>4, SixFormsStep DEF sbb
<1>5. CASE and
  BY <1>5, SixFormsStep DEF and
<1>6. CASE sub
  BY <1>6, SixFormsStep DEF sub
<1>7. CASE xor
  <2>1. CASE RegisterForm /\ Opcode({48}) /\ DoneReg(At(ip2))
    <3>1. Plain(ip2)
      BY <2>1, RmOpcodeIp DEF Opcode
    <3> QED
      BY <2>1, <3>1, OnlyMoves DEF Opcode
  <2>2. CASE SixForms(6)
    BY <2>2, SixFormsStep
  <2> QED
    BY <1>7, <2>1, <2>2 DEF xor, SixForms
<1>8. CASE cmp
  <2>1. CASE Opcode(56 .. 59) /\ DoneReg(At(ip2))
    <3>1. Plain(ip2)
      BY <2>1, RmOpcodeIp DEF Opcode
    <3> QED
      BY <2>1, <3>1, OnlyMoves DEF Opcode
  <2>2. CASE Opcode({60}) /\ DoneReg(At(parse_format_imm_8.ip))
    <3>1. Plain(parse_format_imm_8.ip)
      BY <2>2, Imm8Ip DEF Opcode
    <3> QED
      BY <2>2, <3>1, OnlyMoves DEF Opcode
  <2>3. CASE Opcode({61}) /\ DoneReg(At(parse_format_imm_16.ip))
    <3>1. Plain(parse_format_imm_16.ip)
      BY <2>3, Imm16Ip DEF Opcode
    <3> QED
      BY <2>3, <3>1, OnlyMoves DEF Opcode
  <2> QED
    BY <1>8, <2>1, <2>2, <2>3 DEF cmp
<1>9. CASE daa
  <2> DEFINE n == IF LowDigitOver THEN 6 ELSE 0
             k == IF HighDigitOver THEN 96 ELSE 0
             v == (al + n + k) % 256
  <2>1. Running /\ opcode = 39
    BY <1>9 DEF daa, Opcode
  <2>2. Plain(ip1)
    BY <2>1, OneIp
  <2>3. Put8(At(ip1), Reg8(0), v)
    BY <1>9 DEF daa
  <2>4. v \in Byte
    <3>1. n \in Int /\ k \in Int /\ al \in Int
      BY HalvesOfAx
    <3> HIDE DEF n, k
    <3> QED
      BY <3>1, CutIsByte
  <2>5. IsOp8(Reg8(0))
    BY Operands
  <2> HIDE DEF v
  <2> QED
    BY <2>1, <2>2, <2>3, <2>4, <2>5, Stores8
<1>10. CASE das
  <2> DEFINE n == IF LowDigitOver THEN 6 ELSE 0
             k == IF HighDigitOver THEN 96 ELSE 0
             v == (al - n - k) % 256
  <2>1. Running /\ opcode = 47
    BY <1>10 DEF das, Opcode
  <2>2. Plain(ip1)
    BY <2>1, OneIp
  <2>3. Put8(At(ip1), Reg8(0), v)
    BY <1>10 DEF das
  <2>4. v \in Byte
    <3>1. n \in Int /\ k \in Int /\ al \in Int
      BY HalvesOfAx
    <3> HIDE DEF n, k
    <3> QED
      BY <3>1, CutIsByte
  <2>5. IsOp8(Reg8(0))
    BY Operands
  <2> HIDE DEF v
  <2> QED
    BY <2>1, <2>2, <2>3, <2>4, <2>5, Stores8
<1>11. CASE aaa
  <2> DEFINE v == IF LowDigitOver THEN Join(ah + 1, al + 6) ELSE reg["ax"]
  <2>1. Running /\ opcode = 55
    BY <1>11 DEF aaa, Opcode
  <2>2. Plain(ip1)
    BY <2>1, OneIp
  <2>3. At(ip1)["ax"] = reg["ax"]
    BY HalvesOfAx DEF At, Typed, RegName
  <2>4. DoneReg([At(ip1) EXCEPT !["ax"] = v])
    BY <1>11, <2>3 DEF aaa
  <2>5. v \in Word
    BY HalvesOfAx, JoinIsWord
  <2> HIDE DEF v
  <2> QED
    BY <2>1, <2>2, <2>4, <2>5, HalvesOfAx, SetsOne
<1>12. CASE aas
  <2> DEFINE v == IF LowDigitOver THEN Join(ah - 1, (al - 6) % 16) ELSE reg["ax"]
  <2>1. Running /\ opcode = 63
    BY <1>12 DEF aas, Opcode
  <2>2. Plain(ip1)
    BY <2>1, OneIp
  <2>3. At(ip1)["ax"] = reg["ax"]
    BY HalvesOfAx DEF At, Typed, RegName
  <2>4. DoneReg([At(ip1) EXCEPT !["ax"] = v])
    BY <1>12, <2>3 DEF aas
  <2>5. v \in Word
    BY HalvesOfAx, JoinIsWord
  <2> HIDE DEF v
  <2> QED
    BY <2>1, <2>2, <2>4, <2>5, HalvesOfAx, SetsOne
<1> QED
  BY <1>1, <1>2, <1>3, <1>4, <1>5, <1>6, <1>7, <1>8, <1>9, <1>10, <1>11,
     <1>12 DEF arithmetic

-----------------------------------------------------------------------------
(* CpuGroup *)

LEMMA Immediate8Steps ==
  ASSUME Typed, Running, opcode \in {128, 130}, Immediate8(parse_format_rm2imm_8)
  PROVE  StepsOn
<1> DEFINE o == parse_format_rm2imm_8
           v == Operation(o.op1, Value8(o.op2), o.op3) % 256
<1>1. Plain(o.ip)
  BY RmImm8Ip
<1>2. \/ Stop("undefined") \/ DoneReg(At(o.ip))
      \/ o.op1 \in 0 .. 6 /\ Put8(At(o.ip), o.op2, v)
  BY Format_rm2imm_8 DEF Immediate8
<1>3. IsOp8(o.op2) /\ (o.op1 \in 0 .. 6 => v \in Byte)
  BY Format_rm2imm_8, ByteResult
<1> HIDE DEF o, v
<1> QED
  BY <1>1, <1>2, <1>3, Stops, OnlyMoves, Stores8 DEF Ends

LEMMA Immediate16Steps ==
  ASSUME Typed, Running, opcode \in {129, 131}, Immediate16(parse_format_rm2imm_16)
  PROVE  StepsOn
<1> DEFINE o == parse_format_rm2imm_16
           v == Wrap(Operation(o.op1, Value16(o.op2), o.op3))
<1>1. Plain(o.ip)
  BY RmImm16Ip
<1>2. \/ Stop("undefined") \/ DoneReg(At(o.ip))
      \/ o.op1 \in 0 .. 6 /\ Put16(At(o.ip), o.op2, v)
  BY Format_rm2imm_16 DEF Immediate16
<1>3. IsOp16(o.op2) /\ (o.op1 \in 0 .. 6 => v \in Word)
  BY Format_rm2imm_16, WordResult
<1> HIDE DEF o, v
<1> QED
  BY <1>1, <1>2, <1>3, Stops, OnlyMoves, Stores16 DEF Ends

LEMMA Powers ==
  ASSUME NEW n \in 0 .. 8
  PROVE  2^n \in Nat \ {0}
<1>0. n = 0 \/ n = 1 \/ n = 2 \/ n = 3 \/ n = 4 \/ n = 5 \/ n = 6 \/ n = 7 \/ n = 8
  OBVIOUS
<1>1. CASE n = 0
  <2>1. 2^0 = 1
    OBVIOUS
  <2>2. 2^n = 2^0
    BY <1>1, Zenon
  <2> QED
    BY <2>1, <2>2
<1>2. CASE n = 1
  <2>1. 2^1 = 2
    OBVIOUS
  <2>2. 2^n = 2^1
    BY <1>2, Zenon
  <2> QED
    BY <2>1, <2>2
<1>3. CASE n = 2
  <2>1. 2^2 = 4
    OBVIOUS
  <2>2. 2^n = 2^2
    BY <1>3, Zenon
  <2> QED
    BY <2>1, <2>2
<1>4. CASE n = 3
  <2>1. 2^3 = 8
    OBVIOUS
  <2>2. 2^n = 2^3
    BY <1>4, Zenon
  <2> QED
    BY <2>1, <2>2
<1>5. CASE n = 4
  <2>1. 2^4 = 16
    OBVIOUS
  <2>2. 2^n = 2^4
    BY <1>5, Zenon
  <2> QED
    BY <2>1, <2>2
<1>6. CASE n = 5
  <2>1. 2^5 = 32
    OBVIOUS
  <2>2. 2^n = 2^5
    BY <1>6, Zenon
  <2> QED
    BY <2>1, <2>2
<1>7. CASE n = 6
  <2>1. 2^6 = 64
    OBVIOUS
  <2>2. 2^n = 2^6
    BY <1>7, Zenon
  <2> QED
    BY <2>1, <2>2
<1>8. CASE n = 7
  <2>1. 2^7 = 128
    OBVIOUS
  <2>2. 2^n = 2^7
    BY <1>8, Zenon
  <2> QED
    BY <2>1, <2>2
<1>9. CASE n = 8
  <2>1. 2^8 = 256
    OBVIOUS
  <2>2. 2^n = 2^8
    BY <1>9, Zenon
  <2> QED
    BY <2>1, <2>2
<1> QED
  BY <1>0, <1>1, <1>2, <1>3, <1>4, <1>5, <1>6, <1>7, <1>8, <1>9

LEMMA PowerIsInt ==
  ASSUME NEW n \in Nat
  PROVE  2^n \in Int
BY SMT

LEMMA BitIsBit ==
  ASSUME NEW n \in Nat, NEW w \in Nat \ {0}
  PROVE  Bit(n, w) \in Int
BY SMT DEF Bit

LEMMA DivIsInt ==
  ASSUME NEW a \in Nat, NEW s \in Nat \ {0}
  PROVE  a \div s \in Nat
BY SMT

LEMMA ShiftedOnceIsInt ==
  ASSUME Typed, NEW i \in 0 .. 7, i # 6, NEW s \in Byte
  PROVE  ShiftedOnce(i, s) \in Int
<1> DEFINE p == 2^(1 + CF)
<1>1. 1 + CF \in 0 .. 8
  BY CarryIsBit
<1>2. p \in Nat \ {0} /\ s \in Nat
  BY <1>1, Powers, ByteBounds
<1>3. ShiftedOnce(i, s) \in {s * p, (s \div p) * 128, s \div p, s * 2, s \div 2, 0}
  BY DEF ShiftedOnce
<1> HIDE DEF p
<1>4. s \div p \in Nat /\ s \div 2 \in Nat
  BY <1>2, DivIsInt
<1>5. s * p \in Int /\ (s \div p) * 128 \in Int /\ s * 2 \in Int
  BY <1>2, <1>4
<1> QED
  BY <1>3, <1>4, <1>5

LEMMA ShiftedByIsInt ==
  ASSUME NEW i \in 0 .. 7, i # 6, NEW s \in Byte, NEW n \in 1 .. 8
  PROVE  ShiftedBy(i, s, n) \in Int
<1> DEFINE p == 2^n
           b == Bit(s, 2^(8 - n))
           c == Bit(s, 2^(n - 1))
<1>0. n \in 0 .. 8 /\ 8 - n \in 0 .. 8 /\ n - 1 \in 0 .. 8
  OBVIOUS
<1>1. p \in Nat \ {0} /\ 2^(8 - n) \in Nat \ {0} /\ 2^(n - 1) \in Nat \ {0} /\ s \in Nat
  BY <1>0, Powers, ByteBounds
<1>2. b \in Int /\ c \in Int
  BY <1>1, BitIsBit
<1>3. ShiftedBy(i, s, n) \in {s * p + b, s \div p + c * 128, s * p, s \div p, 0}
  BY DEF ShiftedBy
<1> HIDE DEF p, b, c
<1>4. s \div p \in Nat
  BY <1>1, DivIsInt
<1>5. s * p + b \in Int /\ s \div p + c * 128 \in Int /\ s * p \in Int
  BY <1>1, <1>2, <1>4
<1> QED
  BY <1>3, <1>4, <1>5

LEMMA ShiftInMemorySteps ==
  ASSUME NEW o, NEW b, ShiftInMemory(o, b)
  PROVE  StepsOn
BY Stops DEF ShiftInMemory, Ends

LEMMA ShiftedIsWord ==
  ASSUME NEW h \in Byte, NEW l \in Byte
  PROVE  Shifted(h, l) \in Word
<1> DEFINE n == (8 + l) % 32
<1>1. n \in Nat /\ h \in Nat
  BY ByteBounds
<1>2. Shifted(h, l) \in {256 * Hi8(Wrap(h * 2^n)), 0}
  BY DEF Shifted
<1> HIDE DEF n
<1>3. 2^n \in Int
  BY <1>1, PowerIsInt
<1>4. h * 2^n \in Int
  BY <1>1, <1>3
<1>5. Hi8(Wrap(h * 2^n)) \in Byte
  BY <1>4, WrapIsWord, Halves
<1>6. \A b \in Byte : 256 * b \in Word /\ 0 \in Word
  BY ByteBounds, IsWord
<1> QED
  BY <1>2, <1>5, <1>6

LEMMA QuotientIsInt ==
  ASSUME NEW a \in Int, NEW s \in Nat \ {0}
  PROVE  Quotient(a, s) \in Int
<1>1. CASE a >= 0
  BY <1>1, DivIsInt DEF Quotient
<1>2. CASE ~(a >= 0)
  <2>1. -a \in Nat
    BY <1>2
  <2>2. (-a) \div s \in Nat
    BY <2>1, DivIsInt
  <2> QED
    BY <1>2, <2>2 DEF Quotient
<1> QED
  BY <1>1, <1>2

LEMMA Divides8 ==
  ASSUME Typed, Running, NEW ip, Plain(ip), NEW a \in Int, NEW s \in Byte, Divided8(ip, a, s)
  PROVE  StepsOn
<1>1. CASE s = 0
  BY <1>1, Stops DEF Divided8, Ends
<1>2. CASE s # 0
  <2> DEFINE q == Quotient(a, s)
             w == Shifted((a - q * s) % 256, q % 256)
  <2>1. s \in Nat \ {0}
    BY <1>2, ByteBounds
  <2>2. q \in Int
    BY <2>1, QuotientIsInt
  <2>3. DoneReg([At(ip) EXCEPT !["ax"] = w])
    BY <1>2 DEF Divided8
  <2> HIDE DEF q
  <2>4. a - q * s \in Int
    BY <2>1, <2>2
  <2>5. w \in Word
    BY <2>2, <2>4, CutIsByte, ShiftedIsWord
  <2> HIDE DEF w
  <2> QED
    BY <2>3, <2>5, HalvesOfAx, SetsOne
<1> QED
  BY <1>1, <1>2

\* The quotient of a division that takes one more byte of the dividend.
LEMMA NextDigit ==
  ASSUME NEW s \in Nat \ {0}, NEW r \in Nat, r < s, NEW b \in Byte
  PROVE  (r * 256 + b) \div s \in Byte
<1> DEFINE x == r * 256 + b
           q == x \div s
<1>1. b \in Nat /\ b =< 255
  BY ByteBounds
<1>2. x \in Nat /\ x < 256 * s
  BY <1>1
<1> HIDE DEF x
<1>3. q \in Nat
  BY <1>2, DivIsInt
<1>4. q * s + (x % s) = x /\ x % s \in Nat
  BY <1>2
<1> HIDE DEF q
<1>5. q * s =< x
  <2>1. q * s \in Nat
    BY <1>3
  <2> QED
    BY <1>2, <1>4, <2>1
<1>6. q =< 255
  <2>1. SUFFICES ASSUME q >= 256 PROVE FALSE
    BY <1>3
  <2>2. (q - 256) * s >= 0
    BY <1>3, <2>1
  <2>3. (q - 256) * s = q * s - 256 * s
    BY <1>3
  <2> QED
    BY <1>2, <1>3, <1>5, <2>2, <2>3
<1> QED
  BY <1>3, <1>6 DEF Byte, q, x

LEMMA RestIsLess ==
  ASSUME NEW a \in Nat, NEW s \in Nat \ {0}
  PROVE  a % s \in Nat /\ a % s < s
BY SMT

LEMMA Divides16 ==
  ASSUME Typed, Running, NEW ip, Plain(ip), NEW s \in Word, Divided16(ip, s)
  PROVE  StepsOn
<1>1. CASE s = 0
  BY <1>1, Stops DEF Divided16, Ends
<1>2. CASE s # 0
  <2> DEFINE r0 == reg["dx"] % s
             high == r0 * 256 + ah
             r1 == high % s
             low == r1 * 256 + al
             v == (high \div s) * 256 + (low \div s)
             w == low % s
  <2>1. s \in Nat \ {0} /\ s =< 65535
    BY <1>2, WordBounds
  <2>2. DoneReg([[At(ip) EXCEPT !["ax"] = v] EXCEPT !["dx"] = w])
    BY <1>2 DEF Divided16
  <2>3. ah \in Byte /\ al \in Byte /\ ah \in Nat /\ al \in Nat /\ reg["dx"] \in Nat
    BY HalvesOfAx, RegIsWord DEF RegName
  <2>4. r0 \in Nat /\ r0 < s
    BY <2>1, <2>3, RestIsLess
  <2> HIDE DEF r0
  <2>5. high \in Nat /\ high \div s \in Byte
    <3>1. high \in Nat
      BY <2>3, <2>4
    <3>2. \A b \in Byte : (r0 * 256 + b) \div s \in Byte
      BY <2>1, <2>4, NextDigit
    <3> QED
      BY <2>3, <3>1, <3>2
  <2> HIDE DEF high
  <2>6. r1 \in Nat /\ r1 < s
    BY <2>1, <2>5, RestIsLess
  <2> HIDE DEF r1
  <2>7. low \in Nat /\ low \div s \in Byte
    <3>1. low \in Nat
      BY <2>3, <2>6
    <3>2. \A b \in Byte : (r1 * 256 + b) \div s \in Byte
      BY <2>1, <2>6, NextDigit
    <3> QED
      BY <2>3, <3>1, <3>2
  <2> HIDE DEF low
  <2>8. w \in Word
    <3>1. w \in Nat /\ w < s
      BY <2>1, <2>7, RestIsLess
    <3> HIDE DEF w
    <3> QED
      BY <2>1, <3>1, IsWord
  <2>9. v \in Word
    BY <2>5, <2>7, Joined
  <2>10. "ax" \in GenReg /\ "dx" \in GenReg
    BY DEF GenReg, RegName
  <2> HIDE DEF v, w
  <2> QED
    BY <2>2, <2>8, <2>9, <2>10, SetsTwo
<1> QED
  BY <1>1, <1>2

LEMMA ProductIsWord ==
  ASSUME NEW a \in Byte, NEW b \in Byte
  PROVE  a * b \in Word
<1>1. a \in Nat /\ a =< 255 /\ b \in Nat /\ b =< 255
  BY ByteBounds
<1>2. (255 - a) * b >= 0
  BY <1>1
<1>3. (255 - a) * b = 255 * b - a * b /\ a * b \in Nat
  BY <1>1
<1>4. a * b =< 65535
  BY <1>1, <1>2, <1>3
<1> QED
  BY <1>3, <1>4, IsWord

\* test adds an immediate value to the format of its table.
LEMMA TestIp ==
  ASSUME Typed, RegField = 0,
         NEW k \in {1, 2}, opcode = 245 + k
  PROVE  Plain(Wrap(ip2 + k))
<1>1. Mod \in 0 .. 3
  BY Fields
<1>2. DispLen = (IF Mod = 1 THEN 1 ELSE 0) + (IF (Mod = 2 \/ (Mod = 0 /\ RmField = 6)) THEN 2 ELSE 0)
  BY <1>1 DEF DispLen
<1>3. Length(opcode) = 2 + DispLen + k
  BY <1>2, SMT DEF Length, WithModRm, TwoRegisters, ByteOperand, WordOperand, DirectAddress
<1>4. ip2 = Wrap(reg.ip + 2 + DispLen) /\ reg.ip \in Nat /\ DispLen \in Nat /\ ip2 \in Nat
  BY NextIp, Displacement, WordBounds
<1>5. Wrap(ip2 + k) = Wrap((reg.ip + 2 + DispLen) + k)
  <2>1. reg.ip + 2 + DispLen \in Nat /\ k \in Nat
    BY <1>4
  <2> QED
    BY <1>4, <2>1, WrapAgain
<1>6. (reg.ip + 2 + DispLen) + k = reg.ip + Length(opcode) /\ ip2 + k \in Int
  BY <1>3, <1>4
<1>7. opcode \notin ShortJumps
  BY DEF ShortJumps
<1> QED
  BY <1>5, <1>6, <1>7, WrapIsWord DEF NextInstruction, Plain

LEMMA UnaryIp ==
  ASSUME Typed, opcode \in {246, 247}, RegField # 0
  PROVE  Plain(ip2)
<1>1. opcode \in RmOnly
  BY Fields, RmOpcodes
<1> QED
  BY <1>1, RmIp

LEMMA GroupSteps ==
  ASSUME Typed, group
  PROVE  StepsOn
<1>1. CASE table_80
  BY <1>1, Immediate8Steps, Stops DEF table_80, Opcode, Ends
<1>2. CASE table_81
  BY <1>2, Immediate16Steps DEF table_81, Opcode
<1>3. CASE table_82
  BY <1>3, Immediate8Steps, Stops DEF table_82, Opcode, Ends
<1>4. CASE table_83
  BY <1>4, Immediate16Steps, Stops DEF table_83, Opcode, Ends
<1>5. CASE table_d0
  <2> DEFINE o == parse_format_table_rm_8
             v == ShiftedOnce(o.op1, Value8(o.op2)) % 256
  <2>1. Running /\ opcode = 208
    BY <1>5 DEF table_d0, Opcode
  <2>2. Plain(ip2)
    BY <2>1, RmOpcodeIp
  <2>3. \/ Stop("exit") \/ Stop("undefined") \/ ShiftInMemory(o, TRUE)
        \/ o.op1 # 6 /\ Put8(At(o.ip), o.op2, v)
    BY <1>5 DEF table_d0
  <2>4. o.ip = ip2 /\ IsOp8(o.op2) /\ (o.op1 # 6 => v \in Byte)
    BY Format_table, ShiftedOnceIsInt, CutIsByte
  <2> HIDE DEF o, v
  <2> QED
    BY <2>1, <2>2, <2>3, <2>4, Stores8, Stops, ShiftInMemorySteps DEF Ends
<1>6. CASE table_d1
  <2> DEFINE o == parse_format_table_rm_16
  <2>1. Running /\ opcode = 209
    BY <1>6 DEF table_d1, Opcode
  <2>2. Plain(ip2)
    BY <2>1, RmOpcodeIp
  <2>3. \/ Stop("exit") \/ Stop("undefined") \/ ShiftInMemory(o, TRUE) \/ DoneReg(At(o.ip))
    BY <1>6 DEF table_d1
  <2>4. o.ip = ip2
    BY Format_table
  <2> HIDE DEF o
  <2> QED
    BY <2>1, <2>2, <2>3, <2>4, OnlyMoves, Stops, ShiftInMemorySteps DEF Ends
<1>7. CASE table_d2
  <2> DEFINE o == parse_format_table_rm_8
             s == Value8(o.op2)
             v == IF cl > 8 THEN 0
                  ELSE IF cl = 0 THEN s
                  ELSE ShiftedBy(o.op1, s, cl) % 256
  <2>1. Running /\ opcode = 210
    BY <1>7 DEF table_d2, Opcode
  <2>2. Plain(ip2)
    BY <2>1, RmOpcodeIp
  <2>3. \/ Stop("exit") \/ Stop("undefined") \/ \E b : ShiftInMemory(o, b)
        \/ ~(o.op1 = 6 /\ cl \in 1 .. 8) /\ Put8(At(o.ip), o.op2, v)
    BY <1>7 DEF table_d2
  <2>4. o.ip = ip2 /\ IsOp8(o.op2) /\ s \in Byte /\ o.op1 \in 0 .. 7
    BY Format_table
  <2>5. cl \in Nat
    BY RegIsWord, Halves, ByteBounds DEF cl, RegName
  <2> HIDE DEF o, s
  <2>6. ASSUME ~(o.op1 = 6 /\ cl \in 1 .. 8) PROVE v \in Byte
    <3>1. CASE cl > 8
      <4>1. v = 0
        BY <3>1
      <4> QED
        BY <4>1 DEF Byte
    <3>2. CASE cl = 0
      BY <2>4, <3>2
    <3>3. CASE cl \in 1 .. 8
      <4>1. ShiftedBy(o.op1, s, cl) \in Int
        BY <2>4, <2>6, <3>3, ShiftedByIsInt
      <4>2. v = ShiftedBy(o.op1, s, cl) % 256
        BY <2>5, <3>3
      <4> QED
        BY <4>1, <4>2, CutIsByte
    <3> QED
      BY <2>5, <3>1, <3>2, <3>3
  <2> HIDE DEF v
  <2> QED
    BY <2>1, <2>2, <2>3, <2>4, <2>6, Stores8, Stops, ShiftInMemorySteps DEF Ends
<1>8. CASE table_d3
  BY <1>8, Stops, ShiftInMemorySteps DEF table_d3, Ends
<1>9. CASE aam
  <2> DEFINE e == 8 + (al % 10)
             t == al \div 10
             v == Wrap(t * 2^e)
  <2>1. Running /\ opcode = 212
    BY <1>9 DEF aam, Opcode
  <2>2. Plain(parse_format_imm_8.ip)
    BY <2>1, Imm8Ip
  <2>3. DoneReg([At(parse_format_imm_8.ip) EXCEPT !["ax"] = v])
    BY <1>9 DEF aam
  <2>4. e \in Nat /\ t \in Nat
    BY HalvesOfAx
  <2> HIDE DEF e, t
  <2>5. 2^e \in Int
    BY <2>4, PowerIsInt
  <2>6. t * 2^e \in Int
    BY <2>4, <2>5
  <2>7. v \in Word
    BY <2>6, WrapIsWord
  <2> HIDE DEF v
  <2> QED
    BY <2>1, <2>2, <2>3, <2>7, HalvesOfAx, SetsOne
<1>10. CASE aad
  <2>1. Running /\ opcode = 213
    BY <1>10 DEF aad, Opcode
  <2>2. Plain(parse_format_imm_8.ip)
    BY <2>1, Imm8Ip
  <2>3. "ax" \in GenReg /\ 0 \in Word
    BY IsWord DEF GenReg, RegName
  <2> QED
    BY <1>10, <2>1, <2>2, <2>3, SetsOne DEF aad
<1>11. CASE table_f6
  <2> DEFINE o == parse_format_table_rm_8
             v == Value8(o.op2)
  <2>1. Running /\ opcode = 246
    BY <1>11 DEF table_f6, Opcode
  <2>2. Stop("exit") \/ Stop("undefined") \/ Unary8(o, v)
    BY <1>11 DEF table_f6
  <2>3. o.ip = ip2 /\ o.op1 = RegField /\ IsOp8(o.op2) /\ v \in Byte
    BY Format_table
  <2>4. (o.op1 = 0 => Plain(Wrap(ip2 + 1))) /\ (o.op1 # 0 => Plain(ip2))
    BY <2>1, <2>3, TestIp, UnaryIp
  <2> HIDE DEF o, v
  <2>5. CASE Unary8(o, v)
    <3>1. v \in Int /\ v =< 255 /\ 0 =< v
      BY <2>3, ByteBounds
    <3>2. 255 - v \in Byte /\ (0 - v) % 256 \in Byte
      BY <3>1, CutIsByte DEF Byte
    <3>3. reg["ax"] \in Int /\ Signed16(reg["ax"]) \in Int /\ al * v \in Word /\ "ax" \in GenReg
      BY <2>3, HalvesOfAx, WordBounds, ProductIsWord DEF Signed16
    <3>4. CASE o.op1 = 0 /\ DoneReg(At(Wrap(o.ip + 1)))
      BY <2>1, <2>3, <2>4, <3>4, OnlyMoves
    <3>5. CASE o.op1 = 1 /\ DoneReg(At(o.ip))
      BY <2>1, <2>3, <2>4, <3>5, OnlyMoves
    <3>6. CASE \/ o.op1 = 2 /\ Put8(At(o.ip), o.op2, 255 - v)
               \/ o.op1 = 3 /\ Put8(At(o.ip), o.op2, (0 - v) % 256)
      BY <2>1, <2>3, <2>4, <3>2, <3>6, Stores8
    <3>7. CASE o.op1 \in {4, 5} /\ DoneReg([At(o.ip) EXCEPT !.ax = al * v])
      BY <2>1, <2>3, <2>4, <3>3, <3>7, SetsOne
    <3>8. CASE \/ o.op1 = 6 /\ Divided8(o.ip, reg.ax, v)
               \/ o.op1 = 7 /\ Divided8(o.ip, Signed16(reg.ax), v)
      BY <2>1, <2>3, <2>4, <3>3, <3>8, Divides8
    <3> QED
      BY <2>5, <3>4, <3>5, <3>6, <3>7, <3>8 DEF Unary8
  <2> QED
    BY <2>2, <2>5, Stops DEF Ends
<1>12. CASE table_f7
  <2> DEFINE o == parse_format_table_rm_16
             v == Value16(o.op2)
  <2>1. Running /\ opcode = 247
    BY <1>12 DEF table_f7, Opcode
  <2>2. \/ Stop("exit") \/ Stop("undefined")
        \/ o.op1 = 0 /\ DoneReg(At(Wrap(o.ip + 2)))
        \/ o.op1 = 1 /\ DoneReg(At(o.ip))
        \/ o.op1 = 2 /\ Put16(At(o.ip), o.op2, 65535 - v)
        \/ o.op1 = 3 /\ Put16(At(o.ip), o.op2, Wrap(0 - v))
        \/ o.op1 \in {4, 5} /\ DoneReg([At(o.ip) EXCEPT !.ax = Wrap(al * v), !.dx = 0])
        \/ o.op1 \in {6, 7} /\ Divided16(o.ip, v)
    BY <1>12 DEF table_f7
  <2>3. o.ip = ip2 /\ o.op1 = RegField /\ IsOp16(o.op2) /\ v \in Word
    BY Format_table
  <2>4. (o.op1 = 0 => Plain(Wrap(ip2 + 2))) /\ (o.op1 # 0 => Plain(ip2))
    BY <2>1, <2>3, TestIp, UnaryIp
  <2> HIDE DEF o, v
  <2>5. v \in Nat /\ v =< 65535
    BY <2>3, WordBounds
  <2>6. 65535 - v \in Word /\ Wrap(0 - v) \in Word
    BY <2>5, IsWord, WrapIsWord
  <2>7. Wrap(al * v) \in Word
    <3>1. al * v \in Int
      BY <2>5, HalvesOfAx
    <3> QED
      BY <3>1, WrapIsWord
  <2>8. "ax" \in GenReg /\ "dx" \in GenReg /\ 0 \in Word
    BY IsWord DEF GenReg, RegName
  <2>9. CASE o.op1 = 0 /\ DoneReg(At(Wrap(o.ip + 2)))
    BY <2>1, <2>3, <2>4, <2>9, OnlyMoves
  <2>10. CASE o.op1 = 1 /\ DoneReg(At(o.ip))
    BY <2>1, <2>3, <2>4, <2>10, OnlyMoves
  <2>11. CASE \/ o.op1 = 2 /\ Put16(At(o.ip), o.op2, 65535 - v)
              \/ o.op1 = 3 /\ Put16(At(o.ip), o.op2, Wrap(0 - v))
    BY <2>1, <2>3, <2>4, <2>6, <2>11, Stores16
  <2>12. CASE o.op1 \in {4, 5} /\ DoneReg([At(o.ip) EXCEPT !.ax = Wrap(al * v), !.dx = 0])
    <3> DEFINE p == Wrap(al * v)
    <3>1. p \in Word
      BY <2>7
    <3>2. Plain(ip2)
      BY <2>4, <2>12
    <3> HIDE DEF p
    <3>3. DoneReg([[At(ip2) EXCEPT !["ax"] = p] EXCEPT !["dx"] = 0])
      BY <2>3, <2>12 DEF p
    <3> QED
      BY <2>1, <2>8, <3>1, <3>2, <3>3, SetsTwo
  <2>13. CASE o.op1 \in {6, 7} /\ Divided16(o.ip, v)
    BY <2>1, <2>3, <2>4, <2>13, Divides16
  <2> QED
    BY <2>2, <2>9, <2>10, <2>11, <2>12, <2>13, Stops DEF Ends
<1>13. CASE table_fe
  <2> DEFINE o == parse_format_table_rm_8
             v == Value8(o.op2)
             w == CASE o.op1 = 0 -> (v + 1) % 256
                    [] o.op1 = 1 -> (v - 1) % 256
                    [] OTHER -> 0
  <2>1. Running /\ opcode = 254
    BY <1>13 DEF table_fe, Opcode
  <2>2. Plain(ip2)
    BY <2>1, RmOpcodeIp
  <2>3. Stop("exit") \/ Stop("undefined") \/ Put8(At(o.ip), o.op2, w)
    BY <1>13 DEF table_fe
  <2>4. o.ip = ip2 /\ IsOp8(o.op2) /\ v \in Byte
    BY Format_table
  <2> HIDE DEF o, v
  <2>5. (v + 1) % 256 \in Byte /\ (v - 1) % 256 \in Byte /\ 0 \in Byte
    BY <2>4, ByteBounds, CutIsByte DEF Byte
  <2>6. w \in Byte
    BY <2>5
  <2> HIDE DEF w
  <2> QED
    BY <2>1, <2>2, <2>3, <2>4, <2>6, Stores8, Stops DEF Ends
<1>14. CASE table_ff
  <2> DEFINE o == parse_format_table_rm_16
             v == Value16(o.op2)
  <2>1. Running /\ opcode = 255
    BY <1>14 DEF table_ff, Opcode
  <2>2. Plain(ip2)
    BY <2>1, RmOpcodeIp
  <2>3. \/ Stop("exit") \/ Stop("undefined") \/ DoneReg(At(o.ip))
        \/ InMemory(o.op2) /\ Put8(At(o.ip), o.op2, (v + 1) % 256)
        \/ InMemory(o.op2) /\ Put8(At(o.ip), o.op2, (v - 1) % 256)
    BY <1>14 DEF table_ff
  <2>4. o.ip = ip2 /\ IsOp16(o.op2) /\ v \in Word
    BY Format_table
  <2> HIDE DEF o, v
  <2>5. (v + 1) % 256 \in Byte /\ (v - 1) % 256 \in Byte
    BY <2>4, WordBounds, CutIsByte
  <2>6. InMemory(o.op2) => IsOp8(o.op2)
    BY <2>4 DEF InMemory, IsOp8, IsOp16
  <2> QED
    BY <2>1, <2>2, <2>3, <2>4, <2>5, <2>6, Stores8, OnlyMoves, Stops DEF Ends
<1> QED
  BY <1>1, <1>2, <1>3, <1>4, <1>5, <1>6, <1>7, <1>8, <1>9, <1>10, <1>11,
     <1>12, <1>13, <1>14 DEF group

-----------------------------------------------------------------------------
(* String and port instructions *)

LEMMA MovedAfter ==
  ASSUME Typed, Plain(ip1), NEW n \in {1, 2}
  PROVE  After(Moved(n), ip1)
<1> DEFINE d == IF DF = 0 THEN n ELSE -n
           r == [At(ip1) EXCEPT !["si"] = Wrap(reg["si"] + d)]
<1>1. d \in Int
  OBVIOUS
<1>2. reg["si"] \in Nat /\ reg["di"] \in Nat /\ "si" \in GenReg /\ "di" \in GenReg
  BY RegIsWord DEF RegName, GenReg
<1>3. At(ip1)["si"] = reg["si"] /\ r["di"] = reg["di"]
  BY DEF At, Typed, RegName
<1>4. Moved(n) = [[At(ip1) EXCEPT !.si = Wrap(@ + d)] EXCEPT !.di = Wrap(@ + d)]
  BY DEF Moved
<1> HIDE DEF d
<1>5. Moved(n) = [r EXCEPT !["di"] = Wrap(reg["di"] + d)]
  BY <1>3, <1>4
<1>6. Wrap(reg["si"] + d) \in Word /\ Wrap(reg["di"] + d) \in Word
  BY <1>1, <1>2, WrapIsWord
<1>7. After(r, ip1)
  BY <1>2, <1>6, AtAfter, SetAfter DEF Plain
<1> HIDE DEF r
<1>8. After([r EXCEPT !["di"] = Wrap(reg["di"] + d)], ip1)
  BY <1>2, <1>6, <1>7, SetAfter
<1> QED
  BY <1>5, <1>8

LEMMA TargetStores ==
  ASSUME Typed, Running, Plain(ip1), NEW n \in {1, 2},
         \/ \E v \in Byte : Done(Moved(n), vm_write_byte(mem, Target, v))
         \/ \E v \in Word : Done(Moved(n), vm_write_word(mem, Target, v))
  PROVE  StepsOn
<1>1. Target \in Nat
  BY RegIsWord DEF Target, vm_addr_calc, RegName
<1>2. /\ \A v \in Byte : MemOK(vm_write_byte(mem, Target, v))
      /\ \A v \in Word : MemOK(vm_write_word(mem, Target, v))
  BY <1>1, WriteByteKeeps, WriteWordKeeps DEF Typed
<1>3. After(Moved(n), ip1)
  BY MovedAfter
<1>4. \A m : MemOK(m) /\ Done(Moved(n), m) => Effect(ip1)
  BY <1>3, DoneReturns
<1> QED
  BY <1>2, <1>4, Returns

LEMMA StringSteps ==
  ASSUME Typed, string
  PROVE  StepsOn
<1>1. CASE movsw_8
  <2>1. Running /\ opcode = 164
    BY <1>1 DEF movsw_8, Opcode
  <2>2. Plain(ip1)
    BY <2>1, OneIp
  <2>3. vm_read_byte(mem, Source) \in Byte
    BY ReadByteIsByte, StackWord, RegIsWord, Halves DEF Typed, MemOK, RegName
  <2> QED
    BY <1>1, <2>1, <2>2, <2>3, TargetStores DEF movsw_8
<1>2. CASE movsw_16
  <2>1. Running /\ opcode = 165
    BY <1>2 DEF movsw_16, Opcode
  <2>2. Plain(ip1)
    BY <2>1, OneIp
  <2>3. vm_read_word(mem, Source) \in Word
    BY ReadByteIsByte, StackWord, RegIsWord, Halves DEF Typed, MemOK, RegName
  <2> QED
    BY <1>2, <2>1, <2>2, <2>3, TargetStores DEF movsw_16
<1>3. CASE stos_8
  <2>1. Running /\ opcode = 170
    BY <1>3 DEF stos_8, Opcode
  <2>2. Plain(ip1)
    BY <2>1, OneIp
  <2>3. Lo8(reg.ax) \in Byte
    BY ReadByteIsByte, StackWord, RegIsWord, Halves DEF Typed, MemOK, RegName
  <2> QED
    BY <1>3, <2>1, <2>2, <2>3, TargetStores DEF stos_8
<1>4. CASE stos_16
  <2>1. Running /\ opcode = 171
    BY <1>4 DEF stos_16, Opcode
  <2>2. Plain(ip1)
    BY <2>1, OneIp
  <2>3. reg.ax \in Word
    BY ReadByteIsByte, StackWord, RegIsWord, Halves DEF Typed, MemOK, RegName
  <2> QED
    BY <1>4, <2>1, <2>2, <2>3, TargetStores DEF stos_16
<1>5. CASE lods_8
  <2>1. Running /\ opcode = 172
    BY <1>5 DEF lods_8, Opcode
  <2>2. Plain(ip1)
    BY <2>1, OneIp
  <2>3. vm_read_byte(mem, Target) \in Byte /\ IsOp8(Reg8(0)) /\ Reg8(0).type # "addr"
    BY ReadByteIsByte, Operands DEF Typed, MemOK
  <2>4. After(SetRegByte(Moved(1), Reg8(0), vm_read_byte(mem, Target)), ip1)
    BY <2>2, <2>3, MovedAfter, SetByteAfter
  <2> QED
    BY <1>5, <2>1, <2>2, <2>4, Sets DEF lods_8
<1>6. CASE lods_16
  <2> DEFINE v == vm_read_word(mem, Target)
  <2>1. Running /\ opcode = 173
    BY <1>6 DEF lods_16, Opcode
  <2>2. Plain(ip1)
    BY <2>1, OneIp
  <2>3. DoneReg([Moved(1) EXCEPT !["ax"] = v])
    BY <1>6 DEF lods_16
  <2>4. v \in Word
    BY StackWord
  <2> HIDE DEF v
  <2>5. After([Moved(1) EXCEPT !["ax"] = v], ip1)
    BY <2>2, <2>4, HalvesOfAx, MovedAfter, SetAfter
  <2> QED
    BY <2>1, <2>2, <2>3, <2>5, Sets
<1>7. CASE cmps
  <2>1. Running /\ opcode \in {166, 167}
    BY <1>7 DEF cmps, Opcode
  <2>2. Plain(ip1)
    BY <2>1, OneIp
  <2> QED
    BY <1>7, <2>1, <2>2, MovedAfter, Sets DEF cmps
<1>8. CASE scas
  <2>1. Running /\ opcode \in {174, 175}
    BY <1>8 DEF scas, Opcode
  <2>2. Plain(ip1)
    BY <2>1, OneIp
  <2> QED
    BY <1>8, <2>1, <2>2, MovedAfter, Sets DEF scas
<1> QED
  BY <1>1, <1>2, <1>3, <1>4, <1>5, <1>6, <1>7, <1>8 DEF string

LEMMA BitOrIsWord ==
  ASSUME NEW m, NEW n
  PROVE  BitOr(m, n) \in Word
<1>1. BitOr(m, n) \in Nat /\ BitOr(m, n) =< 65535
  BY SMT DEF BitOr, FromBits
<1> QED
  BY <1>1, IsWord

LEMMA PortWords ==
  ASSUME Typed, NEW n
  PROVE  PortValue(n) \in Word /\ PortAnswer(n) \subseteq Word
<1>1. 0 \in Word
  BY IsWord
<1>2. PortValue(n) \in Word
  BY <1>1 DEF PortValue, Typed
<1> QED
  BY <1>2, DeviceAssumption DEF PortAnswer

LEMMA InByte ==
  ASSUME Typed, Running, NEW ip, Plain(ip), NEW n, pci_in_byte(ip, n)
  PROVE  StepsOn
<1>1. PICK v \in PortAnswer(n) : DoneReg(SetRegByte(At(ip), Reg8(0), Lo8(v)))
  BY DEF pci_in_byte
<1>2. Lo8(v) \in Byte
  BY <1>1, PortWords, Halves
<1>3. After(SetRegByte(At(ip), Reg8(0), Lo8(v)), ip)
  BY <1>2, Operands, AtAfter, SetByteAfter DEF Plain
<1> QED
  BY <1>1, <1>3, Sets

LEMMA InWord ==
  ASSUME Typed, Running, NEW ip, Plain(ip), NEW n, pci_in_word(ip, n)
  PROVE  StepsOn
<1>1. PICK v \in PortAnswer(n) : DoneReg([At(ip) EXCEPT !.ax = v])
  BY DEF pci_in_word
<1>2. v \in Word /\ "ax" \in GenReg
  BY <1>1, PortWords, HalvesOfAx
<1> QED
  BY <1>1, <1>2, SetsOne

LEMMA Outs ==
  ASSUME Typed, Running, NEW ip, Plain(ip), NEW n \in Word, NEW v \in Word, Out(ip, n, v)
  PROVE  StepsOn
<1>1. After(At(ip), ip)
  BY AtAfter DEF Plain
<1>2. port' \in [DOMAIN port' -> Word] /\ DOMAIN port' \subseteq Word
  <2>1. CASE port' = port
    BY <2>1 DEF Typed
  <2>2. CASE port' = SetPort(n, v)
    <3>1. SetPort(n, v) \in [DOMAIN port \cup {n} -> Word] /\ DOMAIN port \subseteq Word
      BY DEF SetPort, Typed
    <3> QED
      BY <2>2, <3>1
  <2> QED
    BY <2>1, <2>2 DEF Out
<1>3. Returned(ip)
  BY <1>1, <1>2 DEF Out, Returned, Running, Typed, After
<1> QED
  BY <1>3 DEF StepsOn

LEMMA OutByte ==
  ASSUME Typed, Running, NEW ip, Plain(ip), NEW n \in Word, pci_out_byte(ip, n)
  PROVE  StepsOn
<1>1. Hi8(PortValue(n)) \in Byte /\ Lo8(reg.ax) \in Byte
  BY PortWords, RegIsWord, Halves DEF RegName
<1>2. Hi8(PortValue(n)) * 256 + Lo8(reg.ax) \in Word
  BY <1>1, Joined
<1> QED
  BY <1>2, Outs DEF pci_out_byte

LEMMA OutWord ==
  ASSUME Typed, Running, NEW ip, Plain(ip), NEW n \in Word, pci_out_word(ip, n)
  PROVE  StepsOn
<1>1. reg.ax \in Word
  BY RegIsWord DEF RegName
<1> QED
  BY <1>1, Outs DEF pci_out_word

LEMMA PortSteps ==
  ASSUME Typed, ports
  PROVE  StepsOn
<1>1. CASE in_imm
  <2>1. Running /\ opcode \in {228, 229}
    BY <1>1 DEF in_imm, Opcode
  <2>2. Plain(parse_format_imm_8.ip)
    BY <2>1, Imm8Ip
  <2>3. parse_format_imm_8.im \in Word
    BY Format_imm, ByteBounds
  <2> QED
    BY <1>1, <2>1, <2>2, <2>3, InByte, InWord DEF in_imm
<1>2. CASE out_imm
  <2>1. Running /\ opcode \in {230, 231}
    BY <1>2 DEF out_imm, Opcode
  <2>2. Plain(parse_format_imm_8.ip)
    BY <2>1, Imm8Ip
  <2>3. parse_format_imm_8.im \in Word
    BY Format_imm, ByteBounds
  <2> QED
    BY <1>2, <2>1, <2>2, <2>3, OutByte, OutWord DEF out_imm
<1>3. CASE in_aldx
  <2>1. Running /\ opcode = 236
    BY <1>3 DEF in_aldx, Opcode
  <2>2. Plain(ip1)
    BY <2>1, OneIp
  <2> QED
    BY <1>3, <2>1, <2>2, InByte DEF in_aldx
<1>4. CASE in_axdx
  <2>1. Running /\ opcode = 237
    BY <1>4 DEF in_axdx, Opcode
  <2>2. Plain(ip1)
    BY <2>1, OneIp
  <2>3. PICK v : DoneReg([At(ip1) EXCEPT !["ax"] = BitOr(Hi8(At(ip1)["ax"]) * 256, v)])
    BY <1>4 DEF in_axdx
  <2>4. BitOr(Hi8(At(ip1)["ax"]) * 256, v) \in Word
    BY BitOrIsWord
  <2> QED
    BY <2>1, <2>2, <2>3, <2>4, HalvesOfAx, SetsOne
<1>5. CASE out_dx
  <2>1. Running /\ opcode \in {238, 239}
    BY <1>5 DEF out_dx, Opcode
  <2>2. Plain(ip1)
    BY <2>1, OneIp
  <2>3. reg.cx \in Word
    BY RegIsWord DEF RegName
  <2> QED
    BY <1>5, <2>1, <2>2, <2>3, OutByte, OutWord DEF out_dx
<1> QED
  BY <1>1, <1>2, <1>3, <1>4, <1>5 DEF ports

-----------------------------------------------------------------------------
(* The steps of the core *)

\* What is proved of every step that is not the rep prefix or its loop.
handler == move \/ without_rep \/ arithmetic \/ group \/ string \/ ports

LEMMA HandlerSteps ==
  ASSUME Typed, handler
  PROVE  StepsOn
BY MoveSteps, ControlSteps, ArithmeticSteps, GroupSteps, StringSteps, PortSteps DEF handler

LEMMA Steps ==
  ASSUME cpu8086_proc
  PROVE  handler \/ repe \/ rep_again
BY DEF cpu8086_proc, control, without_rep, handler

LEMMA StepsOnKeeps ==
  ASSUME Typed, StepsOn
  PROVE  Typed'
<1>1. CASE Stopped
  BY <1>1 DEF Stopped, Typed, Ends, MemOK, IsMem
<1>2. ASSUME NEW ip, Returned(ip) PROVE Typed'
  <2>1. /\ reg' \in [RegName -> Word] /\ MemOK(mem)' /\ rep' = rep
        /\ port' \in [DOMAIN port' -> Word] /\ DOMAIN port' \subseteq Word
        /\ status' = IF rep = << >> THEN "run" ELSE "again"
    BY <1>2 DEF Returned, After, MemOK, IsMem
  <2> QED
    BY <2>1 DEF Typed
<1> QED
  BY <1>1, <1>2 DEF StepsOn

LEMMA PrefixKeeps ==
  ASSUME Typed, repe
  PROVE  Typed' /\ Plain(ip1) /\ After(reg', ip1)
<1> DEFINE new == [kind |-> IF opcode = 242 THEN "repne" ELSE "repe", ip |-> ip1,
                   from |-> reg.cx, n |-> 0]
<1>1. Running /\ opcode \in {242, 243}
  BY DEF repe, Opcode
<1>2. Plain(ip1)
  BY <1>1, OneIp
<1>3. After(reg', ip1)
  BY <1>2, AtAfter DEF repe, Plain
<1>4. new \in Loop
  BY <1>2, RegIsWord DEF Loop, Plain, RegName
<1>5. rep' = Append(rep, new) /\ reg'.ip = ip1 /\ status' = "run"
  BY <1>1, <1>3 DEF repe, Running, After
<1>6. new.ip = ip1
  OBVIOUS
<1> HIDE DEF new
<1>7. rep' \in Seq(Loop) /\ rep' # << >> /\ rep'[Len(rep')] = new
  BY <1>4, <1>5 DEF Typed
<1>8. MemOK(mem)' /\ UNCHANGED <<mem, port>>
  BY DEF repe, Typed, MemOK, IsMem
<1> QED
  BY <1>2, <1>3, <1>5, <1>6, <1>7, <1>8 DEF Typed, After

LEMMA RoundKeeps ==
  ASSUME Typed, rep_again
  PROVE  Typed'
<1> DEFINE counted == [reg EXCEPT !["cx"] = Wrap(reg["cx"] - 1)]
           loop == rep[Len(rep)]
           outer == SubSeq(rep, 1, Len(rep) - 1)
<1>1. rep # << >> /\ rep \in Seq(Loop) /\ Len(rep) \in Nat \ {0}
  BY DEF rep_again, Typed
<1>2. loop \in Loop
  BY <1>1
<1>3. counted \in [RegName -> Word]
  <2>1. Wrap(reg["cx"] - 1) \in Word
    BY RegIsWord, WrapIsWord DEF RegName
  <2> QED
    BY <2>1 DEF Typed
<1>4. MemOK(mem)' /\ UNCHANGED <<mem, port>>
  BY DEF rep_again, Round, Typed, MemOK, IsMem
<1>5. CASE /\ reg' = [counted EXCEPT !.ip = loop.ip] /\ status' = "run"
           /\ rep' = [rep EXCEPT ![Len(rep)].n = IF @ < MaxRounds THEN @ + 1 ELSE @]
  <2> DEFINE k == IF loop.n < MaxRounds THEN loop.n + 1 ELSE loop.n
             next == [loop EXCEPT !.n = k]
  <2>1. loop.ip \in Word /\ loop.n \in Nat
    BY <1>2 DEF Loop
  <2> HIDE DEF loop
  <2>2. k \in Nat
    BY <2>1
  <2> HIDE DEF k
  <2>3. next \in Loop /\ next.ip = loop.ip
    BY <1>2, <2>2 DEF Loop
  <2>4. rep' = [rep EXCEPT ![Len(rep)] = next]
    BY <1>5 DEF k, loop
  <2> HIDE DEF next
  <2>5. rep' \in Seq(Loop) /\ Len(rep') = Len(rep) /\ rep'[Len(rep')] = next
    BY <1>1, <2>3, <2>4
  <2>6. reg' \in [RegName -> Word] /\ reg'.ip = loop.ip
    <3> HIDE DEF counted
    <3> QED
      BY <1>3, <1>5, <2>1 DEF RegName
  <2> QED
    BY <1>1, <1>4, <1>5, <2>3, <2>5, <2>6 DEF Typed
<1>6. CASE /\ reg' = counted /\ rep' = outer
           /\ status' = IF outer = << >> THEN "run" ELSE "again"
  <2>1. outer \in Seq(Loop)
    BY <1>1
  <2> HIDE DEF counted, outer
  <2> QED
    BY <1>3, <1>4, <1>6, <2>1 DEF Typed
<1> QED
  BY <1>5, <1>6 DEF rep_again, Round

LEMMA TypedNext ==
  ASSUME Typed, [Next]_vars
  PROVE  Typed'
<1>1. CASE UNCHANGED vars
  BY <1>1 DEF vars, Typed, MemOK, IsMem
<1>2. CASE cpu8086_proc
  BY <1>2, Steps, HandlerSteps, StepsOnKeeps, PrefixKeeps, RoundKeeps
<1> QED
  BY <1>1, <1>2 DEF Next, Ended

\* The disk image fits into the memory from 0x7c00 on (the sizes the
\* configuration allows are far below).
ProgramsFit == \A p \in Programs : MbrLo + Len(p) =< MemSize

LEMMA TypedInit ==
  ASSUME Init, ProgramsFit
  PROVE  Typed
<1>1. PICK p \in Programs : mem = loadhd(p)
  BY DEF Init
<1>2. p \in Seq(Byte) /\ Len(p) \in Nat /\ MbrLo + Len(p) =< MemSize
  BY ProgramAssumption DEF ProgramsFit
<1>3. MemOK(mem)
  <2> DEFINE c == [a \in MbrLo .. MbrLo + Len(p) - 1 |-> p[a - MbrLo + 1]]
  <2>1. MbrLo \in Nat /\ MemSize \in Nat
    BY SizeIsNat DEF MbrLo
  <2>2. mem = [cell |-> c, x |-> 0, y |-> 0, wire |-> << >>, wild |-> FALSE]
    BY <1>1 DEF loadhd, vm_init
  <2>3. DOMAIN c \subseteq 0 .. MemSize - 1
    BY <1>2, <2>1
  <2>4. c \in [DOMAIN c -> Byte]
    <3>1. \A a \in MbrLo .. MbrLo + Len(p) - 1 : a - MbrLo + 1 \in 1 .. Len(p)
      BY <1>2, <2>1
    <3> QED
      BY <1>2, <3>1
  <2> HIDE DEF c
  <2>5. IsMem(mem) /\ DOMAIN mem.cell \subseteq 0 .. MemSize - 1
    BY <2>2, <2>3, <2>4 DEF IsMem
  <2>6. mem.x \in Column /\ mem.y \in Byte
    BY <2>2, WidthAssumption DEF Column, Byte
  <2>7. mem.wire \in Seq(Command)
    BY <2>2
  <2> QED
    BY <2>5, <2>6, <2>7 DEF MemOK
<1>4. cpu8086_init \in [RegName -> Word]
  BY IsWord DEF cpu8086_init
<1> QED
  BY <1>3, <1>4 DEF Init, Typed


LEMMA Inductive ==
  ASSUME ProgramsFit
  PROVE  Spec => []Typed
<1>1. Init => Typed
  BY TypedInit
<1>2. Typed /\ [Next]_vars => Typed'
  BY TypedNext
<1> QED
  BY <1>1, <1>2, PTL DEF Spec

-----------------------------------------------------------------------------
(* The theorems *)

\* Whatever the program is, the registers and the ports hold 16-bit values and
\* the memory bytes, at addresses of struct vm_mem only: no handler computes
\* past the width of its operand or stores outside the struct.
THEOREM TypeCorrect ==
  ASSUME ProgramsFit
  PROVE  Spec => []TypeOK
<1>1. Typed => TypeOK
  <2> SUFFICES ASSUME Typed PROVE TypeOK
    OBVIOUS
  <2>1. \A i \in DOMAIN rep : rep[i].kind \in {"repe", "repne"} /\ rep[i].ip \in Word
    <3>1. rep \in Seq(Loop)
      BY DEF Typed
    <3>2. \A i \in DOMAIN rep : rep[i] \in Loop
      BY <3>1
    <3>3. \A l \in Loop : l.kind \in {"repe", "repne"} /\ l.ip \in Word
      BY DEF Loop
    <3> QED
      BY <3>2, <3>3
  <2>2. mem.cell \in [DOMAIN mem.cell -> Byte] /\ DOMAIN mem.cell \subseteq 0 .. MemSize - 1
    BY DEF Typed, MemOK, IsMem
  <2> QED
    BY <2>1, <2>2 DEF Typed, TypeOK, Ends
<1> QED
  BY <1>1, Inductive, PTL

\* Whatever the program is, every instruction but the jumps and those given a
\* format of another length leaves ip after itself, as the encoding of the 8086
\* has it: the format the table gives an opcode has its length.
THEOREM InstructionsAreDecoded ==
  ASSUME ProgramsFit
  PROVE  Spec => DecodesInstructions
<1> DEFINE S == (0 .. 255) \ (Jumps \cup DirectAddress \cup {131})
<1>1. ASSUME Typed, cpu8086_proc, status = "run", opcode \in S, status' \in {"run", "again"}
      PROVE  reg'.ip = Wrap(reg.ip + Length(opcode))
  <2>1. opcode \notin Exempt
    BY <1>1 DEF Exempt
  <2>2. CASE handler
    <3>1. ~Stopped
      BY <1>1 DEF Stopped, Ends
    <3>2. PICK ip : Plain(ip) /\ Returned(ip)
      BY <1>1, <2>2, <3>1, HandlerSteps DEF StepsOn
    <3> QED
      BY <2>1, <3>2 DEF Plain, Returned, After, NextInstruction
  <2>3. CASE repe
    BY <1>1, <2>1, <2>3, PrefixKeeps DEF Plain, After, NextInstruction
  <2>4. CASE rep_again
    BY <1>1, <2>4 DEF rep_again, Round
  <2> QED
    BY <1>1, <2>2, <2>3, <2>4, Steps
<1>2. ASSUME Typed, [Next]_vars
      PROVE  [Consumes(S)]_vars
  <2> HIDE DEF S
  <2>1. CASE cpu8086_proc
    BY <1>1, <1>2, <2>1 DEF Consumes
  <2>2. CASE UNCHANGED vars
    BY <2>2
  <2> QED
    BY <1>2, <2>1, <2>2 DEF Next, Ended
<1>3. Typed /\ [Next]_vars => [Consumes(S)]_vars
  BY <1>2
<1> QED
  BY <1>3, Inductive, PTL DEF Spec, DecodesInstructions

\* The eight bits of a short jump's target that parse_format_ipinc_8 keeps are
\* the target, or ip is after the instruction, as long as both are in the first
\* 256 bytes of the segment.
THEOREM ShortJumpsArrive ==
  ASSUME ProgramsFit
  PROVE  Spec => LoopJumpsInFirstPage
<1>1. ASSUME Typed, reg.ip < 254, ShortTarget < 256
      PROVE  parse_format_ipinc_8.offset = ShortTarget
  <2> DEFINE b == Byte1(ip1)
             t == reg.ip + 2 + Signed8(b)
  <2>1. reg.ip \in Nat /\ b \in Nat /\ b =< 255
    <3>1. b \in Byte
      BY <1>1, Fetched
    <3> HIDE DEF b
    <3> QED
      BY <1>1, <3>1, NextIp, ByteBounds
  <2>2. ip1 = reg.ip + 1
    BY <1>1, <2>1, NextIp DEF Wrap
  <2>3. Lo8(ip1 + 1) = reg.ip + 2
    BY <1>1, <2>1, <2>2 DEF Lo8
  <2>4. parse_format_ipinc_8.offset = (reg.ip + 2 + b) % 256
    BY <2>3 DEF parse_format_ipinc_8
  <2>5. ShortTarget = t % 65536
    BY DEF ShortTarget, Wrap
  <2> HIDE DEF b
  <2>6. t \in Int /\ -128 =< t /\ t =< 383 /\ (t = reg.ip + 2 + b \/ t = reg.ip + 2 + b - 256)
    BY <1>1, <2>1 DEF Signed8
  <2> HIDE DEF t
  <2>7. 0 =< t /\ t < 256 /\ ShortTarget = t
    BY <1>1, <2>5, <2>6
  <2> QED
    BY <2>1, <2>4, <2>6, <2>7
<1> DEFINE Arrives == (reg.ip < 254 /\ ShortTarget < 256) => JumpsToTarget(ShortJumps)
<1>2. ASSUME Typed, cpu8086_proc
      PROVE  Arrives
  <2> SUFFICES ASSUME reg.ip < 254, ShortTarget < 256, status = "run", opcode \in ShortJumps,
                      status' \in {"run", "again"}
               PROVE  reg'.ip \in {ShortTarget, Wrap(reg.ip + 2)}
    BY DEF JumpsToTarget
  <2>1. CASE handler
    <3>1. ~Stopped
      BY DEF Stopped, Ends
    <3>2. PICK ip : Plain(ip) /\ Returned(ip)
      BY <1>2, <2>1, <3>1, HandlerSteps DEF StepsOn
    <3>3. ip \in {parse_format_ipinc_8.offset, Wrap(reg.ip + 2)} /\ reg'.ip = ip
      BY <3>2 DEF Plain, Returned, After
    <3> QED
      BY <1>1, <1>2, <3>3
  <2>2. CASE repe
    BY <2>2 DEF repe, Opcode, ShortJumps
  <2>3. CASE rep_again
    BY <2>3 DEF rep_again, Round
  <2> QED
    BY <1>2, <2>1, <2>2, <2>3, Steps
<1>3. ASSUME Typed, [Next]_vars
      PROVE  [Arrives]_vars
  <2>1. CASE cpu8086_proc
    BY <1>2, <1>3, <2>1
  <2> HIDE DEF Arrives
  <2>2. CASE UNCHANGED vars
    BY <2>2
  <2> QED
    BY <1>3, <2>1, <2>2 DEF Next, Ended
<1>4. Typed /\ [Next]_vars => [Arrives]_vars
  BY <1>3
<1> QED
  BY <1>4, Inductive, PTL DEF Spec, LoopJumpsInFirstPage

\* Whatever instruction a repne loop repeats, popf and sahf apart, it does not
\* end once ZF is clear: no handler keeps the flags it computes.
THEOREM RepneIgnoresCx ==
  ASSUME ProgramsFit
  PROVE  Spec => RepneOutlivesCx
<1>1. ASSUME Typed, reg'.flags = reg.flags
      PROVE  ZF' = ZF
  BY <1>1 DEF ZF, Masked
<1>2. ASSUME Typed, cpu8086_proc
      PROVE  RepneStays
  <2> SUFFICES ASSUME rep # << >>, rep[Len(rep)].kind = "repne", ZF = 0,
                      status = "run" => Byte1(rep[Len(rep)].ip) \notin SetsFlags
               PROVE  Len(rep') >= Len(rep) /\ ZF' = 0
    BY DEF RepneStays, SetsFlags
  <2>1. rep \in Seq(Loop) /\ Len(rep) \in Nat \ {0}
    BY <1>2 DEF Typed
  <2>2. status = "run" => opcode \notin SetsFlags
    BY <1>2 DEF Typed, opcode
  <2>3. CASE handler
    <3>1. StepsOn
      BY <1>2, <2>3, HandlerSteps
    <3>2. CASE Stopped
      BY <1>1, <1>2, <2>1, <3>2 DEF Stopped
    <3>3. CASE \E ip : Plain(ip) /\ Returned(ip)
      <4>1. reg'.flags = reg.flags /\ rep' = rep
        BY <2>2, <3>3 DEF Returned, After
      <4> QED
        BY <1>1, <1>2, <2>1, <4>1
    <3> QED
      BY <3>1, <3>2, <3>3 DEF StepsOn
  <2>4. CASE repe
    <3>1. reg'.flags = reg.flags
      BY <1>2, <2>2, <2>4, PrefixKeeps DEF After, repe, Opcode, Running
    <3>2. Len(rep') = Len(rep) + 1
      BY <2>1, <2>4 DEF repe
    <3> QED
      BY <1>1, <1>2, <2>1, <3>1, <3>2
  <2>5. CASE rep_again
    <3>1. ZFGoesOn
      BY DEF ZFGoesOn
    <3>2. /\ reg' = [[reg EXCEPT !.cx = Wrap(@ - 1)] EXCEPT !.ip = rep[Len(rep)].ip]
          /\ rep' = [rep EXCEPT ![Len(rep)].n = IF @ < MaxRounds THEN @ + 1 ELSE @]
      BY <2>5, <3>1 DEF rep_again, Round
    <3>3. Len(rep') = Len(rep)
      BY <2>1, <3>2
    <3>4. reg'.flags = reg.flags
      BY <1>2, <3>2 DEF Typed, RegName
    <3> QED
      BY <1>1, <1>2, <2>1, <3>3, <3>4
  <2> QED
    BY <1>2, <2>3, <2>4, <2>5, Steps
<1>3. ASSUME Typed, [Next]_vars
      PROVE  [RepneStays]_vars
  <2>1. CASE cpu8086_proc
    BY <1>2, <1>3, <2>1
  <2>2. CASE UNCHANGED vars
    BY <2>2
  <2> QED
    BY <1>3, <2>1, <2>2 DEF Next, Ended
<1>4. Typed /\ [Next]_vars => [RepneStays]_vars
  BY <1>3
<1> QED
  BY <1>4, Inductive, PTL DEF Spec, RepneOutlivesCx
=============================================================================
