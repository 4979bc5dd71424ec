------------------------------ MODULE Alu8086 ------------------------------
(***************************************************************************)
(* What the arithmetic instructions do on the 8086, decoded in one uniform  *)
(* way from the bits of the opcode and stated as relations between operands *)
(* and result, and where the handlers of CpuArith and CpuGroup that go on   *)
(* agree with it.                                                           *)
(***************************************************************************)
EXTENDS Cpu

GoesOn(op) == status = "run" /\ opcode \in op /\ status' \in {"run", "again"}

\* Bit 0 of the opcode is the width.  A byte register is coded like in the
\* reg field, also as r/m operand.
Wide == opcode % 2 = 1
Modulus == IF Wide THEN 65536 ELSE 256
Weights == {2^k : k \in 0 .. IF Wide THEN 15 ELSE 7}
Register(i) == IF Wide THEN Reg16(i) ELSE Reg8(i)
RmOperand == Rm(Register(RmField))
Before(o) == IF Wide THEN Value16(o) ELSE Value8(o)

\* A word in memory is stored where vm_write_word puts it (see Mem).
Stored(o) ==
  IF o.type = "addr"
    THEN IF Wide THEN LET t == StoreCell(o.addr) IN Peek(mem', t) + 256 * Peek(mem', t + 1)
                 ELSE Peek(mem', o.addr)
    ELSE IF Wide THEN reg'[o.name] ELSE RegByte(reg', o)
CanHold(o) ==
  o.type = "addr" => IF Wide THEN WordBacked(o.addr) /\ StoreCell(o.addr) + 1 < MemSize
                             ELSE ByteBacked(o.addr)

\* Nothing but the operand, ip and the registers named changes.
Keeps(o, names) ==
  /\ \A r \in RegName \ ({"ip"} \cup names) :
       (o.type = "addr" \/ r # o.name) => reg'[r] = reg[r]
  /\ o.type # "addr" => mem' = mem
KeepsAll == reg' = [reg EXCEPT !.ip = reg'.ip] /\ mem' = mem

-----------------------------------------------------------------------------
(* Two operands: 00ooo0dw mod reg r/m, 00ooo10w imm, 100000xw mod ooo r/m imm *)

TwoOperands == {op \in 0 .. 63 : op % 8 < 6} \cup 128 .. 131
Which == IF opcode < 128 THEN opcode \div 8 ELSE RegField
Destination ==
  IF opcode >= 128 \/ opcode % 8 < 2 THEN RmOperand
  ELSE IF opcode % 8 < 4 THEN Register(RegField) ELSE Register(0)
SourceValue ==
  LET Value(ip) == IF Wide THEN Word1(ip) ELSE Byte1(ip)
  IN  IF opcode >= 128 THEN Value(ip2)
      ELSE IF opcode % 8 < 2 THEN Before(Register(RegField))
      ELSE IF opcode % 8 < 4 THEN Before(RmOperand) ELSE Value(ip1)

\* result is d op s.
Computes(i, d, s, result) ==
  CASE i = 0 -> (result - d - s) % Modulus = 0
    [] i = 1 -> \A w \in Weights : Bit(result, w) = 1 <=> Bit(d, w) = 1 \/ Bit(s, w) = 1
    [] i = 2 -> (result - d - s - CF) % Modulus = 0
    [] i = 3 -> (result + s + CF - d) % Modulus = 0
    [] i = 4 -> \A w \in Weights : Bit(result, w) = 1 <=> Bit(d, w) = 1 /\ Bit(s, w) = 1
    [] i = 5 -> (result + s - d) % Modulus = 0
    [] i = 6 -> \A w \in Weights : Bit(result, w) = 1 <=> Bit(d, w) # Bit(s, w)

\* Where the handlers part from the 8086: add between word registers and xor
\* into a byte register lose operand or result, the r/m byte registers ah, ch,
\* dh and bh are the low bytes of sp, bp, si and di, and 0x83 reads a word.
WrongByte == RegisterForm /\ ~Wide /\ RmField >= 4
Departs ==
  \/ RegisterForm /\ opcode \in {1, 3, 48}
  \/ WrongByte /\ opcode % 8 \in {0, 2}
  \/ opcode = 131

\* Each of the 48 handlers and the immediate tables that goes on has computed
\* its operation, in the direction and width of its opcode, and stored it in
\* the destination alone.  In particular sbb, whose table branch reads CF
\* through an uninitialized pointer, and or, which takes registers for
\* addresses, do not go on where they could be wrong.
ArithmeticIs8086 ==
  [][(GoesOn(TwoOperands) /\ ~Departs /\ CanHold(Destination)) =>
       IF Which = 7 THEN KeepsAll     \* cmp
       ELSE /\ Computes(Which, Before(Destination), SourceValue, Stored(Destination))
            /\ Keeps(Destination, {})]_vars

-----------------------------------------------------------------------------
(* One operand: 1111011w mod ooo r/m and 11111110 mod ooo r/m *)

\* dx:ax = quotient * s + remainder, by bytes.
IsQuotient(s) ==
  LET high == Hi8(reg'.ax) * s
      low  == Lo8(reg'.ax) * s + reg'.dx
  IN  /\ reg'.dx < s
      /\ low % 256 = Lo8(reg.ax)
      /\ high + (low \div 256) = 256 * reg.dx + Hi8(reg.ax)

\* The operand's low address byte decides whether these tables go on at all
\* (for a register, the place of the core in the program); where they do, test,
\* not, neg, inc, dec, the byte mul and the word div (if the quotient is a
\* word) have the result of the 8086.
UnaryIs8086 ==
  [][(GoesOn({246, 247, 254}) /\ ~WrongByte) =>
       LET o == RmOperand
           v == Before(o)
       IN  CASE opcode # 254 /\ RegField = 0 -> KeepsAll
             [] opcode # 254 /\ RegField = 2 /\ CanHold(o) -> Stored(o) = Modulus - 1 - v /\ Keeps(o, {})
             [] opcode # 254 /\ RegField = 3 /\ CanHold(o) -> (Stored(o) + v) % Modulus = 0 /\ Keeps(o, {})
             [] opcode = 246 /\ RegField = 4 -> reg'.ax = al * v
             [] opcode = 247 /\ RegField = 6 /\ reg.dx < v -> IsQuotient(v)
             [] opcode = 254 /\ RegField = 0 /\ CanHold(o) -> (Stored(o) - v) % Modulus = 1 /\ Keeps(o, {})
             [] opcode = 254 /\ RegField = 1 /\ CanHold(o) -> (v - Stored(o)) % Modulus = 1 /\ Keeps(o, {})
             [] OTHER -> TRUE]_vars
=============================================================================
