----------------------------- MODULE Alu_proof -----------------------------
(***************************************************************************)
(* For every program: the arithmetic instructions compute what the 8086     *)
(* computes.  The argument goes from the handlers to the uniform decoding of *)
(* Alu8086: which handler an opcode reaches, what the formats deliver for    *)
(* its operands, what the operators compute, and what a store leaves behind. *)
(***************************************************************************)
EXTENDS Alu8086, Cpu_proof

-----------------------------------------------------------------------------
(* Bit by bit *)

\* The word whose bits are the values of f.
BitSum(f) ==
  f[1] + 2 * f[2] + 4 * f[4] + 8 * f[8] + 16 * f[16] + 32 * f[32] + 64 * f[64]
    + 128 * f[128] + 256 * f[256] + 512 * f[512] + 1024 * f[1024] + 2048 * f[2048]
    + 4096 * f[4096] + 8192 * f[8192] + 16384 * f[16384] + 32768 * f[32768]

ByteWeights == {1, 2, 4, 8, 16, 32, 64, 128}
WordWeights == ByteWeights \cup {256, 512, 1024, 2048, 4096, 8192, 16384, 32768}
Bits == [Nat -> {0, 1}]


\* Four bits and the rest.
Four(a, b, c, d, r) == a + 2 * b + 4 * c + 8 * d + 16 * r
Splits(q, a, b, c, d, r) ==
  /\ q \in Nat /\ q =< 16 * r + 15 /\ q \div 16 = r
  /\ q % 2 = a /\ (q \div 2) % 2 = b /\ (q \div 4) % 2 = c /\ (q \div 8) % 2 = d

LEMMA FourBits ==
  ASSUME NEW a \in {0, 1}, NEW b \in {0, 1}, NEW c \in {0, 1}, NEW d \in {0, 1}, NEW r \in Nat
  PROVE  Splits(Four(a, b, c, d, r), a, b, c, d, r)
<1> DEFINE q == a + 2 * b + 4 * c + 8 * d + 16 * r
<1>1. q \in Nat /\ q =< 16 * r + 15
  OBVIOUS
<1>2. q % 2 = a /\ (q \div 2) % 2 = b
  OBVIOUS
<1>3. (q \div 4) % 2 = c /\ (q \div 8) % 2 = d
  OBVIOUS
<1>4. q \div 16 = r
  OBVIOUS
<1> QED
  BY <1>1, <1>2, <1>3, <1>4 DEF Four, Splits

\* Dividing by a power of two in two steps.
LEMMA DivideTwice ==
  ASSUME NEW n \in Nat
  PROVE  /\ n \div 32 = (n \div 16) \div 2 /\ n \div 64 = (n \div 16) \div 4
         /\ n \div 128 = (n \div 16) \div 8 /\ n \div 256 = (n \div 16) \div 16
         /\ n \div 512 = (n \div 256) \div 2 /\ n \div 1024 = (n \div 256) \div 4
         /\ n \div 2048 = (n \div 256) \div 8 /\ n \div 4096 = (n \div 256) \div 16
         /\ n \div 8192 = (n \div 4096) \div 2 /\ n \div 16384 = (n \div 4096) \div 4
         /\ n \div 32768 = (n \div 4096) \div 8
<1>1. /\ n \div 32 = (n \div 16) \div 2 /\ n \div 64 = (n \div 16) \div 4
      /\ n \div 128 = (n \div 16) \div 8 /\ n \div 256 = (n \div 16) \div 16
  OBVIOUS
<1>2. /\ n \div 512 = (n \div 256) \div 2 /\ n \div 1024 = (n \div 256) \div 4
      /\ n \div 2048 = (n \div 256) \div 8 /\ n \div 4096 = (n \div 256) \div 16
  OBVIOUS
<1>3. /\ n \div 8192 = (n \div 4096) \div 2 /\ n \div 16384 = (n \div 4096) \div 4
      /\ n \div 32768 = (n \div 4096) \div 8
  OBVIOUS
<1> QED
  BY <1>1, <1>2, <1>3

LEMMA SumOfBits ==
  ASSUME NEW f \in Bits
  PROVE  BitSum(f) \in Word /\ \A w \in WordWeights : Bit(BitSum(f), w) = f[w]
<1> DEFINE r3 == Four(f[4096], f[8192], f[16384], f[32768], 0)
           r2 == Four(f[256], f[512], f[1024], f[2048], r3)
           r1 == Four(f[16], f[32], f[64], f[128], r2)
           n == Four(f[1], f[2], f[4], f[8], r1)
<1>1. f \in [Nat -> Int]
  BY DEF Bits
<1>2. BitSum(f) = n
  BY <1>1, SMT DEF BitSum, Four
<1>3. Splits(r3, f[4096], f[8192], f[16384], f[32768], 0) /\ r3 \in Nat
  <2>1. f[4096] \in {0, 1} /\ f[8192] \in {0, 1} /\ f[16384] \in {0, 1} /\ f[32768] \in {0, 1}
    BY DEF Bits
  <2>2. 0 \in Nat
    OBVIOUS
  <2>3. Splits(r3, f[4096], f[8192], f[16384], f[32768], 0)
    BY <2>1, <2>2, FourBits, SMT
  <2> QED
    BY <2>3 DEF Splits
<1> HIDE DEF r3
<1>4. Splits(r2, f[256], f[512], f[1024], f[2048], r3) /\ r2 \in Nat
  <2>1. f[256] \in {0, 1} /\ f[512] \in {0, 1} /\ f[1024] \in {0, 1} /\ f[2048] \in {0, 1}
    BY DEF Bits
  <2>2. Splits(r2, f[256], f[512], f[1024], f[2048], r3)
    BY <1>3, <2>1, FourBits, SMT
  <2> QED
    BY <2>2 DEF Splits
<1> HIDE DEF r2
<1>5. Splits(r1, f[16], f[32], f[64], f[128], r2) /\ r1 \in Nat
  <2>1. f[16] \in {0, 1} /\ f[32] \in {0, 1} /\ f[64] \in {0, 1} /\ f[128] \in {0, 1}
    BY DEF Bits
  <2>2. Splits(r1, f[16], f[32], f[64], f[128], r2)
    BY <1>4, <2>1, FourBits, SMT
  <2> QED
    BY <2>2 DEF Splits
<1> HIDE DEF r1
<1>6. Splits(n, f[1], f[2], f[4], f[8], r1) /\ n \in Nat
  <2>1. f[1] \in {0, 1} /\ f[2] \in {0, 1} /\ f[4] \in {0, 1} /\ f[8] \in {0, 1}
    BY DEF Bits
  <2>2. Splits(n, f[1], f[2], f[4], f[8], r1)
    BY <1>5, <2>1, FourBits, SMT
  <2> QED
    BY <2>2 DEF Splits
<1> HIDE DEF n
<1>7. n \div 256 = r2 /\ n \div 4096 = r3 /\ n \div 1 = n
  BY <1>4, <1>5, <1>6, DivideTwice DEF Splits
<1>8. Bit(n, 1) = f[1] /\ Bit(n, 2) = f[2] /\ Bit(n, 4) = f[4] /\ Bit(n, 8) = f[8]
  BY <1>6, <1>7 DEF Bit, Splits
<1>9. Bit(n, 16) = f[16] /\ Bit(n, 32) = f[32] /\ Bit(n, 64) = f[64] /\ Bit(n, 128) = f[128]
  BY <1>5, <1>6, <1>7, DivideTwice DEF Bit, Splits
<1>10. /\ Bit(n, 256) = f[256] /\ Bit(n, 512) = f[512] /\ Bit(n, 1024) = f[1024]
       /\ Bit(n, 2048) = f[2048]
  <2>1. /\ n \div 512 = r2 \div 2 /\ n \div 1024 = r2 \div 4 /\ n \div 2048 = r2 \div 8
    BY <1>6, <1>7, DivideTwice DEF Splits
  <2> QED
    BY <1>4, <1>7, <2>1 DEF Bit, Splits
<1>11. /\ Bit(n, 4096) = f[4096] /\ Bit(n, 8192) = f[8192] /\ Bit(n, 16384) = f[16384]
       /\ Bit(n, 32768) = f[32768]
  BY <1>3, <1>6, <1>7, DivideTwice DEF Bit, Splits
<1>12. n \in Word
  BY <1>3, <1>4, <1>5, <1>6, IsWord DEF Splits
<1> QED
  BY <1>2, <1>8, <1>9, <1>10, <1>11, <1>12 DEF WordWeights, ByteWeights

\* The low byte has the low bits.
LEMMA BitsOfLowByte ==
  ASSUME NEW n \in Nat, NEW w \in ByteWeights
  PROVE  Bit(n % 256, w) = Bit(n, w)
<1> DEFINE q == n \div 256
           l == n % 256
<1>1. q \in Nat /\ l \in Nat /\ n = l + 256 * q
  OBVIOUS
<1> HIDE DEF q, l
<1>2. /\ (l \div 1) % 2 = (n \div 1) % 2 /\ (l \div 2) % 2 = (n \div 2) % 2
      /\ (l \div 4) % 2 = (n \div 4) % 2
  BY <1>1
<1>3. (l \div 8) % 2 = (n \div 8) % 2
  BY <1>1
<1>4. (l \div 16) % 2 = (n \div 16) % 2
  BY <1>1
<1>5. (l \div 32) % 2 = (n \div 32) % 2
  BY <1>1
<1>6. (l \div 64) % 2 = (n \div 64) % 2
  BY <1>1
<1>7. (l \div 128) % 2 = (n \div 128) % 2
  BY <1>1
<1>8. Bit(l, w) = Bit(n, w)
  BY <1>2, <1>3, <1>4, <1>5, <1>6, <1>7 DEF ByteWeights, Bit
<1> QED
  BY <1>8 DEF l

LEMMA BitIsZeroOrOne ==
  ASSUME NEW n \in Nat, NEW w \in WordWeights
  PROVE  Bit(n, w) \in {0, 1}
<1>1. w \in Nat \ {0}
  BY DEF WordWeights, ByteWeights
<1>2. n \div w \in Nat
  BY <1>1, DivIsInt
<1> DEFINE q == n \div w
<1> HIDE DEF q
<1>3. q % 2 \in {0, 1}
  BY <1>2 DEF q
<1> QED
  BY <1>3 DEF Bit, q

\* The bitwise operators, bit by bit.
Ands(r, m, n) == \A w \in WordWeights : Bit(r, w) = 1 <=> Bit(m, w) = 1 /\ Bit(n, w) = 1
Ors(r, m, n)  == \A w \in WordWeights : Bit(r, w) = 1 <=> Bit(m, w) = 1 \/ Bit(n, w) = 1
Xors(r, m, n) == \A w \in WordWeights : Bit(r, w) = 1 <=> Bit(m, w) # Bit(n, w)

LEMMA BitAndIsAnd ==
  ASSUME NEW m \in Nat, NEW n \in Nat
  PROVE  BitAnd(m, n) \in Word /\ Ands(BitAnd(m, n), m, n)
<1> DEFINE f == [w \in Nat |-> IF Bit(m, w) + Bit(n, w) = 2 THEN 1 ELSE 0]
<1>1. f \in Bits
  BY DEF Bits
<1>2. BitAnd(m, n) = BitSum(f)
  BY SMT DEF BitAnd, FromBits, BitSum
<1>3. \A w \in WordWeights : f[w] = 1 <=> Bit(m, w) = 1 /\ Bit(n, w) = 1
  <2>1. \A w \in WordWeights : w \in Nat
    BY DEF WordWeights, ByteWeights
  <2> QED
    BY <2>1, BitIsZeroOrOne
<1> HIDE DEF f
<1> QED
  BY <1>1, <1>2, <1>3, SumOfBits DEF Ands

LEMMA BitOrIsOr ==
  ASSUME NEW m \in Nat, NEW n \in Nat
  PROVE  BitOr(m, n) \in Word /\ Ors(BitOr(m, n), m, n)
<1> DEFINE f == [w \in Nat |-> IF Bit(m, w) + Bit(n, w) > 0 THEN 1 ELSE 0]
<1>1. f \in Bits
  BY DEF Bits
<1>2. BitOr(m, n) = BitSum(f)
  BY SMT DEF BitOr, FromBits, BitSum
<1>3. \A w \in WordWeights : f[w] = 1 <=> Bit(m, w) = 1 \/ Bit(n, w) = 1
  <2>1. \A w \in WordWeights : w \in Nat
    BY DEF WordWeights, ByteWeights
  <2> QED
    BY <2>1, BitIsZeroOrOne
<1> HIDE DEF f
<1> QED
  BY <1>1, <1>2, <1>3, SumOfBits DEF Ors

LEMMA BitXorIsXor ==
  ASSUME NEW m \in Nat, NEW n \in Nat
  PROVE  BitXor(m, n) \in Word /\ Xors(BitXor(m, n), m, n)
<1> DEFINE f == [w \in Nat |-> IF Bit(m, w) # Bit(n, w) THEN 1 ELSE 0]
<1>1. f \in Bits
  BY DEF Bits
<1>2. BitXor(m, n) = BitSum(f)
  BY SMT DEF BitXor, FromBits, BitSum
<1>3. \A w \in WordWeights : f[w] = 1 <=> Bit(m, w) # Bit(n, w)
  <2>1. \A w \in WordWeights : w \in Nat
    BY DEF WordWeights, ByteWeights
  <2> QED
    BY <2>1, BitIsZeroOrOne
<1> HIDE DEF f
<1> QED
  BY <1>1, <1>2, <1>3, SumOfBits DEF Xors

LEMMA WeightsAre ==
  Weights \subseteq IF Wide THEN WordWeights ELSE ByteWeights
<1> DEFINE p(k) == 2^k
<1>1. /\ p(0) = 1 /\ p(1) = 2 /\ p(2) = 4 /\ p(3) = 8 /\ p(4) = 16 /\ p(5) = 32 /\ p(6) = 64
      /\ p(7) = 128
  OBVIOUS
<1>2. /\ p(8) = 256 /\ p(9) = 512 /\ p(10) = 1024 /\ p(11) = 2048 /\ p(12) = 4096
      /\ p(13) = 8192 /\ p(14) = 16384 /\ p(15) = 32768
  OBVIOUS
<1>3. Weights = {p(k) : k \in 0 .. IF Wide THEN 15 ELSE 7}
  BY DEF Weights
<1> HIDE DEF p
<1>4. \A k \in 0 .. 7 : p(k) \in ByteWeights
  <2> TAKE k \in 0 .. 7
  <2>1. k = 0 \/ k = 1 \/ k = 2 \/ k = 3 \/ k = 4 \/ k = 5 \/ k = 6 \/ k = 7
    OBVIOUS
  <2> QED
    BY <1>1, <2>1 DEF ByteWeights
<1>5. \A k \in 8 .. 15 : p(k) \in WordWeights
  <2> TAKE k \in 8 .. 15
  <2>1. k = 8 \/ k = 9 \/ k = 10 \/ k = 11 \/ k = 12 \/ k = 13 \/ k = 14 \/ k = 15
    OBVIOUS
  <2> QED
    BY <1>2, <2>1, SMT DEF WordWeights
<1>6. \A k \in 0 .. 15 : k \in 0 .. 7 \/ k \in 8 .. 15
  OBVIOUS
<1>7. ByteWeights \subseteq WordWeights
  BY DEF WordWeights
<1> QED
  BY <1>3, <1>4, <1>5, <1>6, <1>7

-----------------------------------------------------------------------------
(* The operators compute the operations *)

LEMMA CutOff ==
  ASSUME NEW n \in Int
  PROVE  /\ n % 256 \in Int /\ ((n % 256) - n) % 256 = 0
         /\ n % 65536 \in Int /\ ((n % 65536) - n) % 65536 = 0
OBVIOUS

LEMMA OperationComputes ==
  ASSUME Typed, NEW i \in 0 .. 6, NEW d \in Word, NEW s \in Word
  PROVE  Computes(i, d, s, Operation(i, d, s) % Modulus)
<1>1. d \in Nat /\ s \in Nat /\ CF \in Int
  BY WordBounds, CarryIsBit
<1>2. Weights \subseteq WordWeights
  BY WeightsAre DEF WordWeights
<1>3. \A n \in Word, w \in Weights : Bit(n % Modulus, w) = Bit(n, w)
  <2> SUFFICES ASSUME NEW n \in Word, NEW w \in Weights PROVE Bit(n % Modulus, w) = Bit(n, w)
    OBVIOUS
  <2>1. n \in Nat /\ n % 65536 = n
    BY WordBounds, WordIsWrapped DEF Wrap
  <2>2. CASE Wide
    BY <2>1, <2>2 DEF Modulus
  <2>3. CASE ~Wide
    BY <2>1, <2>3, WeightsAre, BitsOfLowByte DEF Modulus
  <2> QED
    BY <2>2, <2>3
<1>4. \A n \in Int : n % Modulus \in Int /\ ((n % Modulus) - n) % Modulus = 0
  BY CutOff DEF Modulus
<1>5. CASE i = 0
  <2>1. Operation(i, d, s) = d + s
    BY <1>5 DEF Operation
  <2>2. (((d + s) % Modulus) - (d + s)) % Modulus = 0 /\ (d + s) % Modulus \in Int
    BY <1>1, <1>4
  <2>3. (((d + s) % Modulus) - d - s) % Modulus = 0
    BY <1>1, <2>2
  <2> QED
    BY <1>5, <2>1, <2>3 DEF Computes
<1>6. CASE i = 1
  <2>1. Operation(i, d, s) = BitOr(d, s)
    BY <1>6 DEF Operation
  <2>2. BitOr(d, s) \in Word /\ Ors(BitOr(d, s), d, s)
    BY <1>1, BitOrIsOr
  <2>3. \A w \in Weights : Bit(BitOr(d, s) % Modulus, w) = 1 <=> Bit(d, w) = 1 \/ Bit(s, w) = 1
    BY <1>2, <1>3, <2>2 DEF Ors
  <2> QED
    BY <1>6, <2>1, <2>3 DEF Computes
<1>7. CASE i = 2
  <2>1. Operation(i, d, s) = d + s + CF
    BY <1>7 DEF Operation
  <2>2. (((d + s + CF) % Modulus) - (d + s + CF)) % Modulus = 0 /\ (d + s + CF) % Modulus \in Int
    BY <1>1, <1>4
  <2>3. (((d + s + CF) % Modulus) - d - s - CF) % Modulus = 0
    BY <1>1, <2>2
  <2> QED
    BY <1>7, <2>1, <2>3 DEF Computes
<1>8. CASE i = 3
  <2>1. Operation(i, d, s) = d - s - CF
    BY <1>8 DEF Operation
  <2>2. (((d - s - CF) % Modulus) - (d - s - CF)) % Modulus = 0 /\ (d - s - CF) % Modulus \in Int
    BY <1>1, <1>4
  <2>3. (((d - s - CF) % Modulus) + s + CF - d) % Modulus = 0
    BY <1>1, <2>2
  <2> QED
    BY <1>8, <2>1, <2>3 DEF Computes
<1>9. CASE i = 4
  <2>1. Operation(i, d, s) = BitAnd(d, s)
    BY <1>9 DEF Operation
  <2>2. BitAnd(d, s) \in Word /\ Ands(BitAnd(d, s), d, s)
    BY <1>1, BitAndIsAnd
  <2>3. \A w \in Weights : Bit(BitAnd(d, s) % Modulus, w) = 1 <=> Bit(d, w) = 1 /\ Bit(s, w) = 1
    BY <1>2, <1>3, <2>2 DEF Ands
  <2> QED
    BY <1>9, <2>1, <2>3 DEF Computes
<1>10. CASE i = 5
  <2>1. Operation(i, d, s) = d - s
    BY <1>10 DEF Operation
  <2>2. (((d - s) % Modulus) - (d - s)) % Modulus = 0 /\ (d - s) % Modulus \in Int
    BY <1>1, <1>4
  <2>3. (((d - s) % Modulus) + s - d) % Modulus = 0
    BY <1>1, <2>2
  <2> QED
    BY <1>10, <2>1, <2>3 DEF Computes
<1>11. CASE i = 6
  <2>1. Operation(i, d, s) = BitXor(d, s)
    BY <1>11 DEF Operation
  <2>2. BitXor(d, s) \in Word /\ Xors(BitXor(d, s), d, s)
    BY <1>1, BitXorIsXor
  <2>3. \A w \in Weights : Bit(BitXor(d, s) % Modulus, w) = 1 <=> Bit(d, w) # Bit(s, w)
    BY <1>2, <1>3, <2>2 DEF Xors
  <2> QED
    BY <1>11, <2>1, <2>3 DEF Computes
<1> QED
  BY <1>5, <1>6, <1>7, <1>8, <1>9, <1>10, <1>11

-----------------------------------------------------------------------------
(* What a store leaves behind *)

LEMMA ByteInMemory ==
  ASSUME NEW m, IsMem(m), NEW a \in Nat, ByteBacked(a), NEW v
  PROVE  Peek(vm_write_byte(m, a, v), a) = v
<1> DEFINE shown == IF IsText(a) /\ a % 2 = 0 THEN vgui_set_char(m, v) ELSE m
<1>1. IsMem(shown)
  BY SetCharKeepsCells
<1>2. vm_write_byte(m, a, v) = Poke(shown, a, v)
  BY DEF vm_write_byte
<1> HIDE DEF shown
<1> QED
  BY <1>1, <1>2, PeekPoke

LEMMA WordInMemory ==
  ASSUME NEW m, MemOK(m), NEW a \in Nat, WordBacked(a), StoreCell(a) + 1 < MemSize, NEW w \in Word
  PROVE  LET t == StoreCell(a)
             n == vm_write_word(m, a, w)
         IN  Peek(n, t) + 256 * Peek(n, t + 1) = w
<1> DEFINE shown == IF IsText(a) THEN ShowWord(m, a, w) ELSE m
           t == StoreCell(a)
           low == Poke(shown, t, Lo8(w))
           n == vm_write_word(m, a, w)
<1>1. IsMem(shown)
  BY ShowWordKeeps DEF MemOK
<1>2. n = Poke(low, t + 1, Hi8(w))
  BY DEF vm_write_word, StoreWord
<1>3. t \in Nat /\ t # t + 1
  BY StoreCellIsNat
<1>4. Lo8(w) \in Byte
  BY Halves
<1> HIDE DEF shown, t, n
<1>5. IsMem(low) /\ Peek(low, t) = Lo8(w)
  BY <1>1, <1>4, PokeIsMem, PeekPoke
<1> HIDE DEF low
<1>6. Peek(n, t) = Lo8(w) /\ Peek(n, t + 1) = Hi8(w)
  BY <1>2, <1>3, <1>5, PeekPoke
<1>7. Lo8(w) + 256 * Hi8(w) = w
  BY WordBounds DEF Lo8, Hi8
<1> QED
  BY <1>6, <1>7 DEF n, t

LEMMA ByteStored ==
  ASSUME Typed, ~Wide, NEW ip, NEW o, IsOp8(o), CanHold(o), NEW v \in Byte,
         Put8(At(ip), o, v)
  PROVE  Stored(o) = v /\ Keeps(o, {})
<1>1. CASE o.type = "addr"
  <2>1. reg' = At(ip) /\ mem' = vm_write_byte(mem, o.addr, v)
    BY <1>1 DEF Put8, Done
  <2>2. Peek(mem', o.addr) = v
    BY <1>1, <2>1, ByteInMemory DEF IsOp8, CanHold, Typed, MemOK
  <2>3. \A r \in RegName \ {"ip"} : reg'[r] = reg[r]
    BY <2>1 DEF At, Typed
  <2> QED
    BY <1>1, <2>2, <2>3 DEF Stored, Keeps
<1>2. CASE o.type # "addr"
  <2> DEFINE old == At(ip)[o.name]
             w == IF o.high THEN v * 256 + Lo8(old) ELSE Hi8(old) * 256 + v
  <2>1. o.name \in RegName \ {"ip"} /\ o.high \in BOOLEAN
    BY <1>2 DEF IsOp8, GenReg
  <2>2. reg' = [At(ip) EXCEPT ![o.name] = w] /\ mem' = mem
    BY <1>2 DEF Put8, Done, SetRegByte
  <2>3. old \in Word
    BY <2>1 DEF At, Typed
  <2>4. Lo8(old) \in Byte /\ Hi8(old) \in Byte
    BY <2>3, Halves
  <2>5. IF o.high THEN Hi8(w) = v ELSE Lo8(w) = v
    <3> HIDE DEF old
    <3> QED
      BY <2>1, <2>4, ByteBounds DEF Lo8, Hi8
  <2> HIDE DEF w
  <2>6. reg'[o.name] = w /\ \A r \in RegName \ {"ip"} : r # o.name => reg'[r] = reg[r]
    BY <2>1, <2>2 DEF At, Typed
  <2>7. RegByte(reg', o) = v
    BY <2>5, <2>6 DEF RegByte
  <2> QED
    BY <1>2, <2>2, <2>6, <2>7 DEF Stored, Keeps
<1> QED
  BY <1>1, <1>2

LEMMA WordStored ==
  ASSUME Typed, Wide, NEW ip, NEW o, IsOp16(o), CanHold(o), NEW v \in Word,
         Put16(At(ip), o, v)
  PROVE  Stored(o) = v /\ Keeps(o, {})
<1>1. CASE o.type = "addr"
  <2>1. reg' = At(ip) /\ mem' = vm_write_word(mem, o.addr, v)
    BY <1>1 DEF Put16, Done
  <2>2. Stored(o) = v
    BY <1>1, <2>1, WordInMemory DEF IsOp16, CanHold, Stored, Typed
  <2>3. \A r \in RegName \ {"ip"} : reg'[r] = reg[r]
    BY <2>1 DEF At, Typed
  <2> QED
    BY <1>1, <2>2, <2>3 DEF Keeps
<1>2. CASE o.type # "addr"
  <2>1. o.name \in RegName \ {"ip"}
    BY <1>2 DEF IsOp16, GenReg
  <2>2. reg' = [At(ip) EXCEPT ![o.name] = v] /\ mem' = mem
    BY <1>2 DEF Put16, Done
  <2>3. reg'[o.name] = v /\ \A r \in RegName \ {"ip"} : r # o.name => reg'[r] = reg[r]
    BY <2>1, <2>2 DEF At, Typed
  <2> QED
    BY <1>2, <2>2, <2>3 DEF Stored, Keeps
<1> QED
  BY <1>1, <1>2

LEMMA NothingStored ==
  ASSUME Typed, NEW ip, DoneReg(At(ip))
  PROVE  KeepsAll
<1>1. reg' = [reg EXCEPT !.ip = ip] /\ mem' = mem
  BY DEF DoneReg, Done, At
<1>2. reg'.ip = ip
  BY <1>1 DEF Typed, RegName
<1> QED
  BY <1>1, <1>2 DEF KeepsAll

-----------------------------------------------------------------------------
(* Two operands: the handlers deliver what the uniform decoding asks for *)

\* What ArithmeticIs8086 says of a step.
TwoOperandStep ==
  IF Which = 7 THEN KeepsAll
  ELSE /\ Computes(Which, Before(Destination), SourceValue, Stored(Destination))
       /\ Keeps(Destination, {})

LEMMA ByteForm ==
  ASSUME Typed, ~Wide, NEW i \in 0 .. 6, Which = i, NEW o, IsOp8(o), Destination = o, CanHold(o),
         NEW s \in Byte, SourceValue = s, NEW ip,
         Put8(At(ip), o, Operation(i, Value8(o), s) % 256)
  PROVE  TwoOperandStep
<1> DEFINE v == Operation(i, Value8(o), s) % 256
<1>1. Value8(o) \in Byte /\ v \in Byte
  BY ByteOperandIsByte, ByteResult
<1>2. Value8(o) \in Word /\ s \in Word
  BY <1>1, ByteBounds
<1>3. Computes(i, Value8(o), s, v)
  BY <1>2, OperationComputes DEF Modulus
<1> HIDE DEF v
<1>4. Stored(o) = v /\ Keeps(o, {})
  BY <1>1, ByteStored DEF v
<1> QED
  BY <1>3, <1>4 DEF TwoOperandStep, Before

LEMMA WordForm ==
  ASSUME Typed, Wide, NEW i \in 0 .. 6, Which = i, NEW o, IsOp16(o), Destination = o, CanHold(o),
         NEW s \in Word, SourceValue = s, NEW ip,
         Put16(At(ip), o, Wrap(Operation(i, Value16(o), s)))
  PROVE  TwoOperandStep
<1> DEFINE v == Wrap(Operation(i, Value16(o), s))
<1>1. Value16(o) \in Word /\ v \in Word
  BY WordOperandIsWord, WordResult
<1>2. Computes(i, Value16(o), s, v)
  BY <1>1, OperationComputes DEF Modulus, Wrap
<1> HIDE DEF v
<1>3. Stored(o) = v /\ Keeps(o, {})
  BY <1>1, WordStored DEF v
<1> QED
  BY <1>2, <1>3 DEF TwoOperandStep, Before

\* The r/m byte operand of the formats is that of the 8086 where it is not one
\* of ah, ch, dh and bh.
LEMMA RmByte ==
  ASSUME Typed, ~WrongByte, ~Wide
  PROVE  Rm(Rm8(RmField)) = RmOperand
<1>1. RmField \in 0 .. 7 /\ (Mod = 3 => RmField < 4)
  BY Fields DEF WrongByte, RegisterForm
<1>2. \A i \in 0 .. 7 : i < 4 => Rm8(i) = Reg8(i)
  <2> SUFFICES ASSUME NEW i \in 0 .. 7, i < 4 PROVE Rm8(i) = Reg8(i)
    OBVIOUS
  <2>1. i % 4 = i /\ (i >= 4) = FALSE
    OBVIOUS
  <2> QED
    BY <2>1, Zenon DEF Rm8, Reg8
<1> QED
  BY <1>1, <1>2 DEF Rm, RmOperand, Register

LEMMA SixFormsCompute ==
  ASSUME Typed, NEW i \in 0 .. 6, SixForms(i), ~Departs, CanHold(Destination)
  PROVE  TwoOperandStep
<1>1. ASSUME NEW k \in 0 .. 5, opcode = 8 * i + k
      PROVE  /\ opcode < 128 /\ ~(opcode >= 128) /\ opcode % 8 = k /\ Which = i
             /\ Wide <=> k \in {1, 3, 5}
  BY <1>1 DEF Which, Wide
<1>2. \A k \in {0, 2} : opcode = 8 * i + k => Rm(Rm8(RmField)) = RmOperand
  <2> TAKE k \in {0, 2}
  <2> HAVE opcode = 8 * i + k
  <2>1. opcode % 8 = k /\ ~Wide
    BY <1>1
  <2> QED
    BY <2>1, RmByte DEF Departs
<1>3. RegField \in 0 .. 7 /\ RmField \in 0 .. 7
  BY Fields
<1>4. CASE reg2rm_8(i)
  <2> DEFINE o == parse_format_reg2rm_8
  <2>1. opcode = 8 * i + 0
    BY <1>4 DEF reg2rm_8, Opcode
  <2>2. ~Wide /\ opcode % 8 = 0 /\ Which = i /\ ~(opcode >= 128)
    BY <1>1, <2>1
  <2>3. o.op2 = RmOperand /\ o.op1 = Reg8(RegField)
    BY <1>2, <2>1 DEF parse_format_reg2rm_8
  <2>4. Destination = o.op2 /\ SourceValue = Value8(o.op1)
    BY <2>2, <2>3 DEF Destination, SourceValue, Register, Before
  <2>5. IsOp8(o.op2) /\ Value8(o.op1) \in Byte
    BY Format_reg2rm_8
  <2>6. Put8(At(o.ip), o.op2, Operation(i, Value8(o.op2), Value8(o.op1)) % 256)
    BY <1>4 DEF reg2rm_8
  <2> HIDE DEF o
  <2> QED
    BY <2>2, <2>4, <2>5, <2>6, ByteForm
<1>5. CASE reg2rm_16(i)
  <2> DEFINE o == parse_format_reg2rm_16
  <2>1. opcode = 8 * i + 1
    BY <1>5 DEF reg2rm_16, Opcode
  <2>2. Wide /\ opcode % 8 = 1 /\ Which = i /\ ~(opcode >= 128)
    BY <1>1, <2>1
  <2>3. o.op2 = Rm(Reg16(RmField)) /\ o.op1 = Reg16(RegField)
    BY DEF parse_format_reg2rm_16
  <2>4. Destination = o.op2 /\ SourceValue = Value16(o.op1)
    BY <2>2, <2>3 DEF Destination, SourceValue, RmOperand, Register, Before
  <2>5. IsOp16(o.op2) /\ Value16(o.op1) \in Word
    BY Format_reg2rm_16
  <2>6. Put16(At(o.ip), o.op2, Wrap(Operation(i, Value16(o.op2), Value16(o.op1))))
    BY <1>5 DEF reg2rm_16
  <2> HIDE DEF o
  <2> QED
    BY <2>2, <2>4, <2>5, <2>6, WordForm
<1>6. CASE rm2reg_8(i)
  <2> DEFINE o == parse_format_reg2rm_8
  <2>1. opcode = 8 * i + 2
    BY <1>6 DEF rm2reg_8, Opcode
  <2>2. ~Wide /\ opcode % 8 = 2 /\ Which = i /\ ~(opcode >= 128)
    BY <1>1, <2>1
  <2>3. o.op2 = RmOperand /\ o.op1 = Reg8(RegField)
    BY <1>2, <2>1 DEF parse_format_reg2rm_8
  <2>4. Destination = o.op1 /\ SourceValue = Value8(o.op2)
    BY <2>2, <2>3 DEF Destination, SourceValue, Register, Before
  <2>5. IsOp8(o.op1) /\ Value8(o.op2) \in Byte
    BY Format_reg2rm_8
  <2>6. Put8(At(o.ip), o.op1, Operation(i, Value8(o.op1), Value8(o.op2)) % 256)
    BY <1>6 DEF rm2reg_8
  <2> HIDE DEF o
  <2> QED
    BY <2>2, <2>4, <2>5, <2>6, ByteForm
<1>7. CASE rm2reg_16(i)
  <2> DEFINE o == parse_format_reg2rm_16
  <2>1. opcode = 8 * i + 3
    BY <1>7 DEF rm2reg_16, Opcode
  <2>2. Wide /\ opcode % 8 = 3 /\ Which = i /\ ~(opcode >= 128)
    BY <1>1, <2>1
  <2>3. o.op2 = Rm(Reg16(RmField)) /\ o.op1 = Reg16(RegField)
    BY DEF parse_format_reg2rm_16
  <2>4. Destination = o.op1 /\ SourceValue = Value16(o.op2)
    BY <2>2, <2>3 DEF Destination, SourceValue, RmOperand, Register, Before
  <2>5. IsOp16(o.op1) /\ Value16(o.op2) \in Word
    BY Format_reg2rm_16
  <2>6. Put16(At(o.ip), o.op1, Wrap(Operation(i, Value16(o.op1), Value16(o.op2))))
    BY <1>7 DEF rm2reg_16
  <2> HIDE DEF o
  <2> QED
    BY <2>2, <2>4, <2>5, <2>6, WordForm
<1>8. CASE i8al(i)
  <2> DEFINE o == parse_format_imm_8
  <2>1. opcode = 8 * i + 4
    BY <1>8 DEF i8al, Opcode
  <2>2. ~Wide /\ opcode % 8 = 4 /\ Which = i /\ ~(opcode >= 128)
    BY <1>1, <2>1
  <2>3. o.im = Byte1(ip1) /\ o.im \in Byte
    BY Format_imm DEF parse_format_imm_8
  <2>4. Destination = Reg8(0) /\ SourceValue = o.im
    BY <2>2, <2>3 DEF Destination, SourceValue, Register
  <2>5. IsOp8(Reg8(0)) /\ Value8(Reg8(0)) = Lo8(reg.ax)
    <3>1. (0 % 4) + 1 = 1 /\ (0 >= 4) = FALSE /\ registers16[1] = "ax"
      BY DEF registers16
    <3>2. Reg8(0) = [type |-> "reg8", name |-> "ax", high |-> FALSE]
      BY <3>1, Zenon DEF Reg8
    <3> QED
      BY <3>2, Operands DEF Value8, RegByte
  <2>6. Put8(At(o.ip), Reg8(0), Operation(i, Value8(Reg8(0)), o.im) % 256)
    BY <1>8, <2>5 DEF i8al
  <2> HIDE DEF o
  <2> QED
    BY <2>2, <2>3, <2>4, <2>5, <2>6, ByteForm
<1>9. CASE i16ax(i)
  <2> DEFINE o == parse_format_imm_16
  <2>1. opcode = 8 * i + 5
    BY <1>9 DEF i16ax, Opcode
  <2>2. Wide /\ opcode % 8 = 5 /\ Which = i /\ ~(opcode >= 128)
    BY <1>1, <2>1
  <2>3. o.im = Word1(ip1) /\ o.im \in Word
    BY Format_imm DEF parse_format_imm_16
  <2>4. Destination = Reg16(0) /\ SourceValue = o.im
    BY <2>2, <2>3 DEF Destination, SourceValue, Register
  <2>5. IsOp16(Reg16(0)) /\ Value16(Reg16(0)) = reg.ax
    BY Operands DEF Value16, Reg16, registers16
  <2>6. Put16(At(o.ip), Reg16(0), Wrap(Operation(i, Value16(Reg16(0)), o.im)))
    BY <1>9, <2>5 DEF i16ax
  <2> HIDE DEF o
  <2> QED
    BY <2>2, <2>3, <2>4, <2>5, <2>6, WordForm
<1> QED
  BY <1>4, <1>5, <1>6, <1>7, <1>8, <1>9 DEF SixForms

\* The eight operations: where add, or and xor have a branch of their own, it is
\* left out by Departs or does not go on.
LEMMA ArithmeticComputes ==
  ASSUME Typed, arithmetic, opcode \in TwoOperands, status' \in {"run", "again"},
         ~Departs, CanHold(Destination)
  PROVE  TwoOperandStep
<1>1. CASE add
  <2>1. ~(RegisterForm /\ Opcode({1, 3}))
    BY DEF Departs, Opcode
  <2>2. SixForms(0)
    BY <1>1, <2>1 DEF add, SixForms
  <2> QED
    BY <2>2, SixFormsCompute
<1>2. CASE or
  <2>1. ~Stop("undefined")
    BY DEF Stop
  <2>2. SixForms(1)
    BY <1>2, <2>1 DEF or, SixForms
  <2> QED
    BY <2>2, SixFormsCompute
<1>3. CASE adc \/ sbb \/ and \/ sub
  BY <1>3, SixFormsCompute DEF adc, sbb, and, sub
<1>4. CASE xor
  <2>1. ~(RegisterForm /\ Opcode({48}))
    BY DEF Departs, Opcode
  <2>2. SixForms(6)
    BY <1>4, <2>1 DEF xor, SixForms
  <2> QED
    BY <2>2, SixFormsCompute
<1>5. CASE cmp
  <2>1. opcode \in 56 .. 61
    BY <1>5 DEF cmp, Opcode
  <2>2. Which = 7
    BY <2>1 DEF Which
  <2>3. KeepsAll
    BY <1>5, NothingStored DEF cmp
  <2> QED
    BY <2>2, <2>3 DEF TwoOperandStep
<1>6. CASE daa \/ das \/ aaa \/ aas
  <2>1. opcode \in {39, 47, 55, 63}
    BY <1>6 DEF daa, das, aaa, aas, Opcode
  <2> QED
    BY <2>1 DEF TwoOperands
<1> QED
  BY <1>1, <1>2, <1>3, <1>4, <1>5, <1>6 DEF arithmetic

LEMMA ImmediateComputes8 ==
  ASSUME Typed, opcode \in {128, 130}, Immediate8(parse_format_rm2imm_8),
         status' \in {"run", "again"}, ~Departs, CanHold(Destination)
  PROVE  TwoOperandStep
<1> DEFINE o == parse_format_rm2imm_8
<1>1. ~Wide /\ opcode % 8 \in {0, 2} /\ opcode >= 128 /\ ~(opcode < 128)
  BY DEF Wide
<1>2. o.op2 = RmOperand
  BY <1>1, RmByte DEF parse_format_rm2imm_8, Departs
<1>3. Which = o.op1 /\ Destination = o.op2 /\ SourceValue = o.op3
  BY <1>1, <1>2 DEF Which, Destination, SourceValue, parse_format_rm2imm_8
<1>4. o.op1 \in 0 .. 7 /\ IsOp8(o.op2) /\ o.op3 \in Byte
  BY Format_rm2imm_8
<1>5. ~Stop("undefined")
  BY DEF Stop
<1>6. CASE o.op1 = 7 /\ DoneReg(At(o.ip))
  BY <1>3, <1>6, NothingStored DEF TwoOperandStep
<1>7. CASE o.op1 \notin {3, 7} /\ Put8(At(o.ip), o.op2, Operation(o.op1, Value8(o.op2), o.op3) % 256)
  <2>1. o.op1 \in 0 .. 6
    BY <1>4, <1>7
  <2> HIDE DEF o
  <2> QED
    BY <1>1, <1>3, <1>4, <1>7, <2>1, ByteForm
<1> QED
  BY <1>5, <1>6, <1>7 DEF Immediate8

LEMMA ImmediateComputes16 ==
  ASSUME Typed, opcode = 129, Immediate16(parse_format_rm2imm_16),
         status' \in {"run", "again"}, ~Departs, CanHold(Destination)
  PROVE  TwoOperandStep
<1> DEFINE o == parse_format_rm2imm_16
<1>1. Wide /\ opcode >= 128 /\ ~(opcode < 128)
  BY DEF Wide
<1>2. o.op2 = RmOperand
  BY <1>1 DEF parse_format_rm2imm_16, RmOperand, Register
<1>3. Which = o.op1 /\ Destination = o.op2 /\ SourceValue = o.op3
  BY <1>1, <1>2 DEF Which, Destination, SourceValue, parse_format_rm2imm_16
<1>4. o.op1 \in 0 .. 7 /\ IsOp16(o.op2) /\ o.op3 \in Word
  BY Format_rm2imm_16
<1>5. ~Stop("undefined")
  BY DEF Stop
<1>6. CASE o.op1 = 7 /\ DoneReg(At(o.ip))
  BY <1>3, <1>6, NothingStored DEF TwoOperandStep
<1>7. CASE /\ o.op1 \notin {3, 7}
           /\ Put16(At(o.ip), o.op2, Wrap(Operation(o.op1, Value16(o.op2), o.op3)))
  <2>1. o.op1 \in 0 .. 6
    BY <1>4, <1>7
  <2> HIDE DEF o
  <2> QED
    BY <1>1, <1>3, <1>4, <1>7, <2>1, WordForm
<1> QED
  BY <1>5, <1>6, <1>7 DEF Immediate16

-----------------------------------------------------------------------------
(* Which handlers these opcodes reach *)

OneOperand == {246, 247, 254}

\* The opcodes each part of the table of handlers serves.
LEMMA MoveOpcodes ==
  ASSUME move
  PROVE  opcode \in {15, 38, 46, 54, 62} \cup 64 .. 79 \cup 96 .. 111 \cup 132 .. 142 \cup 144 .. 155
                     \cup 160 .. 163 \cup {168, 169} \cup 176 .. 193 \cup 196 .. 201 \cup 214 .. 223
                     \cup {240, 241, 245} \cup 248 .. 253
BY DEF move, mov_reg2rm_8, mov_reg2rm_16, mov_rm2reg_8, mov_rm2reg_16, mov_seg2rm_16,
       mov_rm2seg_16, mov_rm2ax, mov_ax2rm, mov_im82reg, mov_im162reg, mov_im2rm_8,
       mov_im2rm_16, xchg_reg2rm_8, xchg_reg2rm_16, xchg_regax, lea_rm2reg, les_rm2reg_16,
       xlat, cbw, cwd, inc_reg, dec_reg, not_an_opcode, nop, test_reg2rm, test_im8, test_im16,
       Opcode

LEMMA ControlOpcodes ==
  ASSUME without_rep
  PROVE  opcode \in {6, 7, 14, 22, 23, 30, 31} \cup 80 .. 95 \cup 112 .. 127 \cup {143, 154}
                     \cup 156 .. 159 \cup {194, 195} \cup 202 .. 207 \cup 224 .. 227
                     \cup 232 .. 235 \cup {244}
BY DEF without_rep, push_reg, pop_reg, push_seg, push_ss, pop_seg, pop_ds, pop_rm16, pushf, popf,
       sahf, lahf, jcc_ip8, jmp_near_8, jmp_near_16, jmp_far, loop_8, jcxz_8, call_near,
       call_far, ret, ret_im16, retf, retf_im16, int, iret, halt, Opcode

LEMMA StringPortOpcodes ==
  /\ string => opcode \in 164 .. 167 \cup 170 .. 175
  /\ ports => opcode \in 228 .. 231 \cup 236 .. 239
<1>1. string => opcode \in 164 .. 167 \cup 170 .. 175
  BY DEF string, movsw_8, movsw_16, stos_8, stos_16, lods_8, lods_16, cmps, scas, Opcode
<1>2. ports => opcode \in 228 .. 231 \cup 236 .. 239
  BY DEF ports, in_imm, out_imm, in_aldx, in_axdx, out_dx, Opcode
<1> QED
  BY <1>1, <1>2

LEMMA Elsewhere ==
  ASSUME move \/ without_rep \/ string \/ ports
  PROVE  opcode \notin TwoOperands /\ opcode \notin OneOperand
<1>1. CASE move
  BY <1>1, MoveOpcodes DEF TwoOperands, OneOperand
<1>2. CASE without_rep
  BY <1>2, ControlOpcodes DEF TwoOperands, OneOperand
<1>3. CASE string \/ ports
  BY <1>3, StringPortOpcodes DEF TwoOperands, OneOperand
<1> QED
  BY <1>1, <1>2, <1>3

LEMMA TableOpcodes ==
  /\ table_80 => opcode = 128
  /\ table_81 => opcode = 129
  /\ table_82 => opcode = 130
  /\ table_83 => opcode = 131
  /\ table_d0 => opcode = 208
  /\ table_d1 => opcode = 209
  /\ table_d2 => opcode = 210
  /\ table_d3 => opcode = 211
  /\ aam => opcode = 212
  /\ aad => opcode = 213
  /\ table_f6 => opcode = 246
  /\ table_f7 => opcode = 247
  /\ table_fe => opcode = 254
  /\ table_ff => opcode = 255
<1>1. table_80 => opcode = 128
  BY DEF table_80, Opcode
<1>2. table_81 => opcode = 129
  BY DEF table_81, Opcode
<1>3. table_82 => opcode = 130
  BY DEF table_82, Opcode
<1>4. table_83 => opcode = 131
  BY DEF table_83, Opcode
<1>5. table_d0 => opcode = 208
  BY DEF table_d0, Opcode
<1>6. table_d1 => opcode = 209
  BY DEF table_d1, Opcode
<1>7. table_d2 => opcode = 210
  BY DEF table_d2, Opcode
<1>8. table_d3 => opcode = 211
  BY DEF table_d3, Opcode
<1>9. aam => opcode = 212
  BY DEF aam, Opcode
<1>10. aad => opcode = 213
  BY DEF aad, Opcode
<1>11. table_f6 => opcode = 246
  BY DEF table_f6, Opcode
<1>12. table_f7 => opcode = 247
  BY DEF table_f7, Opcode
<1>13. table_fe => opcode = 254
  BY DEF table_fe, Opcode
<1>14. table_ff => opcode = 255
  BY DEF table_ff, Opcode
<1> QED
  BY <1>1, <1>2, <1>3, <1>4, <1>5, <1>6, <1>7, <1>8, <1>9, <1>10, 
     <1>11, <1>12, <1>13, <1>14

LEMMA TwoOperandsReach ==
  ASSUME cpu8086_proc, status = "run", opcode \in TwoOperands
  PROVE  arithmetic \/ table_80 \/ table_81 \/ table_82 \/ table_83
<1>1. ~repe /\ ~rep_again
  <2>1. repe => opcode \in {242, 243}
    BY DEF repe, Opcode
  <2>2. rep_again => status = "again"
    BY DEF rep_again, Round
  <2> QED
    BY <2>1, <2>2 DEF TwoOperands
<1>2. arithmetic \/ group
  BY <1>1, Steps, Elsewhere DEF handler
<1>3. ASSUME table_d0 \/ table_d1 \/ table_d2 \/ table_d3 \/ aam \/ aad
               \/ table_f6 \/ table_f7 \/ table_fe \/ table_ff
      PROVE  FALSE
  <2>1. opcode \in 208 .. 213 \cup {246, 247, 254, 255}
    BY <1>3, TableOpcodes
  <2> QED
    BY <2>1 DEF TwoOperands
<1> QED
  BY <1>2, <1>3 DEF group

LEMMA OneOperandReach ==
  ASSUME cpu8086_proc, status = "run", opcode \in OneOperand
  PROVE  table_f6 \/ table_f7 \/ table_fe
<1>1. ~repe /\ ~rep_again
  <2>1. repe => opcode \in {242, 243}
    BY DEF repe, Opcode
  <2>2. rep_again => status = "again"
    BY DEF rep_again, Round
  <2> QED
    BY <2>1, <2>2 DEF OneOperand
<1>2. arithmetic \/ group
  BY <1>1, Steps, Elsewhere DEF handler
<1>3. ~arithmetic
  <2>1. ASSUME NEW i \in 0 .. 6, SixForms(i) PROVE opcode \in 0 .. 63
    BY <2>1 DEF SixForms, reg2rm_8, reg2rm_16, rm2reg_8, rm2reg_16, i8al, i16ax, Opcode
  <2>2. ASSUME arithmetic PROVE opcode \in 0 .. 63
    <3>1. CASE add \/ or \/ xor
      BY <2>1, <3>1 DEF add, or, xor, SixForms, Opcode
    <3>2. CASE adc \/ sbb \/ and \/ sub
      BY <2>1, <3>2 DEF adc, sbb, and, sub
    <3>3. CASE cmp \/ daa \/ das \/ aaa \/ aas
      BY <3>3 DEF cmp, daa, das, aaa, aas, Opcode
    <3> QED
      BY <2>2, <3>1, <3>2, <3>3 DEF arithmetic
  <2> QED
    BY <2>2 DEF OneOperand
<1>4. ASSUME table_80 \/ table_81 \/ table_82 \/ table_83 \/ table_d0 \/ table_d1 \/ table_d2
               \/ table_d3 \/ aam \/ aad \/ table_ff
      PROVE  FALSE
  <2>1. opcode \in 128 .. 131 \cup 208 .. 213 \cup {255}
    BY <1>4, TableOpcodes
  <2> QED
    BY <2>1 DEF OneOperand
<1> QED
  BY <1>2, <1>3, <1>4 DEF group

\* Whatever the program is: the 48 handlers of 0x00 - 0x3d and the tables 0x80 -
\* 0x82, wherever they go on, leave in the destination that the bits of the
\* opcode name the result of the operation they name, in the width they name,
\* and change no other register and, for a register destination, no memory;
\* cmp changes nothing (the forms Departs lists apart).
THEOREM TwoOperandsAreCorrect ==
  ASSUME ProgramsFit
  PROVE  Spec => ArithmeticIs8086
<1> DEFINE Guard == GoesOn(TwoOperands) /\ ~Departs /\ CanHold(Destination)
<1>1. ASSUME Typed, cpu8086_proc, Guard PROVE TwoOperandStep
  <2>1. status = "run" /\ opcode \in TwoOperands /\ status' \in {"run", "again"}
    BY <1>1 DEF GoesOn
  <2>2. ~Stop("exit")
    BY <2>1 DEF Stop
  <2>3. CASE arithmetic
    BY <1>1, <2>1, <2>3, ArithmeticComputes
  <2>4. CASE table_80
    <3>1. opcode = 128 /\ Immediate8(parse_format_rm2imm_8)
      BY <2>2, <2>4 DEF table_80, Opcode
    <3> QED
      BY <1>1, <2>1, <3>1, ImmediateComputes8
  <2>5. CASE table_81
    <3>1. opcode = 129 /\ Immediate16(parse_format_rm2imm_16)
      BY <2>5 DEF table_81, Opcode
    <3> QED
      BY <1>1, <2>1, <3>1, ImmediateComputes16
  <2>6. CASE table_82
    <3>1. opcode = 130 /\ Immediate8(parse_format_rm2imm_8)
      BY <2>2, <2>6 DEF table_82, Opcode
    <3> QED
      BY <1>1, <2>1, <3>1, ImmediateComputes8
  <2>7. CASE table_83
    BY <1>1, <2>7 DEF table_83, Opcode, Departs
  <2> QED
    BY <1>1, <2>1, <2>3, <2>4, <2>5, <2>6, <2>7, TwoOperandsReach
<1>2. ASSUME Typed, [Next]_vars PROVE [Guard => TwoOperandStep]_vars
  <2> HIDE DEF Guard
  <2>1. CASE cpu8086_proc
    BY <1>1, <1>2, <2>1
  <2>2. CASE UNCHANGED vars
    BY <2>2
  <2> QED
    BY <1>2, <2>1, <2>2 DEF Next, Ended
<1>3. Typed /\ [Next]_vars => [Guard => TwoOperandStep]_vars
  BY <1>2
<1> QED
  BY <1>3, Inductive, PTL DEF Spec, ArithmeticIs8086, TwoOperandStep

-----------------------------------------------------------------------------
(* One operand *)

\* What UnaryIs8086 says of a step.
OneOperandStep ==
  LET o == RmOperand
      v == Before(o)
  IN  CASE opcode # 254 /\ RegField = 0 -> KeepsAll
        [] opcode # 254 /\ RegField = 2 /\ CanHold(o) -> Stored(o) = Modulus - 1 - v /\ Keeps(o, {})
        [] opcode # 254 /\ RegField = 3 /\ CanHold(o) -> (Stored(o) + v) % Modulus = 0 /\ Keeps(o, {})
        [] opcode = 246 /\ RegField = 4 -> reg'.ax = al * v
        [] opcode = 247 /\ RegField = 6 /\ reg.dx < v -> IsQuotient(v)
        [] opcode = 254 /\ RegField = 0 /\ CanHold(o) -> (Stored(o) - v) % Modulus = 1 /\ Keeps(o, {})
        [] opcode = 254 /\ RegField = 1 /\ CanHold(o) -> (v - Stored(o)) % Modulus = 1 /\ Keeps(o, {})
        [] OTHER -> TRUE

LEMMA ByteTable ==
  ASSUME Typed, opcode \in {246, 254}, ~WrongByte
  PROVE  LET o == parse_format_table_rm_8
         IN  /\ ~Wide /\ Modulus = 256 /\ o.op2 = RmOperand /\ IsOp8(RmOperand)
             /\ o.op1 = RegField /\ RegField \in 0 .. 7
             /\ Before(RmOperand) = Value8(o.op2) /\ Before(RmOperand) \in Byte
<1>1. ~Wide
  BY DEF Wide
<1>2. parse_format_table_rm_8.op2 = RmOperand
  BY <1>1, RmByte DEF parse_format_table_rm_8
<1> QED
  BY <1>1, <1>2, Format_table DEF Modulus, Before

LEMMA WordTable ==
  ASSUME Typed, opcode = 247
  PROVE  LET o == parse_format_table_rm_16
         IN  /\ Wide /\ Modulus = 65536 /\ o.op2 = RmOperand /\ IsOp16(RmOperand)
             /\ o.op1 = RegField /\ RegField \in 0 .. 7
             /\ Before(RmOperand) = Value16(o.op2) /\ Before(RmOperand) \in Word
<1>1. Wide
  BY DEF Wide
<1>2. parse_format_table_rm_16.op2 = RmOperand
  BY <1>1 DEF parse_format_table_rm_16, RmOperand, Register
<1> QED
  BY <1>1, <1>2, Format_table DEF Modulus, Before

\* Multiplication changes ax, and ax is what is asked for.
LEMMA AxIs ==
  ASSUME Typed, NEW ip, NEW w, DoneReg([At(ip) EXCEPT !.ax = w])
  PROVE  reg'.ax = w
BY DEF DoneReg, Done, At, Typed, RegName

LEMMA UnaryByteComputes ==
  ASSUME Typed, table_f6, status' \in {"run", "again"}, ~WrongByte
  PROVE  OneOperandStep
<1> DEFINE o == parse_format_table_rm_8
           v == Before(RmOperand)
<1>1. opcode = 246
  BY DEF table_f6, Opcode
<1>2. /\ ~Wide /\ Modulus = 256 /\ o.op2 = RmOperand /\ IsOp8(RmOperand)
      /\ o.op1 = RegField /\ RegField \in 0 .. 7 /\ v = Value8(o.op2) /\ v \in Byte
  BY <1>1, ByteTable
<1>3. Unary8(o, v)
  <2>1. ~Stop("exit") /\ ~Stop("undefined")
    BY DEF Stop
  <2> QED
    BY <1>2, <2>1 DEF table_f6
<1>4. v \in Nat /\ v =< 255
  BY <1>2, ByteBounds
<1> HIDE DEF o
<1>5. CASE RegField = 0
  <2>1. KeepsAll
    BY <1>2, <1>3, <1>5, NothingStored DEF Unary8
  <2> QED
    BY <1>1, <1>5, <2>1 DEF OneOperandStep
<1>6. CASE RegField = 2
  <2>1. Put8(At(o.ip), RmOperand, 255 - v)
    BY <1>2, <1>3, <1>6 DEF Unary8
  <2>2. 255 - v \in Byte
    BY <1>4 DEF Byte
  <2>3. CanHold(RmOperand) => Stored(RmOperand) = 255 - v /\ Keeps(RmOperand, {})
    BY <1>2, <2>1, <2>2, ByteStored
  <2> QED
    BY <1>1, <1>2, <1>6, <2>3 DEF OneOperandStep
<1>7. CASE RegField = 3
  <2>1. Put8(At(o.ip), RmOperand, (0 - v) % 256)
    BY <1>2, <1>3, <1>7 DEF Unary8
  <2>2. (0 - v) % 256 \in Byte
    BY <1>4, CutIsByte
  <2>3. CanHold(RmOperand) => Stored(RmOperand) = (0 - v) % 256 /\ Keeps(RmOperand, {})
    BY <1>2, <2>1, <2>2, ByteStored
  <2>4. (((0 - v) % 256) + v) % 256 = 0
    BY <1>4
  <2> QED
    BY <1>1, <1>2, <1>7, <2>3, <2>4 DEF OneOperandStep
<1>8. CASE RegField = 4
  <2>1. reg'.ax = al * v
    BY <1>2, <1>3, <1>8, AxIs DEF Unary8
  <2> QED
    BY <1>1, <1>8, <2>1 DEF OneOperandStep
<1>9. CASE RegField \notin {0, 2, 3, 4}
  BY <1>1, <1>9 DEF OneOperandStep
<1> QED
  BY <1>5, <1>6, <1>7, <1>8, <1>9

LEMMA IncDecComputes ==
  ASSUME Typed, table_fe, status' \in {"run", "again"}, ~WrongByte
  PROVE  OneOperandStep
<1> DEFINE o == parse_format_table_rm_8
           v == Before(RmOperand)
           w == CASE RegField = 0 -> (v + 1) % 256
                  [] RegField = 1 -> (v - 1) % 256
                  [] OTHER -> 0
<1>1. opcode = 254
  BY DEF table_fe, Opcode
<1>2. /\ ~Wide /\ Modulus = 256 /\ o.op2 = RmOperand /\ IsOp8(RmOperand)
      /\ o.op1 = RegField /\ RegField \in 0 .. 7 /\ v = Value8(o.op2) /\ v \in Byte
  BY <1>1, ByteTable
<1>3. Put8(At(o.ip), RmOperand, w)
  <2>1. ~Stop("exit") /\ ~Stop("undefined")
    BY DEF Stop
  <2> QED
    BY <1>2, <2>1 DEF table_fe
<1>4. v \in Nat /\ v =< 255
  BY <1>2, ByteBounds
<1>5. CASE RegField = 0
  <2>1. w = (v + 1) % 256 /\ w \in Byte /\ (w - v) % 256 = 1
    BY <1>4, <1>5 DEF Byte
  <2> HIDE DEF w
  <2>2. CanHold(RmOperand) => Stored(RmOperand) = w /\ Keeps(RmOperand, {})
    BY <1>2, <1>3, <2>1, ByteStored
  <2> QED
    BY <1>1, <1>2, <1>5, <2>1, <2>2 DEF OneOperandStep
<1>6. CASE RegField = 1
  <2>1. w = (v - 1) % 256 /\ w \in Byte /\ (v - w) % 256 = 1
    BY <1>4, <1>6 DEF Byte
  <2> HIDE DEF w
  <2>2. CanHold(RmOperand) => Stored(RmOperand) = w /\ Keeps(RmOperand, {})
    BY <1>2, <1>3, <2>1, ByteStored
  <2> QED
    BY <1>1, <1>2, <1>6, <2>1, <2>2 DEF OneOperandStep
<1>7. CASE RegField \notin {0, 1}
  BY <1>1, <1>7 DEF OneOperandStep
<1> QED
  BY <1>5, <1>6, <1>7

LEMMA SmallRest ==
  ASSUME NEW a \in Nat, NEW s \in Nat \ {0}, a < s
  PROVE  a % s = a
OBVIOUS

Division(a, s, q, r) == q * s + r = a /\ r \in Nat /\ r < s
LEMMA DivisionIs ==
  ASSUME NEW a \in Nat, NEW s \in Nat \ {0}
  PROVE  Division(a, s, a \div s, a % s)
<1>1. (a \div s) * s + (a % s) = a /\ a % s \in Nat /\ a % s < s
  OBVIOUS
<1> QED
  BY <1>1 DEF Division

LEMMA DividedComputes ==
  ASSUME Typed, NEW ip, NEW s \in Word, reg.dx < s, Divided16(ip, s), status' \in {"run", "again"}
  PROVE  IsQuotient(s)
<1> DEFINE r0 == reg["dx"] % s
           high == r0 * 256 + ah
           r1 == high % s
           q1 == high \div s
           low == r1 * 256 + al
           q0 == low \div s
           r == low % s
           ax == q1 * 256 + q0
<1>1. reg["dx"] \in Nat /\ s \in Nat /\ s # 0 /\ s \in Nat \ {0}
  BY RegIsWord, WordBounds DEF RegName
<1>2. ah \in Byte /\ al \in Byte /\ ah \in Nat /\ al \in Nat /\ al < 256 /\ ah < 256
  BY HalvesOfAx, ByteBounds
<1>3. r0 = reg["dx"]
  BY <1>1, SmallRest
<1>4. reg' = [[At(ip) EXCEPT !["ax"] = ax] EXCEPT !["dx"] = r]
  BY <1>1 DEF Divided16, DoneReg, Done
<1>5. reg'["ax"] = ax /\ reg'["dx"] = r
  <2> HIDE DEF ax, r
  <2> QED
    BY <1>4 DEF At, Typed, RegName
<1>6. r0 \in Nat /\ r0 < s
  BY <1>1, <1>3
<1>7. high = r0 * 256 + ah /\ high \in Nat
  BY <1>2, <1>6
<1> HIDE DEF r0
<1>8. q1 \in Byte
  <2>1. \A b \in Byte : (r0 * 256 + b) \div s \in Byte
    BY <1>1, <1>6, NextDigit
  <2> QED
    BY <1>2, <2>1
<1> HIDE DEF high
<1>9. q1 * s + r1 = high /\ r1 \in Nat /\ r1 < s
  <2>1. Division(high, s, q1, r1)
    BY <1>1, <1>7, DivisionIs, Zenon
  <2> HIDE DEF q1, r1
  <2> QED
    BY <2>1 DEF Division
<1>10. low = r1 * 256 + al /\ low \in Nat
  BY <1>2, <1>9
<1> HIDE DEF q1, r1
<1>11. q0 \in Byte
  <2>1. \A b \in Byte : (r1 * 256 + b) \div s \in Byte
    BY <1>1, <1>9, NextDigit
  <2> QED
    BY <1>2, <2>1
<1> HIDE DEF low
<1>12. q0 * s + r = low /\ r \in Nat /\ r < s
  <2>1. Division(low, s, q0, r)
    BY <1>1, <1>10, DivisionIs, Zenon
  <2> HIDE DEF q0, r
  <2> QED
    BY <2>1 DEF Division
<1> HIDE DEF q0, r
<1>13. Hi8(ax) = q1 /\ Lo8(ax) = q0
  BY <1>8, <1>11, ByteBounds DEF Hi8, Lo8
<1>14. low % 256 = al /\ low \div 256 = r1
  BY <1>2, <1>9, <1>10
<1>15. q1 * s + r1 = 256 * reg["dx"] + ah
  BY <1>1, <1>2, <1>3, <1>7, <1>9
<1> HIDE DEF ax
<1>16. Hi8(reg.ax) = ah /\ Lo8(reg.ax) = al
  BY DEF ah, al
<1> QED
  BY <1>5, <1>12, <1>13, <1>14, <1>15, <1>16 DEF IsQuotient

LEMMA UnaryWordComputes ==
  ASSUME Typed, table_f7, status' \in {"run", "again"}
  PROVE  OneOperandStep
<1> DEFINE o == parse_format_table_rm_16
           v == Before(RmOperand)
<1>1. opcode = 247
  BY DEF table_f7, Opcode
<1>2. /\ Wide /\ Modulus = 65536 /\ o.op2 = RmOperand /\ IsOp16(RmOperand)
      /\ o.op1 = RegField /\ RegField \in 0 .. 7 /\ v = Value16(o.op2) /\ v \in Word
  BY <1>1, WordTable
<1>3. \/ RegField = 0 /\ DoneReg(At(Wrap(o.ip + 2)))
      \/ RegField = 1 /\ DoneReg(At(o.ip))
      \/ RegField = 2 /\ Put16(At(o.ip), RmOperand, 65535 - v)
      \/ RegField = 3 /\ Put16(At(o.ip), RmOperand, Wrap(0 - v))
      \/ RegField \in {4, 5}
      \/ RegField \in {6, 7} /\ Divided16(o.ip, v)
  <2>1. ~Stop("exit") /\ ~Stop("undefined")
    BY DEF Stop
  <2> QED
    BY <1>2, <2>1 DEF table_f7
<1>4. v \in Nat /\ v =< 65535
  BY <1>2, WordBounds
<1> HIDE DEF o
<1>5. CASE RegField = 0
  <2>1. KeepsAll
    BY <1>3, <1>5, NothingStored
  <2> QED
    BY <1>1, <1>5, <2>1 DEF OneOperandStep
<1>6. CASE RegField = 2
  <2>1. Put16(At(o.ip), RmOperand, 65535 - v)
    BY <1>3, <1>6
  <2>2. 65535 - v \in Word
    BY <1>4, IsWord
  <2>3. CanHold(RmOperand) => Stored(RmOperand) = 65535 - v /\ Keeps(RmOperand, {})
    BY <1>2, <2>1, <2>2, WordStored
  <2> QED
    BY <1>1, <1>2, <1>6, <2>3 DEF OneOperandStep
<1>7. CASE RegField = 3
  <2>1. Put16(At(o.ip), RmOperand, Wrap(0 - v))
    BY <1>3, <1>7
  <2>2. Wrap(0 - v) \in Word
    BY <1>4, WrapIsWord
  <2>3. CanHold(RmOperand) => Stored(RmOperand) = Wrap(0 - v) /\ Keeps(RmOperand, {})
    BY <1>2, <2>1, <2>2, WordStored
  <2>4. (Wrap(0 - v) + v) % 65536 = 0
    BY <1>4 DEF Wrap
  <2> QED
    BY <1>1, <1>2, <1>7, <2>3, <2>4 DEF OneOperandStep
<1>8. CASE RegField = 6
  <2>1. Divided16(o.ip, v)
    BY <1>3, <1>8
  <2>2. reg.dx < v => IsQuotient(v)
    BY <1>2, <2>1, DividedComputes
  <2> QED
    BY <1>1, <1>8, <2>2 DEF OneOperandStep
<1>9. CASE RegField \notin {0, 2, 3, 6}
  BY <1>1, <1>9 DEF OneOperandStep
<1> QED
  BY <1>5, <1>6, <1>7, <1>8, <1>9

\* Wherever the core lies in the program (CoreAt) and whatever the program is:
\* where 0xf6, 0xf7 and 0xfe go on, not, neg, inc, dec, the byte mul and the
\* word div have stored the result of the 8086 and test has changed nothing, for
\* operands in memory and, where the tag of a register lets it go on, in it.
THEOREM OneOperandIsCorrect ==
  ASSUME ProgramsFit
  PROVE  Spec => UnaryIs8086
<1> DEFINE Guard == GoesOn({246, 247, 254}) /\ ~WrongByte
<1>1. ASSUME Typed, cpu8086_proc, Guard PROVE OneOperandStep
  <2>1. status = "run" /\ opcode \in OneOperand /\ status' \in {"run", "again"} /\ ~WrongByte
    BY <1>1 DEF GoesOn, OneOperand
  <2> QED
    BY <1>1, <2>1, OneOperandReach, UnaryByteComputes, UnaryWordComputes, IncDecComputes
<1>2. ASSUME Typed, [Next]_vars PROVE [Guard => OneOperandStep]_vars
  <2> HIDE DEF Guard
  <2>1. CASE cpu8086_proc
    BY <1>1, <1>2, <2>1
  <2>2. CASE UNCHANGED vars
    BY <2>2
  <2> QED
    BY <1>2, <2>1, <2>2 DEF Next, Ended
<1>3. Typed /\ [Next]_vars => [Guard => OneOperandStep]_vars
  BY <1>2
<1> QED
  BY <1>3, Inductive, PTL DEF Spec, UnaryIs8086, OneOperandStep
=============================================================================
