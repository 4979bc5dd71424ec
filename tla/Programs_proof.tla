----------------------------- MODULE Programs_proof -----------------------------
(***************************************************************************)
(* For every program that gives the rep prefixes to string instructions:    *)
(* how often a loop runs, and what rep movsb leaves in the memory.  For     *)
(* every count: the counting loop of MCCpu.  For every text: what the       *)
(* screen of System shows of it.                                            *)
(***************************************************************************)
EXTENDS MCCpu, MCSystem, Alu_proof

Strings == 164 .. 167 \cup 170 .. 175

\* The hypothesis on the program: what the rep prefixes repeat is a string
\* instruction.  A body that sets cx, or a second prefix, runs on past 65536
\* rounds: the loop's own test is all that counts them.
RepeatsStrings == (status = "run" /\ rep # << >>) => opcode \in Strings

\* The rounds a loop has before it, and whether its count of them matters:
\* a repne loop does not look at cx while ZF is clear.
Total(loop) == IF loop.from = 0 THEN 65536 ELSE loop.from
Ending(loop) == loop.kind = "repe" \/ ZF # 0
Counted(loop) == Ending(loop) => loop.n < Total(loop) /\ reg.cx = Wrap(Total(loop) - loop.n)

RepInv == Len(rep) =< 1 /\ \A i \in DOMAIN rep : Counted(rep[i])

-----------------------------------------------------------------------------
(* The body of a loop *)

LEMMA ArithmeticOpcodes ==
  ASSUME arithmetic \/ group
  PROVE  opcode \in 0 .. 63 \cup 128 .. 131 \cup 208 .. 213 \cup {246, 247, 254, 255}
<1>1. ASSUME NEW i \in 0 .. 6, SixForms(i)
      PROVE  opcode \in 0 .. 63
  <2>1. \E j \in 0 .. 5 : opcode = 8 * i + j
    <3>1. opcode \in {8 * i, 8 * i + 1, 8 * i + 2, 8 * i + 3, 8 * i + 4, 8 * i + 5}
      BY <1>1 DEF SixForms, reg2rm_8, reg2rm_16, rm2reg_8, rm2reg_16, i8al, i16ax, Opcode
    <3> QED
      BY <3>1
  <2> QED
    BY <2>1
<1>2. arithmetic => opcode \in 0 .. 63
  <2>1. (adc \/ sbb \/ and \/ sub) => opcode \in 0 .. 63
    BY <1>1 DEF adc, sbb, and, sub
  <2>2. (add \/ or \/ xor \/ cmp) => opcode \in 0 .. 63
    <3>1. SixForms(0) \/ SixForms(1) \/ SixForms(6) => opcode \in 0 .. 63
      BY <1>1
    <3> QED
      BY <3>1 DEF add, or, xor, cmp, SixForms, Opcode
  <2>3. (daa \/ das \/ aaa \/ aas) => opcode \in 0 .. 63
    BY DEF daa, das, aaa, aas, Opcode
  <2> QED
    BY <2>1, <2>2, <2>3 DEF arithmetic
<1> QED
  BY <1>2, TableOpcodes DEF group

LEMMA StringOpcodes ==
  ASSUME handler, opcode \in Strings
  PROVE  string
<1>1. ~move
  BY MoveOpcodes DEF Strings
<1>2. ~without_rep
  BY ControlOpcodes DEF Strings
<1>3. ~arithmetic /\ ~group
  BY ArithmeticOpcodes DEF Strings
<1>4. ~ports
  BY StringPortOpcodes DEF Strings
<1> QED
  BY <1>1, <1>2, <1>3, <1>4 DEF handler

\* A string instruction moves si and di only, and no flags.
LEMMA StringKeeps ==
  ASSUME Typed, string
  PROVE  /\ status = "run" /\ status' = (IF rep = << >> THEN "run" ELSE "again")
         /\ rep' = rep
         /\ \A r \in {"cx", "cs", "ds", "es", "flags"} : reg'[r] = reg[r]
<1> DEFINE Kept(r) == \A n \in {"cx", "cs", "ds", "es", "flags"} : r[n] = reg[n]
           Ends_with == \E r, m : Kept(r) /\ Done(r, m)
<1>1. \A n : Kept(Moved(n)) /\ DOMAIN Moved(n) = RegName
  BY DEF Moved, At, Typed, RegName
<1>2. \A n, v : Kept([Moved(n) EXCEPT !["ax"] = v])
  BY <1>1 DEF RegName
<1> HIDE DEF Kept
<1>3. (movsw_8 \/ movsw_16 \/ stos_8 \/ stos_16) => Ends_with /\ Running
  <2>1. \A n, m : Done(Moved(n), m) => Ends_with
    BY <1>1, Zenon
  <2> HIDE DEF Ends_with
  <2> QED
    BY <2>1 DEF movsw_8, movsw_16, stos_8, stos_16, Opcode
<1>4. (cmps \/ scas) => Ends_with /\ Running
  BY <1>1, Zenon DEF cmps, scas, Opcode, DoneReg
<1>5. lods_16 => Ends_with /\ Running
  <2> DEFINE v == vm_read_word(mem, Target)
  <2>1. lods_16 => Running /\ Done([Moved(1) EXCEPT !["ax"] = v], mem)
    BY DEF lods_16, Opcode, DoneReg
  <2> QED
    BY <1>2, <2>1, Zenon
<1>6. lods_8 => Ends_with /\ Running
  <2> DEFINE v == Hi8(Moved(1)["ax"]) * 256 + vm_read_byte(mem, Target)
             r == SetRegByte(Moved(1), Reg8(0), vm_read_byte(mem, Target))
  <2>1. r = [Moved(1) EXCEPT !["ax"] = v]
    <3>1. Reg8(0).name = "ax" /\ ~Reg8(0).high
      <4>1. (0 % 4) + 1 = 1 /\ ~(0 >= 4)
        OBVIOUS
      <4>2. registers16[1] = "ax"
        BY DEF registers16
      <4> QED
        BY <4>1, <4>2, Zenon DEF Reg8
    <3> QED
      BY <3>1 DEF SetRegByte
  <2>2. lods_8 => Running /\ Done(r, mem)
    BY DEF lods_8, Opcode, DoneReg
  <2>3. Kept(r)
    <3> HIDE DEF v, r
    <3> QED
      BY <1>2, <2>1
  <2> QED
    BY <2>2, <2>3, Zenon
<1>7. Ends_with /\ Running
  BY <1>3, <1>4, <1>5, <1>6, Zenon DEF string
<1> QED
  BY <1>7 DEF Done, Running, Kept

\* What is repeated, and what a loop may take for granted of it.
LEMMA BodyIsString ==
  ASSUME Typed, RepeatsStrings, cpu8086_proc, rep # << >>, status = "run"
  PROVE  string
<1>1. opcode \in Strings
  BY DEF RepeatsStrings
<1>2. ~repe /\ ~rep_again
  BY <1>1 DEF repe, Opcode, Strings, rep_again, Round
<1> QED
  BY <1>1, <1>2, Steps, StringOpcodes
-----------------------------------------------------------------------------
(* Counting rounds *)

\* Sums modulo 64 KB: a term can be wrapped first, and two that are less than
\* 64 KB apart differ.
LEMMA WrapPlus ==
  ASSUME NEW a \in Int, NEW b \in Int
  PROVE  Wrap(Wrap(a) + b) = Wrap(a + b)
BY SMT DEF Wrap

Near(b, c) == c - b < 65536 /\ b - c < 65536
LEMMA WrapApart ==
  ASSUME NEW a \in Int, NEW b \in Int, NEW c \in Int, Wrap(a + b) = Wrap(a + c), Near(b, c)
  PROVE  b = c
BY SMT DEF Wrap, Near

LEMMA WrapLess ==
  ASSUME NEW a \in Int
  PROVE  Wrap(Wrap(a) - 1) = Wrap(a - 1)
BY SMT DEF Wrap

LEMMA WrapIsOne ==
  ASSUME NEW a \in Nat, a =< 65536
  PROVE  Wrap(a) = 1 <=> a = 1
<1>1. Wrap(a) = 1 => a = 1
  BY SMT DEF Wrap
<1>2. Wrap(1) = 1
  BY SMT DEF Wrap
<1> QED
  BY <1>1, <1>2, SMT

LEMMA OneRound ==
  ASSUME NEW t \in Nat, t =< 65536, NEW n \in Nat, n < t
  PROVE  /\ Wrap(t - n) # 1 => n + 1 < t /\ Wrap(Wrap(t - n) - 1) = Wrap(t - (n + 1))
         /\ Wrap(t - n) = 1 => n + 1 = t
<1>1. t - n \in Nat /\ t - n =< 65536 /\ t - (n + 1) = (t - n) - 1
  BY SMT
<1>2. t - n # 1 => n + 1 < t
  BY SMT
<1>3. Wrap(t - n) = 1 <=> t - n = 1
  BY <1>1, WrapIsOne, SMT
<1>4. Wrap(Wrap(t - n) - 1) = Wrap((t - n) - 1)
  BY <1>1, WrapLess, SMT
<1> QED
  BY <1>1, <1>2, <1>3, <1>4, SMT

LEMMA ZFIsBit ==
  ASSUME Typed
  PROVE  ZF \in {0, 64}
<1> DEFINE q == reg["flags"] \div 64
<1>1. reg["flags"] \in Nat
  BY RegIsWord DEF RegName
<1>2. 2^6 = 64
  BY Powers
<1>3. q \in Nat /\ ZF = (q % 2) * 64
  BY <1>1, <1>2 DEF ZF, Masked
<1> HIDE DEF q
<1>4. q % 2 \in {0, 1}
  BY <1>3
<1> QED
  BY <1>3, <1>4

LEMMA OneElement ==
  ASSUME NEW s \in Seq(Loop), Len(s) \in Nat \ {0}, Len(s) =< 1
  PROVE  Len(s) = 1 /\ DOMAIN s = {1} /\ s[1] \in Loop
<1>1. Len(s) = 1
  OBVIOUS
<1>2. DOMAIN s = 1 .. Len(s)
  OBVIOUS
<1>3. 1 .. 1 = {1} /\ 1 \in {1}
  OBVIOUS
<1>4. \A i \in DOMAIN s : s[i] \in Loop
  OBVIOUS
<1> QED
  BY <1>1, <1>2, <1>3, <1>4

LEMMA OneLoop ==
  ASSUME Typed, Len(rep) =< 1, rep # << >>
  PROVE  Len(rep) = 1 /\ DOMAIN rep = {1} /\ rep[1] \in Loop
<1>1. rep \in Seq(Loop) /\ Len(rep) \in Nat \ {0}
  BY DEF Typed
<1> QED
  BY <1>1, OneElement

\* What a round of the loop in progress does.
LEMMA RoundDoes ==
  ASSUME Typed, rep_again, Len(rep) =< 1
  PROVE  /\ status = "again" /\ DOMAIN rep = {1} /\ rep[1] \in Loop /\ Len(rep) = 1
         /\ reg'["flags"] = reg["flags"] /\ reg'["cx"] = Wrap(reg["cx"] - 1)
         /\ UNCHANGED mem
         /\ \A r \in {"ds", "es", "si", "di", "cs"} : reg'[r] = reg[r]
         /\ \/ /\ ~(reg["cx"] = 1 /\ ~ZFGoesOn)
               /\ status' = "run" /\ DOMAIN rep' = {1} /\ Len(rep') = 1 /\ reg'["ip"] = rep[1].ip
               /\ rep'[1] = [rep[1] EXCEPT !.n = IF @ < MaxRounds THEN @ + 1 ELSE @]
            \/ /\ reg["cx"] = 1 /\ ~ZFGoesOn
               /\ rep' = << >> /\ status' = "run" /\ reg'["ip"] = reg["ip"]
<1> DEFINE counted == [reg EXCEPT !["cx"] = Wrap(reg["cx"] - 1)]
           kept == {"ds", "es", "si", "di", "cs", "flags"}
<1>1. Len(rep) = 1 /\ DOMAIN rep = {1} /\ rep[1] \in Loop
  BY OneLoop DEF rep_again
<1>2. status = "again" /\ UNCHANGED mem
  BY DEF rep_again, Round
<1>3. /\ counted["cx"] = Wrap(reg["cx"] - 1)
      /\ \A r \in kept : counted[r] = reg[r]
      /\ DOMAIN counted = RegName
  BY DEF Typed, RegName
<1>4. CASE reg["cx"] # 1 \/ ZFGoesOn
  <2>1. /\ reg' = [counted EXCEPT !["ip"] = rep[1].ip]
        /\ status' = "run"
        /\ rep' = [rep EXCEPT ![1].n = IF @ < MaxRounds THEN @ + 1 ELSE @]
    BY <1>1, <1>4 DEF rep_again, Round
  <2>2. DOMAIN rep' = {1} /\ rep'[1] = [rep[1] EXCEPT !.n = IF @ < MaxRounds THEN @ + 1 ELSE @]
    BY <1>1, <2>1
  <2>3. Len(rep') = 1
    BY <1>1, <2>1 DEF Typed
  <2> HIDE DEF counted
  <2>4. reg'["cx"] = counted["cx"] /\ (\A r \in kept : reg'[r] = counted[r]) /\ reg'["ip"] = rep[1].ip
    BY <1>3, <2>1 DEF RegName
  <2> QED
    BY <1>1, <1>2, <1>3, <1>4, <2>1, <2>2, <2>3, <2>4
<1>5. CASE ~(reg["cx"] # 1 \/ ZFGoesOn)
  <2>1. SubSeq(rep, 1, Len(rep) - 1) = << >>
    BY <1>1 DEF Typed
  <2>2. reg' = counted /\ rep' = << >> /\ status' = "run"
    BY <1>5, <2>1 DEF rep_again, Round
  <2>3. counted["ip"] = reg["ip"]
    BY DEF Typed, RegName
  <2> HIDE DEF counted
  <2> QED
    BY <1>1, <1>2, <1>3, <1>5, <2>2, <2>3
<1> QED
  BY <1>4, <1>5

LEMMA TotalIsPositive ==
  ASSUME NEW l \in Loop
  PROVE  Total(l) \in Nat /\ 1 =< Total(l) /\ Total(l) =< 65536 /\ l.n \in Nat /\ (l.from # 0 => l.from = Total(l))
<1>1. l.from \in Word /\ l.n \in Nat
  BY DEF Loop
<1>2. l.from \in Nat /\ 0 =< l.from /\ l.from =< 65535
  BY <1>1, WordBounds
<1> QED
  BY <1>1, <1>2, SMT DEF Total

LEMMA RepCounts ==
  ASSUME Typed, RepInv, RepeatsStrings, [Next]_vars
  PROVE  RepInv'
<1> SUFFICES ASSUME cpu8086_proc PROVE RepInv'
  BY DEF Next, Ended, vars, RepInv, Counted, Ending, Total, ZF, Masked
<1>1. CASE rep_again
  <2> DEFINE l == rep[1]
  <2>1. l \in Loop /\ Counted(l)
    BY <1>1, RoundDoes DEF RepInv
  <2>2. ZF' = ZF
    BY <1>1, RoundDoes DEF RepInv, ZF, Masked
  <2>3. CASE rep' = << >>
    BY <2>3 DEF RepInv
  <2>4. CASE /\ ~(reg["cx"] = 1 /\ ~ZFGoesOn) /\ DOMAIN rep' = {1} /\ Len(rep') = 1
             /\ rep'[1] = [l EXCEPT !.n = IF @ < MaxRounds THEN @ + 1 ELSE @]
    <3>1. l.kind = rep'[1].kind /\ l.from = rep'[1].from /\ l.n \in Nat
      BY <2>1, <2>4 DEF Loop
    <3> SUFFICES ASSUME Ending(l)
                 PROVE  rep'[1].n < Total(rep'[1]) /\ reg'["cx"] = Wrap(Total(rep'[1]) - rep'[1].n)
      <4>1. Ending(rep[1])' <=> Ending(l)
        BY <2>2, <3>1 DEF Ending
      <4>2. Counted(rep[1])' => RepInv'
        BY <2>4 DEF RepInv
      <4> QED
        BY <4>1, <4>2 DEF Counted, Total
    <3>2. Ending(l)
      OBVIOUS
    <3>3. reg["cx"] # 1
      <4>1. rep[Len(rep)] = l
        BY <1>1, RoundDoes DEF RepInv
      <4>2. l.kind = "repne" => ~ZFGoesOn
        BY <3>2, <4>1 DEF ZFGoesOn, Ending
      <4>3. l.kind # "repne" => ~ZFGoesOn
        BY <4>1, ZFIsBit DEF ZFGoesOn
      <4> QED
        BY <2>4, <4>2, <4>3
    <3>4. l.n < Total(l) /\ reg["cx"] = Wrap(Total(l) - l.n)
      BY <2>1, <3>2 DEF Counted
    <3>5. Total(l) \in Nat /\ 1 =< Total(l) /\ Total(l) =< 65536 /\ Total(rep'[1]) = Total(l)
      BY <2>1, <3>1, TotalIsPositive DEF Total
    <3>6. l.n + 1 < Total(l) /\ Wrap(reg["cx"] - 1) = Wrap(Total(l) - (l.n + 1))
      <4> DEFINE t == Total(l)
                 n == l.n
      <4>1. t \in Nat /\ t =< 65536 /\ n \in Nat /\ n < t /\ Wrap(t - n) = reg["cx"]
        BY <3>1, <3>4, <3>5
      <4> HIDE DEF t, n
      <4>2. n + 1 < t /\ Wrap(Wrap(t - n) - 1) = Wrap(t - (n + 1))
        BY <3>3, <4>1, OneRound, SMT
      <4> QED
        BY <4>1, <4>2 DEF t, n
    <3>7. l.n < MaxRounds
      BY <3>1, <3>4, <3>5 DEF MaxRounds
    <3>8. rep'[1].n = l.n + 1
      BY <2>1, <2>4, <3>7 DEF Loop
    <3>9. reg'["cx"] = Wrap(reg["cx"] - 1)
      BY <1>1, RoundDoes DEF RepInv
    <3> QED
      BY <3>5, <3>6, <3>8, <3>9, SMT
  <2> QED
    BY <1>1, <2>3, <2>4, RoundDoes DEF RepInv
<1>2. CASE repe
  <2> DEFINE new == [kind |-> IF opcode = 242 THEN "repne" ELSE "repe", ip |-> ip1,
                     from |-> reg.cx, n |-> 0]
  <2>1. rep = << >>
    BY <1>2 DEF RepeatsStrings, repe, Opcode, Running, Strings
  <2>2. Len(rep') = 1 /\ DOMAIN rep' = {1} /\ rep'[1] = new
    BY <1>2, <2>1 DEF repe
  <2>3. reg'["cx"] = reg["cx"] /\ reg["cx"] \in Word
    BY <1>2, RegIsWord DEF repe, At, Typed, RegName
  <2>4. new.n = 0 /\ new.from = reg["cx"]
    OBVIOUS
  <2> HIDE DEF new
  <2>5. new.n < Total(new) /\ reg["cx"] = Wrap(Total(new) - new.n)
    BY <2>3, <2>4, WordBounds DEF Total, Wrap
  <2>6. Counted(rep[1])'
    BY <2>2, <2>3, <2>5 DEF Counted, Total
  <2> QED
    BY <2>2, <2>6 DEF RepInv
<1>3. CASE handler
  <2>1. StepsOn
    BY <1>3, HandlerSteps
  <2>2. rep' = rep
    BY <2>1 DEF StepsOn, Stopped, Returned
  <2>3. CASE rep = << >>
    BY <2>2, <2>3 DEF RepInv
  <2>4. CASE Stopped
    BY <2>4 DEF Stopped, RepInv, Counted, Ending, Total, ZF, Masked
  <2>5. CASE rep # << >> /\ ~Stopped
    <3>1. status = "run"
      BY <2>1, <2>5 DEF StepsOn, Returned
    <3>2. string
      BY <2>5, <3>1, BodyIsString
    <3>3. reg'["cx"] = reg["cx"] /\ reg'["flags"] = reg["flags"]
      BY <3>2, StringKeeps
    <3> QED
      BY <2>2, <3>3 DEF RepInv, Counted, Ending, Total, ZF, Masked
  <2> QED
    BY <2>3, <2>4, <2>5
<1> QED
  BY <1>1, <1>2, <1>3, Steps
LEMMA LoopsAreCounted ==
  ASSUME ProgramsFit
  PROVE  Spec /\ []RepeatsStrings => []RepInv
<1>1. Init => RepInv
  BY DEF Init, RepInv
<1>2. Typed /\ RepInv /\ RepeatsStrings /\ [Next]_vars => RepInv'
  BY RepCounts
<1> QED
  BY <1>1, <1>2, Inductive, PTL DEF Spec

\* Whatever string instruction a repe loop repeats and whatever cx and ZF are,
\* it comes to an end within 65536 rounds.
THEOREM RepeLoopsEnd ==
  ASSUME ProgramsFit
  PROVE  Spec /\ []RepeatsStrings => []RepeIsBounded
<1>1. ASSUME Typed, RepInv
      PROVE  RepeIsBounded
  <2> SUFFICES ASSUME NEW i \in DOMAIN rep, rep[i].kind = "repe"
               PROVE  rep[i].n < MaxRounds
    BY DEF RepeIsBounded
  <2>1. rep[i] \in Loop /\ Counted(rep[i])
    BY <1>1 DEF Typed, RepInv
  <2> QED
    BY <2>1, TotalIsPositive, SMT DEF Counted, Ending, MaxRounds
<1>2. Typed /\ RepInv => RepeIsBounded
  BY <1>1
<1> QED
  BY <1>2, LoopsAreCounted, Inductive, PTL

\* What a loop that ends has been through.
LEMMA LastRound ==
  ASSUME Typed, RepInv, cpu8086_proc, LoopEnds
  PROVE  /\ rep_again /\ Len(rep) = 1 /\ rep[1] \in Loop /\ Ending(rep[1])
         /\ rep[1].n + 1 = Total(rep[1])
<1>1. rep_again
  <2>1. ~repe
    BY DEF repe, Opcode, Running, LoopEnds
  <2>2. ASSUME handler PROVE FALSE
    <3>1. CASE Stopped
      BY <3>1 DEF Stopped, LoopEnds, Typed
    <3>2. CASE ~Stopped
      BY <2>2, <3>2, HandlerSteps DEF StepsOn, Returned, LoopEnds
    <3> QED
      BY <3>1, <3>2
  <2> QED
    BY <2>1, <2>2, Steps
<1>2. Len(rep) = 1 /\ rep[1] \in Loop /\ Counted(rep[1])
  BY <1>1, RoundDoes DEF RepInv
<1>3. reg["cx"] = 1 /\ ~ZFGoesOn
  BY <1>1, <1>2, RoundDoes, SMT DEF LoopEnds, RepInv
<1>4. Ending(rep[1])
  BY <1>2, <1>3 DEF Loop, Ending, ZFGoesOn
<1>5. rep[1].n + 1 = Total(rep[1])
  <2> DEFINE t == Total(rep[1])
             n == rep[1].n
  <2>1. t \in Nat /\ t =< 65536 /\ n \in Nat /\ n < t /\ Wrap(t - n) = 1
    BY <1>2, <1>3, <1>4, TotalIsPositive DEF Counted
  <2> HIDE DEF t, n
  <2>2. n + 1 = t
    BY <2>1, OneRound, SMT
  <2> QED
    BY <2>2 DEF t, n
<1> QED
  BY <1>1, <1>2, <1>4, <1>5

\* A loop over a string instruction that ends has run it cx times, and 65536
\* times if cx was 0.
THEOREM LoopsRunCxTimes ==
  ASSUME ProgramsFit
  PROVE  Spec /\ []RepeatsStrings => RepRunsCxTimes
<1> DEFINE Runs == LoopEnds => LET loop == rep[Len(rep)]
                               IN  loop.n + 1 = IF loop.from = 0 THEN 65536 ELSE loop.from
<1>1. ASSUME Typed, RepInv, cpu8086_proc
      PROVE  Runs
  <2> SUFFICES ASSUME LoopEnds
               PROVE  rep[Len(rep)].n + 1 = Total(rep[Len(rep)])
    BY DEF Total
  <2>1. Len(rep) = 1 /\ rep[1].n + 1 = Total(rep[1])
    BY <1>1, LastRound
  <2> QED
    BY <2>1
<1>2. ASSUME Typed, RepInv, [Next]_vars
      PROVE  [Runs]_vars
  <2>1. CASE cpu8086_proc
    BY <1>1, <1>2, <2>1
  <2> HIDE DEF Runs
  <2>2. CASE UNCHANGED vars
    BY <2>2
  <2> QED
    BY <1>2, <2>1, <2>2 DEF Next, Ended
<1>3. Typed /\ RepInv /\ [Next]_vars => [Runs]_vars
  BY <1>2
<1> QED
  BY <1>3, LoopsAreCounted, Inductive, PTL DEF Spec, RepRunsCxTimes
-----------------------------------------------------------------------------
(* rep movsb *)

\* The k-th byte after the next one to be read and written.
step == IF DF = 0 THEN 1 ELSE -1
From(k) == vm_addr_calc(reg.ds, Wrap(reg.si + step * k))
To(k) == vm_addr_calc(reg.es, Wrap(reg.di + step * k))

\* The hypotheses on the program: the two blocks of a rep movsb lie in the
\* memory and have no byte in common, and nothing overwrites the instruction
\* of a loop that goes on.
BlocksApart ==
  (status = "run" /\ rep # << >> /\ opcode = 164) =>
    LET loop == rep[Len(rep)]
    IN  \A i, j \in 0 .. loop.from - 1 :
          /\ ByteBacked(From(i - loop.n)) /\ ByteBacked(To(i - loop.n))
          /\ From(i - loop.n) # To(j - loop.n)
InstructionKept ==
  (rep # << >> /\ rep' # << >>) => Byte1(rep[Len(rep)].ip)' = Byte1(rep[Len(rep)].ip)
InstructionStays == [][InstructionKept]_vars

\* The bytes a rep movsb has passed are copied.
Passed(loop) == IF status = "run" THEN loop.n ELSE loop.n + 1
SameAt(k) == Peek(mem, To(k)) = Peek(mem, From(k))
Moves(loop) == Byte1(loop.ip) = 164 /\ loop.from # 0 /\ Ending(loop)
Copied(loop) == Moves(loop) => \A i \in 0 .. Passed(loop) - 1 : SameAt(i - Passed(loop))
BlockInv == \A i \in DOMAIN rep : Copied(rep[i])

LEMMA ByteElsewhere ==
  ASSUME NEW m, IsMem(m), NEW a, ByteBacked(a), NEW v, NEW b
  PROVE  Peek(vm_write_byte(m, a, v), b) = IF b = a THEN v ELSE Peek(m, b)
<1> DEFINE shown == IF IsText(a) /\ a % 2 = 0 THEN vgui_set_char(m, v) ELSE m
<1>1. IsMem(shown) /\ Peek(shown, b) = Peek(m, b)
  BY SetCharKeepsCells DEF Peek
<1>2. vm_write_byte(m, a, v) = Poke(shown, a, v)
  BY DEF vm_write_byte
<1> HIDE DEF shown
<1> QED
  BY <1>1, <1>2, PeekPoke

LEMMA Positions ==
  ASSUME Typed, NEW k \in Int
  PROVE  /\ step \in Int /\ step * k \in Int /\ (step * k = k \/ step * k = 0 - k)
         /\ step * 0 = 0 /\ step * (k + 1) = step + step * k
         /\ reg["si"] \in Int /\ reg["di"] \in Int /\ reg["ds"] \in Nat /\ reg["es"] \in Nat
<1>1. reg["si"] \in Int /\ reg["di"] \in Int /\ reg["ds"] \in Nat /\ reg["es"] \in Nat
  BY RegIsWord DEF RegName
<1>2. step \in {1, -1}
  BY DEF step
<1>3. CASE step = 1
  BY <1>1, <1>3, SMT
<1>4. CASE step = -1
  BY <1>1, <1>4, SMT
<1> QED
  BY <1>2, <1>3, <1>4

\* The addresses a round leaves behind.
LEMMA OneStep ==
  ASSUME Typed, NEW k \in Int, reg'["flags"] = reg["flags"],
         \A r \in {"ds", "es"} : reg'[r] = reg[r],
         reg'["si"] = Wrap(reg["si"] + step), reg'["di"] = Wrap(reg["di"] + step)
  PROVE  From(k)' = From(k + 1) /\ To(k)' = To(k + 1)
<1>1. step' = step
  BY DEF step, DF, Masked
<1>2. step \in Int /\ step * k \in Int /\ step * (k + 1) = step + step * k
      /\ reg["si"] \in Int /\ reg["di"] \in Int
  BY Positions
<1> DEFINE far == step * k
           one == step
<1> HIDE DEF far, one
<1>3. \A x \in Int : Wrap(Wrap(x + one) + far) = Wrap((x + one) + far)
  <2>1. far \in Int /\ one \in Int
    BY <1>2 DEF far, one
  <2>2. \A x \in Int : x + one \in Int
    BY <2>1
  <2> QED
    BY <2>1, <2>2, WrapPlus
<1>4. \A x \in Int : (x + one) + far = x + (one + far)
  BY <1>2, SMT DEF far, one
<1>5. \A x \in Int : Wrap(Wrap(x + one) + far) = Wrap(x + (one + far))
  BY <1>3, <1>4
<1>6. From(k)' = vm_addr_calc(reg.ds, Wrap(Wrap(reg.si + one) + far))
      /\ To(k)' = vm_addr_calc(reg.es, Wrap(Wrap(reg.di + one) + far))
  BY <1>1 DEF From, To, far, one
<1>7. From(k + 1) = vm_addr_calc(reg.ds, Wrap(reg.si + (one + far)))
      /\ To(k + 1) = vm_addr_calc(reg.es, Wrap(reg.di + (one + far)))
  BY <1>2 DEF From, To, far, one
<1> QED
  BY <1>2, <1>5, <1>6, <1>7

\* Two bytes of a block are different bytes.
LEMMA TargetsDiffer ==
  ASSUME Typed, NEW k \in Int, k # 0, Near(k, 0)
  PROVE  To(k) # To(0)
<1> SUFFICES ASSUME To(k) = To(0) PROVE FALSE
  OBVIOUS
<1>1. Wrap(reg["di"] + step * k) = Wrap(reg["di"] + step * 0)
  <2> DEFINE a == Wrap(reg["di"] + step * k)
             b == Wrap(reg["di"] + step * 0)
             e == reg["es"]
  <2>1. reg["di"] + step * k \in Int /\ reg["di"] + step * 0 \in Int /\ e \in Nat
    <3>1. reg["di"] \in Int /\ step * k \in Int /\ step * 0 = 0 /\ e \in Nat
      BY Positions
    <3> HIDE DEF e
    <3> QED
      BY <3>1, SMT
  <2>2. a \in Word /\ b \in Word
    <3> DEFINE x == reg["di"] + step * k
               y == reg["di"] + step * 0
    <3> HIDE DEF x, y
    <3>1. Wrap(x) \in Word /\ Wrap(y) \in Word
      BY <2>1, WrapIsWord DEF x, y
    <3> QED
      BY <3>1 DEF x, y
  <2>3. e * 16 + a = e * 16 + b
    BY DEF To, vm_addr_calc
  <2> HIDE DEF a, b, e
  <2>4. a \in Nat /\ b \in Nat /\ e * 16 \in Nat
    BY <2>1, <2>2, WordBounds
  <2>5. a = b
    BY <2>3, <2>4
  <2> QED
    BY <2>5 DEF a, b
<1>2. /\ step * k \in Int /\ step * 0 = 0 /\ 0 \in Int /\ reg["di"] \in Int
      /\ (step * k = k \/ step * k = 0 - k)
  BY Positions
<1>3. Near(step * k, 0) /\ step * k # 0
  <2> DEFINE far == step * k
  <2>1. far = k \/ far = 0 - k
    BY <1>2
  <2> HIDE DEF far
  <2>2. Near(far, 0) /\ far # 0
    BY <2>1, SMT DEF Near
  <2> QED
    BY <2>2 DEF far
<1> DEFINE far == step * k
           x == reg["di"]
<1>4. far \in Int /\ 0 \in Int /\ x \in Int /\ Near(far, 0) /\ far # 0 /\ Wrap(x + far) = Wrap(x + 0)
  BY <1>1, <1>2, <1>3
<1> HIDE DEF far, x
<1> QED
  BY <1>4, WrapApart

LEMMA ByteMoved ==
  ASSUME Typed, RepInv, BlockInv, BlocksApart, InstructionKept, string, rep # << >>, rep' = rep,
         status = "run", Len(rep) = 1, rep[1] \in Loop
  PROVE  Copied(rep[1])'
<1> DEFINE l == rep[1]
<1> SUFFICES ASSUME Moves(l)'
             PROVE  (\A i \in 0 .. Passed(l) - 1 : SameAt(i - Passed(l)))'
  BY DEF Copied
<1>0. PICK n \in Nat : l.n = n
  BY DEF Loop
<1>1. reg'["flags"] = reg["flags"] /\ status' = "again"
      /\ \A r \in {"cx", "ds", "es"} : reg'[r] = reg[r]
  BY StringKeeps
<1>2. Moves(l) /\ l.from \in Nat
  <2>1. Byte1(l.ip)' = Byte1(l.ip)
    BY DEF InstructionKept
  <2>2. (Ending(l) <=> Ending(l)') /\ l' = l
    BY <1>1 DEF Ending, ZF, Masked
  <2>3. l.from \in Word
    BY DEF Loop
  <2> QED
    BY <2>1, <2>2, <2>3, WordBounds DEF Moves
<1>3. n < l.from /\ l.from =< 65535
  <2>1. Counted(l) /\ l.from \in Word
    BY DEF RepInv, Loop
  <2>2. n < Total(l) /\ l.from = Total(l)
    BY <1>0, <1>2, <2>1, TotalIsPositive DEF Moves, Counted
  <2> QED
    BY <2>1, <2>2, WordBounds
<1>4. opcode = 164
  BY <1>2 DEF Typed, Moves, opcode
<1>5. movsw_8
  BY <1>4 DEF string, movsw_8, movsw_16, stos_8, stos_16, lods_8, lods_16, cmps, scas, Opcode
<1>6. reg' = Moved(1) /\ mem' = vm_write_byte(mem, Target, vm_read_byte(mem, Source))
  BY <1>5 DEF movsw_8, Done
<1>7. reg'["si"] = Wrap(reg["si"] + step) /\ reg'["di"] = Wrap(reg["di"] + step)
  BY <1>6 DEF Moved, At, Typed, RegName, step
<1>8. Source = From(0) /\ Target = To(0)
  <2>1. reg["si"] \in Word /\ reg["di"] \in Word
    BY RegIsWord DEF RegName
  <2>2. reg["si"] + step * 0 = reg["si"] /\ reg["di"] + step * 0 = reg["di"]
    <3>1. step * 0 = 0 /\ reg["si"] \in Int /\ reg["di"] \in Int
      BY Positions
    <3> QED
      BY <3>1
  <2> QED
    BY <2>1, <2>2, WordIsWrapped DEF Source, Target, From, To
<1>9. \A i \in 0 .. n : ByteBacked(From(i - n)) /\ ByteBacked(To(i - n)) /\ From(i - n) # To(0)
  <2>1. \A i, j \in 0 .. l.from - 1 :
          /\ ByteBacked(From(i - n)) /\ ByteBacked(To(i - n)) /\ From(i - n) # To(j - n)
    BY <1>0, <1>4 DEF BlocksApart
  <2>2. n \in 0 .. l.from - 1 /\ n - n = 0 /\ \A i \in 0 .. n : i \in 0 .. l.from - 1
    BY <1>2, <1>3, SMT
  <2> QED
    BY <2>1, <2>2
<1>10. \A b : Peek(mem', b) = IF b = To(0) THEN Peek(mem, From(0)) ELSE Peek(mem, b)
  <2>1. n \in 0 .. n /\ n - n = 0
    BY <1>2
  <2>2. ByteBacked(From(0)) /\ ByteBacked(To(0))
    BY <1>9, <2>1
  <2>3. vm_read_byte(mem, Source) = Peek(mem, From(0))
    BY <1>8, <2>2 DEF vm_read_byte
  <2> QED
    BY <1>6, <1>8, <2>2, <2>3, ByteElsewhere DEF Typed, MemOK
<1>11. ASSUME NEW i \in 0 .. n
       PROVE  Peek(mem', To(i - n)) = Peek(mem', From(i - n))
  <2>1. Peek(mem', From(i - n)) = Peek(mem, From(i - n))
    BY <1>9, <1>10
  <2>2. CASE i = n
    BY <1>2, <1>10, <2>1, <2>2
  <2>3. CASE i # n
    <3>1. i - n \in Int /\ i - n # 0 /\ Near(i - n, 0)
      BY <1>2, <1>3, <2>3, SMT DEF Near
    <3>2. Peek(mem', To(i - n)) = Peek(mem, To(i - n))
      BY <1>10, <3>1, TargetsDiffer
    <3>3. SameAt(i - n)
      <4>1. Passed(l) = n /\ i \in 0 .. n - 1
        BY <1>0, <2>3 DEF Passed
      <4>2. Copied(l)
        BY DEF BlockInv
      <4> QED
        BY <1>2, <4>1, <4>2 DEF Copied
    <3> QED
      BY <2>1, <3>2, <3>3 DEF SameAt
  <2> QED
    BY <2>2, <2>3
<1>12. ASSUME NEW i \in 0 .. n
       PROVE  SameAt(i - (n + 1))'
  <2>1. PICK k \in Int : k = i - (n + 1)
    OBVIOUS
  <2>2. k + 1 = i - n
    BY <2>1
  <2>3. From(k)' = From(k + 1) /\ To(k)' = To(k + 1)
    BY <1>1, <1>7, OneStep
  <2> QED
    BY <1>11, <2>1, <2>2, <2>3 DEF SameAt
<1>13. Passed(l)' = n + 1 /\ (n + 1) - 1 = n
  BY <1>0, <1>1 DEF Passed
<1> QED
  BY <1>12, <1>13 DEF SameAt, To, From

LEMMA BlockGrows ==
  ASSUME Typed, RepInv, RepeatsStrings, BlockInv, BlocksApart, [Next]_vars, [InstructionKept]_vars
  PROVE  BlockInv'
<1>1. CASE UNCHANGED vars
  BY <1>1 DEF vars, BlockInv, Copied, Moves, Passed, SameAt, From, To, step, DF, Masked, Ending, ZF,
              Byte1
<1>2. CASE cpu8086_proc /\ rep_again
  <2> DEFINE l == rep[1]
  <2>1. l \in Loop /\ Counted(l) /\ Copied(l) /\ status = "again" /\ mem' = mem
        /\ reg'["flags"] = reg["flags"]
        /\ \A r \in {"ds", "es", "si", "di", "cs"} : reg'[r] = reg[r]
    BY <1>2, RoundDoes DEF RepInv, BlockInv
  <2>2. CASE rep' = << >>
    BY <2>2 DEF BlockInv
  <2>3. CASE /\ status' = "run" /\ DOMAIN rep' = {1}
             /\ l' = [l EXCEPT !.n = IF @ < MaxRounds THEN @ + 1 ELSE @]
    <3>1. l'.kind = l.kind /\ l'.from = l.from /\ l'.ip = l.ip /\ l.n \in Nat
      BY <2>1, <2>3 DEF Loop
    <3>2. Moves(l)' => Moves(l)
      BY <2>1, <3>1 DEF Moves, Ending, ZF, Masked, Byte1
    <3>3. \A k : SameAt(k)' = SameAt(k)
      BY <2>1 DEF SameAt, From, To, step, DF, Masked
    <3>4. Moves(l) => l.n < MaxRounds
      BY <2>1, TotalIsPositive, SMT DEF Moves, Counted, MaxRounds
    <3>5. Moves(l) => l'.n = l.n + 1
      BY <2>1, <2>3, <3>4 DEF Loop
    <3>6. Moves(l) => Passed(l)' = Passed(l)
      BY <2>1, <2>3, <3>5 DEF Passed
    <3>7. Copied(rep[1])'
      BY <2>1, <3>2, <3>3, <3>6 DEF Copied
    <3> QED
      BY <2>3, <3>7 DEF BlockInv
  <2> QED
    BY <1>2, <2>2, <2>3, RoundDoes DEF RepInv
<1>3. CASE cpu8086_proc /\ repe
  <2>1. rep = << >> /\ status' = "run"
    BY <1>3 DEF RepeatsStrings, repe, Opcode, Running, Strings
  <2>2. DOMAIN rep' = {1} /\ rep'[1].n = 0
    BY <1>3, <2>1 DEF repe
  <2>3. Copied(rep[1])'
    BY <2>1, <2>2 DEF Copied, Passed
  <2> QED
    BY <2>2, <2>3 DEF BlockInv
<1>4. CASE cpu8086_proc /\ handler
  <2>1. rep' = rep
    BY <1>4, HandlerSteps DEF StepsOn, Stopped, Returned
  <2>2. CASE rep = << >>
    BY <2>1, <2>2 DEF BlockInv
  <2>3. CASE rep # << >> /\ status # "run"
    <3>1. Stopped
      BY <1>4, <2>3, HandlerSteps DEF StepsOn, Returned
    <3>2. status' # "run"
      BY <3>1 DEF Stopped, Ends
    <3> QED
      BY <2>1, <2>3, <3>1, <3>2 DEF Stopped, BlockInv, Copied, Moves, Passed, SameAt, From, To, step,
                                    DF, Masked, Ending, ZF, Byte1
  <2>4. CASE rep # << >> /\ status = "run"
    <3>1. string
      BY <1>4, <2>4, BodyIsString
    <3>2. Len(rep) = 1 /\ DOMAIN rep = {1} /\ rep[1] \in Loop
      BY <2>4, OneLoop DEF RepInv
    <3>3. InstructionKept
      BY <2>4, <3>1, StringKeeps DEF vars
    <3>4. Copied(rep[1])'
      BY <2>1, <2>4, <3>1, <3>2, <3>3, ByteMoved
    <3> QED
      BY <2>1, <3>2, <3>4 DEF BlockInv
  <2> QED
    BY <2>2, <2>3, <2>4
<1> QED
  BY <1>1, <1>2, <1>3, <1>4, Steps DEF Next, Ended

\* rep movsb moves a block in either direction: if the blocks lie in the memory
\* and are disjoint, and nothing overwrites a loop's instruction, then at the
\* end of the loop the bytes di has passed are those si has passed.
THEOREM MovesBlocks ==
  ASSUME ProgramsFit
  PROVE  Spec /\ []RepeatsStrings /\ []BlocksApart /\ InstructionStays => RepMovesBlock
<1> DEFINE MovedOne ==
             (LoopEnds /\ Byte1(rep[Len(rep)].ip) = 164) =>
               LET n == rep[Len(rep)].from
                   passed(i) == IF DF = 0 THEN i - n ELSE n - i
               IN  \A i \in 0 .. n - 1 :
                     Peek(mem, vm_addr_calc(reg.es, Wrap(reg.di + passed(i))))
                       = Peek(mem, vm_addr_calc(reg.ds, Wrap(reg.si + passed(i))))
<1>1. Init => BlockInv
  BY DEF Init, BlockInv
<1>2. Typed /\ RepInv /\ RepeatsStrings /\ BlockInv /\ BlocksApart /\ [Next]_vars
        /\ [InstructionKept]_vars => BlockInv'
  BY BlockGrows
<1>3. ASSUME Typed, RepInv, BlockInv, cpu8086_proc
      PROVE  MovedOne
  <2> SUFFICES ASSUME LoopEnds, Byte1(rep[Len(rep)].ip) = 164, NEW i \in 0 .. rep[Len(rep)].from - 1
               PROVE  LET n == rep[Len(rep)].from
                          d == IF DF = 0 THEN i - n ELSE n - i
                      IN  Peek(mem, vm_addr_calc(reg.es, Wrap(reg.di + d)))
                            = Peek(mem, vm_addr_calc(reg.ds, Wrap(reg.si + d)))
    OBVIOUS
  <2> DEFINE l == rep[1]
             n == l.from
             d == IF DF = 0 THEN i - n ELSE n - i
  <2>1. Len(rep) = 1 /\ l \in Loop /\ Ending(l) /\ l.n + 1 = Total(l)
    BY <1>3, LastRound
  <2>2. n \in Nat /\ n # 0 /\ i \in Int /\ n = Total(l)
    <3>1. n \in Nat
      BY <2>1, WordBounds DEF Loop
    <3> HIDE DEF n
    <3>2. n # 0 /\ i \in Int
      BY <2>1, <3>1 DEF n
    <3> QED
      BY <2>1, <3>1, <3>2 DEF Total, n
  <2>3. Moves(l) /\ Passed(l) = n
    BY <2>1, <2>2 DEF Moves, Passed, LoopEnds
  <2>4. Copied(l)
    BY <1>3, <2>1, OneLoop DEF BlockInv, RepInv
  <2>5. SameAt(i - n)
    BY <2>1, <2>3, <2>4 DEF Copied
  <2>6. step * (i - n) = d
    <3> HIDE DEF l, n
    <3>1. DF = 0 => step * (i - n) = d
      BY <2>2, SMT DEF step
    <3>2. DF # 0 => step * (i - n) = d
      BY <2>2, SMT DEF step
    <3> QED
      BY <3>1, <3>2
  <2> QED
    BY <2>1, <2>5, <2>6 DEF SameAt, From, To
<1>4. ASSUME Typed, RepInv, BlockInv, [Next]_vars
      PROVE  [MovedOne]_vars
  <2>1. CASE cpu8086_proc
    BY <1>3, <1>4, <2>1
  <2> HIDE DEF MovedOne
  <2>2. CASE UNCHANGED vars
    BY <2>2
  <2> QED
    BY <1>4, <2>1, <2>2 DEF Next, Ended
<1>5. Typed /\ RepInv /\ BlockInv /\ [Next]_vars => [MovedOne]_vars
  BY <1>4
<1> QED
  BY <1>1, <1>2, <1>5, LoopsAreCounted, Inductive, PTL DEF Spec, InstructionStays, RepMovesBlock

-----------------------------------------------------------------------------
(* Running a given program *)

\* The bytes of the program that ip points at, the code segment being 0x7c0.
CodeByte(m, ip) == Peek(m, 31744 + ip)
CodeWord(m, ip) == CodeByte(m, ip) + 256 * CodeByte(m, ip + 1)

LEMMA InCode ==
  ASSUME Typed, reg["cs"] = 1984, NEW ip \in 0 .. 24
  PROVE  Byte1(ip) = CodeByte(mem, ip) /\ Word1(ip) = CodeWord(mem, ip)
<1>1. vm_addr_calc(reg.cs, ip) = 31744 + ip
  BY SMT DEF vm_addr_calc
<1>2. InByteBranch(4, 31744 + ip) /\ InWordBranch(4, 31744 + ip) /\ 4 \in DOMAIN Region
  BY SMT DEF InByteBranch, InWordBranch, Region
<1>3. ByteBacked(31744 + ip) /\ WordBacked(31744 + ip)
  BY <1>2 DEF ByteBacked, WordBacked
<1>4. 31744 + (ip + 1) = 31744 + ip + 1
  BY SMT
<1> QED
  BY <1>1, <1>3, <1>4, SMT DEF Byte1, Word1, vm_read_byte, vm_read_word, CodeByte, CodeWord

\* The handlers of the opcodes the programs below use.
LEMMA Handlers ==
  ASSUME cpu8086_proc, status = "run"
  PROVE  /\ opcode \in {184, 185, 186, 190, 191} => mov_im162reg
         /\ opcode = 64 => inc_reg
         /\ opcode = 142 => mov_rm2seg_16
         /\ opcode = 252 => nop
         /\ opcode = 226 => loop_8
         /\ opcode = 235 => jmp_near_8
         /\ opcode = 244 => halt
         /\ opcode = 164 => movsw_8
         /\ opcode = 165 => movsw_16
         /\ opcode = 243 => repe
<1>1. ~rep_again /\ (repe => opcode \in {242, 243})
  BY DEF rep_again, Round, repe, Opcode
<1>2. move => /\ opcode \in {184, 185, 186, 190, 191} => mov_im162reg
              /\ opcode = 64 => inc_reg
              /\ opcode = 142 => mov_rm2seg_16
              /\ opcode = 252 => nop
  BY DEF move, mov_reg2rm_8, mov_reg2rm_16, mov_rm2reg_8, mov_rm2reg_16, mov_seg2rm_16,
         mov_rm2seg_16, mov_rm2ax, mov_ax2rm, mov_im82reg, mov_im2rm_8,
         mov_im2rm_16, xchg_reg2rm_8, xchg_reg2rm_16, xchg_regax, lea_rm2reg, les_rm2reg_16,
         xlat, cbw, cwd, dec_reg, not_an_opcode, nop, test_reg2rm, test_im8, test_im16,
         mov_im162reg, inc_reg, Opcode
<1>3. without_rep => /\ opcode = 226 => loop_8
                     /\ opcode = 235 => jmp_near_8
                     /\ opcode = 244 => halt
  BY DEF without_rep, push_reg, pop_reg, push_seg, push_ss, pop_seg, pop_ds, pop_rm16, pushf, popf,
         sahf, lahf, jcc_ip8, jmp_near_8, jmp_near_16, jmp_far, jcxz_8, call_near,
         call_far, ret, ret_im16, retf, retf_im16, int, iret, loop_8, halt, Opcode
<1>4. string => /\ opcode = 164 => movsw_8
                /\ opcode = 165 => movsw_16
  BY DEF string, movsw_8, movsw_16, stos_8, stos_16, lods_8, lods_16, cmps, scas, Opcode
<1>5. ASSUME opcode \in {64, 142, 184, 185, 186, 190, 191, 252}
      PROVE  move
  BY <1>1, <1>5, Steps, ControlOpcodes, ArithmeticOpcodes, StringPortOpcodes DEF handler
<1>6. ASSUME opcode \in {226, 235, 244}
      PROVE  without_rep
  BY <1>1, <1>6, Steps, MoveOpcodes, ArithmeticOpcodes, StringPortOpcodes DEF handler
<1>7. ASSUME opcode \in {164, 165}
      PROVE  string
  BY <1>1, <1>7, Steps, MoveOpcodes, ControlOpcodes, ArithmeticOpcodes, StringPortOpcodes DEF handler
<1>8. ASSUME opcode = 243
      PROVE  repe
  BY <1>1, <1>8, Steps, MoveOpcodes, ControlOpcodes, ArithmeticOpcodes, StringPortOpcodes DEF handler
<1> QED
  BY <1>2, <1>3, <1>4, <1>5, <1>6, <1>7, <1>8

\* A handler that sets ip and one register, and nothing else.
Sets_to(ip, name, v) ==
  /\ reg'["ip"] = ip /\ reg'[name] = v
  /\ \A r \in RegName \ {"ip", name} : reg'[r] = reg[r]
  /\ mem' = mem /\ rep' = rep /\ status' = "run"

LEMMA SetsOneRegister ==
  ASSUME Typed, rep = << >>, NEW ip, NEW name \in RegName \ {"ip"}, NEW v,
         DoneReg([At(ip) EXCEPT ![name] = v])
  PROVE  Sets_to(ip, name, v)
BY DEF Typed, At, DoneReg, Done, Sets_to, RegName

LEMMA MovSets ==
  ASSUME Typed, rep = << >>, mov_im162reg, NEW name \in RegName \ {"ip"},
         name = registers16[opcode - 183], NEW ip, ip = Wrap(ip1 + 2)
  PROVE  Sets_to(ip, name, Word1(ip1))
<1>1. Reg16(opcode - 184).name = name /\ Reg16(opcode - 184).type # "addr"
  <2>1. opcode \in 184 .. 191
    BY DEF mov_im162reg, Opcode
  <2>2. opcode - 184 + 1 = opcode - 183
    BY <2>1
  <2> QED
    BY <2>2 DEF Reg16
<1>2. DoneReg([At(ip) EXCEPT ![name] = Word1(ip1)])
  BY <1>1 DEF mov_im162reg, parse_format_imm_16, Put16, DoneReg
<1> QED
  BY <1>2, SetsOneRegister

-----------------------------------------------------------------------------
(* The counting loop *)

JoinedAt(s, t) ==
  /\ s \o t \in Seq(Byte) /\ Len(s \o t) = Len(s) + Len(t)
  /\ \A i \in 1 .. Len(s) : (s \o t)[i] = s[i]
  /\ \A i \in 1 .. Len(t) : (s \o t)[Len(s) + i] = t[i]
LEMMA JoinedBytes ==
  ASSUME NEW s \in Seq(Byte), NEW t \in Seq(Byte)
  PROVE  JoinedAt(s, t)
BY DEF JoinedAt

LEMMA LoopBytes ==
  ASSUME NEW n \in Word
  PROVE  LET p == CountingLoop(n)
         IN  /\ p \in Seq(Byte) /\ Len(p) = 10
             /\ p[1] = 186 /\ p[2] = Lo8(n) /\ p[3] = Hi8(n) /\ p[4] = 185 /\ p[5] = Lo8(n)
             /\ p[6] = Hi8(n) /\ p[7] = 64 /\ p[8] = 226 /\ p[9] = 253 /\ p[10] = 244
<1> DEFINE a == <<186>>
           b == <<Lo8(n), Hi8(n)>>
           c == <<185>>
           d == <<64, 226, 253, 244>>
           ab == a \o b
           cb == c \o b
           abcb == ab \o cb
<1>1. CountingLoop(n) = abcb \o d
  BY DEF CountingLoop, Imm, MovCx
<1>2. Lo8(n) \in Byte /\ Hi8(n) \in Byte /\ 186 \in Byte /\ 185 \in Byte /\ 64 \in Byte
      /\ 226 \in Byte /\ 253 \in Byte /\ 244 \in Byte
  BY Halves DEF Byte
<1>3. /\ a \in Seq(Byte) /\ Len(a) = 1 /\ a[1] = 186
      /\ b \in Seq(Byte) /\ Len(b) = 2 /\ b[1] = Lo8(n) /\ b[2] = Hi8(n)
      /\ c \in Seq(Byte) /\ Len(c) = 1 /\ c[1] = 185
      /\ d \in Seq(Byte) /\ Len(d) = 4 /\ d[1] = 64 /\ d[2] = 226 /\ d[3] = 253 /\ d[4] = 244
  BY <1>2
<1> HIDE DEF a, b, c, d
<1>4. /\ ab \in Seq(Byte) /\ Len(ab) = 3 /\ ab[1] = 186 /\ ab[2] = Lo8(n) /\ ab[3] = Hi8(n)
      /\ cb \in Seq(Byte) /\ Len(cb) = 3 /\ cb[1] = 185 /\ cb[2] = Lo8(n) /\ cb[3] = Hi8(n)
  <2>1. JoinedAt(a, b) /\ JoinedAt(c, b)
    BY <1>3, JoinedBytes
  <2>2. ab \in Seq(Byte) /\ Len(ab) = 3 /\ ab[1] = a[1] /\ ab[1 + 1] = b[1] /\ ab[1 + 2] = b[2]
    BY <1>3, <2>1, SMT DEF JoinedAt
  <2>3. cb \in Seq(Byte) /\ Len(cb) = 3 /\ cb[1] = c[1] /\ cb[1 + 1] = b[1] /\ cb[1 + 2] = b[2]
    BY <1>3, <2>1, SMT DEF JoinedAt
  <2> HIDE DEF ab, cb
  <2> QED
    BY <1>3, <2>2, <2>3
<1> HIDE DEF ab, cb
<1>5. /\ abcb \in Seq(Byte) /\ Len(abcb) = 6
      /\ abcb[1] = 186 /\ abcb[2] = Lo8(n) /\ abcb[3] = Hi8(n)
      /\ abcb[4] = 185 /\ abcb[5] = Lo8(n) /\ abcb[6] = Hi8(n)
  <2>1. JoinedAt(ab, cb)
    BY <1>4, JoinedBytes
  <2>2. abcb \in Seq(Byte) /\ Len(abcb) = 6
    BY <1>4, <2>1, SMT DEF JoinedAt
  <2>3. abcb[1] = ab[1] /\ abcb[2] = ab[2] /\ abcb[3] = ab[3]
    BY <1>4, <2>1, SMT DEF JoinedAt
  <2>4. abcb[3 + 1] = cb[1] /\ abcb[3 + 2] = cb[2] /\ abcb[3 + 3] = cb[3]
    BY <1>4, <2>1, SMT DEF JoinedAt
  <2> HIDE DEF abcb
  <2> QED
    BY <1>4, <2>2, <2>3, <2>4
<1> HIDE DEF abcb
<1> DEFINE p == abcb \o d
<1>6. /\ p \in Seq(Byte) /\ Len(p) = 10
      /\ p[1] = 186 /\ p[2] = Lo8(n) /\ p[3] = Hi8(n) /\ p[4] = 185 /\ p[5] = Lo8(n)
      /\ p[6] = Hi8(n) /\ p[7] = 64 /\ p[8] = 226 /\ p[9] = 253 /\ p[10] = 244
  <2>1. JoinedAt(abcb, d)
    BY <1>3, <1>5, JoinedBytes
  <2>2. p \in Seq(Byte) /\ Len(p) = 10
    BY <1>3, <1>5, <2>1, SMT DEF JoinedAt
  <2>3. \A i \in 1 .. 6 : p[i] = abcb[i]
    BY <1>5, <2>1, SMT DEF JoinedAt
  <2>4. \A i \in 1 .. 4 : p[6 + i] = d[i]
    <3>1. Len(abcb) = 6 /\ Len(d) = 4
      BY <1>3, <1>5
    <3>2. \A i \in 1 .. Len(d) : p[Len(abcb) + i] = d[i]
      BY <2>1 DEF JoinedAt
    <3> HIDE DEF p
    <3> QED
      BY <3>1, <3>2, SMT
  <2> HIDE DEF p
  <2> QED
    BY <1>3, <1>5, <2>2, <2>3, <2>4
<1> QED
  BY <1>1, <1>6

\* What the core reads at cs:ip.
LoopCode(m, n) ==
  /\ CodeByte(m, 0) = 186 /\ CodeByte(m, 1) = Lo8(n) /\ CodeByte(m, 2) = Hi8(n)
  /\ CodeByte(m, 3) = 185 /\ CodeByte(m, 4) = Lo8(n) /\ CodeByte(m, 5) = Hi8(n)
  /\ CodeByte(m, 6) = 64 /\ CodeByte(m, 7) = 226 /\ CodeByte(m, 8) = 253
  /\ CodeByte(m, 9) = 244

LEMMA LoopInMemory ==
  ASSUME NEW n \in Word
  PROVE  LoopCode(loadhd(CountingLoop(n)), n)
<1> DEFINE p == CountingLoop(n)
           c == [a \in MbrLo .. MbrLo + Len(p) - 1 |-> p[a - MbrLo + 1]]
           m == loadhd(p)
<1>1. m.cell = c
  BY DEF loadhd, vm_init
<1>2. /\ p[1] = 186 /\ p[2] = Lo8(n) /\ p[3] = Hi8(n) /\ p[4] = 185 /\ p[5] = Lo8(n)
      /\ p[6] = Hi8(n) /\ p[7] = 64 /\ p[8] = 226 /\ p[9] = 253 /\ p[10] = 244 /\ Len(p) = 10
  BY LoopBytes
<1> HIDE DEF p
<1>3. c = [a \in 31744 .. 31753 |-> p[a - 31743]]
  <2>1. MbrLo + Len(p) - 1 = 31753 /\ MbrLo = 31744
    BY <1>2, SMT DEF MbrLo
  <2>2. \A a \in 31744 .. 31753 : a - MbrLo + 1 = a - 31743
    BY SMT DEF MbrLo
  <2> QED
    BY <2>1, <2>2, SMT
<1> HIDE DEF c, m
<1>4. \A k \in 1 .. 10 : Peek(m, 31743 + k) = p[k]
  BY <1>1, <1>3, SMT DEF Peek
<1>5. /\ Peek(m, 31744) = p[1] /\ Peek(m, 31745) = p[2] /\ Peek(m, 31746) = p[3]
      /\ Peek(m, 31747) = p[4] /\ Peek(m, 31748) = p[5] /\ Peek(m, 31749) = p[6]
      /\ Peek(m, 31750) = p[7] /\ Peek(m, 31751) = p[8] /\ Peek(m, 31752) = p[9]
      /\ Peek(m, 31753) = p[10]
  BY <1>4, SMT
<1> QED
  BY <1>2, <1>5, SMT DEF m, p, LoopCode, CodeByte

\* Where the loop is, and what is left to count: cx and ax together always
\* make n, modulo 64 KB.
At_start(n)  == reg["ip"] = 0 /\ reg["ax"] = 0
At_mov_cx(n) == reg["ip"] = 3 /\ reg["dx"] = n /\ reg["ax"] = 0
At_inc(n)    == reg["ip"] = 6 /\ reg["dx"] = n /\ Wrap(reg["cx"] + reg["ax"]) = n
At_loop(n)   == reg["ip"] = 7 /\ reg["dx"] = n /\ Wrap(reg["cx"] + reg["ax"]) = Wrap(n + 1)
At_hlt(n)    == reg["ip"] = 9 /\ reg["dx"] = n /\ reg["ax"] = n
Counting(n) ==
  /\ LoopCode(mem, n) /\ rep = << >> /\ reg["cs"] = 1984
  /\ \/ status = "run" /\ (At_start(n) \/ At_mov_cx(n) \/ At_inc(n) \/ At_loop(n) \/ At_hlt(n))
     \/ status # "run" /\ reg["dx"] = n /\ reg["ax"] = n
CountInv == \E n \in Word : Counting(n)

LEMMA MovRuns ==
  ASSUME Typed, rep = << >>, reg["cs"] = 1984, NEW n \in Word, LoopCode(mem, n), mov_im162reg,
         reg["ip"] \in {0, 3}
  PROVE  Sets_to(reg["ip"] + 3, IF reg["ip"] = 0 THEN "dx" ELSE "cx", n)
<1> DEFINE k == reg["ip"]
           name == IF k = 0 THEN "dx" ELSE "cx"
<1>1. k \in 0 .. 24 /\ k + 1 \in 0 .. 24
  OBVIOUS
<1>2. opcode = (IF k = 0 THEN 186 ELSE 185) /\ ip1 = k + 1 /\ Wrap(ip1 + 2) = k + 3
  <2>1. opcode = CodeByte(mem, k)
    BY <1>1, InCode DEF opcode
  <2>2. CASE k = 0
    BY <2>1, <2>2, SMT DEF LoopCode, ip1, Wrap
  <2>3. CASE k = 3
    BY <2>1, <2>3, SMT DEF LoopCode, ip1, Wrap
  <2> QED
    BY <2>2, <2>3
<1>3. Word1(ip1) = n
  <2>1. Word1(k + 1) = CodeWord(mem, k + 1)
    BY <1>1, InCode
  <2>2. Lo8(n) + 256 * Hi8(n) = n
    BY WordBounds, SMT DEF Lo8, Hi8
  <2>3. CASE k = 0
    BY <1>2, <2>1, <2>2, <2>3, SMT DEF LoopCode, CodeWord
  <2>4. CASE k = 3
    BY <1>2, <2>1, <2>2, <2>4, SMT DEF LoopCode, CodeWord
  <2> QED
    BY <2>3, <2>4
<1>4. registers16[opcode - 183] = name
  <2>1. CASE k = 0
    BY <1>2, <2>1, SMT DEF registers16
  <2>2. CASE k = 3
    BY <1>2, <2>2, SMT DEF registers16
  <2> QED
    BY <2>1, <2>2
<1>5. name \in RegName \ {"ip"}
  BY DEF RegName
<1> HIDE DEF k, name
<1>6. Sets_to(k + 3, name, Word1(ip1))
  BY <1>2, <1>4, <1>5, MovSets
<1> QED
  BY <1>3, <1>6 DEF k, name

LEMMA IncRuns ==
  ASSUME Typed, rep = << >>, reg["cs"] = 1984, NEW n \in Word, LoopCode(mem, n), inc_reg,
         reg["ip"] = 6
  PROVE  Sets_to(7, "ax", Wrap(reg["ax"] + 1))
<1>1. opcode = 64 /\ ip1 = 7
  <2>1. opcode = CodeByte(mem, 6)
    BY InCode, 6 \in 0 .. 24 DEF opcode
  <2> QED
    BY <2>1, SMT DEF LoopCode, ip1, Wrap
<1>2. registers16[opcode - 63] = "ax"
  BY <1>1 DEF registers16
<1> DEFINE v == Wrap(reg["ax"] + 1)
<1>3. At(7)["ax"] = reg["ax"]
  BY DEF At, Typed, RegName
<1>4. DoneReg([At(7) EXCEPT !["ax"] = v])
  BY <1>1, <1>2, <1>3 DEF inc_reg
<1> HIDE DEF v
<1>5. "ax" \in RegName \ {"ip"}
  BY DEF RegName
<1>6. Sets_to(7, "ax", v)
  BY <1>4, <1>5, SetsOneRegister
<1> QED
  BY <1>6 DEF v

LEMMA LoopRuns ==
  ASSUME Typed, rep = << >>, reg["cs"] = 1984, NEW n \in Word, LoopCode(mem, n), loop_8,
         reg["ip"] = 7
  PROVE  Sets_to(IF Wrap(reg["cx"] - 1) # 0 THEN 6 ELSE 9, "cx", Wrap(reg["cx"] - 1))
<1>1. opcode = 226 /\ ip1 = 8
  <2>1. opcode = CodeByte(mem, 7)
    BY InCode, 7 \in 0 .. 24 DEF opcode
  <2> QED
    BY <2>1, SMT DEF LoopCode, ip1, Wrap
<1>2. parse_format_ipinc_8.offset = 6 /\ parse_format_ipinc_8.ip = 9
  <2>1. Byte1(8) = CodeByte(mem, 8)
    BY InCode, 8 \in 0 .. 24
  <2>2. Byte1(8) = 253
    BY <2>1, SMT DEF LoopCode
  <2> QED
    BY <1>1, <2>2, SMT DEF parse_format_ipinc_8, Lo8, Wrap
<1> DEFINE v == Wrap(reg["cx"] - 1)
           ip == IF v # 0 THEN 6 ELSE 9
<1>3. At(ip)["cx"] = reg["cx"]
  BY DEF At, Typed, RegName
<1>4. DoneReg([At(ip) EXCEPT !["cx"] = v])
  BY <1>1, <1>2, <1>3 DEF loop_8
<1>5. "cx" \in RegName \ {"ip"}
  BY DEF RegName
<1> HIDE DEF v, ip
<1>6. Sets_to(ip, "cx", v)
  BY <1>4, <1>5, SetsOneRegister
<1> QED
  BY <1>6 DEF v, ip

LEMMA CountsUp ==
  ASSUME NEW n \in Word, NEW cx \in Word, NEW ax \in Word, Wrap(cx + ax) = n
  PROVE  Wrap(cx + Wrap(ax + 1)) = Wrap(n + 1)
<1>1. cx \in Int /\ ax \in Int /\ n \in Int
  BY WordBounds
<1>2. /\ Wrap(Wrap(ax + 1) + cx) = Wrap((ax + 1) + cx)
      /\ Wrap(Wrap(cx + ax) + 1) = Wrap((cx + ax) + 1)
  <2>1. ax + 1 \in Int /\ cx + ax \in Int /\ 1 \in Int
    BY <1>1
  <2> QED
    BY <1>1, <2>1, WrapPlus
<1>3. (ax + 1) + cx = (cx + ax) + 1
  BY <1>1
<1>4. Wrap(ax + 1) + cx = cx + Wrap(ax + 1)
  <2>1. Wrap(ax + 1) \in Int
    BY <1>1, SMT DEF Wrap
  <2> QED
    BY <1>1, <2>1
<1> QED
  BY <1>2, <1>3, <1>4

LEMMA CountsDown ==
  ASSUME NEW n \in Word, NEW cx \in Word, NEW ax \in Word, Wrap(cx + ax) = Wrap(n + 1)
  PROVE  /\ Wrap(Wrap(cx - 1) + ax) = n
         /\ Wrap(cx - 1) = 0 => ax = n
<1>1. cx \in Int /\ ax \in Int /\ n \in Int
  BY WordBounds
<1>2. Wrap(Wrap(cx - 1) + ax) = Wrap((cx - 1) + ax)
  BY <1>1, WrapPlus
<1>3. Wrap(Wrap(cx + ax) - 1) = Wrap((cx + ax) - 1) /\ Wrap(Wrap(n + 1) - 1) = Wrap((n + 1) - 1)
  BY <1>1, WrapLess
<1>4. (cx - 1) + ax = (cx + ax) - 1 /\ (n + 1) - 1 = n /\ 0 + ax = ax
  BY <1>1
<1>5. Wrap(n) = n /\ Wrap(ax) = ax
  BY WordIsWrapped
<1> QED
  BY <1>2, <1>3, <1>4, <1>5

LEMMA LoopOpcodes ==
  ASSUME Typed, reg["cs"] = 1984, NEW n, LoopCode(mem, n)
  PROVE  /\ reg["ip"] = 0 => opcode = 186
         /\ reg["ip"] = 3 => opcode = 185
         /\ reg["ip"] = 6 => opcode = 64
         /\ reg["ip"] = 7 => opcode = 226
         /\ reg["ip"] = 9 => opcode = 244
<1>1. ASSUME reg["ip"] \in 0 .. 24
      PROVE  opcode = CodeByte(mem, reg["ip"])
  BY <1>1, InCode DEF opcode
<1> QED
  BY <1>1, SMT DEF LoopCode

LEMMA CountStep ==
  ASSUME Typed, NEW n \in Word, Counting(n), [Next]_vars
  PROVE  Counting(n)'
<1>1. CASE UNCHANGED vars
  BY <1>1 DEF vars, Counting, LoopCode, At_start, At_mov_cx, At_inc, At_loop, At_hlt
<1>2. CASE Ended
  BY <1>2 DEF Ended, vars, Counting, LoopCode, At_start, At_mov_cx, At_inc, At_loop, At_hlt
<1>3. ASSUME cpu8086_proc
      PROVE  Counting(n)'
  <2>1. LoopCode(mem, n) /\ rep = << >> /\ reg["cs"] = 1984
    BY DEF Counting
  <2>2. CASE status # "run"
    <3>1. handler
      BY <1>3, <2>1, <2>2, Steps DEF rep_again, repe, Opcode, Running
    <3>2. status' # "run" /\ UNCHANGED <<reg, mem, rep>>
      BY <2>2, <3>1, HandlerSteps DEF StepsOn, Stopped, Returned, Ends
    <3> QED
      BY <2>2, <3>2 DEF Counting, LoopCode
  <2> SUFFICES ASSUME status = "run"
               PROVE  Counting(n)'
    BY <2>2
  <2>3. /\ opcode \in {185, 186} => mov_im162reg
        /\ opcode = 64 => inc_reg
        /\ opcode = 226 => loop_8
        /\ opcode = 244 => halt
    BY <1>3, Handlers
  <2>4. reg["cx"] \in Word /\ reg["ax"] \in Word
    BY DEF Typed, RegName
  <2>5. ASSUME NEW ip, NEW name \in RegName \ {"ip", "cs"}, NEW v, Sets_to(ip, name, v)
        PROVE  LoopCode(mem, n)' /\ rep' = << >> /\ reg'["cs"] = 1984 /\ status' = "run"
    BY <2>1, <2>5 DEF Sets_to, LoopCode, RegName
  <2>6. CASE At_start(n)
    <3>1. mov_im162reg /\ reg["ip"] = 0 /\ reg["ax"] = 0
      BY <2>1, <2>3, <2>6, LoopOpcodes DEF At_start
    <3>2. Sets_to(3, "dx", n)
      BY <2>1, <3>1, MovRuns
    <3>3. reg'["ip"] = 3 /\ reg'["dx"] = n /\ reg'["ax"] = reg["ax"]
      BY <3>2 DEF Sets_to, RegName
    <3>4. "dx" \in RegName \ {"ip", "cs"}
      BY DEF RegName
    <3> QED
      BY <2>5, <3>1, <3>2, <3>3, <3>4 DEF Counting, At_mov_cx
  <2>7. CASE At_mov_cx(n)
    <3>1. mov_im162reg /\ reg["ip"] = 3 /\ reg["dx"] = n /\ reg["ax"] = 0
      BY <2>1, <2>3, <2>7, LoopOpcodes DEF At_mov_cx
    <3>2. Sets_to(6, "cx", n)
      BY <2>1, <3>1, MovRuns
    <3>3. n + 0 = n /\ Wrap(n) = n
      BY WordBounds, WordIsWrapped
    <3>4. reg'["ip"] = 6 /\ reg'["cx"] = n /\ reg'["ax"] = reg["ax"] /\ reg'["dx"] = reg["dx"]
      BY <3>2 DEF Sets_to, RegName
    <3>5. "cx" \in RegName \ {"ip", "cs"}
      BY DEF RegName
    <3> QED
      BY <2>5, <3>1, <3>2, <3>3, <3>4, <3>5 DEF Counting, At_inc
  <2>8. CASE At_inc(n)
    <3>1. inc_reg /\ reg["ip"] = 6 /\ reg["dx"] = n /\ Wrap(reg["cx"] + reg["ax"]) = n
      BY <2>1, <2>3, <2>8, LoopOpcodes DEF At_inc
    <3>2. Sets_to(7, "ax", Wrap(reg["ax"] + 1))
      BY <2>1, <3>1, IncRuns
    <3>3. Wrap(reg["cx"] + Wrap(reg["ax"] + 1)) = Wrap(n + 1)
      BY <2>4, <3>1, CountsUp
    <3>4. /\ reg'["ip"] = 7 /\ reg'["cx"] = reg["cx"] /\ reg'["ax"] = Wrap(reg["ax"] + 1)
          /\ reg'["dx"] = reg["dx"]
      BY <3>2 DEF Sets_to, RegName
    <3>5. "ax" \in RegName \ {"ip", "cs"}
      BY DEF RegName
    <3> QED
      BY <2>5, <3>1, <3>2, <3>3, <3>4, <3>5 DEF Counting, At_loop
  <2>9. CASE At_loop(n)
    <3>1. loop_8 /\ reg["ip"] = 7 /\ reg["dx"] = n /\ Wrap(reg["cx"] + reg["ax"]) = Wrap(n + 1)
      BY <2>1, <2>3, <2>9, LoopOpcodes DEF At_loop
    <3> DEFINE v == Wrap(reg["cx"] - 1)
    <3>2. Wrap(v + reg["ax"]) = n /\ (v = 0 => reg["ax"] = n)
      BY <2>4, <3>1, CountsDown
    <3>3. Sets_to(IF v # 0 THEN 6 ELSE 9, "cx", v)
      BY <2>1, <3>1, LoopRuns
    <3> HIDE DEF v
    <3>4. /\ reg'["ip"] = (IF v # 0 THEN 6 ELSE 9) /\ reg'["cx"] = v
          /\ reg'["ax"] = reg["ax"] /\ reg'["dx"] = reg["dx"]
      BY <3>3 DEF Sets_to, RegName
    <3>5. "cx" \in RegName \ {"ip", "cs"}
      BY DEF RegName
    <3>6. LoopCode(mem, n)' /\ rep' = << >> /\ reg'["cs"] = 1984 /\ status' = "run"
      BY <2>5, <3>3, <3>5
    <3>7. CASE v # 0
      BY <3>1, <3>2, <3>4, <3>6, <3>7 DEF Counting, At_inc
    <3>8. CASE v = 0
      BY <3>1, <3>2, <3>4, <3>6, <3>8 DEF Counting, At_hlt
    <3> QED
      BY <3>7, <3>8
  <2>10. CASE At_hlt(n)
    <3>1. halt /\ reg["dx"] = n /\ reg["ax"] = n
      BY <2>1, <2>3, <2>10, LoopOpcodes DEF At_hlt
    <3>2. status' = "spin" /\ UNCHANGED <<reg, mem, rep>>
      BY <3>1 DEF halt, Stop
    <3> QED
      BY <2>1, <3>1, <3>2 DEF Counting, LoopCode
  <2> QED
    BY <2>6, <2>7, <2>8, <2>9, <2>10 DEF Counting
<1> QED
  BY <1>1, <1>2, <1>3 DEF Next

LEMMA CountInit ==
  ASSUME Programs \subseteq {CountingLoop(n) : n \in Word}, Init
  PROVE  CountInv
<1>1. PICK p \in Programs : mem = loadhd(p)
  BY DEF Init
<1>2. PICK n \in Word : p = CountingLoop(n)
  BY <1>1
<1>3. LoopCode(mem, n)
  BY <1>1, <1>2, LoopInMemory
<1>4. /\ reg["cs"] = 1984 /\ reg["ip"] = 0 /\ reg["ax"] = 0
      /\ rep = << >> /\ status = "run"
  BY DEF Init, cpu8086_init, RegName
<1> QED
  BY <1>2, <1>3, <1>4 DEF CountInv, Counting, At_start

\* Every counting loop, not only the three of the run: mov cx, n; l: inc ax;
\* loop l; hlt stops with n, which mov dx, n put there before, in ax.  It holds
\* of the short jump, the decrement and the test of loop_8 together, and for
\* n = 0 the loop runs 65536 times.
THEOREM CountingLoopsCount ==
  ASSUME Programs \subseteq {CountingLoop(n) : n \in Word}
  PROVE  Spec => []CountsRounds
<1>1. ProgramsFit
  <2>1. ASSUME NEW p \in Programs
        PROVE  Len(p) = 10
    <3>1. PICK n \in Word : p = CountingLoop(n)
      OBVIOUS
    <3> QED
      BY <3>1, LoopBytes
  <2>2. MbrLo + 10 =< MemSize
    BY SMT DEF MbrLo, MemSize
  <2> QED
    BY <2>1, <2>2 DEF ProgramsFit
<1>2. Init => CountInv
  BY CountInit
<1>3. ASSUME Typed, CountInv, [Next]_vars
      PROVE  CountInv'
  <2>1. PICK n \in Word : Counting(n)
    BY <1>3 DEF CountInv
  <2>2. Counting(n)'
    BY <1>3, <2>1, CountStep
  <2> QED
    BY <2>2 DEF CountInv
<1>4. Typed /\ CountInv /\ [Next]_vars => CountInv'
  BY <1>3
<1>5. CountInv => CountsRounds
  BY DEF CountInv, Counting, CountsRounds
<1> QED
  BY <1>1, <1>2, <1>4, <1>5, Inductive, PTL DEF Spec

-----------------------------------------------------------------------------
(* A message on the screen *)

\* The programs of MCSystem, with any text that fits into a boot sector:
\* mov ax, 0xb800; mov es, ax; mov ax, 0x7c0; mov ds, ax; cld; mov si, 24;
\* mov di, d0; mov cx, rounds; rep movsb or movsw; jmp $.  The text follows,
\* every character in the low byte of a word.
unit(op) == op - 163
Rounds(text, op) == IF op = 165 THEN Len(text) ELSE 2 * Len(text)

StartUp(text, op, d0) ==
  <<184, 0, 184, 142, 192, 184, 192, 7, 142, 216, 252, 190, 24, 0, 191, Lo8(d0), Hi8(d0),
    185, Lo8(Rounds(text, op)), Hi8(Rounds(text, op)), 243, op, 235, 254>>

\* A word goes to the cell its address names, a byte to the cursor.
Even(n) == n % 2 = 0
IsMessage(text, op, d0) ==
  /\ text \in Seq(Byte) /\ Len(text) \in 1 .. 244
  /\ op \in {164, 165} /\ (op = 165 => d0 = 0)
  /\ d0 \in Nat /\ Even(d0) /\ d0 + 2 * Len(text) =< 32768

Holds(p, text, op, d0) ==
  /\ Len(p) \in 24 + 2 * Len(text) .. 512
  /\ \A i \in 1 .. 24 : p[i] = StartUp(text, op, d0)[i]
  /\ \A i \in 0 .. 2 * Len(text) - 1 :
       p[25 + i] = IF i % 2 = 0 THEN text[i \div 2 + 1] ELSE 0

LEMMA MessageSizes ==
  ASSUME NEW text, NEW op, NEW d0, IsMessage(text, op, d0)
  PROVE  /\ text \in Seq(Byte) /\ Len(text) \in Nat /\ 1 =< Len(text) /\ Len(text) =< 244
         /\ op \in {164, 165} /\ d0 \in Nat /\ d0 + 2 * Len(text) =< 32768
<1>1. text \in Seq(Byte) /\ Len(text) \in 1 .. 244
  BY SMT DEF IsMessage
<1>2. op \in {164, 165}
  BY SMT DEF IsMessage
<1>3. d0 \in Nat /\ d0 + 2 * Len(text) =< 32768
  BY SMT DEF IsMessage
<1> DEFINE L == Len(text)
<1>4. L \in 1 .. 244
  BY <1>1
<1> HIDE DEF L
<1>5. L \in Nat /\ 1 =< L /\ L =< 244
  BY <1>4, SMT
<1> QED
  BY <1>1, <1>2, <1>3, <1>5, SMT DEF L

\* What the core reads of it.
StartCode(m, text, op, d0) ==
  /\ CodeByte(m, 0) = 184 /\ CodeWord(m, 1) = 47104
  /\ CodeByte(m, 3) = 142 /\ CodeByte(m, 4) = 192
  /\ CodeByte(m, 5) = 184 /\ CodeWord(m, 6) = 1984
  /\ CodeByte(m, 8) = 142 /\ CodeByte(m, 9) = 216
  /\ CodeByte(m, 10) = 252
  /\ CodeByte(m, 11) = 190 /\ CodeWord(m, 12) = 24
  /\ CodeByte(m, 14) = 191 /\ CodeWord(m, 15) = d0
  /\ CodeByte(m, 17) = 185 /\ CodeWord(m, 18) = Rounds(text, op)
  /\ CodeByte(m, 20) = 243 /\ CodeByte(m, 21) = op
  /\ CodeByte(m, 22) = 235 /\ CodeByte(m, 23) = 254
TextBytes(m, text) ==
  \A i \in 0 .. 2 * Len(text) - 1 :
    CodeByte(m, 24 + i) = IF i % 2 = 0 THEN text[i \div 2 + 1] ELSE 0
MessageCode(m, text, op, d0) == StartCode(m, text, op, d0) /\ TextBytes(m, text)

LEMMA MessageInMemory ==
  ASSUME NEW text, NEW op, NEW d0, IsMessage(text, op, d0), NEW p, Holds(p, text, op, d0)
  PROVE  MessageCode(loadhd(p), text, op, d0)
<1> DEFINE c == [a \in MbrLo .. MbrLo + Len(p) - 1 |-> p[a - MbrLo + 1]]
           m == loadhd(p)
           n == Rounds(text, op)
           L == Len(text)
<1>1. m.cell = c
  BY DEF loadhd, vm_init
<1>2. L \in 1 .. 244 /\ Len(p) \in Nat /\ 24 + 2 * L =< Len(p)
  BY DEF IsMessage, Holds
<1> HIDE DEF L
<1>3. \A k \in 0 .. 23 + 2 * L : CodeByte(m, k) = p[k + 1]
  <2> SUFFICES ASSUME NEW k \in 0 .. 23 + 2 * L
               PROVE  Peek(m, 31744 + k) = p[k + 1]
    BY DEF CodeByte
  <2>1. 31744 + k \in MbrLo .. MbrLo + Len(p) - 1 /\ (31744 + k) - MbrLo + 1 = k + 1
    BY <1>2, SMT DEF MbrLo
  <2>2. 31744 + k \in DOMAIN c /\ c[31744 + k] = p[k + 1]
    BY <2>1
  <2> QED
    BY <1>1, <2>2 DEF Peek
<1> HIDE DEF c, m, n
<1>4. /\ p[1] = 184 /\ p[2] = 0 /\ p[3] = 184 /\ p[4] = 142 /\ p[5] = 192 /\ p[6] = 184
      /\ p[7] = 192 /\ p[8] = 7 /\ p[9] = 142 /\ p[10] = 216 /\ p[11] = 252 /\ p[12] = 190
      /\ p[13] = 24 /\ p[14] = 0 /\ p[15] = 191 /\ p[16] = Lo8(d0) /\ p[17] = Hi8(d0)
      /\ p[18] = 185 /\ p[19] = Lo8(n) /\ p[20] = Hi8(n) /\ p[21] = 243 /\ p[22] = op
      /\ p[23] = 235 /\ p[24] = 254
  BY DEF Holds, StartUp, n
<1>5. \A k \in 0 .. 23 : k \in 0 .. 23 + 2 * L
  BY <1>2
<1>6. Lo8(d0) + 256 * Hi8(d0) = d0 /\ Lo8(n) + 256 * Hi8(n) = n
  <2>1. d0 \in Nat /\ n \in Nat
    BY DEF IsMessage, n, Rounds
  <2> QED
    BY <2>1, SMT DEF Lo8, Hi8
<1>7. /\ CodeByte(m, 0) = p[1] /\ CodeByte(m, 1) = p[2] /\ CodeByte(m, 2) = p[3]
      /\ CodeByte(m, 3) = p[4] /\ CodeByte(m, 4) = p[5] /\ CodeByte(m, 5) = p[6]
      /\ CodeByte(m, 6) = p[7] /\ CodeByte(m, 7) = p[8] /\ CodeByte(m, 8) = p[9]
      /\ CodeByte(m, 9) = p[10] /\ CodeByte(m, 10) = p[11] /\ CodeByte(m, 11) = p[12]
      /\ CodeByte(m, 12) = p[13] /\ CodeByte(m, 13) = p[14] /\ CodeByte(m, 14) = p[15]
      /\ CodeByte(m, 15) = p[16] /\ CodeByte(m, 16) = p[17] /\ CodeByte(m, 17) = p[18]
      /\ CodeByte(m, 18) = p[19] /\ CodeByte(m, 19) = p[20] /\ CodeByte(m, 20) = p[21]
      /\ CodeByte(m, 21) = p[22] /\ CodeByte(m, 22) = p[23] /\ CodeByte(m, 23) = p[24]
  <2>1. \A k \in 0 .. 23 : CodeByte(m, k) = p[k + 1]
    BY <1>3, <1>5
  <2> QED
    BY <2>1, SMT
<1>8. StartCode(m, text, op, d0)
  BY <1>4, <1>6, <1>7, SMT DEF StartCode, CodeWord, n
<1>9. TextBytes(m, text)
  <2> SUFFICES ASSUME NEW i \in 0 .. 2 * L - 1
               PROVE  CodeByte(m, 24 + i) = IF i % 2 = 0 THEN text[i \div 2 + 1] ELSE 0
    BY DEF TextBytes, L
  <2>1. 24 + i \in 0 .. 23 + 2 * L /\ (24 + i) + 1 = 25 + i
    BY <1>2
  <2>2. p[25 + i] = IF i % 2 = 0 THEN text[i \div 2 + 1] ELSE 0
    BY DEF Holds, L
  <2> QED
    BY <1>3, <2>1, <2>2
<1> QED
  BY <1>8, <1>9 DEF MessageCode, m

LEMMA InFirstBytes ==
  ASSUME NEW ip \in 0 .. 20, reg["ip"] = ip
  PROVE  /\ ip1 = ip + 1 /\ Wrap(ip1 + 1) = ip + 2 /\ Wrap(ip1 + 2) = ip + 3
         /\ ip + 1 \in 0 .. 24
<1>1. ip \in Nat /\ ip =< 20
  BY SMT
<1>2. Wrap(ip + 1) = ip + 1 /\ Wrap((ip + 1) + 1) = ip + 2 /\ Wrap((ip + 1) + 2) = ip + 3
  BY <1>1, SMT DEF Wrap
<1>3. ip1 = ip + 1
  BY <1>2 DEF ip1
<1>4. ip + 1 \in 0 .. 24
  BY <1>1, SMT
<1> QED
  BY <1>2, <1>3, <1>4

LEMMA FetchesNext ==
  ASSUME Typed, reg["cs"] = 1984, NEW ip \in 0 .. 20, reg["ip"] = ip
  PROVE  Byte1(ip1) = CodeByte(mem, ip + 1) /\ Word1(ip1) = CodeWord(mem, ip + 1)
<1>1. \A k \in 0 .. 24 : Byte1(k) = CodeByte(mem, k) /\ Word1(k) = CodeWord(mem, k)
  BY InCode
<1>2. ip1 = ip + 1 /\ ip + 1 \in 0 .. 24
  BY InFirstBytes
<1> QED
  BY <1>1, <1>2

\* The two segment registers the program loads from ax.
LEMMA SegRuns ==
  ASSUME Typed, rep = << >>, reg["cs"] = 1984, NEW ip \in 0 .. 20, reg["ip"] = ip, mov_rm2seg_16,
         NEW b \in {192, 216}, CodeByte(mem, ip + 1) = b
  PROVE  Sets_to(ip + 2, IF b = 192 THEN "es" ELSE "ds", reg["ax"])
<1> DEFINE name == IF b = 192 THEN "es" ELSE "ds"
<1>1. ip1 = ip + 1 /\ Wrap(ip1 + 1) = ip + 2 /\ ip + 1 \in 0 .. 24
  BY InFirstBytes
<1>2. modrm = b
  BY FetchesNext DEF modrm
<1>3. Mod = 3 /\ RmField = 0 /\ RegField = (IF b = 192 THEN 0 ELSE 3)
  <2>1. 192 \div 64 = 3 /\ 216 \div 64 = 3 /\ 192 % 8 = 0 /\ 216 % 8 = 0
        /\ (192 \div 8) % 8 = 0 /\ (216 \div 8) % 8 = 3
    BY SMT
  <2>2. CASE b = 192
    BY <1>2, <2>1, <2>2 DEF Mod, RmField, RegField
  <2>3. CASE b = 216
    BY <1>2, <2>1, <2>3 DEF Mod, RmField, RegField
  <2> QED
    BY <2>2, <2>3
<1>4. ip2 = ip + 2
  <2>1. DispLen = 0
    BY <1>3 DEF DispLen
  <2> QED
    <3>1. (ip + 1) + 1 + 0 = (ip + 1) + 1
      OBVIOUS
    <3> QED
      BY <1>1, <2>1, <3>1 DEF ip2
<1> DEFINE o == parse_format_seg2rm_16
<1>5. /\ o.op1.name = name /\ o.op1.type # "addr" /\ o.ip = ip + 2
      /\ o.op2.name = "ax" /\ o.op2.type # "addr"
  <2>1. segments[(RegField % 4) + 1] = name
    <3>1. RegField % 4 = RegField
      BY <1>3
    <3> QED
      BY <1>3, <3>1 DEF segments
  <2>2. registers16[RmField + 1] = "ax"
    BY <1>3 DEF registers16
  <2> QED
    BY <1>3, <1>4, <2>1, <2>2 DEF parse_format_seg2rm_16, Rm, Reg16, Seg
<1>6. Put16(At(o.ip), o.op1, Value16(o.op2))
  BY <1>3 DEF mov_rm2seg_16, StaleOperands
<1>7. DoneReg([At(ip + 2) EXCEPT ![name] = reg["ax"]])
  <2> HIDE DEF o
  <2> QED
    BY <1>5, <1>6 DEF Put16, Value16, DoneReg
<1>8. name \in RegName \ {"ip"}
  BY DEF RegName
<1> HIDE DEF name
<1>9. Sets_to(ip + 2, name, reg["ax"])
  BY <1>7, <1>8, SetsOneRegister
<1> QED
  BY <1>9 DEF name

LEMMA WordRuns ==
  ASSUME Typed, rep = << >>, reg["cs"] = 1984, NEW ip \in 0 .. 20, reg["ip"] = ip, mov_im162reg,
         NEW name \in RegName \ {"ip"}, name = registers16[opcode - 183]
  PROVE  Sets_to(ip + 3, name, CodeWord(mem, ip + 1))
<1>1. ip1 = ip + 1 /\ ip + 1 \in 0 .. 24 /\ ip + 3 = Wrap(ip1 + 2)
  BY InFirstBytes
<1>2. Word1(ip1) = CodeWord(mem, ip + 1)
  BY FetchesNext
<1>3. Sets_to(ip + 3, name, Word1(ip1))
  BY <1>1, MovSets
<1> QED
  BY <1>2, <1>3

\* The cursor and the registers of a machine that has sent s characters.
Cursor(s) == mem.y * VGIO_WIDTH + mem.x = s
TextSegments == reg["es"] = 47104 /\ reg["ds"] = 1984
Starting(text, op, d0) ==
  \/ reg["ip"] = 0
  \/ reg["ip"] = 3 /\ reg["ax"] = 47104
  \/ reg["ip"] = 5 /\ reg["es"] = 47104
  \/ reg["ip"] = 8 /\ reg["es"] = 47104 /\ reg["ax"] = 1984
  \/ reg["ip"] \in {10, 11} /\ TextSegments
  \/ reg["ip"] = 14 /\ TextSegments /\ reg["si"] = 24
  \/ reg["ip"] = 17 /\ TextSegments /\ reg["si"] = 24 /\ reg["di"] = d0
  \/ reg["ip"] = 20 /\ TextSegments /\ reg["si"] = 24 /\ reg["di"] = d0
       /\ reg["cx"] = Rounds(text, op)

\* j units have been moved.
Sent(op, j) == IF op = 165 THEN j ELSE (j + 1) \div 2
Moving(text, op, d0, j) ==
  /\ Len(rep) = 1 /\ rep[1].kind = "repe" /\ rep[1].ip = 21 /\ TextSegments
  /\ reg["si"] = 24 + unit(op) * j /\ reg["di"] = d0 + unit(op) * j
  /\ \/ status = "run" /\ reg["ip"] = 21 /\ j < Rounds(text, op) /\ reg["cx"] = Rounds(text, op) - j
     \/ status = "again" /\ reg["ip"] = 22 /\ 0 < j /\ reg["cx"] = Rounds(text, op) - j + 1

Machine(text, op, d0, s) ==
  /\ MessageCode(mem, text, op, d0) /\ reg["cs"] = 1984 /\ reg["flags"] = 0 /\ Cursor(s)
  /\ \/ rep = << >> /\ status = "run" /\ s = 0 /\ Starting(text, op, d0)
     \/ rep = << >> /\ status = "run" /\ reg["ip"] = 22
     \/ \E j \in 0 .. Rounds(text, op) : s = Sent(op, j) /\ Moving(text, op, d0, j)

LEMMA MessageOpcodes ==
  ASSUME Typed, NEW text, NEW op, NEW d0, MessageCode(mem, text, op, d0), reg["cs"] = 1984
  PROVE  /\ reg["ip"] \in {0, 5} => opcode = 184
         /\ reg["ip"] \in {3, 8} => opcode = 142
         /\ reg["ip"] = 10 => opcode = 252
         /\ reg["ip"] = 11 => opcode = 190
         /\ reg["ip"] = 14 => opcode = 191
         /\ reg["ip"] = 17 => opcode = 185
         /\ reg["ip"] = 20 => opcode = 243
         /\ reg["ip"] = 21 => opcode = op
         /\ reg["ip"] = 22 => opcode = 235
<1>1. ASSUME reg["ip"] \in 0 .. 24
      PROVE  opcode = CodeByte(mem, reg["ip"])
  BY <1>1, InCode DEF opcode
<1> QED
  BY <1>1, SMT DEF MessageCode, StartCode

\* Every store is in the text memory, above the program.
LEMMA CodeKept ==
  ASSUME NEW text, NEW op, NEW d0, IsMessage(text, op, d0), NEW m, NEW s,
         MessageCode(m, text, op, d0), \A b \in Nat : b < TextLo => Peek(s, b) = Peek(m, b)
  PROVE  MessageCode(s, text, op, d0)
<1>1. \A k \in 0 .. 600 : CodeByte(s, k) = CodeByte(m, k)
  <2> SUFFICES ASSUME NEW k \in 0 .. 600
               PROVE  Peek(s, 31744 + k) = Peek(m, 31744 + k)
    BY DEF CodeByte
  <2>1. 31744 + k \in Nat /\ 31744 + k < TextLo
    BY SMT DEF TextLo
  <2> QED
    BY <2>1
<1>2. \A k \in 0 .. 24 : k \in 0 .. 600 /\ k + 1 \in 0 .. 600
  BY SMT
<1>3. \A k \in 0 .. 24 : CodeByte(s, k) = CodeByte(m, k) /\ CodeWord(s, k) = CodeWord(m, k)
  BY <1>1, <1>2 DEF CodeWord
<1>4. StartCode(s, text, op, d0)
  <2>1. StartCode(m, text, op, d0)
    BY DEF MessageCode
  <2> QED
    BY <1>3, <2>1, SMT DEF StartCode
<1>5. TextBytes(s, text)
  <2> SUFFICES ASSUME NEW i \in 0 .. 2 * Len(text) - 1
               PROVE  CodeByte(s, 24 + i) = IF i % 2 = 0 THEN text[i \div 2 + 1] ELSE 0
    BY DEF TextBytes
  <2>1. 24 + i \in 0 .. 600
    BY MessageSizes, SMT
  <2>2. CodeByte(m, 24 + i) = IF i % 2 = 0 THEN text[i \div 2 + 1] ELSE 0
    BY DEF MessageCode, TextBytes
  <2> QED
    BY <1>1, <2>1, <2>2
<1> QED
  BY <1>4, <1>5 DEF MessageCode

\* The text is in the boot sector, whose last word is the last one backed.
LEMMA TextIsRead ==
  ASSUME NEW text, NEW op, NEW d0, IsMessage(text, op, d0), NEW m, TextBytes(m, text)
  PROVE  /\ \A i \in 0 .. 2 * Len(text) - 1 :
              vm_read_byte(m, 31768 + i) = IF i % 2 = 0 THEN text[i \div 2 + 1] ELSE 0
         /\ \A j \in 0 .. Len(text) - 1 : vm_read_word(m, 31768 + 2 * j) = text[j + 1]
<1> DEFINE L == Len(text)
<1>1. text \in Seq(Byte) /\ L \in Nat /\ L =< 244
  BY MessageSizes
<1>2. L \in Nat /\ L =< 244
  BY <1>1, Zenon
<1>3. ASSUME NEW i \in 0 .. 2 * L - 1
      PROVE  /\ ByteBacked(31768 + i)
             /\ Peek(m, 31768 + i) = IF i % 2 = 0 THEN text[i \div 2 + 1] ELSE 0
  <2> HIDE DEF L
  <2>1. 4 \in DOMAIN Region /\ InByteBranch(4, 31768 + i)
    BY <1>2, SMT DEF Region, InByteBranch
  <2>2. 31744 + (24 + i) = 31768 + i
    BY <1>2, SMT
  <2>3. CodeByte(m, 24 + i) = Peek(m, 31768 + i)
    BY <2>2 DEF CodeByte
  <2>4. CodeByte(m, 24 + i) = IF i % 2 = 0 THEN text[i \div 2 + 1] ELSE 0
    BY DEF TextBytes, L
  <2> QED
    BY <2>1, <2>3, <2>4 DEF ByteBacked
<1>4. ASSUME NEW j \in 0 .. L - 1
      PROVE  vm_read_word(m, 31768 + 2 * j) = text[j + 1]
  <2>1. text[j + 1] \in Byte
    BY <1>1
  <2> HIDE DEF L
  <2>2. 4 \in DOMAIN Region /\ InWordBranch(4, 31768 + 2 * j)
    BY <1>2, SMT DEF Region, InWordBranch
  <2>3. WordBacked(31768 + 2 * j)
    BY <2>2 DEF WordBacked
  <2>4. /\ 2 * j \in 0 .. 2 * L - 1 /\ 2 * j + 1 \in 0 .. 2 * L - 1
        /\ (2 * j) % 2 = 0 /\ (2 * j) \div 2 = j /\ (2 * j + 1) % 2 = 1
    BY <1>2, SMT
  <2>5. (31768 + 2 * j) + 1 = 31768 + (2 * j + 1)
    BY <1>2, SMT
  <2> DEFINE e == 2 * j
             o == 2 * j + 1
  <2>6. e \in 0 .. 2 * L - 1 /\ o \in 0 .. 2 * L - 1 /\ e % 2 = 0 /\ e \div 2 = j /\ o % 2 = 1
    BY <2>4
  <2> HIDE DEF e, o
  <2>7. Peek(m, 31768 + e) = text[j + 1] /\ Peek(m, 31768 + o) = 0
    BY <1>3, <2>6, SMT
  <2>8. Peek(m, 31768 + 2 * j) = text[j + 1] /\ Peek(m, (31768 + 2 * j) + 1) = 0
    BY <2>5, <2>7 DEF e, o
  <2>9. vm_read_word(m, 31768 + 2 * j) = text[j + 1] + 256 * 0
    BY <2>3, <2>8 DEF vm_read_word
  <2> QED
    BY <2>1, <2>9, ByteBounds, SMT
<1> QED
  BY <1>3, <1>4 DEF vm_read_byte

\* A command that brings the screen from a to b characters of the text, and
\* what a step of the CPU adds to the wire.
Leads(text, vc, a, b) ==
  \/ vc.command = "set_cursor" /\ b = a
  \/ /\ vc.command = "set_char" /\ a < Len(text) /\ b = a + 1
     /\ vc.c = text[a + 1] /\ vc.y * VGIO_WIDTH + vc.x = a
Sends(text, w, a, b) ==
  \/ b = a /\ w = mem.wire
  \/ \E vc \in Command : Leads(text, vc, a, b) /\ w = Append(mem.wire, vc)
  \/ \E place, vc \in Command :
       /\ Leads(text, place, a, a) /\ Leads(text, vc, a, b)
       /\ w = Append(Append(mem.wire, place), vc)

LEMMA CursorMoves ==
  ASSUME NEW x \in Column, NEW y \in Byte, NEW s \in Nat, s =< 244, y * VGIO_WIDTH + x = s
  PROVE  NextY(x, y) * VGIO_WIDTH + NextX(x) = s + 1
<1>1. /\ VGIO_WIDTH \in Nat /\ VGIO_WIDTH >= 1 /\ x \in Nat /\ x =< VGIO_WIDTH - 1
      /\ y \in Nat /\ y =< 255
  BY WidthAssumption DEF Column, Byte
<1>2. y =< y * VGIO_WIDTH
  BY <1>1, SMT
<1>3. (y + 1) * VGIO_WIDTH = y * VGIO_WIDTH + VGIO_WIDTH
  BY <1>1, SMT
<1>4. CASE x + 1 < VGIO_WIDTH
  BY <1>1, <1>4, SMT DEF NextX, NextY
<1>5. CASE ~(x + 1 < VGIO_WIDTH)
  <2>1. NextX(x) = 0 /\ NextY(x, y) = (y + 1) % 256
    BY <1>5 DEF NextX, NextY
  <2>2. y * VGIO_WIDTH \in Nat
    BY <1>1
  <2> DEFINE q == y * VGIO_WIDTH
  <2> HIDE DEF q
  <2>3. y + 1 < 256 /\ q + VGIO_WIDTH = s + 1
    BY <1>1, <1>2, <1>5, <2>2, SMT DEF q
  <2>4. (y + 1) % 256 = y + 1
    BY <1>1, <2>3, SMT
  <2> QED
    BY <1>1, <1>3, <2>1, <2>3, <2>4, SMT DEF q
<1> QED
  BY <1>4, <1>5

\* What movsb and movsw do in the forward direction.
LEMMA MovsMoves ==
  ASSUME Typed, reg["flags"] = 0, movsw_8 \/ movsw_16, NEW n, n = IF opcode = 164 THEN 1 ELSE 2
  PROVE  /\ reg'["ip"] = ip1
         /\ reg'["si"] = Wrap(reg["si"] + n) /\ reg'["di"] = Wrap(reg["di"] + n)
         /\ mem' = IF opcode = 164 THEN vm_write_byte(mem, Target, vm_read_byte(mem, Source))
                                   ELSE vm_write_word(mem, Target, vm_read_word(mem, Source))
<1>1. DF = 0
  <2>1. 2^10 = 1024
    BY SMT
  <2> QED
    BY <2>1, SMT DEF DF, Masked
<1>2. CASE movsw_8
  <2>1. opcode = 164 /\ reg' = Moved(1)
        /\ mem' = vm_write_byte(mem, Target, vm_read_byte(mem, Source))
    BY <1>2 DEF movsw_8, Opcode, Done
  <2> QED
    BY <1>1, <2>1 DEF Moved, At, Typed, RegName
<1>3. CASE movsw_16
  <2>1. opcode = 165 /\ reg' = Moved(2)
        /\ mem' = vm_write_word(mem, Target, vm_read_word(mem, Source))
    BY <1>3 DEF movsw_16, Opcode, Done
  <2> QED
    BY <1>1, <2>1 DEF Moved, At, Typed, RegName
<1> QED
  BY <1>2, <1>3

\* The addresses of the j-th unit.
LEMMA UnitAddresses ==
  ASSUME NEW text, NEW op, NEW d0, IsMessage(text, op, d0), NEW j \in Nat, j < Rounds(text, op),
         TextSegments, reg["si"] = 24 + unit(op) * j, reg["di"] = d0 + unit(op) * j
  PROVE  /\ Source = 31768 + unit(op) * j /\ Target = TextLo + (d0 + unit(op) * j)
         /\ unit(op) * j \in 0 .. 2 * Len(text) - 1
         /\ Target \in Nat /\ IsText(Target) /\ (op = 165 => WordBacked(Target))
         /\ Wrap(reg["si"] + unit(op)) = 24 + unit(op) * (j + 1)
         /\ Wrap(reg["di"] + unit(op)) = d0 + unit(op) * (j + 1)
<1> DEFINE L == Len(text)
           u == unit(op) * j
<1>1. L \in Nat /\ L =< 244 /\ d0 \in Nat /\ d0 + 2 * L =< 32768 /\ Even(d0)
      /\ (op = 164 \/ op = 165)
  <2>1. Even(d0)
    BY SMT DEF IsMessage
  <2> QED
    BY <2>1, MessageSizes
<1>2. u \in Nat /\ u + unit(op) =< 2 * L /\ unit(op) * (j + 1) = u + unit(op)
      /\ unit(op) \in {1, 2} /\ (unit(op) = 1 => u + 1 =< 2 * L) /\ (unit(op) = 2 => Even(u) /\ d0 = 0)
  <2>1. CASE op = 164
    <3>1. unit(op) = 1 /\ Rounds(text, op) = 2 * L
      BY <2>1 DEF unit, Rounds
    <3> HIDE DEF L
    <3> QED
      BY <1>1, <3>1, SMT
  <2>2. CASE op = 165
    <3>1. unit(op) = 2 /\ Rounds(text, op) = L /\ d0 = 0
      BY <2>2 DEF unit, Rounds, IsMessage
    <3> HIDE DEF L
    <3>2. Even(2 * j)
      BY SMT DEF Even
    <3>3. u = 2 * j /\ unit(op) * (j + 1) = u + 2
      BY <3>1, SMT
    <3> HIDE DEF u
    <3>4. u + 2 =< 2 * L /\ u \in Nat
      BY <1>1, <3>1, <3>3, SMT
    <3> QED
      BY <3>1, <3>2, <3>3, <3>4
  <2> QED
    BY <1>1, <2>1, <2>2
<1> HIDE DEF L, u
<1>3. Source = 31768 + u /\ Target = TextLo + (d0 + u)
  <2>1. Source = 1984 * 16 + (24 + u) /\ Target = 47104 * 16 + (d0 + u)
    BY SMT DEF Source, Target, vm_addr_calc, TextSegments, u
  <2> QED
    BY <1>1, <1>2, <2>1, SMT DEF TextLo
<1>4. u \in 0 .. 2 * L - 1
  BY <1>1, <1>2, SMT
<1>5. Target \in Nat /\ IsText(Target)
  <2>1. d0 + u =< 32767
    BY <1>1, <1>2, SMT
  <2> QED
    BY <1>1, <1>2, <1>3, <2>1, SMT DEF TextLo, TextHi, IsText
<1>6. ASSUME op = 165
      PROVE  WordBacked(Target)
  <2>1. d0 + u < 32767
    BY <1>1, <1>2, <1>6, SMT DEF unit
  <2>2. 9 \in DOMAIN Region /\ InWordBranch(9, Target)
    BY <1>1, <1>2, <1>3, <2>1, SMT DEF Region, InWordBranch, TextLo, TextHi
  <2> QED
    BY <2>2 DEF WordBacked
<1>7. Wrap(reg["si"] + unit(op)) = 24 + (u + unit(op)) /\ Wrap(reg["di"] + unit(op)) = d0 + (u + unit(op))
  <2>1. reg["si"] = 24 + u /\ reg["di"] = d0 + u
    BY DEF u
  <2> QED
    BY <1>1, <1>2, <2>1, SMT DEF Wrap
<1> QED
  BY <1>2, <1>3, <1>4, <1>5, <1>6, <1>7 DEF u, L

LEMMA HalvesOf ==
  ASSUME NEW j \in Nat, NEW n \in Nat, j < 2 * n
  PROVE  /\ (j + 1) \div 2 \in 0 .. n /\ ((j + 1) + 1) \div 2 \in 0 .. n
         /\ j % 2 = 0 => /\ j \div 2 \in Nat /\ j \div 2 < n /\ (j + 1) \div 2 = j \div 2
                         /\ ((j + 1) + 1) \div 2 = j \div 2 + 1
         /\ j % 2 # 0 => ((j + 1) + 1) \div 2 = (j + 1) \div 2
BY SMT

\* The command a character travels in.
LEMMA CharLeads ==
  ASSUME NEW text \in Seq(Byte), NEW s \in Nat, s < Len(text), s =< 244, NEW x \in Column, NEW y \in Byte,
         y * VGIO_WIDTH + x = s
  PROVE  LET vc == [command |-> "set_char", x |-> x, y |-> y, c |-> text[s + 1]]
         IN  /\ vc \in Command /\ Leads(text, vc, s, s + 1)
             /\ NextY(x, y) * VGIO_WIDTH + NextX(x) = s + 1
<1>1. text[s + 1] \in Byte
  BY SMT
<1> DEFINE vc == [command |-> "set_char", x |-> x, y |-> y, c |-> text[s + 1]]
<1>2. vc \in Command
  BY <1>1 DEF Command
<1>3. Leads(text, vc, s, s + 1)
  BY DEF Leads
<1> QED
  BY <1>2, <1>3, CursorMoves

LEMMA ByteSent ==
  ASSUME Typed, NEW text, NEW d0, IsMessage(text, 164, d0), NEW j \in Nat, j < 2 * Len(text),
         TextBytes(mem, text), Cursor((j + 1) \div 2), NEW a \in Nat, IsText(a),
         a = TextLo + (d0 + j), mem' = vm_write_byte(mem, a, vm_read_byte(mem, 31768 + j))
  PROVE  /\ \A b \in Nat : b < TextLo => Peek(mem', b) = Peek(mem, b)
         /\ Cursor(((j + 1) + 1) \div 2)'
         /\ Sends(text, mem'.wire, (j + 1) \div 2, ((j + 1) + 1) \div 2)
<1> DEFINE L == Len(text)
           v == vm_read_byte(mem, 31768 + j)
<1>1. text \in Seq(Byte) /\ L \in Nat /\ L =< 244 /\ d0 \in Nat
  BY MessageSizes
<1>2. MemOK(mem) /\ mem.x \in Column /\ mem.y \in Byte /\ v \in Byte
  BY ReadByteIsByte DEF Typed, MemOK
<1>3. v = IF j % 2 = 0 THEN text[j \div 2 + 1] ELSE 0
  <2>1. j \in 0 .. 2 * L - 1
    BY <1>1
  <2> QED
    BY <2>1, TextIsRead
<1>4. a % 2 = 0 <=> j % 2 = 0
  <2>1. d0 % 2 = 0
    BY SMT DEF IsMessage, Even
  <2> QED
    BY <1>1, <2>1, SMT DEF TextLo
<1> HIDE DEF v
<1>5. /\ mem'.wire = IF j % 2 = 0
                       THEN Append(mem.wire, [command |-> "set_char", x |-> mem.x, y |-> mem.y,
                                              c |-> v])
                       ELSE mem.wire
      /\ mem'.x = (IF j % 2 = 0 THEN NextX(mem.x) ELSE mem.x)
      /\ mem'.y = (IF j % 2 = 0 THEN NextY(mem.x, mem.y) ELSE mem.y)
      /\ \A b \in Nat : b < a => Peek(mem', b) = Peek(mem, b)
  BY <1>2, <1>4, TextByteSends DEF v
<1>6. \A b \in Nat : b < TextLo => Peek(mem', b) = Peek(mem, b)
  <2>1. \A b \in Nat : b < TextLo => b < a
    BY <1>1, SMT DEF TextLo
  <2> QED
    BY <1>5, <2>1
<1> HIDE DEF L
<1>7. CASE j % 2 = 0
  <2> DEFINE s == j \div 2
             vc == [command |-> "set_char", x |-> mem.x, y |-> mem.y, c |-> text[s + 1]]
  <2>1. s \in Nat /\ s < L /\ (j + 1) \div 2 = s /\ ((j + 1) + 1) \div 2 = s + 1
    BY <1>1, <1>7, HalvesOf DEF L
  <2> HIDE DEF s
  <2>2. s =< 244 /\ mem.y * VGIO_WIDTH + mem.x = s
    BY <1>1, <2>1 DEF Cursor
  <2>3. /\ vc \in Command /\ Leads(text, vc, s, s + 1)
        /\ NextY(mem.x, mem.y) * VGIO_WIDTH + NextX(mem.x) = s + 1
    BY <1>1, <1>2, <2>1, <2>2, CharLeads DEF L
  <2>4. mem'.wire = Append(mem.wire, vc)
    BY <1>3, <1>5, <1>7 DEF s
  <2>5. Cursor(s + 1)'
    BY <1>5, <1>7, <2>3 DEF Cursor
  <2> HIDE DEF vc
  <2>6. Sends(text, mem'.wire, s, s + 1)
    BY <2>3, <2>4 DEF Sends
  <2> QED
    BY <1>6, <2>1, <2>5, <2>6 DEF Cursor
<1>8. CASE j % 2 # 0
  <2>1. ((j + 1) + 1) \div 2 = (j + 1) \div 2
    BY <1>1, <1>8, HalvesOf DEF L
  <2>2. mem'.wire = mem.wire /\ mem'.x = mem.x /\ mem'.y = mem.y
    BY <1>5, <1>8
  <2> QED
    BY <1>6, <2>1, <2>2 DEF Cursor, Sends
<1> QED
  BY <1>7, <1>8

\* A cell of a short text has both coordinates in a byte.
LEMMA CutsNothing ==
  ASSUME NEW i \in Nat, i =< 244
  PROVE  LET x == (i % VGIO_WIDTH) % 256
             y == (i \div VGIO_WIDTH) % 256
         IN  x \in Column /\ y \in Byte /\ y * VGIO_WIDTH + x = i
<1> DEFINE r == i % VGIO_WIDTH
           q == i \div VGIO_WIDTH
<1>1. r \in Column /\ q \in Nat /\ q * VGIO_WIDTH + r = i
  BY RowAndColumn
<1> HIDE DEF r, q
<1>2. VGIO_WIDTH \in Nat /\ VGIO_WIDTH >= 1 /\ r \in Nat
  BY <1>1, WidthAssumption DEF Column
<1>3. q =< q * VGIO_WIDTH /\ q * VGIO_WIDTH \in Nat
  BY <1>1, <1>2, SMT
<1>4. q < 256 /\ r < 256
  BY <1>1, <1>2, <1>3, SMT
<1>5. r % 256 = r /\ q % 256 = q /\ q \in Byte
  BY <1>1, <1>2, <1>4, SMT DEF Byte
<1> QED
  BY <1>1, <1>5 DEF r, q

LEMMA WordSent ==
  ASSUME Typed, NEW text, NEW d0, IsMessage(text, 165, d0), NEW j \in Nat, j < Len(text),
         TextBytes(mem, text), Cursor(j), NEW a \in Nat, IsText(a), WordBacked(a),
         a = TextLo + 2 * j, mem' = vm_write_word(mem, a, vm_read_word(mem, 31768 + 2 * j))
  PROVE  /\ \A b \in Nat : b < TextLo => Peek(mem', b) = Peek(mem, b)
         /\ Cursor(j + 1)'
         /\ Sends(text, mem'.wire, j, j + 1)
<1> DEFINE L == Len(text)
           w == vm_read_word(mem, 31768 + 2 * j)
           x == (j % VGIO_WIDTH) % 256
           y == (j \div VGIO_WIDTH) % 256
           vc == [command |-> "set_char", x |-> x, y |-> y, c |-> text[j + 1]]
           place == [command |-> "set_cursor", x |-> x, y |-> y, c |-> 0]
<1>1. text \in Seq(Byte) /\ L \in Nat /\ L =< 244
  BY MessageSizes
<1>2. MemOK(mem)
  BY DEF Typed
<1>3. w = text[j + 1] /\ w \in Byte
  <2>1. j \in 0 .. L - 1
    BY <1>1
  <2>2. w = text[j + 1]
    BY <2>1, TextIsRead
  <2>3. text[j + 1] \in Byte
    BY <1>1
  <2> QED
    BY <2>2, <2>3
<1> HIDE DEF w
<1>4. w \in Word /\ Lo8(w) = w
  <2>1. w \in Nat /\ w =< 255 /\ w \in Word
    BY <1>3, ByteBounds
  <2> QED
    BY <2>1, SMT DEF Lo8
<1>5. j = (a - TextLo) \div 2
  BY SMT DEF TextLo
<1>6. /\ mem'.wire = Append(Append(mem.wire, place), vc)
      /\ mem'.x = NextX(x) /\ mem'.y = NextY(x, y)
      /\ \A b \in Nat : b < a => Peek(mem', b) = Peek(mem, b)
  <2>1. LET s == vm_write_word(mem, a, w)
            c == CharAt(j, Lo8(w))
        IN  /\ s.wire = Append(Append(mem.wire, PlaceAt(j)), c)
            /\ s.x = NextX(c.x) /\ s.y = NextY(c.x, c.y)
            /\ \A b \in Nat : b < a => Peek(s, b) = Peek(mem, b)
    BY <1>2, <1>4, <1>5, TextWordSends
  <2>2. mem' = vm_write_word(mem, a, w)
    BY DEF w
  <2>3. CharAt(j, Lo8(w)) = vc /\ PlaceAt(j) = place
    BY <1>3, <1>4 DEF CharAt, PlaceAt
  <2> HIDE DEF vc, place
  <2>4. vc.x = x /\ vc.y = y
    BY DEF vc
  <2> HIDE DEF x, y
  <2> QED
    BY <2>1, <2>2, <2>3, <2>4
<1>7. x \in Column /\ y \in Byte /\ y * VGIO_WIDTH + x = j
  BY <1>1, CutsNothing
<1> HIDE DEF x, y
<1>8. vc \in Command /\ Leads(text, vc, j, j + 1) /\ NextY(x, y) * VGIO_WIDTH + NextX(x) = j + 1
  BY <1>1, <1>7, CharLeads
<1>9. place \in Command /\ Leads(text, place, j, j)
  <2>1. 0 \in Byte
    BY DEF Byte
  <2> QED
    BY <1>7, <2>1 DEF Command, Leads
<1> HIDE DEF vc, place
<1>10. Sends(text, mem'.wire, j, j + 1)
  BY <1>6, <1>8, <1>9 DEF Sends
<1>11. Cursor(j + 1)'
  BY <1>6, <1>8 DEF Cursor
<1>12. \A b \in Nat : b < TextLo => Peek(mem', b) = Peek(mem, b)
  <2>1. \A b \in Nat : b < TextLo => b < a
    BY SMT DEF TextLo
  <2> QED
    BY <1>6, <2>1
<1> QED
  BY <1>10, <1>11, <1>12

\* A step of the machine that has sent s characters leaves one that has sent t.
Goes(text, op, d0, s, t) == Machine(text, op, d0, t)' /\ Sends(text, mem'.wire, s, t)

\* The body of the loop.
LEMMA UnitMoves ==
  ASSUME Typed, NEW text, NEW op, NEW d0, IsMessage(text, op, d0), MessageCode(mem, text, op, d0),
         reg["cs"] = 1984, reg["flags"] = 0, NEW j \in 0 .. Rounds(text, op), Cursor(Sent(op, j)),
         Moving(text, op, d0, j), status = "run", cpu8086_proc
  PROVE  j + 1 \in 0 .. Rounds(text, op) /\ Goes(text, op, d0, Sent(op, j), Sent(op, j + 1))
<1> DEFINE n == Rounds(text, op)
           L == Len(text)
<1>1. /\ rep # << >> /\ rep[1].kind = "repe" /\ rep[1].ip = 21 /\ Len(rep) = 1 /\ TextSegments
      /\ reg["si"] = 24 + unit(op) * j /\ reg["di"] = d0 + unit(op) * j
      /\ reg["ip"] = 21 /\ j < n /\ reg["cx"] = n - j
  <2> HIDE DEF n
  <2>1. /\ Len(rep) = 1 /\ rep[1].kind = "repe" /\ rep[1].ip = 21 /\ TextSegments
        /\ reg["si"] = 24 + unit(op) * j /\ reg["di"] = d0 + unit(op) * j
    BY DEF Moving
  <2>2. reg["ip"] = 21 /\ j < n /\ reg["cx"] = n - j
    BY DEF Moving, n
  <2>3. ASSUME rep = << >> PROVE FALSE
    <3>1. Len(<< >>) = 1
      BY <2>1, <2>3
    <3> QED
      BY <3>1
  <2> QED
    BY <2>1, <2>2, <2>3
<1>2. L \in Nat /\ L =< 244 /\ d0 \in Nat /\ (op = 164 \/ op = 165) /\ text \in Seq(Byte)
  BY MessageSizes
<1>3. n \in Nat /\ j \in Nat /\ j < n /\ (op = 164 => n = 2 * L) /\ (op = 165 => n = L)
  BY <1>1, <1>2 DEF Rounds
<1> HIDE DEF n, L
<1>4. opcode = op
  BY <1>1, MessageOpcodes
<1>5. movsw_8 \/ movsw_16
  BY <1>2, <1>4, Handlers
<1>6. string
  BY <1>5 DEF string
<1>7. /\ status' = "again" /\ rep' = rep
      /\ \A r \in {"cx", "cs", "ds", "es", "flags"} : reg'[r] = reg[r]
  BY <1>1, <1>6, StringKeeps
<1>8. unit(op) = IF op = 164 THEN 1 ELSE 2
  BY <1>2 DEF unit
<1>9. /\ reg'["ip"] = ip1
      /\ reg'["si"] = Wrap(reg["si"] + unit(op)) /\ reg'["di"] = Wrap(reg["di"] + unit(op))
      /\ mem' = IF op = 164 THEN vm_write_byte(mem, Target, vm_read_byte(mem, Source))
                            ELSE vm_write_word(mem, Target, vm_read_word(mem, Source))
  BY <1>4, <1>5, <1>8, MovsMoves
<1>10. /\ Source = 31768 + unit(op) * j /\ Target = TextLo + (d0 + unit(op) * j)
       /\ Target \in Nat /\ IsText(Target) /\ (op = 165 => WordBacked(Target))
       /\ Wrap(reg["si"] + unit(op)) = 24 + unit(op) * (j + 1)
       /\ Wrap(reg["di"] + unit(op)) = d0 + unit(op) * (j + 1)
  BY <1>1, <1>3, UnitAddresses DEF n
<1>11. ip1 = 22
  BY <1>1, SMT DEF ip1, Wrap
<1>12. n - j = n - (j + 1) + 1 /\ 0 < j + 1 /\ j + 1 \in 0 .. n
  BY <1>3, SMT
<1>13. Moving(text, op, d0, j + 1)'
  BY <1>1, <1>7, <1>9, <1>10, <1>11, <1>12 DEF Moving, TextSegments, n
<1>14. /\ \A b \in Nat : b < TextLo => Peek(mem', b) = Peek(mem, b)
       /\ Cursor(Sent(op, j + 1))' /\ Sends(text, mem'.wire, Sent(op, j), Sent(op, j + 1))
  <2>1. TextBytes(mem, text)
    BY DEF MessageCode
  <2>2. CASE op = 164
    <3>1. Sent(op, j) = (j + 1) \div 2 /\ Sent(op, j + 1) = ((j + 1) + 1) \div 2
      BY <2>2 DEF Sent
    <3>2. unit(op) * j = j /\ j < 2 * L
      BY <1>3, <1>8, <2>2, SMT
    <3>3. /\ Target = TextLo + (d0 + j)
          /\ mem' = vm_write_byte(mem, Target, vm_read_byte(mem, 31768 + j))
      BY <1>9, <1>10, <2>2, <3>2
    <3>4. IsMessage(text, 164, d0) /\ Cursor((j + 1) \div 2)
      BY <2>2, <3>1
    <3>5. /\ \A b \in Nat : b < TextLo => Peek(mem', b) = Peek(mem, b)
          /\ Cursor(((j + 1) + 1) \div 2)'
          /\ Sends(text, mem'.wire, (j + 1) \div 2, ((j + 1) + 1) \div 2)
      BY <1>3, <1>10, <2>1, <3>2, <3>3, <3>4, ByteSent DEF L
    <3> QED
      BY <3>1, <3>5 DEF Cursor
  <2>3. CASE op = 165
    <3>1. Sent(op, j) = j /\ Sent(op, j + 1) = j + 1
      BY <2>3 DEF Sent
    <3>2. unit(op) * j = 2 * j /\ j < L /\ d0 = 0 /\ d0 + unit(op) * j = 2 * j
      <4>1. d0 = 0
        BY <2>3, SMT DEF IsMessage
      <4> QED
        BY <1>3, <1>8, <2>3, <4>1, SMT
    <3>3. /\ Target = TextLo + 2 * j /\ WordBacked(Target)
          /\ mem' = vm_write_word(mem, Target, vm_read_word(mem, 31768 + 2 * j))
      BY <1>9, <1>10, <2>3, <3>2
    <3>4. IsMessage(text, 165, d0) /\ Cursor(j)
      BY <2>3, <3>1
    <3>5. /\ \A b \in Nat : b < TextLo => Peek(mem', b) = Peek(mem, b)
          /\ Cursor(j + 1)' /\ Sends(text, mem'.wire, j, j + 1)
      BY <1>3, <1>10, <2>1, <3>2, <3>3, <3>4, WordSent DEF L
    <3> QED
      BY <3>1, <3>5 DEF Cursor
  <2> QED
    BY <1>2, <2>2, <2>3
<1>15. MessageCode(mem', text, op, d0)
  BY <1>14, CodeKept
<1>16. Machine(text, op, d0, Sent(op, j + 1))'
  <2>1. \E k \in 0 .. Rounds(text, op) : Sent(op, j + 1) = Sent(op, k) /\ Moving(text, op, d0, k)'
    BY <1>12, <1>13 DEF n
  <2> QED
    BY <1>7, <1>14, <1>15, <2>1 DEF Machine
<1> QED
  BY <1>12, <1>14, <1>16 DEF Goes, n

\* No handler runs between the rounds of a loop.
LEMMA HandlersRun ==
  ASSUME handler
  PROVE  status = "run"
<1>1. move => Running
  BY DEF move, mov_reg2rm_8, mov_reg2rm_16, mov_rm2reg_8, mov_rm2reg_16, mov_seg2rm_16,
         mov_rm2seg_16, mov_rm2ax, mov_ax2rm, mov_im82reg, mov_im162reg, mov_im2rm_8,
         mov_im2rm_16, xchg_reg2rm_8, xchg_reg2rm_16, xchg_regax, lea_rm2reg, les_rm2reg_16,
         xlat, cbw, cwd, inc_reg, dec_reg, not_an_opcode, nop, test_reg2rm, test_im8, test_im16,
         Opcode
<1>2. without_rep => Running
  BY DEF without_rep, push_reg, pop_reg, push_seg, push_ss, pop_seg, pop_ds, pop_rm16, pushf, popf,
         sahf, lahf, jcc_ip8, jmp_near_8, jmp_near_16, jmp_far, loop_8, jcxz_8, call_near,
         call_far, ret, ret_im16, retf, retf_im16, int, iret, halt, Opcode
<1>3. string \/ ports => Running
  BY DEF string, movsw_8, movsw_16, stos_8, stos_16, lods_8, lods_16, cmps, scas, ports, in_imm,
         out_imm, in_aldx, in_axdx, out_dx, Opcode
<1>4. ASSUME NEW i \in 0 .. 6, SixForms(i)
      PROVE  Running
  BY <1>4 DEF SixForms, reg2rm_8, reg2rm_16, rm2reg_8, rm2reg_16, i8al, i16ax, Opcode
<1>5. arithmetic => Running
  <2>1. (adc \/ sbb \/ and \/ sub) => Running
    BY <1>4 DEF adc, sbb, and, sub
  <2>2. SixForms(0) \/ SixForms(1) \/ SixForms(6) => Running
    BY <1>4
  <2>3. (add \/ or \/ xor \/ cmp) => Running
    BY <2>2 DEF add, or, xor, cmp, SixForms, Opcode
  <2>4. (daa \/ das \/ aaa \/ aas) => Running
    BY DEF daa, das, aaa, aas, Opcode
  <2> QED
    BY <2>1, <2>3, <2>4 DEF arithmetic
<1>6. group => Running
  <2>1. (table_80 \/ table_81 \/ table_82 \/ table_83) => Running
    BY DEF table_80, table_81, table_82, table_83, Opcode
  <2>2. (table_d0 \/ table_d1 \/ table_d2 \/ table_d3 \/ aam \/ aad) => Running
    BY DEF table_d0, table_d1, table_d2, table_d3, aam, aad, Opcode
  <2>3. (table_f6 \/ table_f7 \/ table_fe \/ table_ff) => Running
    BY DEF table_f6, table_f7, table_fe, table_ff, Opcode
  <2> QED
    BY <2>1, <2>2, <2>3 DEF group
<1> QED
  BY <1>1, <1>2, <1>3, <1>5, <1>6 DEF handler, Running

\* The loop's test: cx counts the units that are left.
LEMMA RoundEnds ==
  ASSUME Typed, NEW text, NEW op, NEW d0, IsMessage(text, op, d0), MessageCode(mem, text, op, d0),
         reg["cs"] = 1984, reg["flags"] = 0, NEW j \in 0 .. Rounds(text, op), Cursor(Sent(op, j)),
         Moving(text, op, d0, j), status = "again", cpu8086_proc
  PROVE  Goes(text, op, d0, Sent(op, j), Sent(op, j))
<1> DEFINE n == Rounds(text, op)
           s == Sent(op, j)
<1> HIDE DEF n, s
<1>1. /\ Len(rep) = 1 /\ rep[1].kind = "repe" /\ rep[1].ip = 21 /\ TextSegments
      /\ reg["si"] = 24 + unit(op) * j /\ reg["di"] = d0 + unit(op) * j
  BY DEF Moving
<1>2. reg["ip"] = 22 /\ 0 < j /\ reg["cx"] = n - j + 1
  BY DEF Moving, n
<1>3. n \in Nat /\ n =< 488 /\ j \in Nat /\ j =< n
  <2>1. n \in Nat /\ n =< 488
    BY MessageSizes, SMT DEF Rounds, n
  <2> QED
    BY <2>1 DEF n
<1>4. rep_again
  <2>1. ~handler
    BY HandlersRun
  <2>2. ~repe
    BY DEF repe, Opcode, Running
  <2> QED
    BY <2>1, <2>2, Steps
<1>5. ~ZFGoesOn
  <2>1. rep[Len(rep)].kind = "repe"
    BY <1>1
  <2>2. ZF # 1
    BY ZFIsBit
  <2> QED
    BY <2>1, <2>2 DEF ZFGoesOn
<1>6. /\ reg'["flags"] = reg["flags"] /\ reg'["cx"] = Wrap(reg["cx"] - 1)
      /\ mem' = mem /\ status' = "run" /\ rep[1] \in Loop
      /\ \A r \in {"ds", "es", "si", "di", "cs"} : reg'[r] = reg[r]
  BY <1>1, <1>4, RoundDoes
<1>7. /\ reg["cx"] # 1 => /\ Len(rep') = 1 /\ reg'["ip"] = rep[1].ip
                          /\ rep'[1] = [rep[1] EXCEPT !.n = IF @ < MaxRounds THEN @ + 1 ELSE @]
      /\ reg["cx"] = 1 => rep' = << >> /\ reg'["ip"] = 22
  BY <1>1, <1>2, <1>4, <1>5, RoundDoes
<1>8. MessageCode(mem, text, op, d0)' /\ Cursor(s)' /\ Sends(text, mem'.wire, s, s)
  <2>1. Cursor(s)
    BY DEF s
  <2> QED
    BY <1>6, <2>1 DEF MessageCode, StartCode, TextBytes, Cursor, Sends
<1>9. CASE reg["cx"] = 1
  <2>1. Machine(text, op, d0, s)'
    BY <1>6, <1>7, <1>8, <1>9 DEF Machine
  <2> QED
    BY <1>8, <2>1 DEF Goes, s
<1>10. CASE reg["cx"] # 1
  <2>1. j < n /\ Wrap(reg["cx"] - 1) = n - j
    <3>1. n - j + 1 # 1 /\ (n - j + 1) - 1 = n - j
      BY <1>2, <1>3, <1>10
    <3>2. j < n /\ n - j \in Nat /\ n - j < 65536
      BY <1>3, <3>1, SMT
    <3>3. Wrap(n - j) = n - j
      BY <3>2, SMT DEF Wrap
    <3> QED
      BY <1>2, <3>1, <3>2, <3>3
  <2>2. rep'[1].kind = "repe" /\ rep'[1].ip = 21 /\ reg'["ip"] = 21 /\ Len(rep') = 1
    BY <1>1, <1>6, <1>7, <1>10 DEF Loop
  <2>3. Moving(text, op, d0, j)'
    BY <1>1, <1>6, <2>1, <2>2 DEF Moving, TextSegments, n
  <2>4. Machine(text, op, d0, s)'
    <3>1. \E k \in 0 .. Rounds(text, op) : s = Sent(op, k) /\ Moving(text, op, d0, k)'
      BY <2>3 DEF s
    <3> QED
      BY <1>6, <1>8, <3>1 DEF Machine
  <2> QED
    BY <1>8, <2>4 DEF Goes, s
<1> QED
  BY <1>9, <1>10

LEMMA OnlyIp ==
  ASSUME Typed, rep = << >>, NEW ip, DoneReg(At(ip))
  PROVE  Sets_to(ip, "ax", reg["ax"])
BY DEF Typed, At, DoneReg, Done, Sets_to, RegName

\* The instructions before the loop and the jump after it send nothing.
LEMMA SaysNothing ==
  ASSUME NEW text, NEW op, NEW d0, MessageCode(mem, text, op, d0), rep = << >>,
         reg["cs"] = 1984, reg["flags"] = 0, NEW s, Cursor(s),
         NEW ip, NEW name \in {"ax", "cx", "si", "di", "ds", "es"}, NEW v, Sets_to(ip, name, v)
  PROVE  /\ MessageCode(mem, text, op, d0)' /\ rep' = << >> /\ status' = "run" /\ reg'["cs"] = 1984
         /\ reg'["flags"] = 0 /\ Cursor(s)' /\ Sends(text, mem'.wire, s, s)
<1>1. mem' = mem /\ rep' = << >> /\ status' = "run" /\ reg'["cs"] = 1984 /\ reg'["flags"] = 0
  BY DEF Sets_to, RegName
<1> QED
  BY <1>1 DEF MessageCode, StartCode, TextBytes, Cursor, Sends

\* One instruction after another.
LEMMA StartSteps ==
  ASSUME Typed, NEW text, NEW op, NEW d0, IsMessage(text, op, d0), MessageCode(mem, text, op, d0),
         reg["cs"] = 1984, reg["flags"] = 0, rep = << >>, status = "run", Starting(text, op, d0),
         reg["ip"] # 20, cpu8086_proc
  PROVE  /\ Starting(text, op, d0)'
         /\ \E ip, v : \E name \in {"ax", "cx", "si", "di", "ds", "es"} : Sets_to(ip, name, v)
<1> DEFINE names == {"ax", "cx", "si", "di", "ds", "es"}
           ToNext == \E ip, v : \E name \in names : Sets_to(ip, name, v)
<1>1. \A ip, v : \A name \in names : Sets_to(ip, name, v) => ToNext
  OBVIOUS
<1>2. ASSUME NEW ip \in {0, 5, 11, 14, 17}, reg["ip"] = ip
      PROVE  LET name == IF ip \in {0, 5} THEN "ax" ELSE IF ip = 11 THEN "si"
                         ELSE IF ip = 14 THEN "di" ELSE "cx"
             IN  Sets_to(ip + 3, name, CodeWord(mem, ip + 1)) /\ name \in names
  <2> DEFINE name == IF ip \in {0, 5} THEN "ax" ELSE IF ip = 11 THEN "si"
                     ELSE IF ip = 14 THEN "di" ELSE "cx"
  <2>1. opcode = IF ip \in {0, 5} THEN 184 ELSE IF ip = 11 THEN 190 ELSE IF ip = 14 THEN 191 ELSE 185
    BY <1>2, MessageOpcodes
  <2>2. mov_im162reg
    BY <2>1, Handlers
  <2>3. registers16[opcode - 183] = name
    BY <2>1, SMT DEF registers16
  <2>4. ip \in 0 .. 20 /\ name \in RegName \ {"ip"} /\ name \in names
    BY DEF RegName
  <2> HIDE DEF name, names
  <2>5. Sets_to(ip + 3, name, CodeWord(mem, ip + 1))
    BY <1>2, <2>2, <2>3, <2>4, WordRuns
  <2> QED
    BY <2>4, <2>5 DEF name
<1>3. ASSUME NEW ip \in {3, 8}, reg["ip"] = ip
      PROVE  Sets_to(ip + 2, IF ip = 3 THEN "es" ELSE "ds", reg["ax"])
  <2>1. mov_rm2seg_16
    <3>1. opcode = 142
      BY <1>3, MessageOpcodes
    <3> QED
      BY <3>1, Handlers
  <2>2. PICK b \in {192, 216} : CodeByte(mem, ip + 1) = b /\ (b = 192 <=> ip = 3)
    <3>1. CodeByte(mem, 4) = 192 /\ CodeByte(mem, 9) = 216
      BY SMT DEF MessageCode, StartCode
    <3> QED
      BY <3>1
  <2>3. ip \in 0 .. 20
    OBVIOUS
  <2>4. Sets_to(ip + 2, IF b = 192 THEN "es" ELSE "ds", reg["ax"])
    BY <1>3, <2>1, <2>2, <2>3, SegRuns
  <2> QED
    BY <2>2, <2>4
<1>4. ASSUME reg["ip"] = 10
      PROVE  Sets_to(11, "ax", reg["ax"])
  <2>1. opcode = 252
    BY <1>4, MessageOpcodes
  <2>2. nop
    BY <2>1, Handlers
  <2>3. ip1 = 11
    BY <1>4, SMT DEF ip1, Wrap
  <2> QED
    BY <2>2, <2>3, OnlyIp DEF nop
<1>5. /\ CodeWord(mem, 0 + 1) = 47104 /\ CodeWord(mem, 5 + 1) = 1984 /\ CodeWord(mem, 11 + 1) = 24
      /\ CodeWord(mem, 14 + 1) = d0 /\ CodeWord(mem, 17 + 1) = Rounds(text, op)
  BY SMT DEF MessageCode, StartCode
<1> HIDE DEF ToNext
<1>6. CASE reg["ip"] = 0
  <2>1. Sets_to(3, "ax", 47104)
    BY <1>2, <1>5, <1>6
  <2>2. Starting(text, op, d0)'
    BY <2>1 DEF Sets_to, Starting
  <2> QED
    BY <1>1, <2>1, <2>2 DEF ToNext
<1>7. CASE reg["ip"] = 3 /\ reg["ax"] = 47104
  <2>1. Sets_to(5, "es", 47104)
    BY <1>3, <1>7
  <2>2. Starting(text, op, d0)'
    BY <2>1 DEF Sets_to, Starting
  <2> QED
    BY <1>1, <2>1, <2>2 DEF ToNext
<1>8. CASE reg["ip"] = 5 /\ reg["es"] = 47104
  <2>1. Sets_to(8, "ax", 1984)
    BY <1>2, <1>5, <1>8
  <2>2. Starting(text, op, d0)'
    BY <1>8, <2>1 DEF Sets_to, Starting, RegName
  <2> QED
    BY <1>1, <2>1, <2>2 DEF ToNext
<1>9. CASE reg["ip"] = 8 /\ reg["es"] = 47104 /\ reg["ax"] = 1984
  <2>1. Sets_to(10, "ds", 1984)
    BY <1>3, <1>9
  <2>2. Starting(text, op, d0)'
    BY <1>9, <2>1 DEF Sets_to, Starting, TextSegments, RegName
  <2> QED
    BY <1>1, <2>1, <2>2 DEF ToNext
<1>10. CASE reg["ip"] = 10 /\ TextSegments
  <2>1. Sets_to(11, "ax", reg["ax"])
    BY <1>4, <1>10
  <2>2. Starting(text, op, d0)'
    BY <1>10, <2>1 DEF Sets_to, Starting, TextSegments, RegName
  <2> QED
    BY <1>1, <2>1, <2>2 DEF ToNext
<1>11. CASE reg["ip"] = 11 /\ TextSegments
  <2>1. Sets_to(14, "si", 24)
    BY <1>2, <1>5, <1>11
  <2>2. Starting(text, op, d0)'
    BY <1>11, <2>1 DEF Sets_to, Starting, TextSegments, RegName
  <2> QED
    BY <1>1, <2>1, <2>2 DEF ToNext
<1>12. CASE reg["ip"] = 14 /\ TextSegments /\ reg["si"] = 24
  <2>1. Sets_to(17, "di", d0)
    BY <1>2, <1>5, <1>12
  <2>2. Starting(text, op, d0)'
    BY <1>12, <2>1 DEF Sets_to, Starting, TextSegments, RegName
  <2> QED
    BY <1>1, <2>1, <2>2 DEF ToNext
<1>13. CASE reg["ip"] = 17 /\ TextSegments /\ reg["si"] = 24 /\ reg["di"] = d0
  <2>1. Sets_to(20, "cx", Rounds(text, op))
    BY <1>2, <1>5, <1>13
  <2>2. Starting(text, op, d0)'
    BY <1>13, <2>1 DEF Sets_to, Starting, TextSegments, RegName
  <2> QED
    BY <1>1, <2>1, <2>2 DEF ToNext
<1> QED
  BY <1>6, <1>7, <1>8, <1>9, <1>10, <1>11, <1>12, <1>13 DEF Starting, ToNext

LEMMA LoopOpens ==
  ASSUME Typed, NEW text, NEW op, NEW d0, IsMessage(text, op, d0), MessageCode(mem, text, op, d0),
         reg["cs"] = 1984, reg["flags"] = 0, Cursor(0), rep = << >>, status = "run",
         Starting(text, op, d0), reg["ip"] = 20, cpu8086_proc
  PROVE  Goes(text, op, d0, 0, 0)
<1> DEFINE n == Rounds(text, op)
           r == [kind |-> "repe", ip |-> 21, from |-> reg.cx, n |-> 0]
<1>1. opcode = 243
  BY MessageOpcodes
<1>2. repe /\ ip1 = 21
  BY <1>1, Handlers, SMT DEF ip1, Wrap
<1>3. TextSegments /\ reg["si"] = 24 /\ reg["di"] = d0 /\ reg["cx"] = n
  BY SMT DEF Starting
<1>4. rep' = Append(rep, r) /\ reg' = At(21) /\ mem' = mem /\ status' = status
  BY <1>1, <1>2 DEF repe
<1>5. Len(rep') = 1 /\ rep'[1] = r
  <2> HIDE DEF r
  <2> QED
    BY <1>4
<1>6. /\ reg'["ip"] = 21
      /\ \A k \in {"cs", "ds", "es", "si", "di", "cx", "flags"} : reg'[k] = reg[k]
  BY <1>4 DEF At, Typed, RegName
<1>7. n \in Nat /\ 0 < n /\ d0 \in Nat /\ op \in Nat
  BY MessageSizes, SMT DEF Rounds
<1> HIDE DEF n
<1>8. n - 0 = n /\ unit(op) * 0 = 0 /\ 24 + 0 = 24 /\ d0 + 0 = d0 /\ 0 \in 0 .. n
  BY <1>7, SMT DEF unit
<1>9. Sent(op, 0) = 0
  BY SMT DEF Sent
<1>10. Moving(text, op, d0, 0)'
  BY <1>3, <1>4, <1>5, <1>6, <1>7, <1>8 DEF Moving, TextSegments, n
<1>11. \E k \in 0 .. Rounds(text, op) : 0 = Sent(op, k) /\ Moving(text, op, d0, k)'
  BY <1>8, <1>9, <1>10 DEF n
<1>12. MessageCode(mem, text, op, d0)' /\ Cursor(0)' /\ Sends(text, mem'.wire, 0, 0)
  BY <1>4 DEF MessageCode, StartCode, TextBytes, Cursor, Sends
<1>13. reg'["cs"] = 1984 /\ reg'["flags"] = 0
  BY <1>6
<1>14. Machine(text, op, d0, 0)'
  BY <1>11, <1>12, <1>13 DEF Machine
<1> QED
  BY <1>12, <1>14 DEF Goes

\* jmp $: the jump to itself keeps the eight bits that are enough for it.
LEMMA JumpsBack ==
  ASSUME Typed, NEW text, NEW op, NEW d0, MessageCode(mem, text, op, d0), reg["cs"] = 1984,
         rep = << >>, status = "run", reg["ip"] = 22, cpu8086_proc
  PROVE  Sets_to(22, "ax", reg["ax"])
<1>1. opcode = 235
  BY MessageOpcodes
<1>2. jmp_near_8 /\ ip1 = 23
  BY <1>1, Handlers, SMT DEF ip1, Wrap
<1>3. Byte1(23) = CodeByte(mem, 23)
  BY InCode, 23 \in 0 .. 24
<1>4. Byte1(23) = 254
  BY <1>3, SMT DEF MessageCode, StartCode
<1>5. parse_format_ipinc_8.offset = 22
  BY <1>2, <1>4, SMT DEF parse_format_ipinc_8, Lo8, Wrap
<1> QED
  BY <1>2, <1>5, OnlyIp DEF jmp_near_8

LEMMA MachineStep ==
  ASSUME Typed, NEW text, NEW op, NEW d0, IsMessage(text, op, d0), NEW s \in 0 .. Len(text),
         Machine(text, op, d0, s), cpu8086_proc
  PROVE  \E t \in 0 .. Len(text) : Goes(text, op, d0, s, t)
<1>1. MessageCode(mem, text, op, d0) /\ reg["cs"] = 1984 /\ reg["flags"] = 0 /\ Cursor(s)
  BY DEF Machine
<1>2. CASE rep = << >> /\ status = "run" /\ s = 0 /\ Starting(text, op, d0)
  <2>1. CASE reg["ip"] = 20
    BY <1>1, <1>2, <2>1, LoopOpens
  <2>2. CASE reg["ip"] # 20
    <3>1. Starting(text, op, d0)'
      BY <1>1, <1>2, <2>2, StartSteps
    <3>2. PICK ip, v : \E name \in {"ax", "cx", "si", "di", "ds", "es"} : Sets_to(ip, name, v)
      BY <1>1, <1>2, <2>2, StartSteps
    <3>3. PICK name \in {"ax", "cx", "si", "di", "ds", "es"} : Sets_to(ip, name, v)
      BY <3>2
    <3>4. /\ MessageCode(mem, text, op, d0)' /\ rep' = << >> /\ status' = "run"
          /\ reg'["cs"] = 1984 /\ reg'["flags"] = 0 /\ Cursor(s)' /\ Sends(text, mem'.wire, s, s)
      BY <1>1, <1>2, <3>3, SaysNothing
    <3>5. Goes(text, op, d0, s, s)
      BY <1>2, <3>1, <3>4 DEF Goes, Machine
    <3> QED
      BY <3>5
  <2> QED
    BY <2>1, <2>2
<1>3. CASE rep = << >> /\ status = "run" /\ reg["ip"] = 22
  <2>1. Sets_to(22, "ax", reg["ax"])
    BY <1>1, <1>3, JumpsBack
  <2>2. PICK ax : ax = reg["ax"]
    OBVIOUS
  <2>3. Sets_to(22, "ax", ax)
    BY <2>1, <2>2
  <2>4. /\ MessageCode(mem, text, op, d0)' /\ rep' = << >> /\ status' = "run"
        /\ reg'["cs"] = 1984 /\ reg'["flags"] = 0 /\ Cursor(s)' /\ Sends(text, mem'.wire, s, s)
    BY <1>1, <1>3, <2>3, SaysNothing
  <2>5. reg'["ip"] = 22
    BY <2>3 DEF Sets_to
  <2>6. Goes(text, op, d0, s, s)
    BY <2>4, <2>5 DEF Goes, Machine
  <2> QED
    BY <2>6
<1>4. ASSUME NEW j \in 0 .. Rounds(text, op), s = Sent(op, j), Moving(text, op, d0, j)
      PROVE  \E t \in 0 .. Len(text) : Goes(text, op, d0, s, t)
  <2>1. CASE status = "again"
    <3>1. Goes(text, op, d0, Sent(op, j), Sent(op, j))
      BY <1>1, <1>4, <2>1, RoundEnds
    <3> QED
      BY <1>4, <3>1
  <2>2. CASE status = "run"
    <3>1. j + 1 \in 0 .. Rounds(text, op) /\ Goes(text, op, d0, Sent(op, j), Sent(op, j + 1))
      BY <1>1, <1>4, <2>2, UnitMoves
    <3>2. Sent(op, j + 1) \in 0 .. Len(text)
      <4>1. Len(text) \in Nat /\ (op = 164 \/ op = 165) /\ j \in Nat
        BY MessageSizes
      <4>2. CASE op = 165
        BY <3>1, <4>2 DEF Sent, Rounds
      <4>3. CASE op = 164
        <5>1. j < 2 * Len(text)
          BY <3>1, <4>1, <4>3 DEF Rounds
        <5> QED
          BY <4>1, <4>3, <5>1, HalvesOf DEF Sent
      <4> QED
        BY <4>1, <4>2, <4>3
    <3>3. Goes(text, op, d0, s, Sent(op, j + 1))
      BY <1>4, <3>1
    <3> QED
      BY <3>2, <3>3
  <2> QED
    BY <1>4, <2>1, <2>2 DEF Moving
<1> QED
  BY <1>2, <1>3, <1>4 DEF Machine

LEMMA MachineInit ==
  ASSUME Init, NEW text, NEW op, NEW d0, IsMessage(text, op, d0), NEW p, mem = loadhd(p),
         Holds(p, text, op, d0)
  PROVE  Machine(text, op, d0, 0) /\ mem.wire = << >>
<1>1. MessageCode(mem, text, op, d0)
  BY MessageInMemory
<1>2. mem.x = 0 /\ mem.y = 0 /\ mem.wire = << >>
  BY DEF loadhd, vm_init
<1>3. Cursor(0)
  BY <1>2, WidthAssumption DEF Cursor
<1>4. rep = << >> /\ status = "run" /\ reg["cs"] = 1984 /\ reg["flags"] = 0 /\ reg["ip"] = 0
  BY DEF Init, cpu8086_init, RegName
<1> QED
  BY <1>1, <1>2, <1>3, <1>4 DEF Machine, Starting

\* The commands on the wire bring the screen from r characters to s.
Behind(text, w, r, s) ==
  \E f \in [1 .. Len(w) + 1 -> 0 .. Len(text)] :
    /\ f[1] = r /\ f[Len(w) + 1] = s
    /\ \A i \in 1 .. Len(w) : Leads(text, w[i], f[i], f[i + 1])

LEMMA BehindEmpty ==
  ASSUME NEW text, NEW s \in 0 .. Len(text)
  PROVE  Behind(text, << >>, s, s)
<1> DEFINE f == [i \in 1 .. 0 + 1 |-> s]
<1>1. Len(<< >>) = 0
  OBVIOUS
<1>2. f \in [1 .. 0 + 1 -> 0 .. Len(text)] /\ f[1] = s /\ f[0 + 1] = s
  OBVIOUS
<1>3. \A i \in 1 .. 0 : FALSE
  OBVIOUS
<1> QED
  BY <1>1, <1>2, <1>3 DEF Behind

LEMMA BehindAppend ==
  ASSUME NEW text, NEW w \in Seq(Command), NEW vc \in Command, NEW r, NEW s, Behind(text, w, r, s),
         NEW t \in 0 .. Len(text), Leads(text, vc, s, t)
  PROVE  Behind(text, Append(w, vc), r, t)
<1> DEFINE n == Len(w)
           v == Append(w, vc)
<1>1. PICK f \in [1 .. n + 1 -> 0 .. Len(text)] :
        /\ f[1] = r /\ f[n + 1] = s
        /\ \A i \in 1 .. n : Leads(text, w[i], f[i], f[i + 1])
  BY DEF Behind
<1>2. n \in Nat /\ Len(v) = n + 1 /\ v[n + 1] = vc /\ \A i \in 1 .. n : v[i] = w[i]
  OBVIOUS
<1> HIDE DEF n, v
<1> DEFINE g == [i \in 1 .. (n + 1) + 1 |-> IF i = (n + 1) + 1 THEN t ELSE f[i]]
<1>3. g \in [1 .. (n + 1) + 1 -> 0 .. Len(text)]
  <2> SUFFICES ASSUME NEW i \in 1 .. (n + 1) + 1
               PROVE  (IF i = (n + 1) + 1 THEN t ELSE f[i]) \in 0 .. Len(text)
    OBVIOUS
  <2>1. i # (n + 1) + 1 => i \in 1 .. n + 1
    BY <1>2
  <2> QED
    BY <1>1, <2>1
<1>4. \A i \in 1 .. n + 1 : g[i] = f[i]
  BY <1>2
<1>5. g[1] = r /\ g[n + 1] = s /\ g[(n + 1) + 1] = t
  BY <1>1, <1>2, <1>4
<1>6. ASSUME NEW i \in 1 .. n + 1
      PROVE  Leads(text, v[i], g[i], g[i + 1])
  <2>1. CASE i = n + 1
    BY <1>2, <1>5, <2>1
  <2>2. CASE i # n + 1
    <3>1. i \in 1 .. n /\ i + 1 \in 1 .. n + 1
      BY <1>2, <2>2
    <3> HIDE DEF g
    <3>2. v[i] = w[i] /\ g[i] = f[i] /\ g[i + 1] = f[i + 1]
      BY <1>2, <1>4, <3>1
    <3> QED
      BY <1>1, <3>1, <3>2
  <2> QED
    BY <2>1, <2>2
<1> HIDE DEF g
<1> QED
  BY <1>2, <1>3, <1>5, <1>6 DEF Behind, v

LEMMA BehindTail ==
  ASSUME NEW text, NEW w \in Seq(Command), w # << >>, NEW r, NEW s, Behind(text, w, r, s)
  PROVE  \E q \in 0 .. Len(text) : Leads(text, Head(w), r, q) /\ Behind(text, Tail(w), q, s)
<1> DEFINE n == Len(w)
           v == Tail(w)
<1>1. PICK f \in [1 .. n + 1 -> 0 .. Len(text)] :
        /\ f[1] = r /\ f[n + 1] = s
        /\ \A i \in 1 .. n : Leads(text, w[i], f[i], f[i + 1])
  BY DEF Behind
<1>2. n \in Nat /\ n >= 1 /\ Len(v) = n - 1 /\ Head(w) = w[1] /\ \A i \in 1 .. n - 1 : v[i] = w[i + 1]
  OBVIOUS
<1> HIDE DEF n, v
<1> DEFINE g == [i \in 1 .. (n - 1) + 1 |-> f[i + 1]]
<1>3. \A i \in 1 .. (n - 1) + 1 : i \in 1 .. n /\ i + 1 \in 1 .. n + 1
  BY <1>2
<1>4. g \in [1 .. (n - 1) + 1 -> 0 .. Len(text)]
  BY <1>1, <1>3
<1>5. f[2] \in 0 .. Len(text) /\ g[1] = f[2] /\ g[(n - 1) + 1] = s
  <2>1. 1 \in 1 .. (n - 1) + 1 /\ (n - 1) + 1 \in 1 .. (n - 1) + 1 /\ ((n - 1) + 1) + 1 = n + 1
        /\ 1 + 1 = 2
    BY <1>2
  <2> QED
    BY <1>1, <1>3, <2>1
<1>6. Leads(text, Head(w), r, f[2])
  <2>1. 1 \in 1 .. n /\ 1 + 1 = 2
    BY <1>2
  <2> QED
    BY <1>1, <1>2, <2>1
<1>7. ASSUME NEW i \in 1 .. n - 1
      PROVE  Leads(text, v[i], g[i], g[i + 1])
  <2>1. i + 1 \in 1 .. n /\ i \in 1 .. (n - 1) + 1 /\ i + 1 \in 1 .. (n - 1) + 1
    BY <1>2
  <2>2. g[i] = f[i + 1] /\ g[i + 1] = f[(i + 1) + 1]
    BY <2>1
  <2> HIDE DEF g
  <2> QED
    BY <1>1, <1>2, <2>1, <2>2
<1> HIDE DEF g
<1>8. Behind(text, v, f[2], s)
  BY <1>2, <1>4, <1>5, <1>7 DEF Behind
<1> QED
  BY <1>5, <1>6, <1>8 DEF v

\* What the CPU adds to the wire takes it on.
LEMMA BehindSends ==
  ASSUME MemOK(mem), NEW text, NEW r, NEW s \in 0 .. Len(text), Behind(text, mem.wire, r, s),
         NEW w, NEW t \in 0 .. Len(text), Sends(text, w, s, t)
  PROVE  Behind(text, w, r, t)
<1>1. mem.wire \in Seq(Command)
  BY DEF MemOK
<1>2. CASE t = s /\ w = mem.wire
  BY <1>2
<1>3. ASSUME NEW vc \in Command, Leads(text, vc, s, t), w = Append(mem.wire, vc)
      PROVE  Behind(text, w, r, t)
  BY <1>1, <1>3, BehindAppend
<1>4. ASSUME NEW place \in Command, NEW vc \in Command, Leads(text, place, s, s),
             Leads(text, vc, s, t), w = Append(Append(mem.wire, place), vc)
      PROVE  Behind(text, w, r, t)
  <2> DEFINE u == Append(mem.wire, place)
  <2>1. u \in Seq(Command)
    BY <1>1
  <2>2. Behind(text, u, r, s)
    BY <1>1, <1>4, BehindAppend
  <2> HIDE DEF u
  <2>3. Behind(text, Append(u, vc), r, t)
    BY <1>4, <2>1, <2>2, BehindAppend
  <2> QED
    BY <1>4, <2>3 DEF u
<1> QED
  BY <1>2, <1>3, <1>4 DEF Sends

\* The screen shows r characters, the commands on the wire bring it to s, and
\* the machine has sent s.
Showing(text, op, d0, r, s) ==
  Machine(text, op, d0, s) /\ Behind(text, mem.wire, r, s) /\ screen = Text(text, r)
MessageInv(text) ==
  \E op, d0 : /\ IsMessage(text, op, d0)
              /\ \E r, s \in 0 .. Len(text) : Showing(text, op, d0, r, s)

Fits(text) == VGIO_HEGIHT \in Nat /\ Len(text) =< VGIO_HEGIHT * VGIO_WIDTH

LEMMA ScreenGrows ==
  ASSUME NEW text, Len(text) \in Nat, NEW r \in Nat, r < Len(text), Fits(text)
  PROVE  r < D!ScreenSize /\ [Text(text, r) EXCEPT ![r] = text[r + 1]] = Text(text, r + 1)
<1>1. D!ScreenSize \in Nat /\ r < D!ScreenSize
  BY WidthAssumption DEF Fits, D!ScreenSize
<1>2. \A i \in cells : (i < r + 1 <=> (i = r \/ i < r)) /\ ~(i = r /\ i < r)
  BY <1>1, SMT DEF cells
<1> HIDE DEF cells
<1>3. \A i \in cells : (IF i = r THEN text[r + 1] ELSE IF i < r THEN text[i + 1] ELSE 0)
                         = IF i < r + 1 THEN text[i + 1] ELSE 0
  BY <1>2
<1>4. [Text(text, r) EXCEPT ![r] = text[r + 1]] = Text(text, r + 1)
  BY <1>3 DEF Text
<1> QED
  BY <1>1, <1>4

\* vgio_cli takes the next command.
LEMMA ScreenStep ==
  ASSUME Typed, NEW text, NEW op, NEW d0, IsMessage(text, op, d0), Fits(text),
         NEW r \in 0 .. Len(text), NEW s \in 0 .. Len(text), Showing(text, op, d0, r, s), vgio_main
  PROVE  Typed' /\ \E q \in 0 .. Len(text) : Showing(text, op, d0, q, s)'
<1> DEFINE vc == Head(mem.wire)
           at == vc.y * VGIO_WIDTH + vc.x
           taken == [mem EXCEPT !.wire = Tail(@)]
<1>1. /\ mem.wire # << >> /\ mem' = taken
      /\ reg' = reg /\ port' = port /\ rep' = rep /\ status' = status
  BY DEF vgio_main, D!command_proc
<1>2. /\ vc.command = "set_cursor" => screen' = screen
      /\ (vc.command = "set_char" /\ at < D!ScreenSize) => screen' = [screen EXCEPT ![at] = vc.c]
  BY DEF vgio_main, D!command_proc
<1> HIDE DEF at
<1>3. MemOK(mem) /\ mem.wire \in Seq(Command)
  BY DEF Typed, MemOK
<1>4. MemOK(taken) /\ taken.wire = Tail(mem.wire) /\ taken.cell = mem.cell
      /\ taken.x = mem.x /\ taken.y = mem.y
  BY <1>1, <1>3, TakeKeeps
<1> HIDE DEF taken
<1>5. Typed'
  BY <1>1, <1>4 DEF Typed, MemOK, IsMem
<1>6. Machine(text, op, d0, s)'
  <2>1. /\ \A a : Peek(mem', a) = Peek(mem, a)
        /\ mem'.x = mem.x /\ mem'.y = mem.y
    BY <1>1, <1>4 DEF Peek
  <2>2. MessageCode(mem, text, op, d0)
    BY DEF Showing, Machine
  <2>3. MessageCode(mem', text, op, d0)
    BY <2>1, <2>2, CodeKept
  <2>4. Machine(text, op, d0, s)
    BY DEF Showing
  <2> QED
    BY <1>1, <2>1, <2>3, <2>4 DEF Machine, Cursor, Starting, Moving, TextSegments
<1>7. PICK q \in 0 .. Len(text) : Leads(text, vc, r, q) /\ Behind(text, Tail(mem.wire), q, s)
  BY <1>1, <1>3, BehindTail DEF Showing
<1>8. screen' = Text(text, q)
  <2>1. screen = Text(text, r)
    BY DEF Showing
  <2>2. CASE vc.command = "set_cursor" /\ q = r
    BY <1>2, <2>1, <2>2
  <2>3. CASE /\ vc.command = "set_char" /\ r < Len(text) /\ q = r + 1
             /\ vc.c = text[r + 1] /\ vc.y * VGIO_WIDTH + vc.x = r
    <3>1. at = r /\ r \in Nat /\ Len(text) \in Nat
      BY <2>3, MessageSizes DEF at
    <3>2. r < D!ScreenSize /\ [Text(text, r) EXCEPT ![r] = text[r + 1]] = Text(text, r + 1)
      BY <2>3, <3>1, ScreenGrows
    <3> QED
      BY <1>2, <2>1, <2>3, <3>1, <3>2
  <2> HIDE DEF vc
  <2> QED
    BY <1>7, <2>2, <2>3 DEF Leads
<1>9. Showing(text, op, d0, q, s)'
  BY <1>1, <1>4, <1>6, <1>7, <1>8 DEF Showing
<1> QED
  BY <1>5, <1>9

\* A step of either program, or of neither.
LEMMA SystemStep ==
  ASSUME Typed, NEW text, Fits(text), MessageInv(text), [SystemNext]_svars
  PROVE  Typed' /\ MessageInv(text)'
<1>1. PICK op, d0 : IsMessage(text, op, d0) /\ \E r, s \in 0 .. Len(text) : Showing(text, op, d0, r, s)
  BY DEF MessageInv
<1>2. PICK r \in 0 .. Len(text), s \in 0 .. Len(text) : Showing(text, op, d0, r, s)
  BY <1>1
<1>3. CASE vm
  <2>1. cpu8086_proc /\ screen' = screen
    BY <1>3 DEF vm, vgio
  <2>2. Typed'
    BY <2>1, TypedNext DEF Next
  <2>3. PICK t \in 0 .. Len(text) : Goes(text, op, d0, s, t)
    BY <1>1, <1>2, <2>1, MachineStep DEF Showing
  <2>4. Machine(text, op, d0, t)' /\ Sends(text, mem'.wire, s, t)
    BY <2>3 DEF Goes
  <2>5. PICK w : w = mem'.wire
    OBVIOUS
  <2>6. Behind(text, w, r, t)
    BY <1>2, <2>4, <2>5, BehindSends DEF Showing, Typed
  <2>7. Showing(text, op, d0, r, t)'
    BY <1>2, <2>1, <2>4, <2>5, <2>6 DEF Showing
  <2> QED
    BY <1>1, <2>2, <2>7 DEF MessageInv
<1>4. CASE vgio_main
  <2>1. Typed' /\ \E q \in 0 .. Len(text) : Showing(text, op, d0, q, s)'
    BY <1>1, <1>2, <1>4, ScreenStep
  <2> QED
    BY <1>1, <2>1 DEF MessageInv
<1>5. CASE UNCHANGED svars
  <2>1. UNCHANGED <<reg, mem, port, rep, status, screen>>
    BY <1>5 DEF svars, vars, vgio
  <2>2. Typed'
    BY <2>1, TypedNext DEF vars
  <2>3. Machine(text, op, d0, s)'
    BY <1>2, <2>1 DEF Showing, Machine, MessageCode, StartCode, TextBytes, Cursor, Starting, Moving,
                      TextSegments
  <2>4. Showing(text, op, d0, r, s)'
    BY <1>2, <2>1, <2>3 DEF Showing
  <2> QED
    BY <1>1, <2>2, <2>4 DEF MessageInv
<1> QED
  BY <1>3, <1>4, <1>5 DEF SystemNext

LEMMA SystemStarts ==
  ASSUME NEW text, Fits(text), SystemInit,
         \A p \in Programs : \E op, d0 : IsMessage(text, op, d0) /\ Holds(p, text, op, d0)
  PROVE  Typed /\ MessageInv(text)
<1>1. Init /\ screen = D!Blank
  BY DEF SystemInit
<1>2. ProgramsFit
  <2>1. ASSUME NEW p \in Programs
        PROVE  Len(p) \in Nat /\ Len(p) =< 512
    <3>1. PICK op, d0 : IsMessage(text, op, d0) /\ Holds(p, text, op, d0)
      OBVIOUS
    <3>2. Len(text) \in Nat
      BY <3>1, MessageSizes
    <3> QED
      BY <3>1, <3>2 DEF Holds
  <2>2. MbrLo + 512 =< MemSize /\ MbrLo \in Nat /\ MemSize \in Nat
    BY SMT DEF MbrLo, MemSize
  <2> QED
    BY <2>1, <2>2 DEF ProgramsFit
<1>3. Typed
  BY <1>1, <1>2, TypedInit
<1>4. PICK p \in Programs : mem = loadhd(p)
  BY <1>1 DEF Init
<1>5. PICK op, d0 : IsMessage(text, op, d0) /\ Holds(p, text, op, d0)
  BY <1>4
<1>6. Machine(text, op, d0, 0) /\ mem.wire = << >>
  BY <1>1, <1>4, <1>5, MachineInit
<1>7. 0 \in 0 .. Len(text)
  BY <1>5, MessageSizes
<1>8. Behind(text, << >>, 0, 0)
  BY <1>7, BehindEmpty
<1>9. screen = Text(text, 0)
  <2>1. \A i \in cells : ~(i < 0)
    BY DEF cells
  <2>2. D!Blank = [i \in cells |-> 0]
    BY DEF D!Blank, cells
  <2> QED
    BY <1>1, <2>1, <2>2 DEF Text
<1>10. Showing(text, op, d0, 0, 0)
  BY <1>6, <1>8, <1>9 DEF Showing
<1> QED
  BY <1>3, <1>5, <1>7, <1>10 DEF MessageInv

\* The screen of any guest that copies a text from its boot sector to the text
\* memory with rep movsb or rep movsw: the cells fill from the left, one after
\* the other, however the CPU and vgio_cli are interleaved.  Words and bytes
\* both get there: vm_write_word places the cursor before every character, and
\* after bytes the copy of the cursor in vm moves like the text.
THEOREM MessagesFillInOrder ==
  ASSUME NEW text, Fits(text),
         \A p \in Programs : \E op, d0 : IsMessage(text, op, d0) /\ Holds(p, text, op, d0)
  PROVE  SystemSpec => []FillsInOrder(text)
<1> DEFINE I == MessageInv(text)
           P == FillsInOrder(text)
<1>1. SystemInit => Typed /\ I
  BY SystemStarts
<1>2. (Typed /\ I) /\ [SystemNext]_svars => (Typed /\ I)'
  BY SystemStep
<1>3. I => P
  BY DEF MessageInv, Showing, FillsInOrder
<1> HIDE DEF I, P
<1>4. SystemSpec => []P
  BY <1>1, <1>2, <1>3, PTL DEF SystemSpec
<1> QED
  BY <1>4 DEF P

LEMMA HelloHolds ==
  /\ Len(HelloText) = 11
  /\ IsMessage(HelloText, 165, 0) /\ Holds(Hello, HelloText, 165, 0)
  /\ IsMessage(HelloText, 164, 480) /\ Holds(HelloInBytes, HelloText, 164, 480)
<1>1. Len(HelloText) = 11 /\ Len(Hello) = 49
  BY DEF HelloText, Hello
<1>2. HelloText \in Seq(Byte)
  <2>1. \A n \in {10, 32, 100, 101, 104, 108, 111, 114, 119} : n \in Byte
    BY SMT DEF Byte
  <2> QED
    BY <2>1 DEF HelloText
<1>3. Even(0) /\ Even(480)
  BY SMT DEF Even
<1>4. IsMessage(HelloText, 165, 0)
  BY <1>1, <1>2, <1>3, SMT DEF IsMessage
<1>5. IsMessage(HelloText, 164, 480)
  BY <1>1, <1>2, <1>3, SMT DEF IsMessage
<1>6. Holds(Hello, HelloText, 165, 0)
  BY <1>1, SMT DEF Holds, Hello, HelloText, StartUp, Rounds, Lo8, Hi8
<1>7. Holds(HelloInBytes, HelloText, 164, 480)
  BY <1>1, SMT DEF Holds, HelloInBytes, Hello, HelloText, StartUp, Rounds, Lo8, Hi8
<1> QED
  BY <1>1, <1>4, <1>5, <1>6, <1>7

\* test/test1.bin and its copy in bytes, on a screen of any size with eleven
\* cells or more: "hello world" appears from the left.
THEOREM HelloWorldFills ==
  ASSUME Programs \subseteq HelloPrograms, VGIO_HEGIHT \in Nat, 11 =< VGIO_HEGIHT * VGIO_WIDTH
  PROVE  SystemSpec => []FillsFromTheLeft
<1>1. Fits(HelloText)
  BY HelloHolds DEF Fits
<1>2. \A p \in Programs : \E op, d0 : IsMessage(HelloText, op, d0) /\ Holds(p, HelloText, op, d0)
  BY HelloHolds DEF HelloPrograms
<1> DEFINE I == MessageInv(HelloText)
<1>3. SystemInit => Typed /\ I
  BY <1>1, <1>2, SystemStarts
<1>4. (Typed /\ I) /\ [SystemNext]_svars => (Typed /\ I)'
  BY <1>1, SystemStep
<1>5. I => FillsFromTheLeft
  BY DEF MessageInv, Showing, FillsInOrder, FillsFromTheLeft
<1> HIDE DEF I
<1> QED
  BY <1>3, <1>4, <1>5, PTL DEF SystemSpec
=============================================================================
