----------------------------- MODULE FlatMemory -----------------------------
(***************************************************************************)
(* What mem.h promises of the guest memory ("read and write the given       *)
(* memory"): a store changes the bytes it names, no other, and a load       *)
(* returns what they hold.  An address without memory behind it reads as 0  *)
(* and refuses stores.                                                      *)
(***************************************************************************)
EXTENDS Integers

CONSTANTS Addr, Backed     \* Backed \subseteq Addr \subseteq Nat

VARIABLES flat, req, ret   \* the memory; the last access and its result

At(a) == IF a \in Addr THEN flat[a] ELSE 0

Init == flat = [a \in Addr |-> 0] /\ req = [op |-> "none"] /\ ret = 0

StoreByte(q) ==
  /\ q.op = "store8" /\ q.addr \in Backed
  /\ flat' = [flat EXCEPT ![q.addr] = q.val]
  /\ ret' = 0

StoreWord(q) ==
  /\ q.op = "store16" /\ {q.addr, q.addr + 1} \subseteq Backed
  /\ flat' = [flat EXCEPT ![q.addr] = q.val % 256, ![q.addr + 1] = q.val \div 256]
  /\ ret' = 0

Refuse(q) ==
  /\ \/ q.op = "store8" /\ q.addr \notin Backed
     \/ q.op = "store16" /\ ~({q.addr, q.addr + 1} \subseteq Backed)
  /\ ret' = -1
  /\ UNCHANGED flat

LoadByte(q) == q.op = "load8" /\ ret' = At(q.addr) /\ UNCHANGED flat

LoadWord(q) ==
  /\ q.op = "load16"
  /\ ret' = At(q.addr) + 256 * At(q.addr + 1)
  /\ UNCHANGED flat

Do(q) == StoreByte(q) \/ StoreWord(q) \/ Refuse(q) \/ LoadByte(q) \/ LoadWord(q)

Next == Do(req')
Spec == Init /\ [][Next]_<<flat, req, ret>>
=============================================================================
