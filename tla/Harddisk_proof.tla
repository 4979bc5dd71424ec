--------------------------- MODULE Harddisk_proof ---------------------------
(***************************************************************************)
(* The locking discipline of harddisk.c and what it protects, for every    *)
(* sector size, image, register value and number of spurious wake-ups.      *)
(***************************************************************************)
EXTENDS Harddisk, TLAPS

\* Who holds g_mutex, read off the program counters.
LockInv ==
  /\ mutex = "worker" <=> InCommand \/ wpc = "wait"
  /\ mutex = "cpu" <=> cpc \in {"body", "unlock"}
  /\ waiting => wpc = "relock"

\* Where the worker is decides what the buffer and the status are.
BufferInv ==
  /\ wpc # "allocate" /\ hd.data # 0 => hd.buffer.size = hd.data
  /\ wpc \in {"transfer", "ready"} => hd.data > 0
  /\ wpc \in {"switch", "allocate", "transfer", "ready"} => ide.status # Drq
  /\ wpc = "allocate" => ide.sector_count > 0
  /\ ide.status = Drq \/ wpc = "ready" =>
       hd.data > 0 /\ (hd.buffer.filled => hd.buffer.at * Sector + hd.data <= DiskSectors * Sector)

IInv == TypeOK /\ LockInv /\ BufferInv

LEMMA InitIInv == Init => IInv
<1> SUFFICES ASSUME Init PROVE IInv
  OBVIOUS
<1>1. TypeOK
  <2>1. {5, 7} \in SUBSET (0 .. 7) /\ NoOp \in Op
    BY DEF NoOp, Op, Kinds, Byte
  <2>2. ide \in [device : SUBSET (0 .. 7), sector_count : Byte, lba_low : Byte,
              lba_middle : Byte, lba_high : Byte, status : {Idle, Bsy, Preparing, Drq}, command : Byte]
    BY <2>1 DEF Init, Byte
  <2>3. hd \in [data : Nat, pos : Nat, buffer : [size : Nat, at : Nat, filled : BOOLEAN]]
    BY SizeAssumption DEF Init
  <2>4. port \in [InPort -> Byte]
    BY DEF Init, Byte
  <2>5. QED
    BY <2>1, <2>2, <2>3, <2>4 DEF Init, TypeOK, Byte, WorkerSteps
<1>2. LockInv /\ BufferInv
  BY DEF Init, LockInv, BufferInv, InCommand, Idle, Drq
<1>3. QED
  BY <1>1, <1>2 DEF IInv

\* The fields of the records, and the two products, for the provers.
LEMMA Fields ==
  ASSUME TypeOK
  PROVE  /\ ide.sector_count \in Nat /\ ide.status \in {Idle, Bsy, Preparing, Drq}
         /\ hd.data \in Nat /\ hd.pos \in Nat
         /\ hd.buffer.size \in Nat /\ hd.buffer.at \in Nat /\ hd.buffer.filled \in BOOLEAN
         /\ Sector \in Nat /\ Sector > 1 /\ hd_lba \in Nat
BY SizeAssumption DEF TypeOK, Byte, hd_lba

LEMMA Bytes == ASSUME NEW n \in Nat PROVE n * Sector \in Nat /\ (n > 0 => n * Sector > 0)
BY SizeAssumption

LEMMA WorkerStep ==
  ASSUME IInv, harddisk_task_command \/ SpuriousWake
  PROVE  IInv'
<1>f. TypeOK
  BY DEF IInv
<1> USE DEF IInv
<1>1. CASE Create \/ Fetch \/ WorkerLock \/ Wait \/ SpuriousWake \/ Relock
  <2>1. TypeOK'
    <3>1. CASE Fetch
      BY <3>1, <1>f DEF TypeOK, Fetch, cvars, WorkerSteps
    <3>2. CASE SpuriousWake
      <4>1. waiting' = FALSE /\ spurious' \in Nat
        BY <3>2, <1>f DEF TypeOK, SpuriousWake
      <4>2. UNCHANGED <<ide, hd, port, mutex, wpc, command, lba, cpc, op, val, hdpath>>
        BY <3>2 DEF SpuriousWake, cvars, wvars
      <4>3. QED
        BY <4>1, <4>2, <1>f DEF TypeOK
    <3>3. CASE Create
      <4>1. wpc' \in WorkerSteps \cup {"abort"}
        BY <3>3 DEF Create, WorkerSteps
      <4>2. UNCHANGED <<ide, hd, port, mutex, waiting, spurious, command, lba, cpc, op, val, hdpath>>
        BY <3>3 DEF Create, cvars
      <4>3. QED
        BY <4>1, <4>2, <1>f DEF TypeOK
    <3>4. CASE WorkerLock \/ Wait \/ Relock
      <4>1. wpc' \in WorkerSteps /\ mutex' \in {"free", "worker"} /\ waiting' \in BOOLEAN
        BY <3>4, <1>f DEF TypeOK, WorkerLock, Wait, Relock, WorkerSteps
      <4>2. UNCHANGED <<ide, hd, port, spurious, command, lba, cpc, op, val, hdpath>>
        BY <3>4 DEF WorkerLock, Wait, Relock, cvars
      <4>3. QED
        BY <4>1, <4>2, <1>f DEF TypeOK
    <3>5. QED
      BY <1>1, <3>1, <3>2, <3>3, <3>4
  <2>2. LockInv'
    BY <1>1 DEF LockInv, InCommand, Create, Fetch, WorkerLock, Wait, SpuriousWake, Relock, cvars, wvars
  <2>3. UNCHANGED <<ide, hd>> /\ wpc' \notin {"switch", "allocate", "transfer", "ready"}
        /\ wpc # "allocate"
    BY <1>1, <1>f DEF TypeOK, WorkerSteps, Create, Fetch, WorkerLock, Wait, SpuriousWake, Relock, cvars, wvars, LockInv
  <2>4. BufferInv'
    BY <2>3 DEF BufferInv
  <2>5. QED
    BY <2>1, <2>2, <2>4
<1>2. CASE Start
  <2>1. TypeOK'
    BY <1>2 DEF TypeOK, Start, cvars, WorkerSteps
  <2>2. LockInv'
    BY <1>2 DEF LockInv, InCommand, Start, cvars
  <2>3. BufferInv'
    BY <1>2, <1>f DEF TypeOK, BufferInv, Start, Bsy, Drq
  <2>4. QED
    BY <2>1, <2>2, <2>3
<1>3. CASE Switch
  <2>1. TypeOK'
    <3>1. hd' \in [data : Nat, pos : Nat, buffer : [size : Nat, at : Nat, filled : BOOLEAN]]
      <4>1. NoBuffer \in [size : Nat, at : Nat, filled : BOOLEAN]
        BY DEF NoBuffer
      <4>2. hd' = hd \/ hd' = [hd EXCEPT !.buffer = NoBuffer]
        BY <1>3 DEF Switch
      <4>3. QED
        BY <4>1, <4>2, <1>f DEF TypeOK
    <3>2. lba' \in Nat /\ wpc' \in WorkerSteps
      BY <1>3, Fields DEF TypeOK, Switch, WorkerSteps
    <3>3. UNCHANGED <<ide, port, mutex, waiting, spurious, command, cpc, op, val, hdpath>>
      BY <1>3 DEF Switch, cvars
    <3>4. QED
      BY <3>1, <3>2, <3>3, <1>f DEF TypeOK
  <2>2. LockInv'
    BY <1>3 DEF LockInv, InCommand, Switch, cvars
  <2>3. BufferInv'
    BY <1>3, Fields DEF TypeOK, BufferInv, Switch
  <2>4. QED
    BY <2>1, <2>2, <2>3
<1>4. CASE Allocate
  <2> DEFINE bytes == ide.sector_count * Sector
  <2>1. bytes \in Nat /\ bytes > 0
    BY <1>4, Fields, Bytes DEF BufferInv, Allocate
  <2>2. /\ hd' = [data |-> bytes, pos |-> 0, buffer |-> [size |-> bytes, at |-> 0, filled |-> FALSE]]
        /\ ide' = [ide EXCEPT !.status = Preparing] /\ wpc = "allocate" /\ wpc' = "transfer"
        /\ UNCHANGED <<port, mutex, waiting, spurious, command, lba, cvars, hdpath>>
    BY <1>4 DEF Allocate
  <2> HIDE DEF bytes
  <2>3. TypeOK'
    BY <2>1, <2>2 DEF TypeOK, cvars, WorkerSteps
  <2>4. LockInv'
    BY <2>2 DEF LockInv, InCommand, cvars
  <2>5. BufferInv'
    BY <2>1, <2>2, <1>f DEF TypeOK, BufferInv, Preparing, Drq
  <2>6. QED
    BY <2>3, <2>4, <2>5
<1>5. CASE Transfer
  <2>1. PICK ok \in BOOLEAN :
          /\ ok => lba * Sector + hd.data <= DiskSectors * Sector
          /\ hd' = [hd EXCEPT !.buffer = [size |-> hd.data, at |-> lba, filled |-> ok]]
    BY <1>5 DEF Transfer
  <2>2. wpc = "transfer" /\ wpc' = "ready"
        /\ UNCHANGED <<ide, port, mutex, waiting, spurious, command, lba, cvars, hdpath>>
    BY <1>5 DEF Transfer
  <2>3. TypeOK'
    BY <2>1, <2>2, Fields DEF TypeOK, cvars, WorkerSteps
  <2>4. LockInv'
    BY <2>2 DEF LockInv, InCommand, cvars
  <2>5. hd'.data = hd.data /\ hd'.buffer.size = hd.data /\ hd'.buffer.at = lba /\ hd'.buffer.filled = ok
    BY <2>1, <1>f DEF TypeOK
  <2>6. BufferInv'
    BY <2>1, <2>2, <2>5, Fields DEF BufferInv
  <2>7. QED
    BY <2>3, <2>4, <2>6
<1>6. CASE Ready
  <2>1. TypeOK'
    BY <1>6 DEF TypeOK, Ready, cvars, WorkerSteps
  <2>2. LockInv'
    BY <1>6 DEF LockInv, InCommand, Ready, cvars
  <2>3. BufferInv'
    BY <1>6, <1>f DEF TypeOK, BufferInv, Ready
  <2>4. QED
    BY <2>1, <2>2, <2>3
<1>7. CASE WorkerUnlock
  <2>1. TypeOK'
    BY <1>7 DEF TypeOK, WorkerUnlock, cvars, WorkerSteps
  <2>2. LockInv'
    BY <1>7 DEF LockInv, InCommand, WorkerUnlock, cvars
  <2>3. BufferInv'
    BY <1>7 DEF BufferInv, WorkerUnlock
  <2>4. QED
    BY <2>1, <2>2, <2>3
<1>8. QED
  BY <1>1, <1>2, <1>3, <1>4, <1>5, <1>6, <1>7 DEF harddisk_task_command

LEMMA CpuStep ==
  ASSUME IInv, Begin \/ Proceed
  PROVE  IInv'
<1>f. TypeOK
  BY DEF IInv
<1> USE DEF IInv
<1>1. CASE SetPath
  BY <1>1 DEF TypeOK, LockInv, BufferInv, InCommand, SetPath, wvars
<1>2. CASE OutRegister
  <2>1. PICK kind \in Stores, arg \in Byte, bits \in SUBSET (0 .. 7), np \in [InPort -> Byte] :
          Out(kind, arg, bits, np)
    <3>1. \A b \in Byte : [port EXCEPT !["1f7"] = b] \in [InPort -> Byte]
      BY <1>f DEF TypeOK
    <3>2. 0 \in Byte /\ {} \in SUBSET (0 .. 7) /\ port \in [InPort -> Byte]
      BY <1>f DEF TypeOK, Byte
    <3>3. CASE \E b \in LbaByte, k \in {"lba_l", "lba_m", "lba_h"} : Out(k, b, {}, port)
      BY <3>2, <3>3, ValueAssumption DEF Stores
    <3>4. CASE \E b \in CountByte : Out("count", b, {}, port)
      BY <3>2, <3>4, ValueAssumption DEF Stores
    <3>5. CASE \E s \in DeviceBits : Out("device", 0, s, port)
      BY <3>2, <3>5, ValueAssumption DEF Stores
    <3>6. CASE \E b \in CommandByte : Out("command", b, {}, [port EXCEPT !["1f7"] = b])
      BY <3>1, <3>2, <3>6, ValueAssumption DEF Stores
    <3>7. QED
      BY <1>2, <3>3, <3>4, <3>5, <3>6 DEF OutRegister
  <2>2. TypeOK'
    BY <2>1 DEF TypeOK, Out, Op, Kinds, wvars
  <2>3. LockInv' /\ BufferInv'
    BY <2>1 DEF LockInv, BufferInv, InCommand, Out, wvars
  <2>4. QED
    BY <2>2, <2>3
<1>3. CASE OutData
  <2>1. port' \in [InPort -> Byte]
    BY <1>3, <1>f, ValueAssumption DEF TypeOK, OutData
  <2>2. QED
    BY <1>3, <2>1 DEF TypeOK, LockInv, BufferInv, InCommand, OutData, wvars, cvars
<1>4. CASE InData
  <2>1. op' \in Op
    BY <1>4 DEF InData, NoOp, Op, Kinds, Byte
  <2>2. QED
    BY <1>4, <2>1 DEF TypeOK, LockInv, BufferInv, InCommand, InData, wvars
<1>5. CASE InStatus
  <2>1. op' \in Op /\ val' \in Byte
    BY <1>5, Fields DEF InStatus, NoOp, Op, Kinds, Byte, Idle, Bsy, Preparing, Drq
  <2>2. QED
    BY <1>5, <2>1 DEF TypeOK, LockInv, BufferInv, InCommand, InStatus, setvalue_8, wvars
<1>6. CASE CpuLock
  BY <1>6 DEF TypeOK, LockInv, BufferInv, InCommand, CpuLock, wvars
<1>7. CASE StoreRegister
  <2>1. ide' \in [device : SUBSET (0 .. 7), sector_count : Byte, lba_low : Byte,
              lba_middle : Byte, lba_high : Byte, status : {Idle, Bsy, Preparing, Drq}, command : Byte]
        /\ ide'.status = ide.status
    <3>1. op.arg \in Byte /\ op.bits \in SUBSET (0 .. 7) /\ op.kind \in Stores
      BY <1>7, <1>f DEF TypeOK, Op, StoreRegister
    <3>2. (ide.device \cup op.bits) \cap 0 .. 3 \in SUBSET (0 .. 7)
      BY <3>1, <1>f DEF TypeOK
    <3>3. QED
      BY <1>7, <1>f, <3>1, <3>2 DEF TypeOK, StoreRegister, Stores
  <2>2. wpc # "allocate"
    BY <1>7 DEF StoreRegister, LockInv, InCommand
  <2>3. TypeOK'
    BY <1>7, <2>1 DEF TypeOK, StoreRegister, wvars
  <2>4. LockInv'
    BY <1>7 DEF LockInv, InCommand, StoreRegister, wvars
  <2>5. BufferInv'
    BY <1>7, <2>1, <2>2 DEF BufferInv, StoreRegister, wvars
  <2>6. QED
    BY <2>3, <2>4, <2>5
<1>8. CASE Read8 \/ Read16
  <2>1. /\ hd' \in [data : Nat, pos : Nat, buffer : [size : Nat, at : Nat, filled : BOOLEAN]]
        /\ hd'.data = hd.data /\ hd'.buffer = hd.buffer
    BY <1>8, <1>f, Fields DEF TypeOK, Read8, Read16
  <2>2. port' \in [InPort -> Byte] /\ val' \in Byte
    BY <1>8, <1>f, ValueAssumption DEF TypeOK, Read8, Read16, setvalue_8, setvalue_16, Byte
  <2>3. TypeOK'
    BY <1>8, <2>1, <2>2 DEF TypeOK, Read8, Read16, wvars
  <2>4. LockInv'
    BY <1>8 DEF LockInv, InCommand, Read8, Read16, wvars
  <2>5. BufferInv'
    BY <1>8, <2>1 DEF BufferInv, Read8, Read16, wvars
  <2>6. QED
    BY <2>3, <2>4, <2>5
<1>9. CASE CpuUnlock \/ Signal \/ Return
  <2>1. NoOp \in Op /\ 0 \in Byte
    BY DEF NoOp, Op, Kinds, Byte
  <2>2. TypeOK'
    BY <1>9, <2>1 DEF TypeOK, CpuUnlock, Signal, Return, wvars
  <2>3. LockInv'
    BY <1>9, <1>f DEF TypeOK, LockInv, InCommand, CpuUnlock, Signal, Return, wvars
  <2>4. BufferInv'
    BY <1>9 DEF BufferInv, CpuUnlock, Signal, Return, wvars
  <2>5. QED
    BY <2>2, <2>3, <2>4
<1>10. QED
  BY <1>1, <1>2, <1>3, <1>4, <1>5, <1>6, <1>7, <1>8, <1>9 DEF Begin, Proceed

LEMMA Inductive == Spec => []IInv
<1>1. IInv /\ [Next]_vars => IInv'
  <2>1. ASSUME IInv, UNCHANGED vars PROVE IInv'
    BY <2>1 DEF IInv, TypeOK, LockInv, BufferInv, InCommand, vars
  <2>2. QED
    BY <2>1, WorkerStep, CpuStep DEF Next, Aborted
<1>2. QED
  BY InitIInv, <1>1, PTL DEF Spec

\* The registers, the buffer and the locals of both threads keep their types.
THEOREM TypeCorrect == Spec => []TypeOK
BY Inductive, PTL DEF IInv

\* While a command is executed no port access changes a register.
THEOREM RegistersAreHeld == Spec => RegistersHeld
<1>1. ASSUME IInv, [Next]_vars, InCommand
      PROVE  UNCHANGED registers
  <2>1. ~StoreRegister
    BY <1>1 DEF IInv, LockInv, StoreRegister, InCommand
  <2>2. CASE UNCHANGED ide
    BY <2>2 DEF registers
  <2>3. CASE Start \/ Allocate \/ Ready
    BY <2>3, <1>1 DEF Start, Allocate, Ready, registers, IInv, TypeOK
  <2>4. QED
    BY <1>1, <2>1, <2>2, <2>3
       DEF Next, harddisk_task_command, Begin, Proceed, Aborted, vars, Create, Fetch, WorkerLock,
           Wait, SpuriousWake, Relock, Switch, Transfer, WorkerUnlock, SetPath, OutRegister, Out,
           OutData, InData, InStatus, CpuLock, Read8, Read16, CpuUnlock, Signal, Return
<1>2. IInv /\ [Next]_vars => [InCommand => UNCHANGED registers]_vars
  BY <1>1
<1>3. QED
  BY Inductive, <1>2, PTL DEF Spec, RegistersHeld

\* A status of 8, which is read without the mutex, always means that the
\* buffer is allocated for data bytes and that the transfer is over.
THEOREM ReadyIsTrue == Spec => []ReadyMeansTransferred
<1>1. IInv => ReadyMeansTransferred
  BY DEF IInv, BufferInv, ReadyMeansTransferred, Drq
<1>2. QED
  BY Inductive, <1>1, PTL

\* A data-port read stays inside the block that is allocated when it indexes it.
THEOREM AccessIsInside == Spec => []AccessInsideBuffer
<1>1. IInv => AccessInsideBuffer
  <2> SUFFICES ASSUME IInv, cpc = "body"
               PROVE  /\ HasByte => hd.pos < hd.buffer.size
                      /\ HasWord /\ hd.data # 0 => hd.pos + 1 < hd.buffer.size
    BY DEF AccessInsideBuffer
  <2>1. wpc # "allocate"
    BY DEF IInv, LockInv, InCommand
  <2>2. hd.data # 0 => hd.buffer.size = hd.data
    BY <2>1 DEF IInv, BufferInv
  <2>3. hd.data \in Nat /\ hd.pos \in Nat
    BY Fields DEF IInv
  <2>4. QED
    BY <2>2, <2>3 DEF HasByte, HasWord
<1>2. QED
  BY Inductive, <1>1, PTL

\* The read position does not move on while a transfer is being prepared.
THEOREM NoReadInTransfer == Spec => NoReadDuringTransfer
<1>1. ASSUME IInv, [Next]_vars, hd'.pos > hd.pos
      PROVE  wpc \notin {"allocate", "transfer", "ready"}
  <2>1. hd.pos \in Nat
    BY <1>1, Fields DEF IInv
  <2>2. ~(UNCHANGED hd)
    BY <1>1, <2>1
  <2>3. ~Allocate
    BY <1>1, <2>1 DEF Allocate
  <2>4. ~Transfer
    BY <1>1, <2>1 DEF Transfer, IInv, TypeOK
  <2>5. CASE Switch
    BY <2>5 DEF Switch
  <2>6. CASE Read8 \/ Read16
    BY <2>6, <1>1 DEF Read8, Read16, IInv, LockInv, InCommand
  <2>7. QED
    BY <1>1, <2>2, <2>3, <2>4, <2>5, <2>6
       DEF Next, harddisk_task_command, Begin, Proceed, Aborted, vars, Create, Fetch, WorkerLock,
           Wait, SpuriousWake, Relock, Start, Ready, WorkerUnlock, SetPath, OutRegister, Out,
           OutData, InData, InStatus, CpuLock, StoreRegister, CpuUnlock, Signal, Return
<1>2. IInv /\ [Next]_vars =>
        [hd'.pos > hd.pos => wpc \notin {"allocate", "transfer", "ready"}]_vars
  BY <1>1
<1>3. QED
  BY Inductive, <1>2, PTL DEF Spec, NoReadDuringTransfer
=============================================================================
