------------------------------ MODULE Harddisk ------------------------------
(***************************************************************************)
(* harddisk.c behind its I/O ports, with pci.c and the start-up in main.c   *)
(* that surrounds it: the worker thread harddisk_task_command and the main  *)
(* thread, which first finishes main() and is then the CPU's IN and OUT     *)
(* instructions.  g_mutex and g_cond are modelled as pthread gives them: a  *)
(* signal with no waiter is lost and a wait may return without a signal.    *)
(*                                                                          *)
(* A sector has Sector bytes (512).  What the buffer holds is abstracted to *)
(* the sector it was read from and whether the read filled it; device is    *)
(* the set of its 1 bits.  malloc does not fail.                            *)
(***************************************************************************)
EXTENDS Naturals, FiniteSets

CONSTANTS
  Sector,        \* VM_HDISK_SECTOR
  DiskSectors,   \* sectors in the image file
  InitialBytes,  \* size of the buffer allocated by _init_harddisk
  MaxPos,        \* bound: pos grows by 2 without end in harddisk_read_16
  MaxSpurious,   \* bound: wake-ups of pthread_cond_wait without a signal
  Guest,         \* the kinds of port access the guest program makes
  LbaByte, CountByte, CommandByte, DeviceBits,  \* values OUT can carry
  Data,          \* values the data port can deliver
  Garbage        \* what is left in the second argument register

Stores == {"lba_l", "lba_m", "lba_h", "device", "count", "command"}
Reads == {"read_8", "read_16"}
Kinds == Stores \cup Reads \cup {"status", "out_data"}

Byte == 0 .. 255
Identify == 236  \* 0xec
ReadSectors == 32  \* 0x20
WriteSectors == 48  \* 0x30
Idle == 0
Bsy == 128    \* 0x80
Preparing == 5
Drq == 8

ASSUME SizeAssumption ==
  /\ Sector \in Nat \ {0, 1} /\ DiskSectors \in Nat /\ InitialBytes \in Nat
  /\ MaxPos \in Nat /\ MaxSpurious \in Nat
ASSUME ValueAssumption ==
  /\ Guest \subseteq Kinds
  /\ LbaByte \subseteq Byte /\ CountByte \subseteq Byte /\ CommandByte \subseteq Byte
  /\ DeviceBits \subseteq SUBSET (0 .. 7)
  /\ Data \subseteq Byte /\ Garbage \subseteq Byte

VARIABLES
  ide,       \* g_ide_register
  hd,        \* g_hdisk: data, pos and the buffer
  port,      \* v of g_pci_port[0x1f0] and [0x1f7], the ports with IN handlers
  mutex,     \* holder of g_mutex
  waiting,   \* the worker is blocked in pthread_cond_wait
  spurious,  \* spurious wake-ups so far
  wpc, command, lba,  \* worker: next step, its locals
  cpc, op, val,       \* main thread: next step, the port access, value to deliver
  hdpath     \* g_config.hdpath is set

wvars == <<wpc, command, lba>>
cvars == <<cpc, op, val>>
vars == <<ide, hd, port, mutex, waiting, spurious, wpc, command, lba, cpc, op, val, hdpath>>

InPort == {"1f0", "1f7"}
NoBuffer == [size |-> 0, at |-> 0, filled |-> FALSE]
Op == [kind : Kinds \cup {"none"}, arg : Byte, bits : SUBSET (0 .. 7)]
NoOp == [kind |-> "none", arg |-> 0, bits |-> {}]

WorkerSteps == {"create", "fetch", "lock", "wait", "relock", "start", "switch", "allocate", "transfer", "ready", "unlock"}
InCommand == wpc \in {"start", "switch", "allocate", "transfer", "ready", "unlock"}

TypeOK ==
  /\ ide \in [device : SUBSET (0 .. 7), sector_count : Byte, lba_low : Byte,
              lba_middle : Byte, lba_high : Byte, status : {Idle, Bsy, Preparing, Drq}, command : Byte]
  /\ hd \in [data : Nat, pos : Nat, buffer : [size : Nat, at : Nat, filled : BOOLEAN]]
  /\ port \in [InPort -> Byte]
  /\ mutex \in {"free", "worker", "cpu"} /\ waiting \in BOOLEAN /\ spurious \in Nat
  /\ wpc \in WorkerSteps \cup {"abort"} /\ command \in Byte /\ lba \in Nat
  /\ cpc \in {"main", "idle", "lock", "body", "unlock", "signal", "return"}
  /\ op \in Op /\ val \in Byte /\ hdpath \in BOOLEAN

\* _init_harddisk, the initialiser of g_ide_register and pci_init, which have
\* run when harddisk_init creates the worker.
Init ==
  /\ ide = [device |-> {5, 7}, sector_count |-> 0, lba_low |-> 0, lba_middle |-> 0,
            lba_high |-> 0, status |-> Idle, command |-> 0]
  /\ hd = [data |-> 0, pos |-> 0, buffer |-> [size |-> InitialBytes, at |-> 0, filled |-> FALSE]]
  /\ port = [p \in InPort |-> 0]
  /\ mutex = "free" /\ waiting = FALSE /\ spurious = 0
  /\ wpc = "create" /\ command = 0 /\ lba = 0
  /\ cpc = "main" /\ op = NoOp /\ val = 0 /\ hdpath = FALSE

-----------------------------------------------------------------------------
(* harddisk_task_command *)

\* vm_file_handle_create opens g_config.hdpath; the assert ends the process.
Create ==
  /\ wpc = "create"
  /\ wpc' = IF hdpath THEN "fetch" ELSE "abort"
  /\ UNCHANGED <<ide, hd, port, mutex, waiting, spurious, command, lba, cvars, hdpath>>

\* The command register is read before the mutex is taken.
Fetch ==
  /\ wpc = "fetch"
  /\ command' = ide.command
  /\ wpc' = "lock"
  /\ UNCHANGED <<ide, hd, port, mutex, waiting, spurious, lba, cvars, hdpath>>

WorkerLock ==
  /\ wpc = "lock" /\ mutex = "free"
  /\ mutex' = "worker"
  /\ wpc' = "wait"
  /\ UNCHANGED <<ide, hd, port, waiting, spurious, command, lba, cvars, hdpath>>

\* pthread_cond_wait releases the mutex and blocks in one step ...
Wait ==
  /\ wpc = "wait"
  /\ mutex' = "free" /\ waiting' = TRUE
  /\ wpc' = "relock"
  /\ UNCHANGED <<ide, hd, port, spurious, command, lba, cvars, hdpath>>

SpuriousWake ==
  /\ waiting /\ spurious < MaxSpurious
  /\ waiting' = FALSE /\ spurious' = spurious + 1
  /\ UNCHANGED <<ide, hd, port, mutex, wvars, cvars, hdpath>>

\* Mutant: the wait returns without the mutex.
Relock_NoMutex ==
  /\ wpc = "relock" /\ ~waiting
  /\ wpc' = "start"
  /\ UNCHANGED <<ide, hd, port, mutex, waiting, spurious, command, lba, cvars, hdpath>>

\* ... and returns with the mutex, without looking at any condition.
Relock ==
  /\ wpc = "relock" /\ ~waiting /\ mutex = "free"
  /\ mutex' = "worker"
  /\ wpc' = "start"
  /\ UNCHANGED <<ide, hd, port, waiting, spurious, command, lba, cvars, hdpath>>

\* Mutant: |= instead of =.
Start_KeepsBits ==
  /\ wpc = "start"
  /\ ide' = [ide EXCEPT !.status = @ + Bsy]
  /\ wpc' = "switch"
  /\ UNCHANGED <<hd, port, mutex, waiting, spurious, command, lba, cvars, hdpath>>

Start ==
  /\ wpc = "start"
  /\ ide' = [ide EXCEPT !.status = Bsy]
  /\ wpc' = "switch"
  /\ UNCHANGED <<hd, port, mutex, waiting, spurious, command, lba, cvars, hdpath>>

\* hd_lba: the sector comes from the read position, not from the registers.
hd_lba == hd.pos \div Sector

\* Only 0x20 with a nonzero count does anything; every other case breaks out
\* with the status left at 0x80.  The old buffer is freed first.
Switch ==
  /\ wpc = "switch"
  /\ IF command = ReadSectors /\ ide.sector_count # 0
       THEN /\ lba' = hd_lba
            /\ hd' = [hd EXCEPT !.buffer = NoBuffer]
            /\ wpc' = "allocate"
       ELSE wpc' = "unlock" /\ UNCHANGED <<lba, hd>>
  /\ UNCHANGED <<ide, port, mutex, waiting, spurious, command, cvars, hdpath>>

\* Mutant: the drive reports ready before the transfer.
Allocate_ReadyEarly ==
  /\ wpc = "allocate"
  /\ LET bytes == ide.sector_count * Sector IN
       hd' = [data |-> bytes, pos |-> 0,
              buffer |-> [size |-> bytes, at |-> 0, filled |-> FALSE]]
  /\ ide' = [ide EXCEPT !.status = Drq]
  /\ wpc' = "transfer"
  /\ UNCHANGED <<port, mutex, waiting, spurious, command, lba, cvars, hdpath>>

Allocate ==
  /\ wpc = "allocate"
  /\ LET bytes == ide.sector_count * Sector IN
       hd' = [data |-> bytes, pos |-> 0,
              buffer |-> [size |-> bytes, at |-> 0, filled |-> FALSE]]
  /\ ide' = [ide EXCEPT !.status = Preparing]
  /\ wpc' = "transfer"
  /\ UNCHANGED <<port, mutex, waiting, spurious, command, lba, cvars, hdpath>>

\* vm_file_handle_seek and _read; a failed or short read is not noticed.
Transfer ==
  /\ wpc = "transfer"
  /\ \E ok \in BOOLEAN :
       /\ ok => lba * Sector + hd.data <= DiskSectors * Sector
       /\ hd' = [hd EXCEPT !.buffer = [size |-> hd.data, at |-> lba, filled |-> ok]]
  /\ wpc' = "ready"
  /\ UNCHANGED <<ide, port, mutex, waiting, spurious, command, lba, cvars, hdpath>>

\* Mutant: the end of the transfer is not reported.
Ready_Forgotten ==
  /\ wpc = "ready"
  /\ wpc' = "unlock"
  /\ UNCHANGED <<ide, hd, port, mutex, waiting, spurious, command, lba, cvars, hdpath>>

Ready ==
  /\ wpc = "ready"
  /\ ide' = [ide EXCEPT !.status = Drq]
  /\ wpc' = "unlock"
  /\ UNCHANGED <<hd, port, mutex, waiting, spurious, command, lba, cvars, hdpath>>

\* Mutant: a path out of the loop's body without the unlock.
WorkerUnlock_Forgotten ==
  /\ wpc = "unlock"
  /\ lba' = 0
  /\ wpc' = "fetch"
  /\ UNCHANGED <<ide, hd, port, mutex, waiting, spurious, command, cvars, hdpath>>

WorkerUnlock ==
  /\ wpc = "unlock"
  /\ mutex' = "free" /\ lba' = 0
  /\ wpc' = "fetch"
  /\ UNCHANGED <<ide, hd, port, waiting, spurious, command, cvars, hdpath>>

harddisk_task_command ==
  \/ Create \/ Fetch \/ WorkerLock \/ Wait \/ Relock
  \/ Start \/ Switch \/ Allocate \/ Transfer \/ Ready \/ WorkerUnlock

-----------------------------------------------------------------------------
(* The main thread: main(), then IN and OUT of the CPU *)

Running == wpc # "abort"

\* main() sets the path after init_resource, loads the image and starts the CPU.
SetPath ==
  /\ Running /\ cpc = "main"
  /\ hdpath' = TRUE
  /\ cpc' = "idle"
  /\ UNCHANGED <<ide, hd, port, mutex, waiting, spurious, wvars, op, val>>

\* pci_out_byte stores v and calls the registered handler, which locks.
Out(kind, arg, bits, newport) ==
  /\ Running /\ cpc = "idle" /\ kind \in Guest
  /\ op' = [kind |-> kind, arg |-> arg, bits |-> bits]
  /\ port' = newport
  /\ cpc' = "lock"
  /\ UNCHANGED <<ide, hd, mutex, waiting, spurious, wvars, val, hdpath>>

OutRegister ==
  \/ \E b \in LbaByte, k \in {"lba_l", "lba_m", "lba_h"} : Out(k, b, {}, port)
  \/ \E b \in CountByte : Out("count", b, {}, port)
  \/ \E s \in DeviceBits : Out("device", 0, s, port)
  \/ \E b \in CommandByte : Out("command", b, {}, [port EXCEPT !["1f7"] = b])

\* Port 0x1f0 has no OUT handler.
OutData ==
  /\ Running /\ cpc = "idle" /\ "out_data" \in Guest
  /\ \E b \in Data : port' = [port EXCEPT !["1f0"] = b]
  /\ UNCHANGED <<ide, hd, mutex, waiting, spurious, wvars, cvars, hdpath>>

\* pci_in_byte and pci_in_word call the handler; the data handlers lock.
InData ==
  /\ Running /\ cpc = "idle"
  /\ \E k \in Reads \cap Guest :
       /\ k = "read_16" => hd.pos + 2 <= MaxPos
       /\ op' = [NoOp EXCEPT !.kind = k]
  /\ cpc' = "lock"
  /\ UNCHANGED <<ide, hd, port, mutex, waiting, spurious, wvars, val, hdpath>>

\* pci_setvalue_8(v) is compiled with one argument: v is taken for the port,
\* and what is stored there is left over in the next argument register.  A
\* byte is never one of the disk's own ports; a word may be.
setvalue_8 == UNCHANGED port
setvalue_16 ==
  \/ UNCHANGED port
  \/ \E p \in InPort, g \in Garbage : port' = [port EXCEPT ![p] = g]

\* harddisk_status takes no lock.
InStatus ==
  /\ Running /\ cpc = "idle" /\ "status" \in Guest
  /\ op' = [NoOp EXCEPT !.kind = "status"]
  /\ val' = ide.status /\ setvalue_8
  /\ cpc' = "return"
  /\ UNCHANGED <<ide, hd, mutex, waiting, spurious, wvars, hdpath>>

\* Mutant: a handler that does not lock.
CpuLock_NoMutex ==
  /\ Running /\ cpc = "lock"
  /\ cpc' = "body"
  /\ UNCHANGED <<ide, hd, port, mutex, waiting, spurious, wvars, op, val, hdpath>>

CpuLock ==
  /\ Running /\ cpc = "lock" /\ mutex = "free"
  /\ mutex' = "cpu"
  /\ cpc' = "body"
  /\ UNCHANGED <<ide, hd, port, waiting, spurious, wvars, op, val, hdpath>>

\* harddisk_store_lba_e keeps the low four bits and adds the new ones.
StoreRegister ==
  /\ Running /\ cpc = "body" /\ op.kind \in Stores
  /\ ide' = CASE op.kind = "lba_l" -> [ide EXCEPT !.lba_low = op.arg]
              [] op.kind = "lba_m" -> [ide EXCEPT !.lba_middle = op.arg]
              [] op.kind = "lba_h" -> [ide EXCEPT !.lba_high = op.arg]
              [] op.kind = "count" -> [ide EXCEPT !.sector_count = op.arg]
              [] op.kind = "device" -> [ide EXCEPT !.device = (@ \cup op.bits) \cap 0 .. 3]
              [] op.kind = "command" -> [ide EXCEPT !.command = op.arg]
  /\ cpc' = "unlock"
  /\ UNCHANGED <<hd, port, mutex, waiting, spurious, wvars, op, val, hdpath>>

\* Mutant: <= for <.
HasByte_OffByOne == hd.pos <= hd.data

HasByte == hd.pos < hd.data
\* pos < data - 1 on uint64_t: true for every pos while data is 0.
HasWord == hd.data = 0 \/ hd.pos < hd.data - 1

Read8 ==
  /\ Running /\ cpc = "body" /\ op.kind = "read_8"
  /\ IF HasByte
       THEN val' \in Data /\ hd' = [hd EXCEPT !.pos = @ + 1]
       ELSE val' = 0 /\ UNCHANGED hd
  /\ setvalue_8
  /\ cpc' = "unlock"
  /\ UNCHANGED <<ide, mutex, waiting, spurious, wvars, op, hdpath>>

Read16 ==
  /\ Running /\ cpc = "body" /\ op.kind = "read_16"
  /\ IF HasWord THEN val' \in Data ELSE val' = 0
  /\ hd' = [hd EXCEPT !.pos = @ + 2]
  /\ setvalue_16
  /\ cpc' = "unlock"
  /\ UNCHANGED <<ide, mutex, waiting, spurious, wvars, op, hdpath>>

CpuUnlock ==
  /\ Running /\ cpc = "unlock"
  /\ mutex' = "free"
  /\ IF op.kind \in Reads
       THEN cpc' = "return" /\ UNCHANGED op
       ELSE IF op.kind = "command"
         THEN cpc' = "signal" /\ UNCHANGED op
         ELSE cpc' = "idle" /\ op' = NoOp
  /\ UNCHANGED <<ide, hd, port, waiting, spurious, wvars, val, hdpath>>

\* After the unlock; it wakes the worker only if it is waiting now.
Signal ==
  /\ Running /\ cpc = "signal"
  /\ waiting' = FALSE
  /\ cpc' = "idle" /\ op' = NoOp
  /\ UNCHANGED <<ide, hd, port, mutex, spurious, wvars, val, hdpath>>

\* The IN instruction gets v of the port it named.
InPortOf(kind) == IF kind = "status" THEN "1f7" ELSE "1f0"
Return ==
  /\ Running /\ cpc = "return"
  /\ cpc' = "idle" /\ op' = NoOp /\ val' = 0
  /\ UNCHANGED <<ide, hd, port, mutex, waiting, spurious, wvars, hdpath>>

Begin == SetPath \/ OutRegister \/ OutData \/ InData \/ InStatus
Proceed == CpuLock \/ StoreRegister \/ Read8 \/ Read16 \/ CpuUnlock \/ Signal \/ Return

\* The assert ended the process.
Aborted == wpc = "abort" /\ UNCHANGED vars

Next == harddisk_task_command \/ SpuriousWake \/ Begin \/ Proceed \/ Aborted

\* Both threads keep being scheduled, and main() goes on to set the path; that
\* the guest accesses a port is its own choice.
Fairness == WF_vars(harddisk_task_command) /\ WF_vars(Proceed) /\ WF_vars(SetPath)

Spec == Init /\ [][Next]_vars
FairSpec == Spec /\ Fairness

\* Even if the mutex never starves the worker, which pthread does not promise.
FairMutexSpec == FairSpec /\ SF_vars(WorkerLock \/ Relock)

-----------------------------------------------------------------------------
(* Properties that hold *)

registers == <<ide.device, ide.sector_count, ide.lba_low, ide.lba_middle, ide.lba_high, ide.command>>

\* harddisk.c:138, 171, 179: the mutex keeps the registers from changing while
\* a command is executed, and the unlocked worker code changes none of them.
RegistersHeld == [][InCommand => UNCHANGED registers]_vars

\* Whoever reads status 8, also without the mutex, can rely on the buffer: it
\* has been allocated for exactly data bytes and the transfer is over.
ReadyMeansTransferred ==
  ide.status = Drq =>
    /\ hd.data > 0 /\ hd.buffer.size = hd.data
    /\ hd.buffer.filled => hd.buffer.at * Sector + hd.data <= DiskSectors * Sector
    /\ wpc \notin {"allocate", "transfer", "ready"}

\* A data-port read that is about to index the buffer stays inside the block
\* that is allocated now: the worker cannot free or replace it between the
\* check of pos and the access.  (A 16-bit read of a drive that has never read
\* a sector passes the check whatever pos is; see HasWord.)
AccessInsideBuffer ==
  cpc = "body" =>
    /\ op.kind = "read_8" /\ HasByte => hd.pos < hd.buffer.size
    /\ op.kind = "read_16" /\ HasWord /\ hd.data # 0 => hd.pos + 1 < hd.buffer.size

\* The read position moves on only when no transfer into the buffer is under way.
NoReadDuringTransfer ==
  [][hd'.pos > hd.pos => wpc \notin {"allocate", "transfer", "ready"}]_vars

\* No port access hangs: the worker always gives the mutex back.
PortAccessCompletes == cpc = "lock" ~> cpc = "body" \/ wpc = "abort"

\* A read command the worker has started leaves the drive ready, whatever the
\* guest writes meanwhile: the count it is started with is the one it is
\* executed with.  (Other commands, and a count of 0, leave it busy.)
ReadGetsReady ==
  (wpc = "start" /\ command = ReadSectors /\ ide.sector_count # 0)
    ~> (wpc = "unlock" /\ ide.status = Drq)

-----------------------------------------------------------------------------
(* What the comments say and the code does not do *)

\* harddisk.c:62 asserts that the image could be opened.
HandleIsOpened == wpc # "abort"

\* harddisk.c:185: the signal of a new command starts the worker.
SignalStartsWorker == cpc = "signal" ~> wpc = "start" \/ wpc = "abort"
=============================================================================
