# A verification project for 8086VM

TLA+ modules that model 8086VM, TLC configurations that check them on small
instances, and TLAPS proofs of the safety of its concurrent parts, its memory,
its display and its instruction set. Paths are
relative to the repository; line numbers are in `PROJECT.json`, "map".

    tlc -config MCKeyboard.cfg MCKeyboard.tla
    tlapm Keyboard_proof.tla

## 1. Inventory

8086VM is two programs. `vm` executes a boot image; `vgio_cli` shows its text
screen. Three threads of `vm` and two of `vgio_cli` do the work.

| Component | State | Operations | Talks to |
|---|---|---|---|
| keyboard ring, `keyboard.c` | `g_keypoll`: head, top, 256 slots | push (receiver thread), `keyboard_read` (CPU thread) | shared memory, no lock |
| IDE disk, `harddisk.c` | `g_ide_register`, `g_hdisk` (buffer, data, pos), mutex, condition variable | port handlers (CPU thread), `harddisk_task_command` (worker thread) | ports, image file |
| port map, `arch/8086/pci.c` | `g_pci_port`: a word and up to four handlers per port | in, out, `pci_setvalue_*` | callbacks into the disk |
| memory, `arch/8086/mem.c` | `struct vm_mem`, 1 MB in 12 regions | byte, word and dword accessors | calls `vgui.c` for the text page |
| display sender, `vgui.c` | the local cursor | `set_char`, `cursor_set`, colours | Unix stream socket |
| display, `vgio_cli.c` | `g_vgio_screen` | command loop; flush thread | socket; the screen is shared without a lock |
| CPU core, `arch/8086/cpu.c`, `cpu.c` | 14 registers | fetch, parse format, handler | memory, ports |
| start-up, `main.c` | `g_config.hdpath` | initialisers, `loadhd`, `cpu_proc` | all of them |
| BIOS services, `arch/8086/bios.c` | none | int 10h, 13h, 16h | called from nowhere (section 5) |
| 8259A, `vgio.c`, `util_file.c`, `config.c` | – | stub, escape codes, wrappers, one global | – |

What is hard:

- *Concurrency without locks*: the keyboard ring; the screen; the disk's status
  register.
- *Concurrency with locks*: the disk's worker reads its command before it takes
  the mutex and waits without a predicate; its buffer is freed and replaced
  while the guest reads data.
- *Ordering*: start-up creates the disk's worker before it knows the image;
  cursor and character commands depend on each other across a socket.
- *Numeric edges*: ring wrap, unsigned `data - 1`, regions with overlapping or
  incomplete bounds, scaled indices, 16-bit wrap of registers.
- *Long sequences of legal calls*: decoding a program, rep loops, short jumps,
  the stack, carries through multi-word arithmetic.
- *Undefined behaviour*: operands of an earlier instruction left on the C stack,
  host pointers used as guest addresses and the other way round, tables that
  look at an operand's address where they mean its type.

What makes each component correct, in a line: the ring hands out each key once
and in order; the disk reports ready only over a finished transfer and is never
read outside its buffer; the memory is one array of bytes; the screen shows
what the guest stored; the core stays in step with its program and its loops
run as often as `cx` says; an arithmetic instruction computes what it does on
the 8086. Where the code does something else, the model does
it too, and section 5 says so.

## 2. Modules

| Module | Models | Actions and their code |
|---|---|---|
| `Keyboard` | ring, receiver thread, CPU thread | one action per access to a field the other thread touches: the Makefile builds with `-O0`, so the order of the source is the order of the accesses. `PushCheck`, `PushAdvance`, `PushStore` are `keypoll_push`; `PopCheck`, `PopAdvance`, `PopTake` are `keyboard_read` |
| `KeyFifo` | what the ring should be | `Spec` a bounded queue; `WeakSpec` the same with a torn read of its only key |
| `Harddisk` | worker, port handlers, mutex and condition variable, its ports in `pci.c`, the tail of `main()` | the worker's loop in eleven steps, `Create` to `WorkerUnlock`; a port access in four, `Out`/`InData`, `CpuLock`, the handler's body, `CpuUnlock` (and `Signal`, `Return`) |
| `MemMap` | `mem.c` and `vgui.c` as operators on one record | `vm_write_byte`, `vm_write_word`, ... keep their names |
| `Mem` | any sequence of memory accesses | one action per accessor |
| `FlatMemory` | what the memory should be | a store changes the bytes it names, a load returns them |
| `Display` | text memory, socket, command loop, flush thread | `StoreText`, `command_proc`, `vgio_flush` (one cell per step) |
| `CpuCore` | registers, fetching, mod r/m, parse formats | operators named as in `cpu.c` |
| `CpuMove`, `CpuControl` | handlers that move data; stack, flags, jumps, loops, calls, interrupts, rep, halt | one action per handler, or per row of handlers that differ in a register only |
| `CpuArith`, `CpuGroup` | arithmetic, logic, decimal adjustment; the opcodes whose operation is in the mod r/m byte | `SixForms`: a row of the table, as eight operations share six forms; `table_80` ... `table_ff` keep their names |
| `Cpu` | string and port instructions, the core as a whole | `cpu8086_proc` is one round of `cpu_proc_thread`, or one round of a rep loop |
| `Alu8086` | what arithmetic should be | the 8086's definition, decoded from the bits of the opcode and stated as a relation of operands and result |
| `System` | `vm` and `vgio_cli` together | extends `Cpu`, takes `command_proc` from an instance of `Display`; they share the socket only |
| `Keyboard_proof`, `Harddisk_proof`, `MemMap_proof`, `Mem_proof`, `Display_proof`, `Cpu_proof`, `Alu_proof`, `Programs_proof` | – | theorems and proofs |
| `MC*` | – | finite instances |

Notes on the abstraction.

- *Keyboard*. `unread` and `owed` are history variables. `KeyTable` is a
  constant: the properties do not depend on its entries. A byte 0 ends the
  receiver, as `while(ch = getch())` does; `getchar`'s end of file is the byte
  255. In the source only `bios.c` calls `keyboard_read`, and nothing calls
  that part of `bios.c` (section 5): the CPU thread of `Keyboard` is the
  caller the function is written for.
- *Disk*. The buffer is a record: how large, read from which sector, filled or
  not. A read of the file may fail or be short at any time, since the worker
  ignores the result. `pci_setvalue_8(v)` and `pci_setvalue_16(v)` are called
  with one of two arguments, there being no prototype in scope: `v` arrives as
  the port, and the value stored is whatever the second argument register holds
  (`Garbage`).
- *Memory*. `struct vm_mem` is packed and its arrays lie end to end, so a cell
  is named by its guest address. Untouched cells are absent (0). `wild` is set
  when a word store leaves the struct; what it then overwrites is not followed.
- *Display*. The socket is `mem.wire`, a queue: a stream socket neither loses
  nor reorders. A command is read whole. `ideal` is history: what the guest put
  into each cell.
- *CPU*. One instruction is one step, as only the CPU thread touches registers
  and memory. `status` names the ways the VM ends. Where the C code would work
  on stale operands, or dereference a guest address as a host pointer, the
  status is `undefined` and the model goes no further. Disassembly output is left
  out. `CoreAt` is the low byte of the host address of the registers, on which
  0xd0-0xd3, 0xf6, 0xf7, 0xfe and 0xff depend: they compare the low byte of the
  operand's address with the operand types. Flags computed by arithmetic are not
  modelled, as `update_flags` does not store them (section 5).
  A rep loop records the prefix's address (and, as history, `cx` at its start
  and the rounds so far).

## 3. Runs

| Run | Instance | Shows |
|---|---|---|
| `keyboard` | 4 slots, 2 keys and the terminating 0, any contents of the fresh slots | ring, pop, drop and refinement properties in all interleavings |
| `keyboard_fifo` | same | violated: not the queue of `keyboard.c:58` |
| `harddisk` | 2-byte sectors, image of 2 sectors, counts 1 and 2, commands 0x20 and 0xec, one spurious wake-up, pos ≤ 4 | a guest that commands, polls and reads data |
| `harddisk_regs` | same, the guest writes every register and polls; fair | no register changes during a command, no access hangs, a read that starts gets ready |
| `harddisk_handle` | same | violated: `harddisk.c:62` |
| `harddisk_signal` | same, strongly fair mutex | violated: `harddisk.c:185` |
| `mem` | 8 addresses at seams, in the text page, in the ROM hole, at 1 MB, words at four of them; 2 values, 2 commands | bytes, and words where they fit, implement `FlatMemory` |
| `mem_words` | words inside a region | violated: `mem.h:8` |
| `display` | screen 3 × 2, 3 cells (the last one among them), 2 characters, 3 stores; fair | screen contents and bounds, convergence of frames |
| `cpu` | about 5900 programs: every opcode after two preludes, `ModRm` forms with every mod, reg and r/m; arithmetic on registers and on memory at every low address byte the tables tell apart; division by words, bytes and 0; counting loops, short jumps, rep loops with both directions and with `cx` = 0 (65536 rounds) | decoding, arithmetic, loops, rep |
| `cpu_jcc` | one `jnz` | violated: `cpu.c:185` |
| `system` | `test/test1.bin`, and the same program moving bytes into the fourth row (`HelloInBytes`); 80 × 25 screen; fair | `README.md:12`: hello world is printed, from the left |

Why the bounds are enough. Four slots let the ring wrap, fill up and empty
while both threads are inside it, and the theorems hold for every size. The
disk is read into the buffer of start-up and into buffers of one and of two
sectors, the second of which may run past the image's end; the theorems cover
every size there, too. `MaxPos` cuts off the growth of `pos`
in `harddisk_read_16`, `MaxSpurious` the wake-ups. The addresses of `mem` lie on
both sides of region borders; regions are alike inside, which is what
`AccessesAreFlat` proves. In `display`, the flush thread passes the screen while
any of the three stores is in the socket. The CPU's word registers are not
reduced; the programs cover opcodes and operand forms with a few values each, and
the theorems of `Cpu_proof`, `Alu_proof` and `Programs_proof` cover all values. A program that neither halts nor
loops runs into zeros, which are instructions as well: the constraint
`InProgram` stops there, and follows a `repne` loop, which may never end, for
`RepneRounds` = 16 rounds, more than the largest `cx` such a loop starts with.
`MaxRounds` caps the history of rounds at 65536, as many as `cx` can ask for.

Deadlock is checked in all of them: `Ended` and `Aborted` are the stuttering of
a process that has ended. In `Harddisk` and `System` a thread that waits for the
guest is no deadlock, the guest can always act (in `System` the program ends in
`jmp $`).

The dialogue of properties and code, run by run:

- `RingHoldsUnread`: slots head+1 .. top are the unread keys in order, except
  the one published and not filled. `PopFindsItsKey`, `ChecksStayValid`: what
  either thread has tested stays true until it acts on it. `DropOnlyWhenFull`: a key
  is dropped only with N − 1 waiting. `IsWeakFifo` puts it together.
- `ReadyMeansTransferred` is about the status read without the mutex;
  `AccessInsideBuffer` and `NoReadDuringTransfer` about the buffer the worker
  frees; `RegistersHeld` is the comment of `harddisk.c:171` and `:179`.
  `ReadGetsReady`: a read command that the worker has started ends in status 8
  whatever the guest writes meanwhile; unknown commands, and a count of 0, do not.
- `ShowsWhatWasStored` is stated for word stores: a byte store is shown at the
  cursor. The word itself is stored at a doubled offset, the character is
  nevertheless shown in its place. `StaysOnScreen`: the cursor moves to the row
  below the last one, but the next word places it before it is used.
  `PrintsHello` runs with bytes, too: they go to the fourth row and are seen in
  the first, because only words place the cursor.
- `DecodesInstructions` compares where an instruction leaves `ip` with a
  length table of the 8086, written independently of the parse formats.
  `LoopJumpsInFirstPage` states the region where eight-bit targets suffice.
  `CountsRounds`, `RepRunsCxTimes`, `RepeIsBounded` and `RepMovesBlock` are
  about loops from their first to their last round. `RepneOutlivesCx`: while ZF is
  clear a `repne` goes on whatever `cx` is, and nothing it repeats sets ZF.
- `ArithmeticIs8086` and `UnaryIs8086` compare what each handler that goes on has
  computed with `Alu8086`: operation, carry, width, direction, and that nothing
  but the destination changes. Three kinds of forms are excluded by name
  (`Departs`, section 5); for one operand only the byte registers `ah`, `ch`, `dh`
  and `bh` are (`WrongByte`), which the tables take for `sp`, `bp`, `si` and `di`
  when the core lies where their low address byte lets them go on. The run has
  `CoreAt` = 0 and never gets there; the theorem covers every `CoreAt`. That handlers with undefined behaviour do not go on
  where they could be wrong is part of what is checked.

### Fairness

`Harddisk`: weak fairness of the worker, of a port access under way and of
`main`'s assignment of the path; three threads the host schedules, none of which
waits for the guest. Whether the guest accesses a port is left open, so
`PortAccessCompletes` needs no assumption about it. Each thread leaves the
mutex free often enough that weak fairness of the other suffices there: while
the CPU waits, the worker takes the mutex again only after a signal the CPU would
have to send, or the bounded spurious wake-ups. `FairMutexSpec` adds
strong fairness of the worker's locking, more than pthread promises, to show
that `SignalStartsWorker` does not fail for starvation. `Display`, `System`:
weak fairness of the two loops of `vgio_cli` and of the CPU thread, which run in
threads of their own without an exit. `Keyboard`, `Mem` and `Cpu` state safety
only.

## 4. Proofs

All proof modules are checked with SMT, Zenon and LS4; no step is left out.

**Keyboard_proof**, from `N \in Nat \ {0, 1}`, `0 \in Byte`,
`KeyTable \in [Byte -> Nat]`: the theorems `TypeCorrect`, `RingCorrect`,
`PopCorrect`, `ChecksAreValid`, `DropCorrect` and `ImplementsWeakFifo`. `RingHoldsUnread` is not
inductive: a pop that has tested the ring must still find a key, so
`ChecksStayValid` is needed, and a push must not reach the slot of a pop under
way, so `PopFindsItsKey` is. The inductive invariant is the conjunction of the
four with `TypeOK`. Its arithmetic is in two lemmas: `NextSlotIs` (the
successor without a remainder) and `SlotsApart` (different numbers of unread
keys name different slots). `ImplementsWeakFifo` maps each action to `Accept`,
`Take`, `TakeTorn`, `Poll` or a stutter of `KeyFifo`.

**Harddisk_proof**, from `SizeAssumption` and `ValueAssumption`: type
correctness, `RegistersAreHeld`, `ReadyIsTrue`, `AccessIsInside` and
`NoReadInTransfer`, for every sector and image size, guest and number of
spurious wake-ups. The invariant says who holds the mutex at which step
(`LockInv`) and what the buffer is at which step of the worker (`BufferInv`);
the second needs the first at every handler that moves `pos`.

**Mem_proof**, from `AddrAssumption`, `ValueAssumption`, `WordAssumption`,
`WidthAssumption` and the hypothesis that words are used only where they fit
(`WordFits`: at the start of a region, or where there is no memory):
`AccessesAreFlat`, the accessors implement `FlatMemory` for every set of
addresses and values and every width of the screen. With no word addresses the
hypothesis is empty and the theorem is about bytes; the run `mem_words` shows
that it cannot be dropped. The lemmas `WriteByteReads` and `WriteWordReads` say
what a store does to every later load. `TypeCorrect` needs none of this: for any
accesses, cells stay bytes inside the struct, the cursor in its row, and what an
accessor returns is a word.

**MemMap_proof** holds the lemmas about the operators of `MemMap` that the memory,
display and CPU proofs share (`MemOK`: what every accessor keeps), from `WidthAssumption` alone.

**Display_proof**, from `WidthAssumption`, `HeightAssumption` and
`GuestAssumption`: `TypeCorrect`, `WordsStayOnScreen` and `CaughtUpShows`.
`ShowsWhatWasStored` speaks of an empty socket only and says nothing of the steps
before it. The invariant is therefore about what is on the wire (`Pending`): the
last command for a cell carries what the guest stored there last, and a cell
without a command shows it already. It needs the commands on the wire to
address the screen (`InBounds`). `CaughtUpShows` assumes that rows and columns
fit in a byte (`VGIO_WIDTH, VGIO_HEGIHT =< 256`) and that the guest stores words
to cells of the screen (`OnlyWords`); with bytes it is false.

**Cpu_proof**, from the assumptions on programs, devices and `CoreAt` and the
hypothesis `ProgramsFit` (the image fits into the memory above 0x7c00):
`TypeCorrect`, `InstructionsAreDecoded`, `ShortJumpsArrive` and
`RepneIgnoresCx`, for every program. The invariant `Typed` says that registers
and ports hold words, cells bytes, and, for the rep prefixes, that `ip` stands
on the repeated instruction at the start of every round. One lemma per handler
module (`MoveSteps`, `ControlSteps`, `ArithmeticSteps`, `GroupSteps`,
`StringSteps`, `PortSteps`) shows `StepsOn`: a handler ends the VM, or leaves
words in the registers, bytes in the memory, `flags` alone unless it is `popf` or
`sahf`, and `ip` where its format says (`Plain`: right after the instruction,
jumps apart). The four theorems are read off `StepsOn` and `Plain`; the length
an instruction should have is `Length`, which the formats do not mention.

**Alu_proof**, from the same assumptions and `ProgramsFit`:
`TwoOperandsAreCorrect` and `OneOperandIsCorrect`. The steps are those of the
handlers, the property is stated in the uniform decoding of `Alu8086`, and the
proof goes from one to the other: which handler an opcode reaches
(`Elsewhere` and the lemmas before it: no other handler takes it), what its
format delivers as operands, what the operator computes, and what a store
leaves behind, where `Mem`'s doubled offset comes in again. The bitwise
operators are sums over powers of two; their lemmas give the bits of such a sum.
Beyond `Typed` no invariant is needed, the properties speak of single steps.

**Programs_proof** is about whole programs: rep loops from their first round to
their last, with hypotheses on the program as temporal formulas, and two families
of guests from their first instruction on.

- `RepeLoopsEnd` and `LoopsRunCxTimes` hold of programs that repeat string
  instructions only (`RepeatsStrings`): a body that sets `cx`, or a second prefix,
  really runs on past 65536 rounds. The inductive invariant `RepInv` relates
  `cx` to the rounds a loop has before it, modulo 64 KB and only as long as ZF lets
  `cx` end the loop; there is one loop at a time.
- `MovesBlocks` assumes besides that the two blocks of a `rep movsb` lie in the
  memory and are disjoint (`BlocksApart`) and that nothing overwrites the
  instruction of a loop that goes on (`InstructionStays`): the code fetches it
  anew in every round. `BlockInv` says which bytes are copied already, counted
  from where `si` and `di` stand now, so that it holds in both directions and
  across the wrap of the index registers.
- `CountingLoopsCount` assumes that the programs are counting loops, for any
  16-bit count. `CountInv` follows `ip` through the loop's instructions; its heart
  is that `cx + ax` makes the count at `inc` and one more at `loop`.
- `MessagesFillInOrder` is about `System`: `vm` runs a guest that loads its
  segments and copies a text to the text memory with `rep movsb` or `rep movsw`,
  vgio_cli takes the commands from the socket in any interleaving, and at any
  moment the screen shows a prefix of the text with blanks after it. It holds for
  every text of up to 244 characters, as many as fit into a boot sector after the
  code (`IsMessage`, `Holds`), and every screen it fits on (`Fits`). The invariant
  `MessageInv` joins three facts: the instruction and the loop count at which the
  machine that has sent s characters stands, with vm's copy of the cursor at the
  s-th cell (`Machine`); the commands on the wire, which bring the screen from r
  to s characters one after the other (`Behind`); the screen with r characters.
  A word sends two commands and a byte one or none, so a step of the CPU may move
  s or leave it; no cursor is cut off, as a short text has its cells in rows and
  columns below 256 whatever the width (`CutsNothing`). Words start at the first
  cell; bytes may go to any even address, since they are shown at the cursor.
  `HelloWorldFills` is the same for the two programs of `MCSystem`, that is
  `test/test1.bin`, on every screen of eleven cells or more.

The hypotheses of the loop theorems are satisfied by the rep programs of the run
`cpu` that repeat string instructions (TLC finds no violation of them there), the
blocks of which run up and down; those of `MessagesFillInOrder` by the programs of
`MCSystem` (`HelloHolds`).

Only model-checked is liveness (`PortAccessCompletes`, `ReadGetsReady`,
`FramesConverge`, `PrintsHello`), out of the prover's reach as ENABLED is. Every
invariant and every action property of a passing run is stated by a theorem.

No module declares a recursive operator.

## 5. Where code and documents part

Five disagreements are runs (section 3, "violated"): the torn read of the ring,
the image opened before its path is set, the lost signal, the word store at a
doubled offset, the conditional jump that misses its target. The others are in
the model as they are in the code, without a run of their own:

- *Stack*: the word goes to `ss:sp` before `sp` moves down and comes from `ss:sp`
  before it moves up, so pop reads the slot beside what push wrote; near `ret`
  reads what `call` wrote second, `cs`; `retf` has `ip` and `cs` swapped.
  `push_stack_16` aborts on 0 (`cpu.c:456`), `int` therefore aborts with zero
  flags; `pop ds` aborts or crashes.
- *Flags*: `FLAGS_x_SET` (`cpu.h:41`) are expressions whose result is dropped:
  no instruction but `popf` and `sahf` changes a flag, while `cpu.h:20` wants the
  register updated after every instruction. `repne` with ZF clear
  never ends, nor does a rep prefix in a rep.
- *Arithmetic*: `add` between word registers is not stored (0x01) or adds 0
  (0x03), `xor` between byte registers is not stored (0x30); `or` takes registers
  for addresses; 0x80 and 0x82 refuse registers; byte registers `ah`, `ch`, `dh`,
  `bh` as r/m operand are the low bytes of `sp`, `bp`, `si`, `di`; 0x83 reads a
  word where its operand is a byte; `sbb` in 0x80-0x83 reads an uninitialized
  pointer; 0xd0-0xd3, 0xf6, 0xf7, 0xfe, 0xff choose their branch by the
  operand's address (`cpu.c:5669`), and shifts of memory write through a host
  pointer; `aam`, `div` and `idiv` misplace their byte results by operator
  precedence; division by 0 kills the process. All of it is in `CpuArith` and
  `CpuGroup` as it stands.
- *Short jumps* keep eight bits of `ip`; `mov bh, imm` writes `dh`; 0xa0-0xa3 are
  decoded with a mod r/m byte; byte stores through r/m 4-7 go to `sp`, `bp`,
  `si`, `di`; `lods` reads `es:di`; `out dx` takes the port from `cx`;
  `lods_16`, `stos_16` move the index by 1; `hlt` never returns.
- *Disk*: the worker executes the command register of an earlier round
  (`harddisk.c:65`); the LBA registers are not used; busy stays set after an
  unknown command; the value of IN is lost in `pci_setvalue_*`.
- *Text page*: byte stores appear at the cursor; rows beyond the last one overrun
  `g_vgio_screen`; 0xe8000-0xeffff are ROM in the struct and unreachable.
- *BIOS*: `bios_ivt_exec_8086` has no caller: `int` pushes and jumps through the
  vectors in guest memory. What only the services use is therefore dead as well:
  `bios_harddisk_*`, `vm_read` and `vm_write`, the colours and `vgui_char`, the
  commands of `vgio_cli` for them.

## 6. Not modelled, and the plan

Not modelled: `bios.c` and what only it uses (no state of the program reaches
it), the 8259A stub, escape codes and disassembly (pure output), failure of
`malloc`, of the sockets and of thread creation, a partial read of the socket,
the interplay of vm's and vgio_cli's exits. The components that are "partly"
modelled in `PROJECT.json` lack these parts and nothing else.

Done, in this order: `Keyboard`, `Harddisk`, `MemMap`/`Mem`, `Display`,
`CpuCore`, `CpuMove`, `CpuControl`, `Cpu`, `System`, their proofs, `CpuArith`,
`CpuGroup`, `Alu8086`, and the proofs of `Display` and `Cpu`, of arithmetic, of
loops and of `System`. What could follow:

1. `Harddisk` composed with `Cpu`'s port instructions: a guest driver that polls
   the status and reads a sector, in place of devices that answer anything. With
   the value of IN lost in `pci_setvalue_*` no such driver can work at present.
2. `Bios`, over `MemMap`, the ring and the disk, should `int` come to reach it.
