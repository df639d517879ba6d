# TLA+ models of the VMPU68 accelerator

VMPU68 replaces the MC68000 of a Sharp X68000 by a Raspberry Pi and an FPGA.
The Pi emulates the processor; the FPGA runs its bus cycles, hands the bus to
the DMA controller and reports what that controller writes. This directory
holds TLA+ models of the parts whose correctness depends on the order of steps
of several actors, on images of state that live elsewhere, or on what survives
a power failure; the TLC runs that check them on small instances; and proofs
for all instances that TLAPS checks. File names below are relative to `src/src/`.

## 1. The system

| Part | Files | State | Operations |
|---|---|---|---|
| Emulator core (core 1) | `pi/core/emu68k.c` | shadow RAM, dirty bits, write-through hold, DMAC image, range to repair, IRQ level | memory access, DMA start, drain, repair, interrupt acknowledge, reset |
| Translator | `pi/core/jit_a64.c` | blocks, marks, chains; for one instruction host registers and flags | translate, look up, invalidate, rebuild, run, leave after a bus error |
| Bus access layer | `pi/mgmtd/hw.c` | port lock, write queue, `posted`, control word | read, posted and synchronous write, queue worker (core 2), IACK, reset |
| Register transport | `pi/pi/vmpu68_io.c` | images of CTRL, data latch, stepped address, stream head, line | register cycles, streams, waits, snoop pop |
| FPGA port | `fpga/rtl/pi_if.v` | register file, `snoop_phase`, read freeze, hello, reset latch | strobe handling |
| FPGA bus engine | `fpga/rtl/bus_engine.v`, `fwft_fifo.v` | command, prefetch and snoop FIFO, lost range, FSM | cycle, grant, capture, presentation |
| Virtual SCSI | `emu68k.c`, `pi/baremetal/vscsi.cpp` | mailbox, bounce buffer, targets | start, take, execute, done, commit, mount, eject |
| Kernel | `pi/baremetal/kernel.cpp` | run/active/pause flags, supervisor, update marker | pause, reset, supervision, boot of the X68000, update, A/B boot |
| Images and configuration | `sdimg.cpp`, `config.cpp`, `netfetch.cpp` in `pi/baremetal/` | card, volume, slots, `vmpu68.cfg`, transfer | expand, migrate, mount, save, fetch, new, rename, remove |
| Inside an image | `human68k.c`, `imgfs.cpp` in `pi/baremetal/` | FAT, directories, clusters | upload, delete, mkdir, rename, move, download |
| Others | Web server, console, discovery, CD images, Linux daemon, `VMPU68.X`, tools | | |

The actors are the four cores of the Pi (0: console, web, files; 1: the
emulator; 2: write queue; 3: disk commands), the FPGA and the DMA controller.
They meet in shared variables without locks (dirty bits, mailbox, run flags),
in one lock (the port), in the FPGA's FIFOs and in the real RAM. Core 0 runs
tasks that yield to one another. The user meets all of it through a power
switch, a reset button, a console, the Web UI and the plug of the Pi.

What is hard: data that is true in one memory and stale in the other; records
that arrive late or are refused; a stream framed by nothing but a count of
register reads; images of registers that nothing tells they are wrong;
commands overtaking one another; resets in the middle of an operation of
another core; a power failure between any two writes. `PROJECT.json` lists these
hazards by line; section 7 sums them up.

What makes each part correct:

| Part | Correctness |
|---|---|
| Write-back RAM | CPU and DMA controller see one memory: no transfer reads a word whose newest value is still held back, no CPU write lands on a device's data, nothing a device wrote is forgotten, a driver that has seen the end of a transfer reads its data |
| Snoop stream | host and FPGA agree on which register read comes next; each DMA write is handed over once, in order, at its address, or lies in a range handed over |
| Register port | every command goes out with the address, size, direction and data asked for, however few strobes carry it; a word read belongs to the address asked for and is no older than the call; a fault is reported to whoever caused it |
| Write queue | it is a store buffer: writes keep their order, a read passes only writes to devices of another class; the FPGA refuses no write; no wait outlives what it waits for |
| Virtual SCSI | a disk that executes one command at a time, at most once, with the data of its start; a command started after a change of medium moves nothing before the program has been told; every command ends |
| Machine | core 0 touches the emulator only while core 1 is outside it; no reset is lost; no boot on the bounce of a dying supply; a machine that stays on is booted |
| Translator | no block is looked up whose words, as far as a write looks, have changed; the code of one instruction does what the interpreter does, also when an access of it fails |
| Update, A/B boot | no part of an image reaches the stable slot, and it is emptied only with a whole verified copy beside it; a trial is decided; what is promoted has run |
| Disk images | no image is lost, a mounted one stays whole, what is mounted comes back, the geometry of a new volume fits |
| File system of an image | after every single write: no file is a mixture, no cluster has two owners, no name two entries, nobody else's file changes |

## 2. Plan

Written, in the order of what matters most:

1. `WriteBack`, with the abstract `SharedRam`: the largest and subtlest piece
   of shared state in the program.
2. `SnoopStream`, with `SnoopContract` over `SnoopRange`: the stream on which
   `WriteBack.PopRecord` relies.
3. `VscsiPort`, with `VscsiDisk`: four actors on a mailbox without a lock.
4. `WriteQueue`, with `OrderedBus`: the lock-free ring between cores 1 and 2.
5. `Firmware`: install, A/B boot and rollback across power failures.
6. `Machine`: the cores' run flags under console, Web, power switch and reset.
7. `JitCache` with `JitSteps`, `JitInstr` and `Cpu68k`: which translated code
   may run, and whether it is right.
8. `BusPort`: the images of the register port, prefetch streams, command FIFO.
9. `HumanFs`: the file system of an image, write by write.
10. `Images` with `FatLayout`: images, mounts, configuration and the expansion
    of the card.

Left, most useful first:

- proofs of `NoLeak` and `Bystanders` of `HumanFs`, which compare the image
  with what the request has allocated so far, and with itself a write earlier;
- byte lanes in `WriteBack` (a DMA byte beside a dirty byte) and chained
  transfers;
- the sampling of the interrupt level (`emu68k.c` 1692);
- `VscsiPort` composed with `Machine`, so that resets come from the callers
  that make them.

## 3. The modules and the code

A step of a model is what one actor does between two points at which another
actor can see or change what it uses: an operation under the port lock is one
step; a sequence of stores to shared variables is one step per store; a bus
wait, in which the in-wait hook runs, is a point of its own; on core 0 a yield
is one, and for power failures every write to the card.

Several models have a discipline as a constant: FALSE leaves out a course of
events in which the code does not keep the property, TRUE lets it in. The runs
have FALSE; section 5 says what TRUE shows.

### WriteBack (emu68k.c, bus_engine.v) and SharedRam

| Model | Code |
|---|---|
| `shadow`, `dirty`, `held`, `wbOn`, `img` | shadow RAM, dirty bitmap, `page_wt`, `wb_on`, `dmac_sh` |
| `rep`, `win`, `got` | `rep_lo..rep_hi`, the rest of it inside `sn_repair`, the word read and not yet stored |
| `posted` | commands in the FPGA's command FIFO |
| `fifo`, `lost` | snoop FIFO and the range of what it refused, as `SnoopContract` gives them |
| `reg`, `run`, `pos`, `grant`, `dev` | the DMA controller (external) |
| `CpuWrite`, `Program`, `StartDma`, `FlushWord`, `FlushDone`, `CcrWrite` | `m68k_write_memory_*`, `io_write`, `wb_dma_start`, `wb_flush_range`, `hw_bus_write_sync` |
| `Poll`, `PollRead`, `Periodic`, `Drain*`, `InWaitHook`, `Repair*` | the read of a DMA or device register, `hook_periodic`, `emu68k_snoop_apply`, `sn_inwait_hook`, `sn_repair` |
| `Poke`, `PokeEnd` | `emu68k_poke16` from core 0: the stores to the shadow, then the dirty bit or the bus write |
| `WbOff`, `WbOn` | `emu68k_wb_set`, from core 0 |
| `Grant`, `Beat`, `Snoop`, `Release`, `Land` | bus grant, one DMA cycle and its capture, dispatch of a command in `bus_engine.v` |

`SharedRam` is the one memory that CPU and DMA controller believe in. A word
that the CPU rewrites during a transfer that reads it may be read old or new
(`may`); every other word has one value. The mapping takes the real RAM for
words the running or unnoticed transfer has written, and the shadow for the
rest (`SharedMem`, `SharedMay` at the end of `WriteBack`).

Abstractions: words, not bytes; a transfer is one block, without chain table;
the range lost is handed over in one step (`SnoopStream` has the two reads);
the in-wait hook may run in the wait of every repair read, which is more often
than the busy poll calls it. The discipline of the drivers is part of the
model: a program does not touch the destination of its transfer before it has
seen its end. Four further ones are constants: `LongTransfers`
(a transfer outlasts the 3 s hold), `OnDuringDma` (write-back is switched on
while a channel is programmed), `TwoWriters` (two channels write RAM at the
same time, a disk read beside a floppy read) and `PokeRaces` (the CPU writes
the word that is being poked, between the store and the bus write of the poke,
while write-back is off; with write-back on it may).

### SnoopStream, SnoopRange, SnoopContract (bus_engine.v, fwft_fifo.v, pi_if.v, vmpu68_io.c, emu68k.c)

`Capture`, `Push`, `Clock`, `Present` are the FPGA's clock edges that matter
(`rdy` is the registered "not empty", one clock late); `ReadHi`, `ReadLo`,
`ReadData` are register reads, which both sides count separately (`hpc`,
`snoopPhase`); `Reset(mode)` is the pulse of `hw_snoop_reset` and
`hw_set_snoop2`. `v2` is the stream version with continuations. The contract
keeps a queue of writes and the ranges of those refused. `WriteBack` uses it in
coarser steps. `DirtyReset` says whether the stream may be reset while it holds
something.

### VscsiPort, VscsiDisk (emu68k.c, vscsi.cpp)

Every store to the mailbox (`vs_state`, `vs_taken`, `vs_gen`, `vs_req`,
`vs_buf`, `vs_status`) is a step of its own. Core 1: `Start`, `StartCapture`,
`StartArm`, `StartRelease`, `Refuse`, `Commit`. Core 3: `Look` to `Take`, the
copies of the request, `Ask`, `Attend`, `Exec`, `IoAnswered`, `DoneCheck`,
`DoneAnswer`, `DonePublish`. Core 0: `IoDone`, `IoFailed`, eject, mount and reset
in their steps. During a reset core 0 busy-waits, so the I/O task does not run,
and the 110 ms for which RESET is held are longer than the few instructions of
a take or a done (`Brief`), though not than an execute.

`VscsiDisk` submits a command with the data of that moment, executes it once
and ends it. A medium goes in or comes out and is announced in two steps, as a
mount or an eject stores `present` and then `ua`. A command submitted after the
announcement and before the program was told of it moves no block; one
submitted earlier may go on to the new medium, since `vscsi.cpp` tests `ua`
(line 205) before it posts the I/O request and a mount publishes `present`
before `ua` (line 330). Mounts, ejects and resets come at any moment. The
history variable `upset` notes a reset in the middle of a command; the
promises of the disk and the ownership of the buffer end there (section 5),
while `CommandEnds` goes on. A command whose data does not end inside memory
is refused if it writes to the disk, and a read is answered "good" and dropped,
as `vs_get_block` and `vs_commit` do.

Left out: more than one target, transfers of part of a block, INQUIRY, REQUEST
SENSE and the sense bytes, the byte patched into a header block, the vector
keeper, the label window.

### WriteQueue, OrderedBus (hw.c, kernel.cpp, bus_engine.v)

| Model | Code |
|---|---|
| `wp`, `rpSeen`, `wpPub`, `classWp` | `wq_p.wp`, `wq_p.rp_cache`, `wq_wp_pub`, `wq_dev_wp` |
| `rp`, `wpSeen`, `count`, `rpPub` | `wq_c.rp`, `wq_c.wp_cache`, the batch, `wq_rp_pub` |
| `posted`, `out`, `cmdOvf` | `posted`, the commands in the FPGA's FIFO, its refusal |
| `Enqueue`, `Publish` | the two halves of `hw_bus_write`, before and after the barrier |
| `ReadBegin`, `SyncBegin`, `Wait`, `Access`, `Bypass` | `wq_sync_reads`, `wq_sync`, then the locked access; the bypass list |
| `Look`, `Post`, `GiveWay`, `Drained`, `Relock`, `Unlock`, `PublishRp` | `hw_wq_worker` |
| `Poke`, `ReadBegin0` ... `Access0`, `Quiesce`, `Switch` | core 0: direct writes, reads, `hw_wq_enable` behind `emu_quiesce` |

Indices count modulo `IdxMod` (2^32 in the code) and are compared as signed
distances. A copy of the other core's index may be as old as it likes: only
`Enqueue` and `Look` renew it. `OrderedBus` is a store buffer.

The comment at `hw.c` 35-39 lists STATUS and IACK among the operations that
wait for the queue; the code does not make them wait (`hw_status` and `hw_iack`
take the lock only), so both are `Bypass` here. The queue is off by default
and is switched on by the console (`wq 1`) or when the FPGA is found late.

Disciplines, as constants:

- `HalfRange` = FALSE: no read of a class whose last write lies half the index
  range (2^31 writes) back, give or take `Slack`. At exactly that distance the
  clamp of `wq_sync_reads` does not recognise the index as past, and the read
  waits for its timeout of 2 s on an empty queue.
- `Slack`: while one call of core 0 is in progress core 1 publishes at most so
  many writes (the code: at most 2^31).
- `Overtake`: core 0 takes the port lock at most so often between the worker's
  drain, which runs without the lock, and its `posted = 0`. With
  `posted_max` = 48 and a FIFO of 64 the code has room for 16. The comment at
  `hw.c` 449 ("Keep at most posted_max outstanding") holds only up to these.

Not modelled here: a bus that is frozen (every wait then ends by its timeout),
bus faults (`BusPort` has them), a change of the limit while the queue runs,
the mock back end.

### Firmware (kernel.cpp: update, A/B boot, provisioning)

| Model | Code |
|---|---|
| `sd`, `flash`, `tryboot` | the files beside `kernel8.img`, the configuration flash, the boot loader's one-shot flag |
| `pc`, `job`, `ops`, `arm` | where core 0 is, what it installs, SD operations whose result it ignores, `s_ab_arm_promote` |
| `SdStep`, `Startup`, `Copying`, `Flashing` | one SD operation; `fpga_ensure_config`, `ab_boot_check`; `vpk_install` and its renames; FPGA backup, erase, programming, restore |
| `Promote`, `HeldBack` | `ab_resolve_pending` from the main loop |
| `RunUpdate`, `fw`, `PromoteByHand`, `Discard`, `FpgaFlash`, `UserReboot`, `Upload` | console and Web commands |
| `PowerLoss` | loss of power, a watchdog reset |

A file is absent, partial or complete, and then named by what it holds; a
checksum is the identity of the contents. Any SD or flash operation may be
refused. The serial self-update `fw` writes the stable slot in place; nothing
protects that slot then, and `StableReplacedWhole` is about the other paths.

### Machine (kernel.cpp 140-318 and the main loop; hw.c, pi_if.v)

Core 1's loop publishes `s_emu_active` and looks again at `s_emu_run`; core 0
takes the flag down and waits: `SeeRun`, `Publish`, `Recheck`, `Leave` against
`QuiesceDone`, `QuiesceGivesUp`. `Commands` are the callers
(Web and console reset, `xrst`, pause, run, stop, `hw_reinit`). A pause is three
steps (depth, the note of `s_emu_run`, the quiesce), and a breakpoint is a store
of core 1 after the batch, before what follows it (`halted`);
`Supervise` is one pass of the 200 ms supervision in the order of the code;
`Environment` is the power switch, the decay of the supplies and the reset
button; `Tick` is a second. An FPGA that keeps its supply from the Pi and one
that loses it are both started with. `BootX68` is its waits and resets; what it
programs is one step. Discipline: `Unwatched` lets the clock stop before the
FPGA answers, and stop and come back in a wait of core 0 while the supervisor
counts the machine as off.

`Exclusive` is about `emu68k_run` and what follows a batch. The drain of a
paused core 1 (`kernel.cpp` 211-217) has no second look at the flag, and
`/api/emu/run` steps a stopped core on core 0 (`webserver.cpp` 796). `auto 0`,
which switches the supervision off, is not modelled.

### JitCache (jit_a64.c, emu68k.c)

`Dispatch` is one pass of `jit_run` (look up, else rebuild if the table is
full, translate, enter), `Leave` its end; `RamWrite`, `Copy`, `SramWrite`,
`SramFill`, `FlushAll` are the writers of code memory: CPU, DMA record, repair,
virtual SCSI copy, SRAM page, mode change. A write inside the running block may
still execute the old words to the block's end, as on the code's own terms;
what must not happen is that a later lookup returns them. `ReachCoherent` says
so of the words in the granule a block starts in and in the next one, which is
as far as a write looks for blocks (`jit_a64.c` 149-151), and leaves out the
SRAM, whose writes and refills the code does not report to the translator. A
block may be longer (`BlockBytes`): `RamCoherent`, the same for all its words
in RAM, is what the comment in the code implies, and `LongBlocks` refutes it.

### JitSteps, JitInstr, Cpu68k (jit_a64.c: tr_instr)

`JitInstr` gives, per instruction, the steps the generated code takes;
`JitSteps` executes them. Widths are scaled: 2 bits a byte, 4 a word, 8 a long
word, 16 addresses. A call of a helper loses every host register but w25 and
w26. `Cpu68k` is the interpreter, one whole instruction at a time; it is an
external part (Musashi, a submodule), and the order in which its flags change
is what the comments of `tr_instr` say of it. A bus error gives the registers
back, and the translated block leaves to execute the instruction again.
`TranslationExact` compares registers, memory, flags, next address and error.
Opcode bit patterns, AArch64 encodings and cycle counts are not modelled.

`KnownApart`, `HalfWritten` and `Legal` in `MCJitCache` set aside what
section 5 lists.

### BusPort (vmpu68_io.c, hw.c, pi_if.v, bus_engine.v)

| Model | Code |
|---|---|
| `lastCtrl`, `lastData`, `wr`, `pf`, `lineHeld` | `last_ctrl`, `last_data`, `wr_*`, `pf_next`/`pf_have`, the held line |
| `port`, `wire`, `cmds`, `eng`, `pfFifo`, `pfRun`, `pfA` | the FPGA's registers, a command on its way, its FIFOs, the running stream |
| `Read`, `HitPoll`, `HitTake`, `StreamStatus`, `StreamData` | `vmpu68_bus_read_pf`: hold, hit, restart |
| `ReadPlain`, `BusWrite`, `WriteSync`, `Iack`, `RoomMade` | the other calls, with their completion by line or by poll |
| `Configure` | a write to the configuration port, with autostart on and off |
| `Give`, `issue_write`, `Follows` | the strobes of a command, three, two or one, by what the images allow to leave out |
| `TakeData` | `hold_read`, `hold_read_fallback`: DATA once the command has ended |
| `Modes` | mode setters, `hw_clear_fault`, `hw_reinit` with an FPGA that lost its registers |
| `Land`, `dispatch`, `CycleEnds`, `FetchAhead` | a command crosses the clocks, starts and ends; the stream runs ahead |
| `Foreign`, `Request` | another master's writes, another reason for a high line |

Words are at even addresses (`Calls`): the memory functions of `emu68k.c` clear
bit 0, since the 68000 core is built without address errors (lines 239-242).
A word at an odd address that somebody types at the console is left out.
Reloads need a host that knows of them (`hw_reinit`). Requests come and go at
any time, with one exception, the constant `Withdraws`: FALSE leaves out that a
request falls while the line is watched in place of a command that is still on
its way. `LateModes` is TRUE if a mode may change right after an `ai` write.
Not modelled: the latency probe, bitstreams older
than the configuration port, the change between GPIO and SMI. Other masters
write at any moment, which is more than the bus arbitration allows, and
`FreshReads` therefore accepts any value since the call began.

### HumanFs (human68k.c, imgfs.cpp)

A request is computed in one piece, as the code runs it without a yield, into
the list of its writes (`todo`); `SdWrite`, `SdRefused` and `PowerLoss` then
let them reach the card one by one. A download yields between pieces
(`imgfs_get_*`), and other requests meet it. `GuestRewrites` is the emulated
machine, which has the image mounted and rewrites a file in place between two
requests; `GuestDuringGet` lets it do so while a download is open, which
`imgfs_get_open` does not rule out. FatFs keeps one sector back but
not the order, so the order of writes is that of the code. The copies of the
FAT are one; a name's bytes, time stamps and the BPB are left out.

`scar` marks four windows that the code leaves open and the properties set
aside: a new cluster of a directory linked before it is marked as the end of
the chain (`find_dir_slot`), the two entry writes of `h68k_move`, an overwrite
whose delete is refused at the entry, and an overwrite with the name of a
directory that is not empty (the result of the delete is not looked at). An overwrite that
finds the image full has already deleted the old file.

The images at the start are sound trees (`ImagesAssumption`), as a formatter
and the host's own system leave them; nothing is said of a damaged one. A name
may be listed otherwise than it was given (`Shown`): two such names can be
listed as one, which is why unique names are promised under `AsGiven` only.

### Images, FatLayout (sdimg.cpp, config.cpp, netfetch.cpp, vscsi.cpp)

`cpu` names what runs between two yields; the requests are `Mount`, `Eject`,
`New*`, `Put*`, `Fetch*`, `Rename`, `Remove`, `Expand*`, `Migrate*`, `Copy*`;
the configuration is rewritten in steps (`SaveTruncate`, `SaveWrite`,
`SaveRefused`); `PowerLoss` may come anywhere and `Boot` mounts what the
configuration names. `FatLayout` is the arithmetic of `fat32_format`
for partitions of 524288 sectors (what `sdimg_expand` asks for) up to 2^32.

Beside `Overlap` and `LateRefusal` the model follows what the user interface
offers: an unfinished file is not mounted or renamed, nothing else is asked
for while the card is expanded, old paths are used until a volume exists. A
mount refused at boot is not modelled.

## 4. The runs

| Run | Question | Bounds and why they do |
|---|---|---|
| `WriteBack` | is the pair of memories one memory, through every kind of transfer, with write-back switched and core 0 poking? | one channel; 3 words on 2 pages: the console's ring, which the CPU writes too, on one page with a source; FIFO of 1 and a disk read of 2 words, so queueing, refusing and repairing all happen |
| `WriteBackLost` | does every transfer end and every range get re-read? | two channels, both writing (`TwoWriters`), around a word of the CPU's, so that one range spans two buffers and a dirty word; one value, since liveness does not look at data |
| `SnoopStream` | do both sides stay in phase and is the contract kept? | 3 addresses, so that a continuation wraps; FIFO of 2: a queued continuation behind a refused record; both versions |
| `VscsiPort` | do mailbox, worker and I/O task implement the disk, and does every command end? | an image inserted and removed at any moment, a block that exists and one that does not, an oversized request, data outside memory, a failing card, one reset at any moment |
| `WriteQueue` | is the queue a store buffer, are waits and FIFO right, does every wait end? | ring of 2, indices wrap at 8 (four rings: a class index can be ahead, behind and in between), batch 2, FIFO 2, one class and memory |
| `Firmware` | does only a whole, verified kernel reach the stable slot, and is every trial decided? | three packages (with and without a bitstream, one of which loses words), two faults and two actions of the user: a fault in the recovery from a fault |
| `Machine` | do the cores exclude each other, is no reset lost, does the machine boot? | two switchings, one reset, one command, each anywhere; times keep the order of the code's (a gap shorter than the one that counts, a bounce shorter than an uptime that counts) |
| `JitCache` | may stale code run; is the code of an instruction right? | 5 words in 3 granules, one of them SRAM, blocks of up to all of them, a table of 2 that is rebuilt; 2961 instructions from 3 register files, all 32 flag combinations for conditions and shifts, each with no or any of 8 failing addresses |
| `LongBlocks` | do two granules suffice, as the comment says? (violated) | the same instance |
| `BusPort` | is every command what was asked for, every word of its address, every fault reported? | two blocks, so that streams and runs cross one; FIFO of 2; an address nobody answers; four menus of calls, without which the product of modes, streams and writes is too large |
| `HumanFs` | is the image sound after every write? | 4 clusters, root and subdirectories of 2 and 3 slots (one full, to be extended), files of up to 2 clusters, 3 requests or rewritings by the guest, one fault anywhere |
| `Images` | is no image lost and does what is mounted come back? | two images, one ID, two contents: enough for an image to be overwritten, renamed onto, moved and mounted; `FatLayout` at the sizes around which it rounds |

Symmetry is used where values are only copied and compared: the data of
`WriteBack`, the words of `JitCache` and the names in `Images`. Runs with a
liveness property do without it.

`CHECK_DEADLOCK` is off where the system may stop: the bounds on requests or
commands of `BusPort`, `Firmware`, `HumanFs` and `Machine` run out, and
`JitCache` ends each comparison of an instruction.

The mutants in the modules (`..._Mutant...`) are slips that each property
notices: a dropped flush, an index published before its entry, a drain that
does not wait, an entry written before its clusters, and so on. They are not
part of any specification.

### Fairness

- `WriteBack`: the emulator's loop, and the FPGA's dispatch of commands, never
  stop (WF). A channel that finds the bus grantable again and again gets it and
  its beats (SF): the DMA controller keeps requesting, and the engine samples
  the request on every clock. Nothing is assumed of programs: they need not
  poll; the periodic hook drains.
- `VscsiPort`: cores 1 and 3 loop forever, core 0 ends what it has begun (WF).
  The I/O task has SF: the cooperative scheduler gives it turns between console
  commands, which disable it now and then. `Commit` has WF: the program polls.
- `WriteQueue`: the worker has SF, because the lock it spins on is free again
  and again; a core that waits polls the index (WF); the bus moves (WF). The
  program is not assumed to do anything.
- `Firmware`: core 0 goes on (WF). The promotion or hold-back of a trial has
  SF: the main loop looks at it on every turn, and somebody leaves the board
  alone for the 20 or 120 s it waits.
- `Machine`: core 0 goes on with its work and its supervision, core 1 with its
  publication and its drain (WF); core 1 ends its batch while the bus clock
  runs (WF), and only then: with the clock stopped it may hang in a bus wait.
  `QuiesceDone` has SF: core 1 sleeps 200 us between two drains, core 0 polls
  every 100 us. Time passes (SF).

## 5. Where the code and its words differ

What was met while modelling. The courses behind a constant are set aside by
FALSE; with TRUE, TLC finds the property named violated.

| Place | What happens | In the model |
|---|---|---|
| `sn_repair` (`emu68k.c` 1986-2001) | it reads a word, waits for the bus and stores what it read. The range it works on may span words of another channel: one of them is written and its record applied by the in-wait hook (2005-2011) in that wait, and the old value is stored over it. With one channel writing at a time this cannot happen (proved) | `TwoWriters` with two channels and two values, `NoWriteForgotten`, `HandedBackCoherent` |
| hold of a page (`emu68k.c` 1340) | a timer of 3 s that nothing renews, although the comment promises that a running chain stays visible | `LongTransfers`, `SourceWrittenThrough` |
| DMAC image | kept only while write-back is on, used after it is switched on | `OnDuringDma`, `ImplementsSharedRam` |
| stream reset (`pi_if.v` 320) | the comment says the FIFO is flushed; its records stay while the host forgets its last address | `DirtyReset`, `KeepsContract` |
| `emu68k_poke16` (`emu68k.c` 2079-2083) | with write-back off, the CPU writes the word between the store and the bus write of a poke, and the two writes reach the RAM in the other order than the shadow | `PokeRaces`, `HandedBackCoherent` |
| `vscsi_done` (`emu68k.c` 708-714) | the generation is compared before a reset and the state stored after it: the rebooted program finds an old completion, and core 3 may still be at work on the buffer when it starts a command | `upset` ends what `ImplementsDisk` and `OneOwner` promise |
| `vscsi.cpp` 205, 330 | `ua` is tested before the I/O request is posted, and a mount publishes `present` before `ua`: a command in progress goes on to the other image unannounced | `VscsiDisk` allows it to a command submitted before the announcement |
| `vs_commit` (`emu68k.c` 595) | a read whose data would go past the end of memory is answered "good", and moves nothing | `Commit`; `VscsiDisk` says the same |
| `hw.c` 35-39 | the comment lists STATUS and IACK among the operations that wait for the queue; `hw_status` and `hw_iack` take the lock only | both are `Bypass` |
| `wq_sync_reads` | a read exactly half the index range (2^31 writes) after its class's last write waits for its timeout | `HalfRange`, `NoEmptyWait` |
| `hw.c` 449 | "keep at most posted_max outstanding" holds up to the `Overtake` locks core 0 takes meanwhile | `NoWriteRefused` |
| `jit_a64.c` 139, 149 | a write walks two granules; the comment says a block has at most 96 bytes, but 48 instructions of 10 bytes span three granules: written in the third, a block stays valid | `BlockBytes`, `RamCoherent`; the run `LongBlocks` |
| SRAM (`emu68k.c` 1548) | writes and refills of the page are not reported to the translator | `Coherent` instead of `ReachCoherent` |
| `tr_instr` | `LINK A7` pushes the old A7, `UNLK A7` ends with A7 four too high; a MOVEM load that fails midway keeps the registers loaded; the second half of a long access goes out although the first failed; a long move whose second half fails re-reads a source it has changed; byte operands An, AND/OR An and BTST #n,An are translated though illegal; an instruction executed again repeats reads of devices | `KnownApart`, `HalfWritten`, `Legal` |
| `vmpu68_bus_write_fc` (`vmpu68_io.c` 1021) | after an `ai` write, the first write in another mode strobes DATA before CTRL and so starts a write nobody asked for; the console's mode commands reach it, `BootX68` reads first | `LateModes`, `WritesAsAsked` |
| `vmpu68_io.c` 719-730 | low means completion once the line has been seen high, but the line may be high for another reason: if that request is withdrawn (by a queued write to the device, say) before the strobe has crossed the clocks, a call takes its fall for the end of the command | `Withdraws`, `FreshReads`, `WritesAsAsked`, `FaultsReported` |
| `hw_reinit` | the image of the stream head is kept over it | `reloaded` |
| `fat32_format` (`sdimg.cpp` 96) | for about one partition size in 8500 (526362 sectors, 81749658, 379057242, 1844784942, ...) the FAT is one entry short and `f_mount` refuses the volume after the MBR has been written; sizes up to about 525386 sectors are refused as too small | `s_p2` = "bad"; `VolumeFits` allows one missing entry |
| requests about one file | renaming, overwriting, removing or moving a file that another task works on, two expansions at a time | `Overlap`, `NoImageLost`, `MountedWhole`, `ComesBack` |
| `vscsi.cpp` 385, `netfetch.cpp` 142 | the result of `f_close` is not looked at | `LateRefusal`, `NoImageLost` |
| `sdimg.cpp` 169 and migrate | a slot may hold "/x.hds" without a volume; the remount after a failed move resolves to the volume; power lost midway strands images in `SD:/vscsi` | paths; `NoImageLost` holds, the image is on the card |
| `config.cpp` 145 | the file is truncated before it is written | `cfgState`, `ComesBack` sets "torn" and "stale" aside |
| `imgfs_get_open` (`imgfs.cpp` 81-103) | it does not ask whether the image is mounted, as `open_rw` (127) does: a file the guest rewrites meanwhile is sent half old and half new | `GuestDuringGet`, `GetWhole` |
| `human68k.c` | the windows of `scar`; a name such as "a." is listed as "a" | `Shown` must keep names apart for `UniqueNames` |
| supervision (`kernel.cpp` 4290-4317) | a stop of the clock that falls into a wait of core 0 is not seen while the machine counts as off: the uptime counts through it, and the machine is booted on the bounce of a dying supply. TLC shows two ways: a setting changed while core 1 is stuck on the frozen bus, so that `emu_quiesce` waits (three commands), and the branch for a reconfigured FPGA after a boot, which forgets that the machine was alive (three switchings) | `Unwatched` with `MaxCmds` or `MaxSwitch` 3, `NoBootOnBounce` |
| install and promotion (`kernel.cpp` 3421-3426, 966-967) | the old kernel is unlinked, then the new one renamed; if that is refused, the new one is unlinked as well and no kernel is left, although the comment (3310-3312) says that on failure nothing has been half-installed | `SdRefused` at the rename; `StableReplacedWhole` says only that a whole kernel was there when the slot was emptied |
| note of the flash | `fpga.sum` is not removed before an erase: a fault then leaves it naming what the flash no longer holds | `SumTellsFlash` speaks of times before the first fault |
| pause (`kernel.cpp` 193-199, 245-258) | the note of `s_emu_run` is taken before core 1 has come out: a breakpoint that falls into the batch the pause waits for is undone by the end of the pause, although the comment says that `erun 1` resumes | `Breakpoint`, `PauseNoted` |
| `emu_quiesce` | gives up after 6 s, and its callers go on | `gaveUp` in `Exclusive` |

## 6. What is proved

All theorems hold for every value of the constants that the `ASSUME`s of the
modules allow. They are proved by TLAPS with the SMT, Zenon and LS4 back ends.

| Theorem | Assumes | Invariant it rests on |
|---|---|---|
| `WriteBackProofs!TypeCorrect` | | `CInv`: types, and what each step of core 1 says about the other variables (`Control`): a range being re-read only inside a repair, a channel only while starting or polling |
| `OffIsClean` | | `OffClean`: while write-back is off, or the final flush has passed a word, it is not dirty |
| `SourceIsWrittenThrough`, `StartIsFlushed` | `~LongTransfers`, `~OnDuringDma` | `DInv`: the register image is exact, the source is flushed and its pages held from the flush to the end of the transfer |
| `DestinationIsUntouched` | the same | `DestClean`: no write in flight or held back for a destination, because the start command follows the flush in bus order |
| `HandedBackIsCoherent`, `NothingForgotten` | `~LongTransfers`, `~OnDuringDma`, `~TwoWriters`, `~PokeRaces` | `KInv`: a queued record carries the value RAM has (`Records`), a lost range and the one being re-read cover written words only (`Ranges`), the word read and not yet stored is still RAM's (`Reread`), once a writer has been seen done its records are drained (`Seen`), the last write on its way carries the shadow's value (`Latest`), and a clean word with no write on its way agrees with RAM or is announced (`Agree`) |
| `WriteBackImplementsSharedRam` | the same | `Sound`: the same, coherence, and that two programmed channels use different words; one step of the shared memory or none for each action |
| `RegisterPortProofs!StreamFramed` | `~DirtyReset` | `SInv`: types, phases, the chain of continuations from `last` through the FIFO to `snoopLast`, and a presented range that does not change between its two reads |
| `StreamKeepsContract` | `~DirtyReset` | the same; every step is a step of `SnoopContract` or leaves it alone |
| `WritesAreAsAsked` | `~LateModes`, `~Withdraws` | `ImageInv`: each image the host keeps is the FPGA's register or is marked unknown, so that the strobes left out change nothing; `QueueInv`: all commands on their way but the last are posted writes, one for each write that is due (`DueInv`), there are no more than was counted (`RoomInv`), and only the last is waited for (`OrderInv`) |
| `FaultsAreReported` | the same | the same with `LineInv`: the line is high on account of the last command once that has arrived, so "low" means its end; and `FaultInv`: from its end to the look at STATUS the fault of the call's own command is in the flag. The type invariant is a part of it |
| `ReadsAreFresh` | the same | `PortInv`: all of these, `AheadInv` (a command of the host ends the stream; a cycle ahead has room for its word) and `DataInv`: the FIFO holds the words that follow the host's head, each as new as the call that may take it (`Mirror`), and what the engine has read for the call belongs to its address (`Kept`, `Answered`) |
| `VscsiPortProofs!TypeCorrect` | | inductive as it stands, thanks to its last two conjuncts |
| `BufferHasOneOwner`, `PortImplementsDisk` | | `OwnInv`: who may touch request and buffer at each step of cores 1, 3 and 0; `DiskInv`: the answer belongs to the request, and a command that has passed the test of `ua` was free to. Both hold as long as `upset` does not |
| `EmulatorProofs!TypeCorrect` | | `QInv` |
| `NoWriteIsRefused` | `PostedMax + Overtake <= CmdDepth` | `QInv`: five indices in one window not longer than the ring, the entries between them filled, and `out <= posted + Overtake` |
| `QueueImplementsOrderedBus` | | `QInv` and `OInv`: the index a class, or a wait, refers to lies behind each write it stands for, as long as that write is in the ring |
| `NoWaitIsEmpty` | `~HalfRange` | `CallInv`: a target is less than half the range behind the published index, also while core 0 is between its two reads |
| `ForeignReadIsFresh` | | `ReadInv`: while core 0 waits, every unsent write of its class that was published when it began lies behind the index it waits for (`Wait0Inv`); when it comes to the access there is none (`Access0Inv`) |
| `FirmwareProofs!StableReplaced` | | `Whole`: from the copy to the rename a kernel is being installed and no ignored operation is pending, and from the sum that held to the rename `kernel8.new` is that kernel; no step in between reaches the file |
| `FirmwareProofs!TypeCorrect` | | `Typed`: what each file may hold, what each pending SD operation may write, and a bitstream in the job wherever the flash is written |
| `PromotedRan` | | `RanInv`: as long as a trial is armed the kernel in the try slot is the one that runs, or the marker tells nothing (`Tried`); the boot loader arms nothing (`AtBoot`); a promotion under way has its kernel and nothing pending (`Promoted`) |
| `SumIsFlash` | | `SumInv`: without a fault the notes of the flash and of the saved bitstream are true, gone or about to be rewritten at every step (`SumNoted`, `PrevNoted`), and a restore programs the saved bitstream (`Restoring`) |
| `EmulatorProofs!NoStaleCode`, `EntersFresh` | | `IInv`: blocks match memory as far as a write looks for them, and the cells of their words are marked, so that it does look |
| `MachineProofs!TypeCorrect` | | inductive as it stands |
| `CoresExclude` | | `Handshake`: core 1 is published exactly while it is inside, and from `emu_quiesce` to the end of core 0's work the run flag is down, so that a core 1 which was on its way in looks again and turns back |
| `NoResetIsLost` | | `ResetInv`: a line that is asserted is latched (`Latched`); where core 0 does not take the note of a reset away, one that is owed is noted (`Kept`); at the end of a boot it is still on the line (`BootKept`); core 1 inside while core 0 works means that the line is asserted (`StuckInReset`) |
| `NoBootOnTheBounce` | `~Unwatched` | `BounceInv`: what the supervisor's counters can be at each stage of the decay (`RunOnSeen`, `GapSeen`, `BounceSeen`): in the bounce it counts the machine as on already, or has noticed the gap and counts an uptime no longer than the bounce, or counts it as dead for no longer than a short gap |
| `ImagesProofs!NoImageIsLost`, `MountedStaysWhole`, `MountedComesBack` | `~Overlap`, `~LateRefusal` | `Inv`: who runs when (`Phases`), old paths only before there is a volume (`OldForm`), which images a move has still before it (`Moves`), a path in use names a whole file (`NamedWhole`), no file has two claims on it (`Claims`), configuration and slots agree (`Saved`), and the properties themselves |
| `VolumeAlwaysFits` | | arithmetic: each round of `fatsz` brings two different FAT sizes 512 times closer, up to a sector, so that from any size below 2^32 the fourth round changes at most one sector |
| `HumanFsProofs!FilesStayWhole`, `OwnersApart` | `ImagesAssumption`: the images at the start are sound (`Tree`) | `Inv`: what is left of the call in progress (`PlanInv`) leads from sound image to sound image, each of which the refusal of the next write may leave, except in a window that is marked; `Tree` judges an image with the set of its directories given |
| `TreeStaysSound` | the same, and `AsGiven`: no name is cut when it is listed | the same; an overwrite goes on with a name that its delete has freed (`Ready`) |
| `DownloadsAreWhole` | as for `FilesStayWhole`, and `~GuestDuringGet` | `GetInv`: while the image is held open nothing is left to write, and the download stands on the chain of its file as far as it has sent it (`Follows`) |

The invariants are needed because the properties speak of one moment. That no
wait passes a write, for instance, says nothing of how the class's index
compares with the worker's after both have wrapped; `OInv` says it relative to
the worker's index, and survives each of its moves. All arithmetic with
remainders is in the first section of `EmulatorProofs`, and of
`RegisterPortProofs` for the addresses the FPGA steps to; the rest only adds
and subtracts.

TLC checked each strengthened invariant on small instances before it was
proved. Two of them were not inductive for a reason in the code: what
`TwoWriters` and `Unwatched` set aside was found in this way.

The files of `HumanFs` are what a walk along a chain of the FAT yields, and
its calls are lists of writes of any length: data defined by recursion. The
library's rules for induction take an operator and cannot be used, but induction
over numbers can be stated about a set (`HumanFsProofs!Induction`, from
`WellFoundedInduction!WFMin`), and with it walks, free lists and runs of writes
are reasoned about step by step: a chain that ends where it should is the only
one (`Ends`), a change outside a chain leaves it as it was, and a list of writes
is a path from image to image (`Reaches`) that can be put together from parts.

Only model-checked: `NoLeak` and `Bystanders` of `HumanFs`; and
`TranslationExact`, which compares
evaluated instructions on scaled widths, while `JitSteps` uses bitwise
operators, for which the prover has no rules. Action properties of other
modules that no row names are model-checked as well.
Everything with fairness (`TransferFinishes`, `RangeRepaired`, `CommandEnds`,
`WaitEnds`, `TryDecided`, `Booted`) is beyond the prover.

The type invariants of `WriteBack`, `VscsiPort`, `WriteQueue`, `SnoopStream`,
`Machine` and `Images` are proved and not run; those of `Firmware`,
`BusPort` and `HumanFs` (proved as well) are conjuncts of `PromotesWhatRan`,
`FaultsReported` and `TreeSound`.

## 7. Hazards, and what is not modelled

`PROJECT.json` lists each hazard at its line with the properties that would
notice it. In short: data held back or in flight when a device reads it;
records refused, torn, out of phase or overtaken by the repair; a mailbox
whose words are stored one by one while another core resets it; a ring whose
indices wrap and are copied; a count reset outside the lock that protects it;
images of registers that a reload or a change of mode makes false; faults that
another's access clears; code that outlives its words; a write that fails in
the middle of an instruction; power lost between any two writes of an update,
a migration, a directory or the configuration; a core told to stop on its way
in; a clock that bounces.

Listed there without a property are

- courses of events the code does not rule out: SRAM words behind translated
  code, two channels that write RAM at a time, a read half the index range
  after its class's last write, a posted write dropped for an earlier one's
  fault, a request withdrawn in front of a command, requests about one file,
  a torn configuration, an unnoticed refusal of `f_close`, a FAT one entry
  short. Most are in the models behind a constant, and section 5 says what
  they lead to;
- what is not modelled: the interrupt level sampled every eighth instruction,
  and single bytes in `WriteBack`.

Not modelled at all:

- the electrical and clock-accurate part of the 68000 bus: the benches under
  `fpga/sim` check waveforms;
- opcode patterns, machine-code encodings and the 68000 itself: the repository
  has a differential test, and the interpreter is a submodule;
- caches and devices only core 1 touches (Xellent30 switch, information port,
  pacing, joystick), the listings, labels, progress and parsing of the Web
  server and console, discovery: no order of steps matters in them;
- CD images: they have no state;
- the Linux daemon: an older, single-threaded host of the same layer;
- `VMPU68.X` (assembly) and the scripts for a PC.
