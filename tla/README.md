# OpenMac for Linux in TLA+

OpenMac emulates a Macintosh Classic (68000), a Quadra 650 (68040) and a Macintosh IIfx
(68030) in C++ (`core/`), and puts a C#/Avalonia front end (`gui/`) around one machine at a
time. This directory holds TLA+ models of the parts of it whose correctness depends on
*order*: bus and DMA protocols, interrupt delivery, the network relay's threads, and the
paths by which the guest's work on removable media gets back to the host's files.

Three rules keep the models honest. An action stands for a whole handler, or for the part
of it between two accesses to state another thread can touch. Control is kept and data is
abstracted to what the properties can tell apart. Where the code draws on something outside
`src/` (the guest's software, sockets, the user) the model is as free as its interface
allows, and each restriction is a named constant or an assumption listed below.

## 1. Inventory

| Component | State | Operations | What is hard about it |
|---|---|---|---|
| **NCR 5380 and SCSI disk** `scsi.hpp` (Classic, IIfx) | registers, bus phase, CDB, transfer buffer, what is postponed on /ACK; image, sense key, staged write | register reads and writes, /EOP, reset, image swaps | two handshakes that end phases in different places; several edges in one register write; resets inside a write |
| **IIfx SCSI DMA** `scsi_dma.hpp` | control, count, address, 4-byte FIFO, watchdog, interrupt level | window accesses, byte slots of `tick()`, bus faults | interleaving of byte slots, guest accesses, watchdog and faults; level sent to the OSS only on a change |
| **IIfx board and OSS** `iifx.cpp`, `oss.hpp` | request lines, latches, priorities, banked cycles | instructions, device accesses, flushes, injected traps, resets | devices lag behind the processor; a tick may run guest code inside an instruction |
| **IIfx SCC I/O processor** `iop.cpp`, `scc.hpp` | host status register, interrupt latches, two chained DMA channels; transmit buffer, EOM latch | host and firmware register accesses, DMA beats, ticks | host, firmware, DMA and transmitter each at its own pace; channels that enable each other; a one-byte buffer |
| **IIfx ISM processor, ADB bus, sound, NuBus video, Am29000** | bit timing, FIFOs, drawing engine | register accesses, ticks | bit-level timing, data |
| **ADB** `adb.hpp`, `machine.cpp`, `quadra.cpp` (Classic, Quadra) | bus state, response, key queue, motion; shift under way; streak of wakes | state changes, shifts, injected input, idle wake | a wake against the guest's own polls; bytes pushed by state changes |
| **Quadra SCSI** `ncr53c96.hpp` | FIFO, counter, chunk, phase, stacked command, selection timer, command feed, DRQ and IRQ | register accesses, pseudo-DMA port, tick | transfers pieced together from commands, FIFO and port; which of two ends interrupts |
| **Quadra interrupts** `pseudovia.hpp`, `dafb.hpp`, `easc.hpp` | edge latch and enables; video mask and pending bits; sound FIFO, latch, line | register accesses, vertical blank, drain | levels behind an edge latch; four events that announce room |
| **Classic machine** `machine.cpp`, VIA, RTC, IWM/Sony | memory map, timers, drives | frame loop, injected traps, media | order inside a frame |
| **Quadra machine** `quadra.cpp` | memory map, media | frame loop, announcements and ejects by injected traps | order inside a frame |
| **SCSI CD-ROM** `scsicd.hpp`, `quadra.cpp`, `iifx.cpp` | disc, attention, block size, prevention; installed driver, mount and eject due, tries | CDBs; insert, eject, attach; second tick | a disc swapped between two commands; an eject that waits while the guest is busy; a driver the guest forgets |
| **SCSI Ethernet** `scsinet.hpp` | receive ring | CDBs, frames from another thread | a full ring; commands cut off before their data |
| **User-mode NAT** `SlirpNat.cs` | flow table, TCP flows, UDP sockets | guest frames, pool tasks, disposal | pool threads update a flow without the lock |
| **Floppy drive, host side** `*Emulator.cs`, cores, `MainWindow` | medium in the drive, ejected medium, path, flags, waiting disk | insert, eject, drop, protect, restart, close, guest ejects | UI and emulation threads share fields without a lock; path and medium change at different moments |
| **Drop box** `DropBox.cs`, `FolderDisk.cs` | stage, tries, pending request, rebuilt volume, folder | request, pump, rebuild task, sync, attach, detach | three threads; the guest must let go of a mounted volume first; names that HFS or the host cannot carry |
| **Hard disks, PRAM, audio, settings** | images, files | write-back at restart and close | written back while frames run |
| **Processors** (68000, 68030, 68040, 65C02, Am29000) | registers | instructions | none that interleave; checked in `tests/` against recorded vectors |
| **HFS, GCR/MFM, image containers** | none | pure functions on bytes | byte layout |
| **C interface, debugger, traces, snapshots, shell** | none of the machine's own | forwarding, diagnostics, serialisation | none that changes a machine |

How they interact. The *emulation thread* calls `runFrame()` 60 times a second and, between
frames, pumps the NAT and the drop box; the *UI thread* inserts, ejects, restarts and polls
from a 16 ms timer; *pool threads* connect sockets and rebuild folder volumes. Calls into
the core are serialised by the front end's `_sync`; the front end's own fields are not
protected. Inside a machine everything is sequential: the processor calls devices, devices
raise request lines through callbacks or are sampled, and the frame loop may run guest code
of its own (`execute68kTrap`) between or inside instructions. On the IIfx, the DMA engine is
both a device and the master of the 5380 behind it.

Correctness of each: *5380*, no wedge, the standard's phase order, reads and writes of whole
blocks; *DMA*, no byte lost, order kept, interrupt level current; *board*, interrupts
current between instructions, lag bounded, frames exact; *NAT*, each stream a prefix without
a gap, an end only after everything, connections that close; *floppy and drop box*, no
disk's bytes in another's file, no saved work lost, no swap that hangs; *IOP*, no frame or
answer forgotten, frames whole; *CD drive*, no blind read, no volume left without its disc, every disc
mounted, every eject done; *ADB*, every key and all motion once and in order; *53C96*, no
interrupt kept back, whole reads, requests that end; *pseudo-VIA, video, sound*, no edge lost.

`PROJECT.json` lists every component with its status, and under `hazards` the places in the
code where these go wrong in ways a test would hardly reach.

## 2. Modules

| Module | Models | Used by |
|---|---|---|
| `Ncr5380` | controller and disk: one record, one operator per member function | `MCNcr5380`, `ScsiDma`, `ScsiDma_proofs` |
| `ScsiBusSpec` | abstract: what an initiator may rely on | refined by `Ncr5380` (`BusSpec`) |
| `ScsiDma` | DMA engine, EXTENDS `Ncr5380` and drives it | `MCScsiDma`, `ScsiDma_proofs` |
| `IifxBoard` | batching, OSS, injected traps | `IifxBoard_proofs` |
| `SccIop` | I/O processor, its DMA and the serial transmitter, with firmware and driver | `SccIop_proofs` |
| `Adb` | transceiver, pump and idle wake, with the guest's ADB Manager | `QuadraIo_proofs` |
| `QuadraScsi` | 53C96 and pseudo-DMA port, with the SCSI Manager or free software | `QuadraScsi_proofs` |
| `QuadraIrq` | pseudo-VIA, video and sound interrupts, VIA 1's tick, the encoder, with handlers | `QuadraIo_proofs` |
| `SlirpTcp` | one TCP key of the NAT, guest TCP, host socket | `MCSlirpTcp`, `FrontEnd_proofs` |
| `DropBox` | the second SCSI seat, with guest, task and UI | `MCDropBox`, `FrontEnd_proofs` |
| `Floppy` | the internal floppy drive, for the three machines | `Floppy_proofs` |
| `CdDrive` | the CD drive for the three machines: target, installed driver, host, guest | `CdDrive_proofs` |

### Ncr5380 and ScsiBusSpec

The variable `scsi` is a record whose fields are the members of `Ncr5380` and `ScsiDisk`
(`icr`, `mr`, `phase`, `cdbPos`, `xfer`, `ack` for the postponed completion, `image`,
`senseKey`, ...). Each helper (`ToStatus`, `ConsumeDataOut`, `AcceptAckByte`, ...) is a
function from record to record named after the member function, and each register access is
one action. A record rather than many variables, because the DMA engine makes two chip
calls in one step and composes the operators. ICR and MR are sets of lines; of a CDB only
the opcode is kept, block address and count are drawn when it executes; replies that do not
concern the medium are one byte.

`ScsiBusSpec` knows phases, bytes moved and due, the bytes of a read or a write, and the
medium. It says that phases follow the standard's order and end with their last byte, that a
read delivers whole blocks of the medium as it was, and that a write changes the medium once,
by exactly its bytes, after the last of them. `BusSpec` is the refinement, with the mapping
in `Ncr5380`.

*Environment.* `MixedHandshake = FALSE`: a driver does not read register 6 while it holds
/ACK by hand, which would count the byte twice. `TypeCorrect` and `NeverWedged` do not need it;
the refinement and the handshakes do.

### ScsiDma

`dma` holds the controller's registers, `mem` the memory it writes, `oss` the level last
delivered; `from` and `taken` are history. `Tick` is one call of `tick()` with at most one
byte slot, the prescalers being a choice. The guest's accesses are those of the window plus
the bare 5380. *Environment*, as the IIfx driver uses the chip: address, count and FIFO are
written between transfers, and a transfer is not restarted by a direct selection nor its
handshake line switched while it runs. `MaxAccesses` bounds the guest, not the engine.

### IifxBoard

`mode` says where the innermost `stepInstruction()` is ("ready", in its execution, at an
access that has flushed), and `stack` where a suspended tick returns to: the only two-level
nesting the code has, because the one-second tick may run a Toolbox trap. Devices are their
request lines: polled ones (sampled by `updateIpl`), wired ones (which call the OSS), quiet
ones (that an access may move without telling). Bank, `touched` flag and the batching switch
are the code's. Halts, power-off and the address map are left out.

### SccIop

`io` is one record: the members of `IifxIop` (status bits `run`, `int0`, `hw`, mask and flags,
the processor's `irq` input, the two channels) and of one SCC channel (`bytes`: the byte on the
wire, then the buffered one; `feed`, `armed`, `ext`, `tx`, `enabled`). `mail` is the mailbox in
shared memory, `cpu` the firmware, `host` the driver, `oss` the level last delivered, `wire` the
bytes sent (history). `Beat` is one `dmaBeat`, `Tick` one `tickDevices`, which feeds and ends
bytes; every other action is one register access of the firmware or of the host. *Environment:*
firmware and driver are external and acknowledge before they look. A byte ends only when the
channels have moved what they can (`Settled`: 57 beats fit in a byte's time) and when the
firmware, if it arms the end-of-message report last, has done so (`Prompt`); armed later, the
report never comes, since only a draining transmitter makes it. The driver clears the mailbox
when it stops the processor. The timer, GPIO, host bypass and receive DMA are left out.

### Adb

`adb` is the transceiver: `unread` is `buf_` from `idx_` on, `queue` the key queue, `motion` what
the mouse has not reported, `staged` that the response is the wake's. `pump` is the machine's
pending shift, `sr` and `flag` VIA 1's shift register and its interrupt, `streak` and `polled` the
leash of the idle wake. `Complete` is the end of a shift, `Frame` the once-per-frame wake in its
three outcomes. `guest` is the ADB Manager: it polls, reads at once or dips into idle first, sends
Listen data, takes wakes, and while it boots ("spin") ignores the bus. `due` and `owed` are the
transitions and the motion it has not read. *Environment:* outside the boot the guest answers
within the leash of 32 wakes (`Attentive`). Device relocation (Listen 3) is data here.

### QuadraScsi

`chip` has the members of `Ncr53c96` (`fifo`, `counter`, `chunk`, `phase`, `stacked`, `feed`, ...),
`told` the DRQ level last given to the pseudo-VIA, `owed` (history) that a command's interrupt
is to come. `driver` is "free", software that may issue anything at any time up to `MaxWork`
accesses, or the SCSI Manager at one of its steps: it selects, feeds the command, moves data in
pieces of any length by DMA or through the FIFO, takes status and message. Bytes of a read are
numbered, so a lost, doubled or reordered one shows. `NothingStranded` speaks of
both drivers, `ReadsWhole` and `RequestsEnd` of the Manager.

### QuadraIrq

`via2` is the pseudo-VIA (latch, enables, levels last told), `dafb` the video controller's mask and
pending bits, `easc` one channel of the sound chip with its latch, enable and line, `via1` the
60 Hz tick, `ipl` the encoder's output. `Tick` is a slice of the machine's cadence and may come
between any two steps of the handlers. The handlers acknowledge the pseudo-VIA, then serve the
device: the slot handler until port A is quiet, the sound handler by a status read and at most
half a FIFO. *Environment:* with `ResetsAnytime = FALSE` a reset finds the lines down.

### SlirpTcp

`flows` are the `TcpFlow` objects, `table` the one in `_tcp`, `nat` the emulation thread
inside `OnTcp`, and each flow's `pc` the pool thread between an await, a send and a field
update. `toGuest` is the adapter's bounded ring. The guest is a TCP that retransmits, ignores
what it cannot use and may abort; sequence numbers wrap in `SeqSpace`. A segment's `from` (the flow
or the guest's connection that sent it) and a flow's `conn` (the connection whose SYN made it) are
history. *Environment:* `ShortConnections`: a connection carries fewer than `IsnStep` bytes each way
(64 KB between initial sequence numbers in the code), and there are not so many of them that the
initial numbers come round (65536 in the code); and the guest takes the acknowledgement of a segment
with an old sequence number; a stack that drops such segments could stay in CLOSING. UDP, DNS, DHCP, ARP and ping are not
modelled.

### DropBox

`stage`, `tries`, `pending`, `rebuilt`, `folder` are `DropBoxSeat`'s fields; `tasks` the
`Rebuild` tasks, `pump` the emulation thread, `ui` the UI thread. `image` and `mountDue` are
the machine's; `guest` is the File Manager: on line or not, the catalog it holds, a file open.
`setup` bounds what the user drops and the guest saves, once each, and says what the folders have
before. `Remounts` distinguishes the Classic (mounts whatever it finds unmounted) from
the Quadra (once for each volume). A restart settles the volumes
(`Settles`, the Quadra), folds the image back, starts from an empty seat and attaches the folder
again; the user restarts when no swap is pending and, if patient, no file of his is open. A fresh
attach over a mounted volume, the read-only second disk and changes the host makes in the folder
meanwhile are not modelled.

A volume and a host folder are sets of files, and a file is a content under a name. Neither
conversion keeps the name. `VolumesOf` (`AddTree` and the builder) gives each file one of its
`MacNames`, because HFS names have 31 of the characters `canonicalName` knows and no two alike, and
may leave out those in `Skipped`: files another program has, or in a folder called like one of the
guest's own; `HostNoise` (thumbs.db) it never takes. `SyncBack` writes each file under its
`HostName`, except `GuestNoise` (the volume's desktop and Trash), and shelves every file of the
folder whose name is then not among those of the volume (`Folds`), be it that the guest deleted it
or that the builder renamed or skipped it; or it breaks off, and the log says so. The properties
therefore speak of contents (`Held`): what must survive is what a file holds, under whatever name.
`LeftOut`, the contents no conversion has to carry, is excluded from them: such a file may be
shelved by any sync-back, and finding 14 says which. Left out of the model is what a file does to
another of the same name (15), what decides whether `SyncBack` rewrites a file the folder has
(its size, or a time that differs by more than two seconds), forks and MacBinary wrappers, and
folders inside the folder.

### Floppy

A disk is the file it came from, the saves made on it and its tab. `drive`, `kept`,
`ejecting`, `staged`, `settle` are the core's; `path`, `protect`, `tab`, `seen`, `dirty`,
`waiting` the front end's; `ui` and `emu` say where the two threads are and hold their
locals. The operations differ by machine: the Classic ejects at once and its emulation
thread notices guest ejects; the Quadra asks the File Manager at a frame edge and stages a
second disk; the IIfx ejects at once and polls. Host file writes do not fail. `careful`
selects a user who inserts only into an empty drive (any time on the IIfx), not during an
eject or its notice, does not swap by the menu on the Classic, and whose guest does not
write while the front end takes its disk out; on the Quadra his disks stay in for longer than
the 16 ms of the poll. Everything else, and all of it with `careful = FALSE`, is free.

### CdDrive

`seat` is the SCSI target: disc, attention latch, block size, a MODE SELECT whose data are to come,
prevention. `core` holds the `cd...` fields of the Quadra and the IIfx: the driver installed, a
mount or an eject due, the tries of each. `Second` is the whole second tick: install the driver if
the drive has none, then eject or mount; `guest.doing` is what the tick finds the processor in. An
operation the two machines share is mapped to one of its two copies; where they differ (the IIfx
posts an event once an application runs) there is one operator each. The volume on line stands for
the volume control block with the drive's number. On the Classic the machine has no CD code of its
own; `driver` is Apple's, which polls, sets blocks of 512, prevents removal, reads the catalog, and
starts again at each attention. `asked` is history: the disc for which Eject was clicked and how
often the guest has refused. *Environment:* the guest's allocations succeed, an application keeps
disk events masked for fewer than `MountTries` seconds (`MaskedFor`), and the File Manager takes a
volume off line before it has the driver eject. `setup.waits` is a user who inserts only into an
empty drive with no eject staged; the other kind is checked with him.

## 3. Runs

Every property of a passing run has a mutant in `PROJECT.json`: a plausible bug, defined
next to the operator it replaces and marked `Mutant:`, under which TLC finds the property
violated.

| Run | Question | Bounds |
|---|---|---|
| `ncr5380` | Do reads, writes, rejected commands, arbitration, resets and swaps ever wedge the bus, break a handshake, half-write a disk or misorder bytes? `TypeOK`, `NoWedge`, `HandshakeIsSound`, `BusSpec` | 2-byte blocks, an image of 3 bytes so that the last block is clipped; transfers from block 0, of none, one and two blocks (other addresses are left to the theorems) |
| `scsi_dma` | Is any byte lost, reordered or written elsewhere, is the level current, does a stalled transfer end? | 8 addresses with a wrap and a faulting word, 9 guest accesses, one count that is not a multiple of the FIFO |
| `tcp` | Are streams whole under drops, retransmission, wrapping numbers, resets and reused ports, and do connections close? | three loads: 3 bytes against 1 with retransmission, one connection that may be reset while it closes, two connections the first of which is reset; window 1, ring of 3, numbers that wrap |
| `iifx_board` | Are interrupts honest, the bank bounded, frames exact? | one line of each kind, the clock, 3 priorities, batch of 4, instructions of 1 and 3 cycles |
| `dropbox` | Does any swap, move, detach or restart cross volumes, lose what a file holds, misplace files or hang? | five setups: a drop whose name HFS cuts, and a save, in two folders each; in one folder a drop and a save whose names keep, then a drop HFS cuts and a save the host cannot name, then a drop the builder may skip and a file with a long name that is already there. 2 tries, any number of restarts |
| `floppy` | Do disks go home, saves survive, locked disks stay untouched, swaps complete? | all machines, careful and not, two disks, one save each, 3 user actions |
| `floppy_crossed` | *violated:* `EveryDiskGoesHome` on the Quadra | as above |
| `scc_iop` | Is any frame or answer forgotten, cut, repeated or never answered? | 2 mailbox channels, frames of one byte and of two chunks, 2 posts, one stop or reset |
| `adb` | Is any key or motion lost, doubled or reordered, does the guest ever wait for a byte that does not come? | one key and 4 transitions, a queue of 3, motion of 2 in pieces of 1, 3 wakes before the leash, one other command |
| `quadra_scsi` | Can any order of commands and bytes keep an interrupt back; does the Manager get whole reads and end every request? | FIFO of 2, data of 3, commands of 2 bytes, 4 accesses of free software |
| `quadra_irq` | Is any edge or any room forgotten, is every interrupt served and every song played? | FIFO of 5 (half of 3), 3 slices to a frame, a song of 7, at least 6 handler steps to a slice |
| `cd_drive` | Is a disc ever read unheard of, taken from under its volume or forgotten? | all machines, two discs that mount and one that does not, 2 tries to install, 3 to mount, 3 refusals, 5 user actions, one restart |

Why the bounds are enough. Blocks of two bytes distinguish "inside" from "last byte" of a
block; a zero count, a block that is there and one that is half there exercise every branch of the
disk. The DMA window has a word before and after the faulting one, and its count leaves
lanes in the FIFO. For the NAT the interesting cases are a ring smaller than the segments
in flight and one wrap. For the board a batch that the two instruction lengths hit exactly
and overshoot. For the I/O processor a frame that needs both
channels, one that does not, and a second mailbox channel for the race between an answer and
the next frame. For ADB a queue that overflows, a response of two transitions, and a motion that takes two reports.
For the 53C96 a chunk of a FIFO and one byte, so that each piece can end inside, at or after it. For
the sound chip a fill shorter and one longer than the room. For the drop box each
way a name can change or a file be left out, with another one or with a move; a drop and a save together
in two folders are left to the theorems, because a move takes no file along. For the media two of everything that can be confused, and as many user actions
as the longest scenario the code's comments describe (insert, swap, restart or close); for the CD
two rounds of insert and eject, of which the second must not inherit the tries of the first. Runs are
of any length: what is counted is only what the user, free software or the driver adds.

Deadlock checking is off where the system may really stop: the NAT with nothing to send, a
closed window, a driver that posts nothing more, software that has had its accesses, a Classic whose CD drive is
detached. The others never stop.

### Fairness

* `ScsiDma`: `WF(Tick)`. `tickDevices` runs with every instruction or batch.
* `SlirpTcp`: the frame loop pumps the NAT, the thread pool runs its tasks, the guest's stack
  handles what arrives, and the remote host eventually closes (`WF` of each). No fairness
  for retransmission or for the guest's user.
* `DropBox`: weak fairness of the pump, of each task and of the UI thread within an
  operation; none for the guest, which may keep a file open for ever. `RepublishEnds` holds
  because of the tries, not of the guest.
* `SccIop`: beats, ticks, the firmware and the driver's handler (`WF`): device time passes with
  instructions, and both programs run. None for posting, stopping or resetting.
* `Adb`: shifts end, frames come and the guest answers (`WF`); each of its polls is strongly fair,
  because a wake takes the bus away for a while once a frame and polls take far less than a frame.
  None for input.
* `QuadraScsi`: the tick counts the selection timer down, and the Manager does its next step when
  what it polls for is there (`WF`). None for free software.
* `QuadraIrq`: slices pass and handlers run (`WF`), at least `StepsPerSlice` steps to a slice.
* `CdDrive`: the second ticks again and again at moments the guest is idle (`SF`): files and
  interrupts keep it busy for milliseconds. The guest starts up, ends what it is in, takes its events,
  and Apple's driver polls. None for the user, for files to be closed or for restarts.
* `Floppy`: frames, the notice, the UI thread's steps and the timer. None for the user,
  for the guest or for an eject the guest starts by itself.

## 4. Proofs

Checked by TLAPS for every value of the constants.

A proof module extends the modules of one component or of two: `ScsiDma_proofs` the IIfx's SCSI chip
and the DMA controller that drives it, `QuadraIo_proofs` the Quadra's interrupts and the desktop
bus, `FrontEnd_proofs` two parts of the front end, the drop box and the NAT. For each the argument
is the same: an inductive invariant, checked by TLC on the component's run before it was proved, one
lemma for each action (or for each operator the actions consist of), and a temporal step. What
follows says what the invariant adds to the property, and on which assumptions the result rests
besides those the component declares for its constants.

`ScsiDma_proofs`, the chip: `TypeCorrect` (`[]TypeOK`) and `NeverWedged` (`[]NoWedge`), both from
`AlwaysSound`. `NoWedge` is not inductive: whether /REQ returns when /ACK is released depends
on what accepting the byte postponed. `Sound` adds `Handshake`: nothing is postponed unless
/ACK is held, and in a busy phase with nothing postponed the target is ready. One lemma for
each operator shows that it keeps `Sound` (some from a weaker hypothesis, in the middle of a
call), so the steps follow by citing the operator they consist of. Assumptions: block length
at least 2, images are non-empty byte sequences, operands natural numbers; nothing about how
the initiator behaves.
`ImplementsBusSpec` (`BusSpec`, the refinement of `ScsiBusSpec`) and `HandshakesAreSound` need
`Linked` as well: what is postponed ends the phase the bus is in, all of whose bytes have
crossed, and a write's data phase has its write flag. They assume `~MixedHandshake`, without which
TLC finds both false: a byte counted twice ends a phase twice. The refinement is proved by steps:
`ExecuteStep`, `CommitStep`, `EndReadStep`, `CompleteStep`, `FreeStep` and `MoveStep` say which
operator of the chip is which step of the bus, and `WriteIcrStep` splits the one register write
that may be any of them.

`ScsiDma_proofs`, the DMA controller. Whatever the guest does, for any address space and any set of
faulting addresses: `DmaTypeCorrect`, `NothingIsLost` (`[](NothingLost /\ ActiveIsArmed)`),
`WritesStayInWindow` and `OssAlwaysCurrent`, from `AlwaysSettled`; `Sound` of the chip behind is part
of it. That a byte is in memory or in its lane is not inductive: while a word is being assembled one
has to know which lanes are valid. `Assembled` says that they are exactly those the address register
has passed in its word; it needs the bytes taken to be the distance from the first address, on the ring
of addresses (`Gap`), and that no transfer runs a whole lap (`Armed`), or two of its bytes would share
an address. `BytesAreAlwaysKept` (`BytesAreKept`) adds the other direction, `SentInOrder`, from
`AlwaysStreams`: what the target took last is what memory held below the address. It assumes
`HandsOff`, the driver as the run has it: once the command is sent it leaves the handshake to the
engine, that is, it neither raises /ACK nor selects by hand, drives no byte and does not turn on
HANDSHAKE.

`IifxBoard_proofs`: `BoardTypeCorrect`, `InterruptsAreHonest`, `BankIsBounded` and
`FramesAreExact`, from `AlwaysConsistent`. `IplHonest` speaks of the
moment between instructions only; the invariant says what is true in between: the processor
has the OSS's cached level whenever the cache is clean (`Settled`), wired lines are never
stale (`WiredFresh`), and any other staleness is excused by a touched flag or a tick under way
(`Excused`). `Tick` has a lemma of its own (`TickOutcome`): it ends with every line told, or
hands over to an injected trap. Assumptions: the kinds of lines are disjoint, the batch is
positive.

`QuadraScsi_proofs`: `ScsiTypeCorrect`, `NothingStrands` and `ReadsAreWhole`, for any depth of the
FIFO, any length of data phases and commands and as much free software as one will, with no further
assumption. `Formed` and `Quiet` are about the chip alone and hold whatever software does: a
transfer has a target, a command feed its phase, a stacked command its timer, and `Excused` names
what can still bring an interrupt that is owed. `Fresh` keeps the bytes the driver has apart from
those the FIFO holds and those yet to come: that no byte arrives twice is not inductive without
saying that the FIFO is in ascending order. `Managed` says what the SCSI Manager relies on at each
step, `Between` where each byte of a read is while it is between two commands. One lemma for each
operator of the chip says what it leaves (`FinishOutcome`, `TakeOutcome`, `TransferOutcome`, ...), and
one for each step of the Manager cites those.

`QuadraIo_proofs`, the Quadra's interrupts: `IrqTypeCorrect`, for any song and any FIFO; `NothingIsForgotten` and the
action property `EdgesSetFlags`, which assume `~ResetsAnytime` (finding 6 below is what happens
otherwise). `Remembered` adds to `NothingForgotten` that the levels last told are those of the
lines, and what each handler has yet to do at each of its steps.

`QuadraIo_proofs`, the desktop bus: `AdbTypeCorrect` and `InputIsAlwaysConserved`
(`InputIsConserved`), for any size of the key queue, any limit of the wakes and any keys and motions,
without further assumptions. What an answer takes from the queue and the motion is exactly what its
two bytes carry (`AnswerMoves`), the same for a command, a poll and a wake. `Placed` says for each
step of the guest which shift brings its next byte and how much of a response is unread; a byte read
with /INT low must be known to stand for nothing. The flush of stale input was the hard step: it
drops a response without a word to the guest, and that it can only meet a guest that ignores the bus
needs `Noticed`, which ties the streak of wakes to where the guest is, in the dip into idle above
all, where a wake and a read may meet.

`SccIop_proofs`: `IopTypeCorrect`, `NothingIsForgotten` and `FramesAreWhole`, for any number of
mailbox channels and any length of a chunk, with no further assumption. `Held` says what the
firmware at each of its steps knows of the frame it serves, and `Whole` where each byte of the
frame is: sent, in the transmitter, in one of the two channels, or still in memory. That no byte
is missing between the channels is not inductive without the order in which they are armed.

`FrontEnd_proofs`, the drop box: `DropBoxTypeCorrect` without assumptions; `DropsAreRemembered` for a patient
user on every machine; `NeverCrossing` (`NeverCrossed`) for such a user where a volume is mounted
once (`~Remounts`); `LosesNothing` (`NothingIsLost`) if a restart also settles the volumes and
every folder fits (`Settles`, `~BuildMayFail`: the Quadra). Findings 3, 7 and 13 show what each of
these excludes. All hold for any conversions that keep a content (`NamesAssumption`: the names may
change with every build, and several files may come to the same one), and what these leave out is
named in the property (`LeftOut`, finding 14). `Alone` says that with a patient user at most one of
request, task and swap is under way, `Owed` where a dropped file is in the meantime, `Uncrossed` what
the guest and the machine have on line. `Kept` is about contents: a volume that was built carries its
folder's (`Built`), the one in use those and the guest's saves (`Faithful`) until the sync-back has put
them into the folder (`Landed`), so that what is shelved then is deleted or there again under the
volume's name (`Shelved`).

`FrontEnd_proofs`, the NAT: `TcpTypeCorrect` without assumptions, and `StreamsStaySound`
(`StreamsAreSound`) under `ShortConnections`, for any window, ring, sequence space, number of flows
and load; the run's own constants satisfy that hypothesis (`SpacedAssumption` of `MCSlirpTcp`).
The property speaks of what has arrived, the danger is in what is still on its way, so the invariant
`StreamInv` is about every segment in both queues and in `OnTcp`'s hands. `Counts` gives a flow's
sequence number at each step of its pool thread, `SentTo` the number it has really sent to while the
field lags behind: this is what OnTcp may read without the thread's being stopped. `Delivers` says
of a segment toward the guest which bytes of which socket it carries and that they have been read;
a FIN in flight means that nothing more will be. `Formed` and `AckOf` say of the guest's segments
where they lie in their connection and that an ack is behind what was sent and ahead of every ack
noted; `InOrder` that acks in the queue grow, without which a retransmission could take the pacing
back. `Over` and `Later` say that no SYN is left behind a flow that has ended, so a retransmitted one
cannot open a second flow for a finished connection. That a late segment of a reset flow is never in
order for its successor is arithmetic: `BasesApart` and `GuestLies`, from `ShortConnections`; the
property is false without it (hazard at SlirpNat.cs:300; TLC shows it with `IsnStep = 1`).

`Floppy_proofs`: `FloppyTypeCorrect` and `WorkComesHome` (`DisksComeHome`) without further
assumptions, on all three machines and for any number of disks, saves and settling frames; how much
care the user takes is in the property itself. `Orderly` and `Worked` say, for each step
of the two threads, which disk the locals and the path belong to and where the newest save of a
disk is; `Home` is what holds on the IIfx without care, `Locked` what the tab excludes there. That
the drive is empty while a disk waits to be seated had to be added: the property alone survives a
step, but not two.

`CdDrive_proofs`: `CdTypeCorrect` and the action property `DiscsStayPut` (`DiscsStayTrue`). `Staffed`
ties the driver's and the guest's steps to each other, `Driven` says that a volume on line has its
disc in the drive, and `HeardOnTheBus` that the driver knows of it. The attempt
found two overlapping `CASE`s in the model, of which TLA+ does not say which applies; they
are `IF`s now, in the order of the code.

Constants' assumptions made explicit for the proofs: lengths, limits and cadences are natural
numbers, folders are disjoint from what stands for none, `None` is not a disc.

Only model-checked: every liveness property (`StalledTransferEnds`, `CloseCompletes`, `SwapsComplete`, `DriveIsServed`,
`FramesAreAnswered`, `InputArrives`, `RequestsEnd`, `InterruptsAreServed`, `DiscsAreServed`).
Liveness, ENABLED, and induction over data (what a recursive definition computes on every input)
are out of the prover's reach; the modules with proofs use no RECURSIVE operator.

## 5. What the code does otherwise

Found while modelling. The first is kept as a violation run; the others that a model shows
name the formula and the constants with which TLC finds it.

1. A floppy dropped on the Quadra while one is in the drive becomes `FloppyPath` although the
   old disk is still to be saved, which then goes to the new file (`floppy_crossed`,
   QuadraEmulator.cs:267).
2. `ScsiDisk::execute` clears the sense key before it looks at the opcode, so REQUEST SENSE
   always reports "no sense", although scsi.hpp:201 fills the reply from it (`SenseReported` of
   `Ncr5380` with opcode 3 in `BusBytes`).
3. On the Classic the frame loop mounts the old drop box volume again between the unmount and
   the moment the seat changes; the swap then happens under a mounted volume, although
   NativeEmulator.cs:585 says "The Mac puts the volume away BEFORE the disk leaves the bus"
   (machine.cpp:2044; `NeverCrossed` of `DropBox` with `Remounts = TRUE`, two tasks).
4. Insert Floppy with a disk in the Classic's drive: the new disk never goes in, because the
   host's own eject announces no change (NativeEmulator.cs:341; `WaitingGoesIn` of `Floppy` with
   `Machines = {"Classic"}`, `Manners = {FALSE}`).
5. The leash of the ADB idle wake never runs out when the last command was a Talk of register 0:
   the wake's own `reStageLastTalk` increments the poll count that is taken as a sign of the
   guest's polling, so `flushStaleInput`, which "lets the bus reach idle", is not reached
   (machine.cpp:2119-2123, quadra.cpp:1203; `StaleInputIsDropped` of `Adb`).
6. `Easc::reset` drops the sound line without telling the pseudo-VIA, whose next rising edge is
   then no edge (easc.hpp:46, pseudovia.hpp:81; `EdgeSetsFlag` of `QuadraIrq` with `ResetsAnytime = TRUE`).
7. Several files dropped on the drop box at once, of which only the last is copied
   (`NoDropForgotten` with `Patient = FALSE`); a folder that does not fit a volume, after which the
   next sync shelves newer files (`NothingShelvedByMistake` with `BuildMayFail = TRUE`).
8. A frame that ends inside an injected trap leaves cycles banked although iifx.cpp:3230 calls
   every frame boundary a flush point (`FrameIsExact` without its last condition). A register access whose
   flush injects a trap, because a second passes in it, then finds cycles banked as well, although
   iifx.cpp:3290 says "Device time must be current for the register read" and iifx.hpp:63 "that access
   sees current device state" (`AccessIsCurrent` of `IifxBoard`).
9. Changing the write-protect setting with a disk in the drive of a Classic or Quadra loses what
   the guest wrote on it, and the Quadra's restart never writes its floppy back (`WorkComesBack`
   without `careful`).

10. The eject of a CD on the Quadra and the IIfx skips the unmount, instead of waiting for the next
   second, when the tick finds a file operation or an interrupt, although quadra.cpp:2840 says
   "completeCdEject unmounts first"; the guest keeps a volume with nothing behind it, and the next
   disc inserted is taken for it and never announced (`UnmountedFirst` of `CdDrive`).
11. An eject still staged when the next CD goes in throws that one out: the front end shows the drive
   empty at once, while the eject may wait twenty seconds for a file to be closed. iifx.cpp:857 says
   "a disc swapped at the host is unmounted before its replacement is announced" (`EachItsOwn`).
   Inserting over a mounted disc, which the menu allows, crosses the two.
12. A restart of the guest leaves the machine believing its CD driver installed (`cdDrvr_`, cleared
   neither by `reset` nor by the RESET instruction): it is not installed again, and no disc mounts
   until the front end loads the machine afresh (`DiscsComeBack`). Inserting a disc then writes its
   flag to where the old system had the drive's status. IEmulator.cs:151 says that the front end polls
   `CdPresent`; nothing does, so a disc the guest has ejected stays named in the menu and is put back
   at the next start.

13. A restart of the Classic or the IIfx syncs the drop box without unmounting its volume, and on the
   IIfx, or on a Classic with no hard disk, without a flush: what the guest still caches is lost,
   although NativeEmulator.cs:71 says "persist guest writes on every medium before teardown"; the
   Quadra settles first, but only what no open file keeps on line (`WorkSurvives` of `DropBox` with
   `Settles = FALSE`).
14. A file in the drop box whose name HFS cannot carry, too long or with a character `canonicalName` does
   not know, is moved to `_openmac-removed` by the first sync-back and replaced by a copy under the
   volume's name, although the guest deleted nothing and FolderDisk.cs:364 says "Files the guest
   deleted: move to the removed shelf, never erase." (`OnlyDeletedIsShelved` of `DropBox`; with names that
   keep, the third setup alone, it holds). A file the builder could not read (FolderDisk.cs:157) does not reach the Mac, no line of
   the log says so (`DropArrives` over all of `Drops` with the drop in `Skipped`), and the next sync-back
   shelves it with no copy left in the folder, as it does what lies in a folder called like one of the
   guest's own (146). What the guest saves on the volume's desktop or leaves in its Trash never comes to
   the folder (304, 321; `WorkSurvives` without `LeftOut`, the save in `GuestNoise`).
15. Read in the code, not in the model: two files of a volume whose host names come out alike overwrite
   each other in the folder, and `NameOf` reads names as ASCII, so that every accented letter is the same
   question mark (FolderDisk.cs:442); and the shelf, which is to "never erase", deletes the older file
   of a name (384).

Smaller ones the models reproduce. 53C96: a chip reset or a DMA NOP changes DRQ without telling
the pseudo-VIA; a byte-wide write of the pseudo-DMA port pushes its byte twice (quadra.cpp:946);
padding a write never interrupts. Quadra video and sound: two vertical blanks in one tick give one
interrupt; clearing the FIFO announces no room; a machine reset clears the video controller
silently. ADB: a full key queue drops a release and the key stays down for the guest; a click
shorter than a poll is not seen; the mouse's response to a wake may be wiped, unread, by the
guest's next command. I/O processor: a kick while the processor is held is lost, its reset leaves
the processor's interrupt input as it was, and a reset of an SCC channel does not withdraw
the DMA request until the next tick.

## 6. Not modelled, and why

Processors, pixels, codecs and HFS (but for what it makes of names, in
`DropBox`) are functions on data without interleaving: TLC cannot reach useful widths, and the repository tests them against recorded vectors. They are most of the
code: the processors, the NuBus card and its Am29000, the volume builder and the image formats
alone are more than half of it, and of the machines' own files a large part is tables of
addresses, tracing and the storage drivers' byte work. State snapshots, the C interface, the
debugger and the dialogs change no machine. The second I/O processor (the same class, wired to the
SWIM and the IIfx's bit-timed ADB bus), the VIA's timers and the clock chip, the IIfx's sound chip,
the Ethernet target, the machines' frame loops and the datagram side of the NAT have
control worth modelling.

## 7. Plan

The order is by what a failure costs the user, then by what the proofs can reach.

1. *Done:* `Ncr5380` + `ScsiBusSpec`, `ScsiDma`, `IifxBoard`, `SccIop`, `Adb`, `QuadraScsi`,
   `QuadraIrq`, `SlirpTcp`, `DropBox`, `Floppy`, `CdDrive`.
2. `ScsiNet`: the Ethernet adapter on the bus of `Ncr5380`; its ring drops the newest, no parameter
   of a cut-off command is used later.
3. The Classic's and the Quadra's frame loops with `Via6522` and `Rtc`, and with them the media
   announcements that `DropBox` and `Floppy` take as given.
4. `SlirpUdp`: flow table, reaping, replies to a table that changed.

The runs stay few: related properties are checked as one conjunction, whose parts keep their
names, and loads of one module share a run.

Every safety property a run checks is a theorem. The next ones to prove come with the next modules;
of the present ones, what the findings of section 5 leave open (`WorkComesBack` and `DiscsComeBack`
under weaker care of the user) is the most useful.
