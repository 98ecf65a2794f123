------------------------------- MODULE ScsiDma -------------------------------
(***************************************************************************)
(* The Macintosh IIfx SCSI DMA controller, Apple 343S0064-A, of            *)
(* core/src/machine/iifx/scsi_dma.hpp: an NCR 5380 (module Ncr5380), a     *)
(* four-byte FIFO, byte count, memory address and a watchdog.  It moves a  *)
(* byte between the target and memory in each byte slot of tick(), which   *)
(* the machine calls between the guest's register accesses, and delivers   *)
(* its interrupt level to the OSS when it changes.                         *)
(*                                                                         *)
(* tick() is modelled with at most one byte slot: a tick with several is   *)
(* that many steps in a row.  The prescalers are abstracted to the choice  *)
(* of how far the watchdog counts and whether a slot falls in the tick.    *)
(* A 32-bit register is a number below AddrSpace, a multiple of the FIFO.  *)
(***************************************************************************)
EXTENDS Ncr5380, FiniteSets

CONSTANTS
  AddrSpace,       \* memory addresses (2^32)
  BadAddrs,        \* addresses whose access raises a bus fault
  Addresses,       \* values written to the address register
  Counts,          \* values written to the count register
  Reloads,         \* values written to the watchdog register
  FifoBytes,       \* bytes written to the FIFO by hand
  ControlWrites,   \* sets of lines written to the control register
  MaxAccesses,     \* bound on the guest's accesses
  Opcodes          \* commands whose data phase the model starts in

ControlLines == {"ENABLE", "SCSIIRQ", "WDIRQ", "HANDSHAKE", "RESET", "TEST"}
Lanes == 0..3
Addrs == 0..(AddrSpace - 1)

ASSUME AddrSpaceAssumption == AddrSpace \in Nat \ {0} /\ AddrSpace % 4 = 0
ASSUME DmaRegisterAssumption ==
  /\ MaxAccesses \in Nat
  /\ BadAddrs \cup Addresses \cup Counts \subseteq Addrs /\ Reloads \subseteq Nat
  /\ FifoBytes \cup Opcodes \subseteq Byte
  /\ ControlWrites \subseteq SUBSET ControlLines

VARIABLES
  dma,      \* the controller's registers
  mem,      \* the memory it is bus master of
  oss,      \* the level last delivered to the OSS
  from,     \* history: the address the transfer started at
  taken,    \* history: the bytes the target gave in this transfer
  accesses  \* the guest's accesses so far

vars == << scsi, dma, mem, oss, from, taken, accesses >>

-----------------------------------------------------------------------------
(* The interrupt line                                                      *)

IrqAsserted(d, s) == \/ "SCSIIRQ" \in d.control /\ s.irq
                     \/ "WDIRQ" \in d.control /\ d.wdPending

\* Mutant: only a rising level is delivered.
NotifyRising(d, s) ==
  /\ dma' = [d EXCEPT !.last = IrqAsserted(d, s)]
  /\ oss' = (oss \/ IrqAsserted(d, s))

\* notifyInterrupt: the callback runs only when the level has changed.
Notify(d, s) ==
  /\ dma' = [d EXCEPT !.last = IrqAsserted(d, s)]
  /\ oss' = IF IrqAsserted(d, s) # d.last THEN IrqAsserted(d, s) ELSE oss

-----------------------------------------------------------------------------
(* Moving bytes                                                            *)

FinishDma(d) == [d EXCEPT !.active = FALSE, !.direction = "None"]

\* Mutant: the address leaves the address space.
AdvanceUnwrapped(d) == [d EXCEPT !.address = @ + 1, !.count = @ - 1, !.counter = d.reload]

\* A byte has moved: count it and wind the watchdog up again.
Advance(d) == [d EXCEPT !.address = (@ + 1) % AddrSpace, !.count = @ - 1, !.counter = d.reload]

BusError(d) == [d EXCEPT !.busError = TRUE, !.active = FALSE, !.direction = "None"]

WordBase(a) == a - (a % 4)

\* The lanes a flush reaches before the first faulting one.
Reached(d) == {l \in d.valid : \A k \in d.valid :
                  k <= l => WordBase(d.address) + k \notin BadAddrs}

\* Mutant: only the lane of the last byte is written.
FlushLast(d) == [a \in Addrs |-> IF a = d.address THEN d.fifo[a % 4] ELSE mem[a]]

FlushTo(d) == [a \in Addrs |-> IF a \in {WordBase(d.address) + l : l \in Reached(d)}
                               THEN d.fifo[a % 4] ELSE mem[a]]

\* Mutant: the byte count runs, but the byte stays in the FIFO.
SendByteQuietly(d, s, a) ==
  LET done == Advance([d EXCEPT !.fifo[d.address % 4] = mem[d.address]])
  IN  scsi' = s /\ Notify(IF done.count = 0 THEN FinishDma(done) ELSE done, s)

\* A byte from memory goes to the target through ODR.
SendByte(d, s, a) ==
  LET lane == d.address % 4
      d1 == [d EXCEPT !.fifo[lane] = mem[d.address], !.valid = @ \ {lane}]
      done == Advance(d1)
      s1 == WriteDataOut(s, mem[d.address], a)
  IN  IF d.address \in BadAddrs
      THEN scsi' = s /\ Notify(BusError(d), s)
      ELSE LET s2 == IF done.count = 0 THEN SignalEndOfProcess(s1) ELSE s1
           IN  scsi' = s2 /\ Notify(IF done.count = 0 THEN FinishDma(done) ELSE done, s2)

\* A byte from the target is assembled in the FIFO; a full word, or the last
\* byte, is written out.  A fault leaves the bytes in the FIFO.
ReceiveByte(d, s) ==
  LET lane == d.address % 4
      d1 == [d EXCEPT !.fifo[lane] = PeekDataIn(s), !.valid = @ \cup {lane}]
      s1 == DmaDataIn(s)
      flush == lane = 3 \/ d.count = 1
      d2 == Advance(IF flush THEN [d1 EXCEPT !.valid = {}] ELSE d1)
      s2 == IF d2.count = 0 THEN SignalEndOfProcess(s1) ELSE s1
  IN  /\ mem' = IF flush THEN FlushTo(d1) ELSE mem
      /\ taken' = Append(taken, PeekDataIn(s))
      /\ IF flush /\ Reached(d1) # d1.valid
         THEN scsi' = s1 /\ Notify(BusError(d1), s1)
         ELSE scsi' = s2 /\ Notify(IF d2.count = 0 THEN FinishDma(d2) ELSE d2, s2)

\* One byte slot of an active transfer.
TransferByte(d, s, a) ==
  IF d.count = 0
  THEN /\ scsi' = SignalEndOfProcess(s) /\ Notify(FinishDma(d), scsi')
       /\ UNCHANGED << mem, taken >>
  ELSE IF ~DmaRequest(s) \/ ~PhaseMatch(s)
  THEN /\ scsi' = s /\ Notify([d EXCEPT !.active = @ /\ ~s.irq], s)
       /\ UNCHANGED << mem, taken >>
  ELSE IF d.direction = "ToScsi"
  THEN SendByte(d, s, a) /\ UNCHANGED << mem, taken >>
  ELSE ReceiveByte(d, s)

\* Mutant: an expired watchdog raises its interrupt but the transfer goes on.
CountDownOnly(d, n) ==
  IF d.counter = 0 THEN d
  ELSE IF n >= d.counter THEN [d EXCEPT !.wdPending = TRUE] ELSE [d EXCEPT !.counter = @ - n]

\* The watchdog runs whether or not a transfer is active, and stops one.
CountDown(d, n) ==
  IF d.counter = 0 THEN d
  ELSE IF n >= d.counter
    THEN [d EXCEPT !.counter = 0, !.wdPending = TRUE, !.active = FALSE]
    ELSE [d EXCEPT !.counter = @ - n]

Tick == \E n \in {1, 2}, slot \in BOOLEAN, a \in Operands :
  LET d == CountDown(dma, n)
  IN  /\ UNCHANGED << from, accesses >>
      /\ IF slot /\ d.active /\ "ENABLE" \in d.control
         THEN TransferByte(d, scsi, a)
         ELSE Notify(d, scsi) /\ UNCHANGED << scsi, mem, taken >>

-----------------------------------------------------------------------------
(* Guest accesses                                                          *)

\* Mutant: a transfer may begin with nothing to move.
BeginsUncounted(d) == "ENABLE" \in d.control /\ "HANDSHAKE" \notin d.control

\* Writing a Start-DMA register also starts the controller's side, unless it
\* is disabled, leaves the handshake to the processor, or has nothing to move.
Begins(d) == "ENABLE" \in d.control /\ "HANDSHAKE" \notin d.control /\ d.count # 0

\* Mutant: lanes of an abandoned transfer survive into the next one.
BeginStale(d, start) ==
  IF Begins(d)
  THEN [d EXCEPT !.direction = IF start = "Send" THEN "ToScsi" ELSE "FromScsi",
                 !.active = TRUE, !.busError = FALSE]
  ELSE d

BeginTransfer(d, start) ==
  IF Begins(d)
  THEN [d EXCEPT !.direction = IF start = "Send" THEN "ToScsi" ELSE "FromScsi",
                 !.active = TRUE, !.busError = FALSE, !.valid = {}]
  ELSE d

\* A 5380 register through the controller's window.
WindowStart == \E start \in DmaStarts \ {"None"} :
  /\ scsi' = [scsi EXCEPT !.dmaStart = start]
  /\ Notify(BeginTransfer(dma, start), scsi')
  /\ IF Begins(dma) THEN from' = dma.address /\ taken' = << >> ELSE UNCHANGED << from, taken >>
  /\ UNCHANGED mem

WindowAccess == /\ WriteOdrReg \/ WriteIcrReg \/ WriteMrReg \/ WriteTcrReg \/ ReadIdr \/ ClearIrq
                /\ Notify(dma, scsi')
                /\ UNCHANGED << mem, from, taken >>

\* The same registers through the bare 5380 select, behind the controller's back.
\* The driver does not restart the chip so under a running transfer.
DirectAccess == /\ RegisterAccess
                /\ dma.active => scsi'.dmaStart \in {scsi.dmaStart, "None"}
                /\ UNCHANGED << dma, mem, oss, from, taken >>

\* The reset line is sensitive to its rising edge; disabling stops a transfer.
WriteControl == \E v \in ControlWrites :
  LET pulse == "RESET" \in v /\ ~dma.resetHigh
      d1 == [dma EXCEPT !.control = v, !.resetHigh = "RESET" \in v]
      d2 == IF pulse THEN [d1 EXCEPT !.active = FALSE, !.direction = "None", !.valid = {}] ELSE d1
      s1 == IF pulse THEN ResetChip(scsi) ELSE scsi
  IN  /\ scsi' = s1
      /\ Notify([d2 EXCEPT !.active = @ /\ "ENABLE" \in v], s1)
      /\ taken' = IF pulse THEN << >> ELSE taken
      /\ UNCHANGED << mem, from >>

\* The driver programs address and count between transfers.
WriteAddress == \E v \in Addresses :
  /\ ~dma.active
  /\ Notify([dma EXCEPT !.address = v], scsi)
  /\ UNCHANGED << scsi, mem, from, taken >>

WriteCount == \E v \in Counts :
  /\ ~dma.active
  /\ Notify([dma EXCEPT !.count = v], scsi)
  /\ UNCHANGED << scsi, mem, from, taken >>

LoadWatchdog(d, v) == [d EXCEPT !.reload = v, !.counter = v, !.wdPending = FALSE]

WriteWatchdog == \E v \in Reloads :
  Notify(LoadWatchdog(dma, v), scsi) /\ UNCHANGED << scsi, mem, from, taken >>

ReadWatchdog == /\ Notify([dma EXCEPT !.wdPending = FALSE], scsi)
                /\ UNCHANGED << scsi, mem, from, taken >>

\* Loopback test: the FIFO is written by hand, between transfers.
WriteFifo == \E b \in FifoBytes :
  /\ "TEST" \in dma.control /\ ~dma.active
  /\ Notify([dma EXCEPT !.fifo = [l \in Lanes |-> b], !.valid = Lanes], scsi)
  /\ taken' = << >>
  /\ UNCHANGED << scsi, mem, from >>

-----------------------------------------------------------------------------

Blank == [control |-> {}, count |-> 0, address |-> 0, reload |-> 0, counter |-> 0,
          fifo |-> [l \in Lanes |-> 0], valid |-> {}, active |-> FALSE,
          direction |-> "None", wdPending |-> FALSE, busError |-> FALSE,
          resetHigh |-> FALSE, last |-> FALSE]

\* A machine reset resets the OSS first, then this controller and its 5380.
MachineReset == /\ scsi' = ResetChip(scsi) /\ dma' = Blank /\ oss' = FALSE
                /\ from' = 0 /\ taken' = << >> /\ UNCHANGED mem

\* The driver has selected the disk and sent a command by hand: the chip is
\* where Ncr5380's own operators leave it.
AfterCommand(image, op, a) ==
  ExecuteCdb([EnterCommand(PowerOn(image, FALSE)) EXCEPT !.op = op, !.cdbPos = 6], a)

Start == /\ scsi \in {AfterCommand(image, op, a) : image \in Images, op \in Opcodes, a \in Operands}
         /\ dma = Blank /\ mem = [a \in Addrs |-> a % 256] /\ oss = FALSE
         /\ from = 0 /\ taken = << >> /\ accesses = 0

Access == \/ WindowStart \/ WindowAccess \/ DirectAccess \/ WriteControl
          \/ WriteAddress \/ WriteCount \/ WriteWatchdog \/ ReadWatchdog \/ WriteFifo
          \/ MachineReset

GuestAccess == /\ accesses < MaxAccesses /\ accesses' = accesses + 1
               /\ Access

Step == Tick \/ GuestAccess

DmaSpec == Start /\ [][Step]_vars

-----------------------------------------------------------------------------
(* Correctness                                                             *)

DmaTypeOK ==
  /\ TypeOK
  /\ dma \in [control : SUBSET ControlLines, count : Nat, address : Addrs, reload : Nat,
              counter : Nat, fifo : [Lanes -> Byte], valid : SUBSET Lanes, active : BOOLEAN,
              direction : {"None", "ToScsi", "FromScsi"}, wdPending : BOOLEAN,
              busError : BOOLEAN, resetHigh : BOOLEAN, last : BOOLEAN]
  /\ mem \in [Addrs -> Byte] /\ oss \in BOOLEAN /\ from \in Addrs /\ taken \in Seq(Byte)

\* No byte the target has given is lost: it is in memory at its own address or
\* still in its FIFO lane, whatever ended the transfer: the count, the target's
\* early Status, the watchdog, a bus fault or the guest (scsi_dma.hpp:314-341).
NothingLost ==
  \A i \in 1..Len(taken) :
    LET a == (from + i - 1) % AddrSpace
    IN  mem[a] = taken[i] \/ (a % 4 \in dma.valid /\ dma.fifo[a % 4] = taken[i])

\* A transfer to the target hands over memory in address order, each byte once:
\* the bytes the target took last are those below the address register, across
\* target stalls, the address wrapping and the guest touching other registers
\* (scsi_dma.hpp:300-323).  The guest writes no data byte itself (BusBytes = {}).
SentInOrder ==
  BusBytes = {} /\ dma.direction = "ToScsi" /\ dma.active /\ scsi.phase = "DataOut" =>
    LET sent == (dma.address - from) % AddrSpace
    IN  /\ sent <= scsi.xferPos
        /\ \A i \in 1..sent : scsi.xfer[scsi.xferPos - sent + i] = mem[(from + i - 1) % AddrSpace]

\* Memory changes only where a receiving transfer has put bytes it was given.
\* (scsi_dma.hpp:295-341: no stale lane of an earlier transfer is ever flushed.)
WritesInWindow ==
  [][\A a \in Addrs : mem'[a] # mem[a] =>
        \E i \in 1..Len(taken') : a = (from + i - 1) % AddrSpace /\ mem'[a] = taken'[i]]_vars

\* What the IIfx's own protocol checker asserts of a running transfer
\* (iifx.cpp:2582-2587): it has bytes to move and DMA is enabled.
ActiveIsArmed == dma.active => dma.count # 0 /\ "ENABLE" \in dma.control

\* Whatever the DMA engine moves reaches its place and no other: nothing the target
\* gave is lost, what it took is what memory held, and the engine only runs while it
\* has bytes to move (scsi_dma.hpp:281-347).
BytesAreKept == [](NothingLost /\ SentInOrder /\ ActiveIsArmed) /\ WritesInWindow

\* After every access through the window and every tick, the OSS sees the level
\* the enabled causes call for, even if the 5380 was accessed behind the
\* controller's back in between (scsi_dma.hpp:359-364, iifx.cpp:585-587).
OssIsCurrent == [][dma' # dma \/ Tick \/ WindowAccess => oss' = IrqAsserted(dma', scsi')]_vars

\* tick() runs with every instruction: device time never stops.
FairDmaSpec == DmaSpec /\ WF_vars(Tick)

\* A transfer whose watchdog is wound cannot hang on a target that has stopped
\* asking: once the guest leaves the controller alone it ends (scsi_dma.hpp:175-187).
StalledTransferEnds ==
  <>[][Tick]_vars => []<>(dma.active => dma.counter = 0)
=============================================================================
