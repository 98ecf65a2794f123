----------------------------- MODULE QuadraScsi -----------------------------
(***************************************************************************)
(* The Quadra's SCSI controller (quadra/ncr53c96.hpp) behind the machine's *)
(* register window and pseudo-DMA port (quadra.cpp), with the two lines it *)
(* drives into the pseudo-VIA, DRQ and IRQ.                                *)
(*                                                                         *)
(* chip is a record with one field for each member; each member function   *)
(* is an operator from record to record.  The chip is sequential: what     *)
(* makes it hard is that the driver pieces a transfer together out of      *)
(* commands, FIFO bytes, port bytes and interrupts in any order, while a   *)
(* selection timer runs and a command is stacked behind it.                *)
(*                                                                         *)
(* Bytes are small numbers: Read and Write are opcodes, 0 is any other     *)
(* byte, and DataByte + i is the i-th byte the target sends.               *)
(***************************************************************************)
EXTENDS Naturals, Sequences, FiniteSets

CONSTANTS
  Fifo,      \* kFifoSize
  MaxData,   \* the longest data phase
  CdbLength, \* bytes of the commands Read and Write
  MaxWork    \* bound: accesses of software that may do anything

ASSUME SizesAssumption == /\ {Fifo, MaxData, CdbLength, MaxWork} \subseteq Nat
                          /\ Fifo >= 2 /\ MaxData >= 1 /\ CdbLength >= 2

Read == 1
Write == 2
DataByte == 10
CdbBytes == {0, Read, Write}
Bytes == CdbBytes \cup {DataByte + i : i \in 1..MaxData}

NoOrder == [cmd |-> "none", dma |-> FALSE]
Commands == {"nop", "flush", "resetChip", "resetBus", "transfer", "complete", "accept", "pad", "select", "selectAtn", "unknown"}
Initiator == {"transfer", "complete", "accept", "pad"}
Selects == {"select", "selectAtn"}
Stacking == Initiator \cup Selects \cup {"unknown"}
Order == [cmd : Commands, dma : BOOLEAN]

\* cmdFeed_ with feedIsSelect_, selAtn_ and feedDma_, which mean nothing without it.
NoFeed == [on |-> FALSE, select |-> FALSE, atn |-> FALSE, dma |-> FALSE]

VARIABLES
  chip,   \* the members of Ncr53c96; told is the DRQ level last given to the
          \* pseudo-VIA, owed (history) that a command's interrupt is still to come
  driver, \* where the SCSI Manager is, or "free": software that may do anything
  task,   \* the Manager's request: bytes of the command still to send
  got,    \* history: data bytes of this command that have reached the driver
  work    \* history: accesses of the free software so far

vars == << chip, driver, task, got, work >>

-----------------------------------------------------------------------------
(* Lines and registers                                                     *)

Left(c) == c.size - c.pos
InChunk(c) == c.phase = "dataIn" /\ c.chunk > 0 /\ Left(c) > 0

\* drq()
Drq(c) ==
  IF c.feed.dma THEN c.counter # 0 /\ Len(c.fifo) < Fifo
  ELSE /\ c.dmaActive
       /\ \/ c.phase = "dataIn" /\ Left(c) > 0 /\ c.chunk # 0
          \/ c.phase = "dataOut" /\ c.counter # 0

\* A call of onDrq: the pseudo-VIA has the present level.
Tell(c) == [c EXCEPT !.told = Drq(c)]

\* raise
Raise(c, bits) == Tell([c EXCEPT !.intr = @ \cup bits, !.irq = TRUE, !.owed = FALSE])

\* counterConsume
Consume(c, n) == LET left == IF c.counter >= n THEN c.counter - n ELSE 0
                 IN [c EXCEPT !.counter = left, !.tcZero = @ \/ left = 0]

\* loadCounter
Load(c) == [c EXCEPT !.counter = c.tcount, !.tcZero = FALSE]
LoadIf(c, dma) == IF dma THEN Load(c) ELSE c

\* Mutant: a full FIFO takes one more byte.
PushAlways(c, b) == [c EXCEPT !.fifo = Append(@, b)]

\* fifoPush
Push(c, b) == IF Len(c.fifo) < Fifo THEN [c EXCEPT !.fifo = Append(@, b)] ELSE c

\* Mutant: a command stacked behind the selection survives a reset.
ResetForgetful(c) ==
  [c EXCEPT !.fifo = << >>, !.tcount = 0, !.counter = 0, !.phase = "dataOut",
            !.dmaActive = FALSE, !.tcZero = FALSE, !.size = 0, !.pos = 0, !.chunk = 0,
            !.buf = 0, !.expect = 0, !.target = FALSE, !.feed = NoFeed, !.cdb = << >>, !.timer = FALSE, !.owed = FALSE]

\* resetChip: the interrupt stays, and no line is told.
ResetChip(c) ==
  [c EXCEPT !.fifo = << >>, !.tcount = 0, !.counter = 0, !.phase = "dataOut",
            !.dmaActive = FALSE, !.tcZero = FALSE, !.size = 0, !.pos = 0, !.chunk = 0,
            !.buf = 0, !.expect = 0, !.target = FALSE, !.feed = NoFeed, !.cdb = << >>, !.timer = FALSE, !.queued = NoOrder, !.owed = FALSE]

-----------------------------------------------------------------------------
(* Data phases                                                             *)

\* Mutant: the end of the data phase is not looked at again for DRQ.
FinishSilently(c) ==
  IF c.phase = "dataIn" /\ Left(c) = 0 /\ c.fifo = << >>
  THEN Raise([c EXCEPT !.dmaActive = FALSE, !.phase = "status"], {"service"})
  ELSE IF c.phase = "dataOut" /\ c.expect > 0 /\ c.buf >= c.expect
  THEN Raise([c EXCEPT !.buf = 0, !.expect = 0, !.dmaActive = FALSE, !.phase = "status"], {"service"})
  ELSE c

\* Mutant: the phase changes with the last byte still in the FIFO.
FinishEarly(c) ==
  IF c.phase = "dataIn" /\ Left(c) = 0
  THEN Raise([c EXCEPT !.dmaActive = FALSE, !.phase = "status"], {"service"})
  ELSE IF c.phase = "dataOut" /\ c.expect > 0 /\ c.buf >= c.expect
  THEN Raise([c EXCEPT !.buf = 0, !.expect = 0, !.dmaActive = FALSE, !.phase = "status"], {"service"})
  ELSE Tell(c)

\* finishDataIfDone: the last byte received is read out before the phase changes.
FinishDataIfDone(c) ==
  IF c.phase = "dataIn" /\ Left(c) = 0 /\ c.fifo = << >>
  THEN Raise([c EXCEPT !.dmaActive = FALSE, !.phase = "status"], {"service"})
  ELSE IF c.phase = "dataOut" /\ c.expect > 0 /\ c.buf >= c.expect
  THEN Raise([c EXCEPT !.buf = 0, !.expect = 0, !.dmaActive = FALSE, !.phase = "status"], {"service"})
  ELSE Tell(c)

\* The next byte of the staged chunk, and how many of it the driver may take.
TakeByte(c) == [c EXCEPT !.pos = @ + 1, !.chunk = @ - 1]

\* The end of a chunk with data left calls for the next transfer command.
ChunkEnd(c) == IF c.chunk = 0 /\ Left(c) > 0 THEN Raise(c, {"service"}) ELSE c

\* dma8Read
Take8(c) == FinishDataIfDone(IF InChunk(c) THEN ChunkEnd(TakeByte(c)) ELSE c)

\* dma16Read: the second byte is padding past the end of the chunk or the data.
Take16(c) ==
  LET first == TakeByte(c)
  IN FinishDataIfDone(IF ~InChunk(c) THEN c
                      ELSE ChunkEnd(IF InChunk(first) THEN TakeByte(first) ELSE first))

\* fifoPop
Pop(c) ==
  IF c.fifo # << >> THEN [c EXCEPT !.fifo = Tail(@)]
  ELSE IF c.dmaActive /\ InChunk(c) THEN FinishDataIfDone(ChunkEnd(TakeByte(c)))
  ELSE c
PopByte(c) ==
  IF c.fifo # << >> THEN Head(c.fifo)
  ELSE IF c.dmaActive /\ InChunk(c) THEN DataByte + c.pos + 1
  ELSE 0

-----------------------------------------------------------------------------
(* The command feed                                                        *)

\* Mutant: a group's commands are taken for one byte longer than they are.
CdbLenLonger(op) == IF op \in {Read, Write} THEN CdbLength + 1 ELSE 1

CdbLenFor(op) == IF op \in {Read, Write} THEN CdbLength ELSE 1

\* runCdb: a target may answer with data, ask for data, or neither.
RunCdb(c, op) ==
  LET fresh == [c EXCEPT !.pos = 0, !.size = 0, !.buf = 0, !.expect = 0]
  IN   {[fresh EXCEPT !.phase = "status"]}
  \cup {[fresh EXCEPT !.phase = "dataIn", !.size = n] : n \in {m \in 1..MaxData : op = Read}}
  \cup {[fresh EXCEPT !.phase = "dataOut", !.expect = n] : n \in {m \in 1..MaxData : op = Write}}

\* tryFeedCdb
TryFeed(c) ==
  LET skip == IF c.feed.atn THEN 1 ELSE 0
  IN IF ~c.feed.on \/ Len(c.cdb) <= skip THEN {c}
     ELSE LET op == c.cdb[skip + 1]
          IN IF Len(c.cdb) < skip + CdbLenFor(op) THEN {c}
             ELSE {[Raise(r, IF c.feed.select THEN {"done", "service"} ELSE {"service"}) EXCEPT !.cdb = << >>] :
                    r \in RunCdb([c EXCEPT !.feed = NoFeed], op)}

\* What the FIFO already holds is the first part of the command.
Feed(c, select, atn, dma) ==
  TryFeed([c EXCEPT !.feed = [on |-> TRUE, select |-> select, atn |-> atn, dma |-> dma],
                    !.cdb = c.fifo, !.fifo = << >>])

\* beginSelect: an absent target starts the selection timer.
BeginSelect(c, atn, dma) ==
  LET quiet == LoadIf([c EXCEPT !.feed = NoFeed, !.cdb = << >>, !.dmaActive = FALSE, !.told = FALSE], dma)
  IN IF ~c.dest THEN {[quiet EXCEPT !.target = FALSE, !.timer = TRUE]}
     ELSE {Tell(r) : r \in Feed([quiet EXCEPT !.target = TRUE, !.timer = FALSE, !.phase = "command"], TRUE, atn, dma)}

-----------------------------------------------------------------------------
(* Commands                                                                *)

\* Transfer information in each phase.
TransferData(c, dma) ==
  CASE c.phase = "dataIn" ->
         IF dma THEN FinishDataIfDone([c EXCEPT !.chunk = c.counter, !.counter = 0, !.tcZero = TRUE])
         ELSE IF Left(c) > 0
         THEN FinishDataIfDone(Raise([Push(c, DataByte + c.pos + 1) EXCEPT !.pos = @ + 1], {"service"}))
         ELSE FinishDataIfDone(c)
    [] c.phase = "dataOut" ->
         IF dma THEN FinishDataIfDone(c)
         ELSE LET room == c.expect - c.buf
                  moved == IF Len(c.fifo) < room THEN Len(c.fifo) ELSE room
                  m == [c EXCEPT !.fifo = SubSeq(@, moved + 1, Len(@)), !.buf = @ + moved]
              IN FinishDataIfDone(IF m.buf < m.expect THEN Raise(m, {"service"}) ELSE m)
    [] c.phase = "status" -> Raise(c, {"service"})
    [] c.phase = "msgIn" -> Raise(Push(c, 0), {"service"})

Transfer(c, dma) ==
  LET loaded == [LoadIf(c, dma) EXCEPT !.dmaActive = dma]
  IN {Tell(r) : r \in IF c.phase = "command"
                      THEN Feed([loaded EXCEPT !.dmaActive = FALSE], FALSE, FALSE, dma)
                      ELSE {TransferData(loaded, dma)}}

\* execute
Execute(c, o) ==
  IF o.cmd \in Initiator /\ ~c.target THEN {Raise(c, {"illegal"})}
  ELSE CASE o.cmd = "nop" -> {LoadIf(c, o.dma)}
         [] o.cmd = "flush" -> {[c EXCEPT !.fifo = << >>]}
         [] o.cmd = "resetChip" -> {ResetChip(c)}
         [] o.cmd = "resetBus" -> {IF c.mute THEN ResetChip(c) ELSE Raise(ResetChip(c), {"reset"})}
         [] o.cmd = "transfer" -> Transfer(c, o.dma)
         [] o.cmd = "complete" -> {Raise([c EXCEPT !.feed = NoFeed, !.dmaActive = FALSE,
                                                   !.fifo = << 0, 0 >>, !.phase = "msgIn"], {"done"})}
         [] o.cmd = "accept" -> {Raise([c EXCEPT !.feed = NoFeed, !.dmaActive = FALSE, !.counter = 0,
                                                 !.phase = "dataOut", !.target = FALSE], {"disconnected"})}
         [] o.cmd = "pad" -> LET p == LoadIf(c, o.dma)
                             IN {FinishDataIfDone(IF c.phase = "dataIn" THEN [p EXCEPT !.pos = c.size] ELSE p)}
         [] o.cmd \in Selects -> BeginSelect(c, o.cmd = "selectAtn", o.dma)
         [] o.cmd = "unknown" -> {Raise(c, {"illegal"})}

\* History: these commands end with an interrupt.  (Padding is for reads alone.)
Owes(c, o) == o.cmd \in Stacking /\ (o.cmd = "pad" => c.phase = "dataIn")

Run(c, o) == Execute([c EXCEPT !.owed = @ \/ Owes(c, o)], o)

\* A write of the command register: behind a selection that runs, a command stacks.
Command(c, o) == IF c.timer /\ o.cmd \in Stacking THEN {[c EXCEPT !.queued = o]} ELSE Run(c, o)

\* tick, when the selection timer runs out: what is stacked falls to the bottom.
TimeOut(c) ==
  LET late == Raise([c EXCEPT !.timer = FALSE], {"disconnected"})
  IN IF c.queued = NoOrder THEN {late} ELSE Run([late EXCEPT !.queued = NoOrder], c.queued)

\* A write of the FIFO register.
WriteFifo(c, b) ==
  {Tell(r) : r \in IF c.feed.on THEN TryFeed([c EXCEPT !.cdb = Append(@, b)]) ELSE {Push(c, b)}}

\* dma16Write: into the command, framed by the counter, or into the data.
PortWrite(c, b) ==
  IF c.feed.on
  THEN LET one == Consume([c EXCEPT !.cdb = Append(@, b)], 1)
           two == IF one.counter # 0 THEN Consume([one EXCEPT !.cdb = Append(@, b)], 1) ELSE one
       IN {Tell(r) : r \in TryFeed(two)}
  ELSE IF c.phase = "dataOut"
  THEN {FinishDataIfDone(Consume([c EXCEPT !.buf = IF @ + 1 < c.expect THEN @ + 2 ELSE @ + 1], 2))}
  ELSE {FinishDataIfDone(c)}

\* A read of the interrupt register.
ReadInterrupt(c) == Tell([c EXCEPT !.intr = {}, !.irq = FALSE])

-----------------------------------------------------------------------------
(* The machine's side                                                      *)

Reset == [ fifo |-> << >>, tcount |-> 0, counter |-> 0, tcZero |-> FALSE, dest |-> TRUE, mute |-> FALSE,
           phase |-> "dataOut", intr |-> {}, irq |-> FALSE, dmaActive |-> FALSE,
           feed |-> NoFeed, cdb |-> << >>,
           timer |-> FALSE, queued |-> NoOrder, target |-> FALSE, size |-> 0, pos |-> 0, chunk |-> 0,
           buf |-> 0, expect |-> 0, told |-> FALSE, owed |-> FALSE ]

\* A step of the chip that hands the driver no data byte.
Becomes(c) == chip' = c /\ got' = IF c.pos = 0 THEN << >> ELSE got

\* A read of the port: without DRQ it is a bus error and nothing happens.
PortRead(after) == /\ Drq(chip) /\ chip' = after
                   /\ got' = got \o [i \in 1..chip'.pos - chip.pos |-> chip.pos + i]

\* A 32-bit read of the port looks at DRQ once.
Take32(c) == Take16(Take16(c))

\* A read of the FIFO register.
ReadFifo == /\ chip' = Pop(chip)
            /\ got' = IF PopByte(chip) > DataByte THEN Append(got, PopByte(chip) - DataByte) ELSE got

-----------------------------------------------------------------------------
(* Software that may do anything                                           *)

Guest == /\ driver = "free" /\ work < MaxWork /\ work' = work + 1
         /\ UNCHANGED << driver, task >>

\* It writes the count and the destination, and then a command.
GuestCommands ==
  /\ Guest
  /\ \E n \in 1..MaxData, d \in BOOLEAN, o \in Order :
       \E c \in Command([chip EXCEPT !.tcount = n, !.dest = d], o) : Becomes(c)

GuestFeeds == /\ Guest /\ Len(chip.cdb) <= CdbLength
              /\ \E b \in CdbBytes : \E c \in WriteFifo(chip, b) : Becomes(c)
GuestReadsFifo == Guest /\ ReadFifo
GuestAcknowledges == Guest /\ Becomes(ReadInterrupt(chip))
GuestTakes == Guest /\ \/ PortRead(Take8(chip)) \/ PortRead(Take16(chip)) \/ PortRead(Take32(chip))
GuestGives == /\ Guest /\ Drq(chip)
              /\ \E b \in CdbBytes : \E c \in PortWrite(chip, b) : Becomes(c)

\* The processor's RESET instruction.
GuestResets == Guest /\ Becomes(Tell([ResetChip(chip) EXCEPT !.intr = {}, !.irq = FALSE]))

-----------------------------------------------------------------------------
(* The SCSI Manager of the ROM, as the comments of beginSelect tell it     *)

Manager(from, to) == driver = from /\ driver' = to

\* Select with a terminal count of one, for the last byte of the command.
SelectsFor(op, atn, dest) ==
  /\ Manager("idle", "selecting")
  /\ task' = (IF atn THEN << 0 >> ELSE << >>) \o << op >> \o [i \in 1..CdbLength - 1 |-> 0]
  /\ \E c \in Command([chip EXCEPT !.fifo = << >>, !.dest = dest, !.tcount = 1],
                       [cmd |-> IF atn THEN "selectAtn" ELSE "select", dma |-> TRUE]) : Becomes(c)

ManagerSelects == UNCHANGED work /\ \E op \in {Read, Write}, atn, dest \in BOOLEAN : SelectsFor(op, atn, dest)

\* The leading bytes go through the FIFO, the last through the port.
ManagerFeeds ==
  /\ driver = "selecting" /\ ~chip.irq /\ task # << >> /\ chip.feed.on
  /\ \E c \in IF Len(task) > 1 THEN WriteFifo(chip, Head(task)) ELSE PortWrite(chip, Head(task)) :
       (Len(task) = 1 => chip.told /\ Drq(chip)) /\ Becomes(c)
  /\ task' = Tail(task) /\ UNCHANGED driver

\* An interrupt is acknowledged, and the phase decides what is next.
ManagerAcknowledges ==
  /\ chip.irq /\ driver \in {"selecting", "moving", "ending"}
  /\ driver' = IF "disconnected" \in chip.intr THEN "idle"
               ELSE IF driver = "ending" THEN "status" ELSE "dispatch"
  /\ Becomes(ReadInterrupt(chip)) /\ UNCHANGED task

\* A data phase is moved in pieces of any length, by DMA or through the FIFO.
ManagerTransfers ==
  /\ Manager("dispatch", "moving")
  /\ \E n \in 1..MaxData, dma \in BOOLEAN :
       /\ \/ chip.phase = "dataIn" /\ chip.fifo = << >>
          \/ chip.phase = "dataOut" /\ dma = (chip.fifo = << >>)
       /\ \E c \in Command([chip EXCEPT !.tcount = n], [cmd |-> "transfer", dma |-> dma]) : Becomes(c)
  /\ UNCHANGED task

\* It moves bytes while the pseudo-VIA shows DRQ and no interrupt has come.
ManagerMoves ==
  /\ driver = "moving" /\ UNCHANGED << driver, task >> /\ ~chip.irq /\ chip.told
  /\ \/ chip.phase = "dataIn" /\ (PortRead(Take8(chip)) \/ PortRead(Take16(chip)))
     \/ Drq(chip) /\ chip.phase = "dataOut" /\ \E c \in PortWrite(chip, 0) : Becomes(c)

\* What came through the FIFO is read, or the next byte written, before the next command.
ManagerPolls ==
  /\ driver = "dispatch" /\ UNCHANGED << driver, task >>
  /\ \/ chip.phase = "dataIn" /\ chip.fifo # << >> /\ ReadFifo
     \/ chip.phase = "dataOut" /\ chip.fifo = << >> /\ \E c \in WriteFifo(chip, 0) : Becomes(c)

\* A piece of a write ends with the terminal count alone.
ManagerSeesCount == /\ Manager("moving", "dispatch") /\ UNCHANGED << chip, task, got >>
                    /\ ~chip.irq /\ ~chip.told /\ chip.tcZero /\ chip.phase = "dataOut"

ManagerCompletes == /\ Manager("dispatch", "ending") /\ chip.phase = "status" /\ UNCHANGED task
                    /\ \E c \in Command(chip, [cmd |-> "complete", dma |-> FALSE]) : Becomes(c)

\* Status and message are read from the FIFO before the message is accepted.
ManagerAccepts ==
  /\ driver = "status" /\ UNCHANGED task
  /\ IF chip.fifo # << >> THEN ReadFifo /\ UNCHANGED driver
     ELSE driver' = "ending" /\ \E c \in Command(chip, [cmd |-> "accept", dma |-> FALSE]) : Becomes(c)

ManagerSteps ==
  /\ UNCHANGED work
  /\ \/ ManagerFeeds \/ ManagerAcknowledges \/ ManagerTransfers \/ ManagerMoves
     \/ ManagerPolls \/ ManagerSeesCount \/ ManagerCompletes \/ ManagerAccepts

-----------------------------------------------------------------------------

Expires == chip.timer /\ (\E c \in TimeOut(chip) : Becomes(c)) /\ UNCHANGED << driver, task, work >>

Init == /\ chip \in {[Reset EXCEPT !.mute = m] : m \in BOOLEAN}
        /\ got = << >> /\ task = << >> /\ work = 0 /\ driver \in {"free", "idle"}

GuestSteps == \/ GuestCommands \/ GuestFeeds
              \/ GuestReadsFifo \/ GuestAcknowledges \/ GuestTakes \/ GuestGives \/ GuestResets

Next == GuestSteps \/ ManagerSelects \/ ManagerSteps \/ Expires

\* The machine's tick counts the timer down, and the Manager waits for nothing
\* but what it polls.
Spec == Init /\ [][Next]_vars /\ WF_vars(Expires) /\ WF_vars(ManagerSteps)

-----------------------------------------------------------------------------

ScsiTypeOK ==
  /\ chip \in [ fifo : UNION {[1..n -> Bytes] : n \in 0..Fifo}, tcount : 0..MaxData, counter : 0..MaxData,
                tcZero : BOOLEAN, dest : BOOLEAN, mute : BOOLEAN,
                phase : {"dataOut", "dataIn", "command", "status", "msgIn"},
                intr : SUBSET {"done", "service", "disconnected", "illegal", "reset"}, irq : BOOLEAN,
                dmaActive : BOOLEAN, feed : [on : BOOLEAN, select : BOOLEAN, atn : BOOLEAN, dma : BOOLEAN],
                cdb : Seq(Bytes), timer : BOOLEAN, queued : Order \cup {NoOrder}, target : BOOLEAN,
                size : 0..MaxData, pos : 0..MaxData, chunk : 0..MaxData, buf : 0..MaxData,
                expect : 0..MaxData, told : BOOLEAN, owed : BOOLEAN ]
  /\ driver \in {"free", "idle", "selecting", "dispatch", "moving", "ending", "status"}
  /\ task \in Seq(CdbBytes) /\ got \in Seq(1..MaxData) /\ work \in 0..MaxWork

\* An interrupt that is owed comes without help (timer), or with the bytes the
\* chip asks for (command feed, DRQ), unless the driver can see the terminal
\* count instead or has kept the last byte of a read in the FIFO: then the
\* following transfer command tells.
NeverSilent ==
  chip.owed => \/ chip.timer \/ chip.feed.on \/ Drq(chip) \/ chip.tcZero
               \/ chip.phase = "dataIn" /\ Left(chip) = 0

\* Whatever software does, the chip never keeps a command's interrupt to itself
\* for good, and a command stacked behind a selection runs when that times out
\* or is forgotten with a reset: it does not wait for a later selection.
\* The pseudo-VIA shows the Manager the DRQ the chip has (nobody but software
\* that resets the chip or reloads its counter in mid-transfer sees an old one).
NothingStranded ==
  /\ NeverSilent
  /\ chip.queued # NoOrder => chip.timer
  /\ driver # "free" => chip.told = Drq(chip)

\* No byte of a data phase arrives twice, whichever way the bytes come; the
\* Manager, which empties the FIFO first, has all of them in order when the
\* status phase begins.
ReadsWhole ==
  /\ \A i \in 1..Len(got) : IF driver = "free" THEN \A j \in 1..i - 1 : got[i] # got[j] ELSE got[i] = i
  /\ driver \in {"ending", "status"} => Len(got) = chip.size

\* Every request of the Manager ends, with a disconnect or a timed-out selection.
RequestsEnd == driver # "idle" /\ driver # "free" ~> driver = "idle"
=============================================================================
