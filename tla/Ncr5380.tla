------------------------------ MODULE Ncr5380 ------------------------------
(***************************************************************************)
(* The NCR 5380 SCSI controller of core/src/machine/scsi.hpp with the      *)
(* direct-access disk on its bus.  Every register access is one atomic     *)
(* step: the emulated CPU (or the IIfx DMA engine) calls Ncr5380::read or  *)
(* Ncr5380::write and the target answers inside the call.  What interleaves*)
(* are the accesses of the initiator, /EOP from a DMA controller, machine  *)
(* resets and the front end swapping the disk image.                       *)
(*                                                                         *)
(* The chip is one record, so that a module which drives the chip (the     *)
(* IIfx DMA engine makes two calls in one step) can compose the operators  *)
(* below; each is named after the member function it stands for.           *)
(*                                                                         *)
(* Abstractions.  A register holding independent lines (ICR, MR) is the    *)
(* set of the lines that are 1.  Of a CDB only the opcode is kept: block   *)
(* address and count are drawn when the command is executed.  The replies  *)
(* of the commands that do not touch the medium are one byte long, and     *)
(* only the byte of REQUEST SENSE carries information (the sense key).     *)
(***************************************************************************)
EXTENDS Integers, Sequences

CONSTANTS
  DiskId,          \* SCSI ID of the disk (0..6)
  BlockLen,        \* bytes in a block (512 in the code)
  WrapCount,       \* blocks meant by a zero count in a 6-byte CDB (256)
  Images,          \* the disk images the front end may attach
  Lbas,            \* block addresses a CDB may carry
  BlockCounts,     \* block counts a CDB may carry
  BusBytes,        \* bytes the initiator may drive on the data bus
  IcrWrites,       \* sets of lines written to the Initiator Command register
  MrWrites,        \* sets of lines written to the Mode register
  TcrWrites,       \* values written to the Target Command register
  MixedHandshake   \* may register 6 be read while /ACK is held by hand?

Byte      == 0..255
IcrLines  == {"RST", "ACK", "BSY", "SEL", "ATN"}
MrLines   == {"ARB", "DMA", "EOPIRQ"}
Phases    == {"BusFree", "Arbitration", "Command", "DataOut", "DataIn", "Status", "MsgIn"}
DmaStarts == {"None", "Send", "TargetReceive", "InitiatorReceive"}
AckCompletions == {"None", "ExecuteCdb", "FinishDataOut", "ToStatus", "ToMsgIn", "BusFree"}

NoImage == << >>

ASSUME DiskIdAssumption    == DiskId \in 0..6
ASSUME BlockLenAssumption  == BlockLen \in Nat \ {0, 1}
ASSUME WrapCountAssumption == WrapCount \in Nat \ {0}
ASSUME ImagesAssumption    == Images \subseteq (Seq(Byte) \ {NoImage})
ASSUME OperandAssumption   == Lbas \subseteq Nat /\ BlockCounts \subseteq Nat
ASSUME BusBytesAssumption  == BusBytes \subseteq Byte
ASSUME RegisterAssumption  == /\ IcrWrites \subseteq SUBSET IcrLines
                              /\ MrWrites \subseteq SUBSET MrLines
                              /\ TcrWrites \subseteq 0..7
ASSUME MixedAssumption     == MixedHandshake \in BOOLEAN

\* What the address and length bytes of a CDB can say.
Operands == [lba : Lbas, n : BlockCounts]

VARIABLE scsi

-----------------------------------------------------------------------------
(* The disk: ScsiDisk                                                      *)

TestUnitReady == 0    RequestSense == 3    Read6  == 8    Write6  == 10
Inquiry == 18         ModeSense == 26      ReadCapacity == 37
Read10 == 40          Write10 == 42

Good           == 0
CheckStatus    == 2
NotReady       == 2
IllegalRequest == 5

\* ScsiTarget::cdbLen: the length of a CDB from the group code of its opcode.
CdbLen(op) == LET group == (op \div 32) % 8
              IN  IF group \in {1, 2} THEN 10 ELSE IF group = 5 THEN 12 ELSE 6

\* The disk answers selection only while block 0 starts with 'ER'.
Present(s) == /\ Len(s.image) >= BlockLen
              /\ SubSeq(s.image, 1, 2) = << 69, 82 >>

BlockCount(s) == Len(s.image) \div BlockLen

\* The outcome of a command: its status, the bytes for Data In, the number of
\* bytes it wants in Data Out, the sense key and block address it leaves.
Answer(s, status, out, take, sense) ==
  [status |-> status, out |-> out, take |-> take, sense |-> sense, lba |-> s.writeLba]

\* Mutant: the key is kept as the first byte of its reply would have it.
CheckConditionCoded(s, key, out) == Answer(s, CheckStatus, out, 0, 112 + key)
CheckCondition(s, key, out) == Answer(s, CheckStatus, out, 0, key)

\* readBlocks clamps the count to the medium but rejects an address past it.
ReadBlocks(s, lba, n) ==
  IF s.image = NoImage THEN CheckCondition(s, NotReady, << >>)
  ELSE IF lba >= BlockCount(s) THEN CheckCondition(s, IllegalRequest, << >>)
  ELSE LET last == IF n > BlockCount(s) - lba THEN BlockCount(s) ELSE lba + n
       IN  Answer(s, Good, SubSeq(s.image, lba * BlockLen + 1, last * BlockLen), 0, 0)

\* A write is accepted at any address; the data is clipped when it arrives.
StageWrite(s, lba, n) == [Answer(s, Good, << >>, n * BlockLen, 0) EXCEPT !.lba = lba]

Blocks6(n) == IF n = 0 THEN WrapCount ELSE n

\* ScsiDisk::execute with the CDB operands a.  It clears the sense key before
\* anything else, so the key REQUEST SENSE puts in its reply is always 0.
DiskExecute(s, a) ==
  CASE s.op = TestUnitReady ->
         IF Present(s) THEN Answer(s, Good, << >>, 0, 0) ELSE CheckCondition(s, NotReady, << >>)
    [] s.op = RequestSense -> LET key == 0 IN Answer(s, Good, << key >>, 0, key)
    [] s.op \in {Inquiry, ModeSense, ReadCapacity} -> Answer(s, Good, << 0 >>, 0, 0)
    [] s.op = Read6   -> ReadBlocks(s, a.lba, Blocks6(a.n))
    [] s.op = Read10  -> ReadBlocks(s, a.lba, a.n)
    [] s.op = Write6  -> StageWrite(s, a.lba, Blocks6(a.n))
    [] s.op = Write10 -> StageWrite(s, a.lba, a.n)
    [] OTHER -> CheckCondition(s, IllegalRequest, << >>)

\* Mutant: a write past the end of the medium extends it.
OverlayGrowing(image, off, data) ==
  [i \in 1..(IF data = << >> THEN Len(image) ELSE off + Len(data)) |->
     IF i - off \in 1..Len(data) THEN data[i - off] ELSE image[i]]

\* ScsiDisk::writeData: the part of data that lies on the medium replaces it.
Overlay(image, off, data) ==
  [i \in 1..Len(image) |-> IF i - off \in 1..Len(data) THEN data[i - off] ELSE image[i]]

AcceptWrite(s) ==
  IF s.readOnly THEN s.image ELSE Overlay(s.image, s.writeLba * BlockLen, s.xfer)

-----------------------------------------------------------------------------
(* The bus lines                                                           *)

\* MSG, C/D and I/O as the target drives them in each phase.
PhaseLines(p) == CASE p = "Command" -> 2 [] p = "DataIn" -> 1 [] p = "Status" -> 3
                   [] p = "MsgIn" -> 7 [] OTHER -> 0

PhaseMatch(s) == s.phase \notin {"BusFree", "Arbitration"} /\ s.tcr = PhaseLines(s.phase)

\* The target has a byte to give or to take in this phase.
TargetReady(s) ==
  \/ s.phase = "Command" /\ s.cdbPos < s.cdbLen
  \/ s.phase \in {"DataOut", "DataIn"} /\ s.xferPos < Len(s.xfer)
  \/ s.phase = "Status" /\ s.statusReady
  \/ s.phase = "MsgIn" /\ s.msgReady

\* /REQ is dropped while the initiator holds /ACK.
ReqAsserted(s) == "ACK" \notin s.icr /\ TargetReady(s)

DmaRequest(s) == ReqAsserted(s) /\ "DMA" \in s.mr

\* The byte on the data bus as the initiator reads it.
PeekDataIn(s) ==
  CASE s.phase = "DataIn" -> IF s.xferPos < Len(s.xfer) THEN s.xfer[s.xferPos + 1] ELSE 0
    [] s.phase = "Status" -> s.status
    [] s.phase = "MsgIn"  -> 0
    [] OTHER              -> s.odr

HasIdBit(bus) == (bus \div 2 ^ DiskId) % 2 = 1

FindTarget(s) == Present(s) /\ HasIdBit(s.odr)

-----------------------------------------------------------------------------
(* Phase changes                                                           *)

EnterCommand(s) ==
  [s EXCEPT !.phase = "Command", !.cdbPos = 0, !.cdbLen = 6, !.sel = TRUE,
            !.dmaStart = "None", !.ack = "None"]

\* Mutant: a DMA cycle cut off by the target leaves no interrupt.
ToStatusQuiet(s) ==
  [s EXCEPT !.phase = "Status", !.statusReady = TRUE, !.xfer = << >>, !.xferPos = 0,
            !.dmaStart = "None", !.ack = "None"]

\* Entering Status raises the interrupt when a started DMA cycle is cut off.
ToStatus(s) ==
  [s EXCEPT !.phase = "Status", !.statusReady = TRUE, !.xfer = << >>, !.xferPos = 0,
            !.irq = @ \/ ("DMA" \in s.mr /\ s.dmaStart # "None"),
            !.dmaStart = "None", !.ack = "None"]

\* Mutant: the message byte is never offered.
ToMsgInSilent(s) == [s EXCEPT !.phase = "MsgIn"]

ToMsgIn(s) == [s EXCEPT !.phase = "MsgIn", !.msgReady = TRUE]

Zeros(n) == [i \in 1..n |-> 0]

\* Run the CDB and enter the phase its outcome calls for.
ExecuteCdb(s, a) ==
  LET r  == IF s.sel THEN DiskExecute(s, a) ELSE CheckCondition(s, s.senseKey, s.xfer)
      s1 == [s EXCEPT !.status = r.status, !.xfer = r.out, !.xferPos = 0,
                      !.senseKey = r.sense, !.writeLba = r.lba]
  IN  IF r.status # Good THEN ToStatus(s1)
      ELSE IF r.take # 0
        THEN [s1 EXCEPT !.writeMode = TRUE, !.xfer = Zeros(r.take), !.phase = "DataOut"]
      ELSE IF r.out # << >> THEN [s1 EXCEPT !.phase = "DataIn"]
      ELSE ToStatus(s1)

\* The staged write reaches the medium only here, all of it at once.
FinishDataOut(s) ==
  ToStatus([s EXCEPT !.image = IF s.writeMode /\ s.sel THEN AcceptWrite(s) ELSE @,
                     !.writeMode = FALSE])

-----------------------------------------------------------------------------
(* Bytes crossing the bus                                                  *)

\* The target takes the byte on ODR.  In a DMA cycle (immediate) the handshake
\* is complete; by hand the phase moves on when /ACK is released.
ConsumeDataOut(s, immediate, a) ==
  CASE s.phase = "Command" ->
         LET first == s.cdbPos = 0
             s1 == [s EXCEPT !.op = IF first THEN s.odr ELSE @,
                             !.cdbLen = IF first THEN CdbLen(s.odr) ELSE @,
                             !.cdbPos = @ + 1]
         IN  IF s1.cdbPos < s1.cdbLen THEN s1
             ELSE IF immediate THEN ExecuteCdb(s1, a) ELSE [s1 EXCEPT !.ack = "ExecuteCdb"]
    [] s.phase = "DataOut" ->
         LET s1 == IF s.xferPos < Len(s.xfer)
                   THEN [s EXCEPT !.xfer[s.xferPos + 1] = s.odr, !.xferPos = @ + 1]
                   ELSE s
         IN  IF s1.xferPos < Len(s1.xfer) THEN s1
             ELSE IF immediate THEN FinishDataOut(s1) ELSE [s1 EXCEPT !.ack = "FinishDataOut"]
    [] OTHER -> s

ConsumeDataIn(s, immediate) ==
  CASE s.phase = "DataIn" ->
         LET s1 == IF s.xferPos < Len(s.xfer) THEN [s EXCEPT !.xferPos = @ + 1] ELSE s
         IN  IF s1.xferPos < Len(s1.xfer) THEN s1
             ELSE IF immediate THEN ToStatus(s1) ELSE [s1 EXCEPT !.ack = "ToStatus"]
    [] s.phase = "Status" ->
         LET s1 == [s EXCEPT !.statusReady = FALSE]
         IN  IF immediate THEN ToMsgIn(s1) ELSE [s1 EXCEPT !.ack = "ToMsgIn"]
    [] s.phase = "MsgIn" ->
         LET s1 == [s EXCEPT !.msgReady = FALSE]
         IN  IF immediate THEN [s1 EXCEPT !.phase = "BusFree"] ELSE [s1 EXCEPT !.ack = "BusFree"]
    [] OTHER -> s

\* The target takes or supplies the byte of the /ACK edge.
AcceptAckByte(s, a) ==
  IF s.phase \in {"Command", "DataOut"} THEN ConsumeDataOut(s, FALSE, a)
                                        ELSE ConsumeDataIn(s, FALSE)

\* /ACK released: what the byte's acceptance postponed happens now.
FinishAckHandshake(s, a) ==
  LET s1 == [s EXCEPT !.ack = "None"]
  IN  CASE s.ack = "ExecuteCdb"    -> ExecuteCdb(s1, a)
        [] s.ack = "FinishDataOut" -> FinishDataOut(s1)
        [] s.ack = "ToStatus"      -> ToStatus(s1)
        [] s.ack = "ToMsgIn"       -> ToMsgIn(s1)
        [] s.ack = "BusFree"       -> [s1 EXCEPT !.phase = "BusFree", !.sel = FALSE]
        [] s.ack = "None"          -> s1

-----------------------------------------------------------------------------
(* Registers                                                               *)

WriteDataOut(s, v, a) ==
  LET s1 == [s EXCEPT !.odr = v]
  IN  IF "DMA" \in s1.mr /\ s1.dmaStart = "Send" /\ ReqAsserted(s1)
      THEN ConsumeDataOut(s1, TRUE, a)
      ELSE s1

\* /RST drops everything to Bus Free, but keeps the mode and the write flag.
BusReset(s) ==
  [s EXCEPT !.phase = "BusFree", !.xfer = << >>, !.xferPos = 0, !.cdbPos = 0, !.sel = FALSE,
            !.irq = TRUE, !.dmaStart = "None", !.ack = "None"]

\* One write may select the target, raise /ACK or release it, in this order.
WriteIcr(s, v, a) ==
  LET selecting == /\ "SEL" \in v /\ "BSY" \notin v
                   /\ s.phase \in {"BusFree", "Arbitration"}
                   /\ FindTarget(s)
      s1 == [s EXCEPT !.icr = v]
      s2 == IF selecting THEN EnterCommand(s1) ELSE s1
      s3 == IF "ACK" \in v \ s.icr /\ ReqAsserted(s) THEN AcceptAckByte(s2, a) ELSE s2
  IN  IF "RST" \in v THEN BusReset(s1)
      ELSE IF "ACK" \in s.icr \ v THEN FinishAckHandshake(s3, a)
      ELSE s3

WriteMr(s, v) ==
  [s EXCEPT !.mr = v,
            !.phase = IF "ARB" \in v \ s.mr /\ @ = "BusFree" THEN "Arbitration"
                      ELSE IF "ARB" \notin v /\ @ = "Arbitration" THEN "BusFree"
                      ELSE @]

\* Register 6 is read through /DACK: sampling the byte is the whole handshake.
DmaDataIn(s) == ConsumeDataIn(s, TRUE)

\* /EOP from the DMA controller whose byte count ran out.
SignalEndOfProcess(s) ==
  [s EXCEPT !.irq = @ \/ "EOPIRQ" \in s.mr, !.dmaStart = "None"]

\* The controller's reset: the disk keeps its sense key and its staged address.
ResetChip(s) ==
  [s EXCEPT !.odr = 0, !.icr = {}, !.mr = {}, !.tcr = 0, !.phase = "BusFree",
            !.xfer = << >>, !.xferPos = 0, !.cdbPos = 0, !.cdbLen = 0, !.status = 0,
            !.writeMode = FALSE, !.sel = FALSE, !.irq = FALSE, !.dmaStart = "None",
            !.ack = "None"]

-----------------------------------------------------------------------------
(* The state of the chip and its steps                                     *)

PowerOn(image, readOnly) ==
  [odr |-> 0, icr |-> {}, mr |-> {}, tcr |-> 0, phase |-> "BusFree",
   op |-> 0, cdbPos |-> 0, cdbLen |-> 0, xfer |-> << >>, xferPos |-> 0,
   status |-> 0, statusReady |-> FALSE, msgReady |-> FALSE, writeMode |-> FALSE,
   irq |-> FALSE, dmaStart |-> "None", ack |-> "None", sel |-> FALSE,
   image |-> image, readOnly |-> readOnly, senseKey |-> 0, writeLba |-> 0]

Init == \E image \in Images \cup {NoImage}, readOnly \in BOOLEAN : scsi = PowerOn(image, readOnly)

WriteOdrReg == \E v \in BusBytes, a \in Operands : scsi' = WriteDataOut(scsi, v, a)
WriteIcrReg == \E v \in IcrWrites, a \in Operands : scsi' = WriteIcr(scsi, v, a)
WriteMrReg  == \E v \in MrWrites : scsi' = WriteMr(scsi, v)
WriteTcrReg == \E v \in TcrWrites : scsi' = [scsi EXCEPT !.tcr = v]
StartDma    == \E d \in DmaStarts \ {"None"} : scsi' = [scsi EXCEPT !.dmaStart = d]
ReadIdr     == /\ MixedHandshake \/ "ACK" \notin scsi.icr
               /\ scsi' = DmaDataIn(scsi)
ClearIrq    == scsi' = [scsi EXCEPT !.irq = FALSE]
EndOfProcess == scsi' = SignalEndOfProcess(scsi)
Reset       == scsi' = ResetChip(scsi)

\* The front end inserts a hard disk image or takes it away at any moment.
InsertDisk == \E image \in Images, readOnly \in BOOLEAN :
                scsi' = [scsi EXCEPT !.image = image, !.readOnly = readOnly]
RemoveDisk == scsi' = [scsi EXCEPT !.image = NoImage]

RegisterAccess == WriteOdrReg \/ WriteIcrReg \/ WriteMrReg \/ WriteTcrReg \/ StartDma
                  \/ ReadIdr \/ ClearIrq
Next == RegisterAccess \/ EndOfProcess \/ Reset \/ InsertDisk \/ RemoveDisk

Spec == Init /\ [][Next]_scsi

-----------------------------------------------------------------------------
(* Correctness                                                             *)

ScsiState ==
  [odr : Byte, icr : SUBSET IcrLines, mr : SUBSET MrLines, tcr : 0..7, phase : Phases,
   op : Byte, cdbPos : Nat, cdbLen : Nat, xfer : Seq(Byte), xferPos : Nat,
   status : {Good, CheckStatus}, statusReady : BOOLEAN, msgReady : BOOLEAN,
   writeMode : BOOLEAN, irq : BOOLEAN, dmaStart : DmaStarts, ack : AckCompletions,
   sel : BOOLEAN, image : Seq(Byte), readOnly : BOOLEAN,
   senseKey : {0, NotReady, IllegalRequest}, writeLba : Nat]

\* The type of every field of the chip and its disk (scsi.hpp:211-214, 618-634).
TypeOK == scsi \in ScsiState

Busy(s) == s.phase \notin {"BusFree", "Arbitration"}

\* In every busy phase the target asks for a byte as soon as /ACK is released,
\* so that the initiator's wait for /REQ always ends: no phase is left with its
\* last byte gone and nothing postponed on /ACK (scsi.hpp:12-16, 438-453).
NoWedge == Busy(scsi) /\ "ACK" \notin scsi.icr => ReqAsserted(scsi)

\* While the initiator keeps /ACK asserted the target neither changes phase nor
\* counts another byte; only /RST and a chip reset break in (scsi.hpp:438-453).
HeldByAck ==
  [][Busy(scsi) /\ Busy(scsi') /\ {"ACK"} \subseteq scsi.icr \cap scsi'.icr
       => /\ scsi'.phase = scsi.phase
          /\ scsi'.xferPos = scsi.xferPos /\ scsi'.cdbPos = scsi.cdbPos]_scsi

\* A DMA transfer that the target ends early is never ended in silence: the
\* interrupt is latched, unless the DMA controller itself ended the transfer or
\* the chip was reset (scsi.hpp:593-605, 317-323).
CutTransferInterrupts ==
  [][scsi.phase \in {"DataIn", "DataOut"} /\ scsi.dmaStart # "None" /\ "DMA" \in scsi.mr
     /\ scsi'.phase # scsi.phase => scsi'.irq \/ scsi' = ResetChip(scsi)]_scsi

\* Neither handshake is broken by the target: a held /ACK freezes it, and it cuts
\* no DMA transfer off in silence (scsi.hpp:438-453, 593-605).
HandshakeIsSound == HeldByAck /\ CutTransferInterrupts

\* What of the chip ScsiBusSpec speaks of: bytes moved and due in the phase, the
\* bytes themselves, and the block address of a write.
BusMoved(s) == CASE s.phase = "Command" -> s.cdbPos
                 [] s.phase \in {"DataIn", "DataOut"} -> s.xferPos
                 [] s.phase = "Status" -> IF s.statusReady THEN 0 ELSE 1
                 [] s.phase = "MsgIn" -> IF s.msgReady THEN 0 ELSE 1
                 [] OTHER -> 0

BusDue(s) == CASE s.phase = "Command" -> s.cdbLen
               [] s.phase \in {"DataIn", "DataOut"} -> Len(s.xfer)
               [] s.phase \in {"Status", "MsgIn"} -> 1
               [] OTHER -> 0

BusData(s) == CASE s.phase = "DataOut" -> SubSeq(s.xfer, 1, s.xferPos)
                [] s.phase = "DataIn" -> s.xfer
                [] OTHER -> << >>

BusAt(s) == IF s.phase = "DataOut" THEN s.writeLba ELSE 0

\* The bus protocol a driver sees, in which a half-sent write never touches the
\* disk and a whole one replaces exactly the bytes that were sent.
Bus == INSTANCE ScsiBusSpec WITH
         phase  <- scsi.phase,     moved    <- BusMoved(scsi),  due   <- BusDue(scsi),
         data   <- BusData(scsi),  at       <- BusAt(scsi),
         medium <- scsi.image,     readOnly <- scsi.readOnly,
         Media  <- Images \cup {NoImage}

\* scsi.hpp:3-16 promises the phase order; see ScsiBusSpec for what it means.
BusSpec == Bus!Spec

\* REQUEST SENSE reports the sense key of the command before it, which is what
\* "d[2] = senseKey_;    // sense key" (scsi.hpp:201) is there for.  It does not hold:
\* execute clears the key first (scsi.hpp:89).
SenseReported ==
  [][scsi.phase = "Command" /\ scsi.op = RequestSense /\ scsi'.phase = "DataIn"
       => scsi'.xfer[1] = scsi.senseKey]_scsi
=============================================================================
