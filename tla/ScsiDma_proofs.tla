--------------------------- MODULE ScsiDma_proofs ---------------------------
(***************************************************************************)
(* Proofs about the IIfx SCSI chip and its DMA controller, Ncr5380 and     *)
(* ScsiDma: the controller's rest on the chip's.                           *)
(*                                                                         *)
(* Ncr5380, for every block length, disk, register value and CDB operand,  *)
(* and whether or not the initiator mixes hand and DMA handshakes:         *)
(*                                                                         *)
(*   TypeCorrect        Spec => []TypeOK                                   *)
(*   NeverWedged        Spec => []NoWedge                                  *)
(*                                                                         *)
(* and, if it does not mix them,                                           *)
(*                                                                         *)
(*   ImplementsBusSpec  Spec => BusSpec                                    *)
(*   HandshakesAreSound Spec => HandshakeIsSound                           *)
(*                                                                         *)
(* NoWedge is not inductive: that /REQ comes back when /ACK is released    *)
(* depends on what the acceptance of the byte left for the release to do.  *)
(* Handshake says that nothing is postponed unless /ACK is held, and that  *)
(* whenever nothing is postponed the target is ready.  Each operator of    *)
(* the model keeps Sound, types and Handshake together.                    *)
(*                                                                         *)
(* The refinement needs Linked besides: what is postponed ends the phase   *)
(* the bus is in, all of whose bytes have crossed.  An initiator that reads*)
(* register 6 while it holds /ACK by hand ends a phase twice, and breaks it*)
(*                                                                         *)
(* ScsiDma, for every address space, set of faulting addresses and guest:  *)
(*                                                                         *)
(*   DmaTypeCorrect     DmaSpec => []DmaTypeOK                             *)
(*   NothingIsLost      DmaSpec => [](NothingLost /\ ActiveIsArmed)        *)
(*   WritesStayInWindow DmaSpec => WritesInWindow                          *)
(*   OssAlwaysCurrent   DmaSpec => OssIsCurrent                            *)
(*                                                                         *)
(* and, if the driver leaves the handshake to the engine,                  *)
(*                                                                         *)
(*   BytesAreAlwaysKept DmaSpec => BytesAreKept                            *)
(*                                                                         *)
(* NothingLost does not say which lanes are valid while a word is being    *)
(* assembled; Assembled does: exactly those the address register has       *)
(* passed in its word.  It needs the number of bytes taken to be the       *)
(* distance from the first address (Gap, on the ring of addresses), and    *)
(* that no transfer runs a whole lap (Armed), or two of its bytes would    *)
(* share an address.  Streams says the same of the bytes sent.             *)
(***************************************************************************)
EXTENDS ScsiDma, SequenceTheorems, TLAPS

Handshake(s) == /\ s.ack # "None" => "ACK" \in s.icr
                /\ Busy(s) /\ s.ack = "None" => TargetReady(s)

Sound(s) == s \in ScsiState /\ Handshake(s)

\* What DiskExecute may return.
Outcome == [status : {Good, CheckStatus}, out : Seq(Byte), take : Nat,
            sense : {0, NotReady, IllegalRequest}, lba : Nat]

-----------------------------------------------------------------------------
(* The disk                                                                *)

\* The bytes of whole blocks lie on the medium.
LEMMA BlocksOnMedium ==
  ASSUME NEW len \in Nat, NEW last \in Nat, last <= len \div BlockLen
  PROVE  last * BlockLen \in Nat /\ last * BlockLen <= len
<1>1. BlockLen \in Nat /\ BlockLen > 0
  BY BlockLenAssumption
<1>2. (len \div BlockLen) * BlockLen <= len
  BY <1>1
<1>3. len \div BlockLen \in Nat
  BY <1>1
<1>4. last * BlockLen <= (len \div BlockLen) * BlockLen
  BY <1>1, <1>3
<1> QED
  BY <1>1, <1>2, <1>3, <1>4

LEMMA ReadBlocksType ==
  ASSUME NEW s \in ScsiState, NEW lba \in Nat, NEW n \in Nat
  PROVE  ReadBlocks(s, lba, n) \in Outcome
<1>0. BlockLen \in Nat /\ BlockLen > 0
  BY BlockLenAssumption
<1>1. /\ s.image \in Seq(Byte) /\ Len(s.image) \in Nat /\ s.writeLba \in Nat
      /\ << >> \in Seq(Byte)
  BY DEF ScsiState
<1>2. \A k \in Nat : k \div BlockLen \in Nat
  BY <1>0
<1>2a. BlockCount(s) \in Nat
  BY <1>1, <1>2 DEF BlockCount
<1>3. CASE s.image = NoImage \/ lba >= BlockCount(s)
  BY <1>1, <1>3 DEF ReadBlocks, CheckCondition, Answer, Outcome
<1>4. CASE s.image # NoImage /\ lba < BlockCount(s)
  <2> DEFINE last == IF n > BlockCount(s) - lba THEN BlockCount(s) ELSE lba + n
             run  == SubSeq(s.image, lba * BlockLen + 1, last * BlockLen)
  <2>1. last \in Nat /\ last <= Len(s.image) \div BlockLen
    BY <1>2a, <1>4 DEF BlockCount
  <2>2. last * BlockLen \in Nat /\ last * BlockLen <= Len(s.image)
    BY <2>1, <1>1, BlocksOnMedium
  <2>3. lba * BlockLen \in Nat
    BY <1>0
  <2>4. \A i \in (lba * BlockLen + 1)..(last * BlockLen) : s.image[i] \in Byte
    BY <1>1, <2>2, <2>3
  <2> HIDE DEF last
  <2>5. run \in Seq(Byte)
    BY <2>2, <2>3, <2>4, SubSeqProperties
  <2>6. ReadBlocks(s, lba, n) = Answer(s, Good, run, 0, 0)
    BY <1>2a, <1>4 DEF ReadBlocks, last
  <2> QED
    BY <2>5, <2>6, <1>1 DEF Answer, Outcome
<1> QED
  BY <1>2a, <1>3, <1>4

LEMMA ExecuteType ==
  ASSUME NEW s \in ScsiState, NEW a \in Operands
  PROVE  DiskExecute(s, a) \in Outcome
<1>0. a.lba \in Nat /\ a.n \in Nat /\ Blocks6(a.n) \in Nat
  BY OperandAssumption, WrapCountAssumption DEF Operands, Blocks6
<1>1. s.op \in Byte /\ s.writeLba \in Nat
  BY DEF ScsiState
<1>2. \A k \in {0, NotReady, IllegalRequest} :
        CheckCondition(s, k, << >>) \in Outcome
  BY <1>1 DEF CheckCondition, Answer, Outcome
<1>3. \A b \in {0} : Answer(s, Good, << b >>, 0, 0) \in Outcome
  BY <1>1 DEF Answer, Outcome, Byte
<1>4. Answer(s, Good, << >>, 0, 0) \in Outcome
  BY <1>1 DEF Answer, Outcome
<1>5. ASSUME NEW n \in Nat PROVE StageWrite(s, a.lba, n) \in Outcome
  <2> DEFINE bytes == n * BlockLen
             answer == Answer(s, Good, << >>, bytes, 0)
  <2>1. bytes \in Nat
    BY BlockLenAssumption
  <2> HIDE DEF bytes
  <2>2. answer \in Outcome
    BY <1>1, <2>1 DEF Answer, Outcome
  <2> HIDE DEF answer
  <2>3. [answer EXCEPT !.lba = a.lba] \in Outcome
    BY <1>0, <2>2 DEF Outcome
  <2> QED
    BY <2>3 DEF StageWrite, bytes, answer
<1>6. \A n \in Nat : ReadBlocks(s, a.lba, n) \in Outcome
  BY <1>0, ReadBlocksType
<1> QED
  BY <1>0, <1>1, <1>2, <1>3, <1>4, <1>5, <1>6
  DEF DiskExecute, TestUnitReady, RequestSense, Inquiry, ModeSense, ReadCapacity,
      Read6, Read10, Write6, Write10, NotReady, IllegalRequest

LEMMA AcceptWriteType ==
  ASSUME NEW s \in ScsiState
  PROVE  AcceptWrite(s) \in Seq(Byte)
<1> DEFINE off == s.writeLba * BlockLen
<1>1. /\ s.image \in Seq(Byte) /\ s.xfer \in Seq(Byte) /\ off \in Nat
      /\ Len(s.image) \in Nat /\ Len(s.xfer) \in Nat
  BY BlockLenAssumption DEF ScsiState
<1> HIDE DEF off
<1>2. \A i \in 1..Len(s.image) :
        (IF i - off \in 1..Len(s.xfer) THEN s.xfer[i - off] ELSE s.image[i]) \in Byte
  BY <1>1
<1>3. Overlay(s.image, off, s.xfer) \in Seq(Byte)
  BY <1>1, <1>2 DEF Overlay
<1> QED
  BY <1>1, <1>3 DEF AcceptWrite, off
-----------------------------------------------------------------------------
(* Each operator keeps Sound                                               *)

LEMMA ToStatusSound ==
  ASSUME NEW s \in ScsiState
  PROVE  Sound(ToStatus(s))
<1>0. << >> \in Seq(Byte)
  OBVIOUS
<1>1. ASSUME NEW q \in BOOLEAN
      PROVE  [s EXCEPT !.phase = "Status", !.statusReady = TRUE, !.xfer = << >>, !.xferPos = 0,
                       !.irq = q, !.dmaStart = "None", !.ack = "None"] \in ScsiState
  BY <1>0 DEF ScsiState, Phases, AckCompletions, DmaStarts
<1>2. (s.irq \/ ("DMA" \in s.mr /\ s.dmaStart # "None")) \in BOOLEAN
  OBVIOUS
<1>3. ToStatus(s) \in ScsiState
  BY <1>1, <1>2 DEF ToStatus
<1> QED
  BY <1>3 DEF Sound, ToStatus, ScsiState, Handshake, Busy, TargetReady

LEMMA ToMsgInSound ==
  ASSUME NEW s \in ScsiState, s.ack # "None" => "ACK" \in s.icr
  PROVE  Sound(ToMsgIn(s))
BY DEF Sound, ToMsgIn, ScsiState, Handshake, Busy, TargetReady, Phases

LEMMA EnterCommandSound ==
  ASSUME NEW s \in ScsiState
  PROVE  Sound(EnterCommand(s))
<1>1. EnterCommand(s) \in ScsiState
  BY DEF EnterCommand, ScsiState, Phases, AckCompletions, DmaStarts
<1> QED
  BY <1>1 DEF Sound, EnterCommand, ScsiState, Handshake, Busy, TargetReady

LEMMA ZerosType ==
  ASSUME NEW n \in Nat
  PROVE  Zeros(n) \in Seq(Byte) /\ Len(Zeros(n)) = n
<1>1. 0 \in Byte
  BY DEF Byte
<1> QED
  BY <1>1 DEF Zeros

LEMMA ExecuteCdbSound ==
  ASSUME NEW s \in ScsiState, NEW a \in Operands, s.ack # "None" => "ACK" \in s.icr
  PROVE  Sound(ExecuteCdb(s, a))
<1> DEFINE r  == IF s.sel THEN DiskExecute(s, a) ELSE CheckCondition(s, s.senseKey, s.xfer)
           s1 == [s EXCEPT !.status = r.status, !.xfer = r.out, !.xferPos = 0,
                           !.senseKey = r.sense, !.writeLba = r.lba]
<1>1. r \in Outcome
  BY ExecuteType DEF CheckCondition, Answer, Outcome, ScsiState
<1>2. s1 \in ScsiState /\ s1.ack = s.ack /\ s1.icr = s.icr
  <2> HIDE DEF r
  <2> QED
    BY <1>1 DEF Outcome, ScsiState
<1>3. Sound(ToStatus(s1))
  BY <1>2, ToStatusSound
<1>4. CASE r.status = Good /\ r.take # 0
  <2> DEFINE out == [s1 EXCEPT !.writeMode = TRUE, !.xfer = Zeros(r.take), !.phase = "DataOut"]
  <2>1. Zeros(r.take) \in Seq(Byte) /\ Len(Zeros(r.take)) > 0
    BY <1>1, <1>4, ZerosType DEF Outcome
  <2>2. s1.xferPos = 0
    BY DEF ScsiState
  <2>3. Sound(out)
    <3> HIDE DEF s1, r
    <3> QED
      BY ZenonT(60), <1>2, <2>1, <2>2 DEF Sound, ScsiState, Handshake, Busy, TargetReady, Phases
  <2>4. ExecuteCdb(s, a) = out
    BY <1>4 DEF ExecuteCdb
  <2> QED
    BY <2>3, <2>4
<1>5. CASE r.status = Good /\ r.take = 0 /\ r.out # << >>
  <2> DEFINE in == [s1 EXCEPT !.phase = "DataIn"]
  <2>1. s1.xferPos = 0 /\ s1.xfer = r.out /\ Len(r.out) > 0
    BY <1>1, <1>5 DEF ScsiState, Outcome
  <2>2. Sound(in)
    <3> HIDE DEF s1, r
    <3> QED
      BY ZenonT(60), <1>2, <2>1 DEF Sound, ScsiState, Handshake, Busy, TargetReady, Phases
  <2>3. ExecuteCdb(s, a) = in
    BY <1>5 DEF ExecuteCdb
  <2> QED
    BY <2>2, <2>3
<1>6. CASE r.status # Good \/ (r.take = 0 /\ r.out = << >>)
  BY <1>3, <1>6 DEF ExecuteCdb
<1> QED
  BY <1>4, <1>5, <1>6
LEMMA FinishDataOutSound ==
  ASSUME NEW s \in ScsiState
  PROVE  Sound(FinishDataOut(s))
<1> DEFINE image == IF s.writeMode /\ s.sel THEN AcceptWrite(s) ELSE s.image
<1>1. image \in Seq(Byte)
  BY AcceptWriteType DEF ScsiState
<1> HIDE DEF image
<1>2. [s EXCEPT !.image = image, !.writeMode = FALSE] \in ScsiState
  BY <1>1 DEF ScsiState
<1>3. Sound(ToStatus([s EXCEPT !.image = image, !.writeMode = FALSE]))
  BY <1>2, ToStatusSound
<1> QED
  BY <1>3 DEF FinishDataOut, image

\* A byte taken by the target leaves it ready, or its sequel waits for /ACK.
LEMMA ConsumeDataOutSound ==
  ASSUME NEW s, Sound(s), s.ack = "None", NEW im \in BOOLEAN, im \/ "ACK" \in s.icr,
         NEW a \in Operands
  PROVE  Sound(ConsumeDataOut(s, im, a))
<1>0. s \in ScsiState
  BY DEF Sound
<1>1. CASE s.phase = "Command"
  <2> DEFINE first == s.cdbPos = 0
             s1 == [s EXCEPT !.op = IF first THEN s.odr ELSE @,
                             !.cdbLen = IF first THEN CdbLen(s.odr) ELSE @,
                             !.cdbPos = @ + 1]
  <2>1. CdbLen(s.odr) \in {6, 10, 12}
    BY DEF CdbLen
  <2>2. s1 \in ScsiState /\ s1.ack = "None" /\ s1.icr = s.icr /\ s1.phase = "Command"
    <3> DEFINE Upd(o, n, k) == [s EXCEPT !.op = o, !.cdbLen = n, !.cdbPos = k]
               o1 == IF first THEN s.odr ELSE s.op
               n1 == IF first THEN CdbLen(s.odr) ELSE s.cdbLen
    <3>1. \A o \in Byte, n \in Nat, k \in Nat :
            /\ Upd(o, n, k) \in ScsiState /\ Upd(o, n, k).ack = "None"
            /\ Upd(o, n, k).icr = s.icr /\ Upd(o, n, k).phase = "Command"
      BY ZenonT(60), <1>0, <1>1 DEF ScsiState
    <3>2. o1 \in Byte /\ n1 \in Nat /\ s.cdbPos + 1 \in Nat
      BY <1>0, <2>1 DEF ScsiState
    <3>3. s1 = Upd(o1, n1, s.cdbPos + 1)
      BY <1>0 DEF ScsiState
    <3> HIDE DEF s1, Upd, o1, n1
    <3> QED
      BY <3>1, <3>2, <3>3
  <2>3. CASE s1.cdbPos < s1.cdbLen
    <3>1. ConsumeDataOut(s, im, a) = s1
      BY <1>1, <2>3 DEF ConsumeDataOut
    <3> HIDE DEF s1
    <3> QED
      BY <2>2, <2>3, <3>1 DEF Sound, Handshake, TargetReady
  <2>4. CASE ~(s1.cdbPos < s1.cdbLen) /\ im
    <3>1. ConsumeDataOut(s, im, a) = ExecuteCdb(s1, a)
      BY <1>1, <2>4 DEF ConsumeDataOut
    <3> QED
      BY <2>2, <3>1, ExecuteCdbSound
  <2>5. CASE ~(s1.cdbPos < s1.cdbLen) /\ ~im
    <3>1. ConsumeDataOut(s, im, a) = [s1 EXCEPT !.ack = "ExecuteCdb"]
      BY <1>1, <2>5 DEF ConsumeDataOut
    <3> HIDE DEF s1
    <3> QED
      BY <2>2, <2>5, <3>1 DEF Sound, Handshake, ScsiState, AckCompletions
  <2> QED
    BY <2>3, <2>4, <2>5
<1>2. CASE s.phase = "DataOut"
  <2> DEFINE s1 == IF s.xferPos < Len(s.xfer)
                   THEN [s EXCEPT !.xfer[s.xferPos + 1] = s.odr, !.xferPos = @ + 1]
                   ELSE s
  <2>1. s1 \in ScsiState /\ s1.ack = "None" /\ s1.icr = s.icr /\ s1.phase = "DataOut"
    <3>1. CASE s.xferPos < Len(s.xfer)
      <4> DEFINE xfer == [s.xfer EXCEPT ![s.xferPos + 1] = s.odr]
      <4>0. s.xfer \in Seq(Byte) /\ s.odr \in Byte /\ s.xferPos \in Nat
        BY <1>0 DEF ScsiState
      <4>1. xfer \in Seq(Byte)
        BY <3>1, <4>0, ExceptSeq
      <4> DEFINE Upd(x, k) == [s EXCEPT !.xfer = x, !.xferPos = k]
      <4>2. \A x \in Seq(Byte), k \in Nat :
              /\ Upd(x, k) \in ScsiState /\ Upd(x, k).ack = "None"
              /\ Upd(x, k).icr = s.icr /\ Upd(x, k).phase = "DataOut"
        BY <1>0, <1>2 DEF ScsiState
      <4>3. s1 = Upd(xfer, s.xferPos + 1)
        BY <1>0, <3>1 DEF ScsiState
      <4>4. s.xferPos + 1 \in Nat
        BY <4>0
      <4> HIDE DEF xfer, s1, Upd
      <4> QED
        BY <4>1, <4>2, <4>3, <4>4
    <3>2. CASE ~(s.xferPos < Len(s.xfer))
      BY <1>0, <1>2, <3>2
    <3> QED
      BY <3>1, <3>2
  <2>2. CASE s1.xferPos < Len(s1.xfer)
    <3>1. ConsumeDataOut(s, im, a) = s1
      BY <1>2, <2>2 DEF ConsumeDataOut
    <3> HIDE DEF s1
    <3> QED
      BY <2>1, <2>2, <3>1 DEF Sound, Handshake, TargetReady
  <2>3. CASE ~(s1.xferPos < Len(s1.xfer)) /\ im
    <3>1. ConsumeDataOut(s, im, a) = FinishDataOut(s1)
      BY <1>2, <2>3 DEF ConsumeDataOut
    <3> QED
      BY <2>1, <3>1, FinishDataOutSound
  <2>4. CASE ~(s1.xferPos < Len(s1.xfer)) /\ ~im
    <3>1. ConsumeDataOut(s, im, a) = [s1 EXCEPT !.ack = "FinishDataOut"]
      BY <1>2, <2>4 DEF ConsumeDataOut
    <3> HIDE DEF s1
    <3> QED
      BY <2>1, <2>4, <3>1 DEF Sound, Handshake, ScsiState, AckCompletions
  <2> QED
    BY <2>2, <2>3, <2>4
<1>3. CASE s.phase \notin {"Command", "DataOut"}
  BY <1>3 DEF ConsumeDataOut
<1> QED
  BY <1>1, <1>2, <1>3

\* The same for a byte the target gives. With mixed handshakes the release of
\* /ACK may still be due, which is why nothing is said of s.ack.
LEMMA ConsumeDataInSound ==
  ASSUME NEW s, Sound(s), NEW im \in BOOLEAN, im \/ "ACK" \in s.icr
  PROVE  Sound(ConsumeDataIn(s, im))
<1>0. s \in ScsiState /\ (s.ack # "None" => "ACK" \in s.icr)
  BY DEF Sound, Handshake
<1>1. CASE s.phase = "DataIn"
  <2> DEFINE s1 == IF s.xferPos < Len(s.xfer) THEN [s EXCEPT !.xferPos = @ + 1] ELSE s
  <2>1. /\ s1 \in ScsiState /\ s1.ack = s.ack /\ s1.icr = s.icr /\ s1.phase = "DataIn"
    <3>1. CASE s.xferPos < Len(s.xfer)
      <4>1. ASSUME NEW k \in Nat
            PROVE  LET t == [s EXCEPT !.xferPos = k]
                   IN  t \in ScsiState /\ t.ack = s.ack /\ t.icr = s.icr /\ t.phase = "DataIn"
        BY <1>0, <1>1 DEF ScsiState
      <4>2. s.xferPos + 1 \in Nat
        BY <1>0 DEF ScsiState
      <4> QED
        BY <3>1, <4>1, <4>2
    <3>2. CASE ~(s.xferPos < Len(s.xfer))
      BY <1>0, <1>1, <3>2
    <3> QED
      BY <3>1, <3>2
  <2>2. CASE s1.xferPos < Len(s1.xfer)
    <3>1. ConsumeDataIn(s, im) = s1
      BY <1>1, <2>2 DEF ConsumeDataIn
    <3> HIDE DEF s1
    <3> QED
      BY <1>0, <2>1, <2>2, <3>1 DEF Sound, Handshake, TargetReady
  <2>3. CASE ~(s1.xferPos < Len(s1.xfer)) /\ im
    <3>1. ConsumeDataIn(s, im) = ToStatus(s1)
      BY <1>1, <2>3 DEF ConsumeDataIn
    <3> QED
      BY <2>1, <3>1, ToStatusSound
  <2>4. CASE ~(s1.xferPos < Len(s1.xfer)) /\ ~im
    <3>1. ConsumeDataIn(s, im) = [s1 EXCEPT !.ack = "ToStatus"]
      BY <1>1, <2>4 DEF ConsumeDataIn
    <3> HIDE DEF s1
    <3> QED
      BY <2>1, <2>4, <3>1 DEF Sound, Handshake, ScsiState, AckCompletions
  <2> QED
    BY <2>2, <2>3, <2>4
<1>2. CASE s.phase = "Status"
  <2> DEFINE s1 == [s EXCEPT !.statusReady = FALSE]
  <2>1. s1 \in ScsiState /\ s1.ack = s.ack /\ s1.icr = s.icr
    BY <1>0 DEF ScsiState
  <2>2. CASE im
    BY <1>0, <1>2, <2>1, <2>2, ToMsgInSound DEF ConsumeDataIn
  <2>3. CASE ~im
    <3>1. ConsumeDataIn(s, im) = [s1 EXCEPT !.ack = "ToMsgIn"]
      BY <1>2, <2>3 DEF ConsumeDataIn
    <3> HIDE DEF s1
    <3> QED
      BY <2>1, <2>3, <3>1 DEF Sound, Handshake, ScsiState, AckCompletions
  <2> QED
    BY <2>2, <2>3
<1>3. CASE s.phase = "MsgIn"
  <2>1. CASE im
    <3>1. ConsumeDataIn(s, im) = [s EXCEPT !.msgReady = FALSE, !.phase = "BusFree"]
      BY <1>0, <1>3, <2>1 DEF ConsumeDataIn, ScsiState
    <3> QED
      BY <1>0, <3>1 DEF Sound, Handshake, ScsiState, Phases, Busy
  <2>2. CASE ~im
    <3>1. ConsumeDataIn(s, im) = [s EXCEPT !.msgReady = FALSE, !.ack = "BusFree"]
      BY <1>0, <1>3, <2>2 DEF ConsumeDataIn, ScsiState
    <3> QED
      BY <1>0, <2>2, <3>1 DEF Sound, Handshake, ScsiState, AckCompletions
  <2> QED
    BY <2>1, <2>2
<1>4. CASE s.phase \notin {"DataIn", "Status", "MsgIn"}
  BY <1>4 DEF ConsumeDataIn
<1> QED
  BY <1>1, <1>2, <1>3, <1>4

\* Releasing /ACK runs what was postponed; if nothing was, the target is ready.
LEMMA FinishAckHandshakeSound ==
  ASSUME NEW s \in ScsiState, Busy(s) /\ s.ack = "None" => TargetReady(s), NEW a \in Operands
  PROVE  Sound(FinishAckHandshake(s, a))
<1> DEFINE s1 == [s EXCEPT !.ack = "None"]
<1>1. s1 \in ScsiState /\ s1.ack = "None"
  BY DEF ScsiState, AckCompletions
<1>2. s.ack \in AckCompletions
  BY DEF ScsiState
<1>3. CASE s.ack = "ExecuteCdb"
  BY <1>1, <1>3, ExecuteCdbSound DEF FinishAckHandshake
<1>4. CASE s.ack = "FinishDataOut"
  BY <1>1, <1>4, FinishDataOutSound DEF FinishAckHandshake
<1>5. CASE s.ack = "ToStatus"
  BY <1>1, <1>5, ToStatusSound DEF FinishAckHandshake
<1>6. CASE s.ack = "ToMsgIn"
  BY <1>1, <1>6, ToMsgInSound DEF FinishAckHandshake
<1>7. CASE s.ack = "BusFree"
  <2>1. FinishAckHandshake(s, a) = [s1 EXCEPT !.phase = "BusFree", !.sel = FALSE]
    BY <1>7 DEF FinishAckHandshake
  <2> HIDE DEF s1
  <2> QED
    BY ZenonT(60), <1>1, <2>1 DEF Sound, Handshake, Busy, ScsiState, Phases
<1>8. CASE s.ack = "None"
  <2>1. FinishAckHandshake(s, a) = s1 /\ s1 = s
    BY <1>8 DEF FinishAckHandshake, ScsiState
  <2> QED
    BY <1>8, <2>1 DEF Sound, Handshake
<1> QED
  BY <1>2, <1>3, <1>4, <1>5, <1>6, <1>7, <1>8 DEF AckCompletions

LEMMA AcceptAckByteSound ==
  ASSUME NEW s, Sound(s), s.ack = "None", "ACK" \in s.icr, NEW a \in Operands
  PROVE  Sound(AcceptAckByte(s, a))
BY ConsumeDataOutSound, ConsumeDataInSound DEF AcceptAckByte

LEMMA WriteDataOutSound ==
  ASSUME NEW s, Sound(s), NEW v \in Byte, NEW a \in Operands
  PROVE  Sound(WriteDataOut(s, v, a))
<1> DEFINE s1 == [s EXCEPT !.odr = v]
<1>0. s \in ScsiState
  BY DEF Sound
<1>1. Sound(s1) /\ s1.ack = s.ack /\ s1.icr = s.icr
  BY <1>0 DEF Sound, ScsiState, Handshake, Busy, TargetReady
<1>2. CASE ReqAsserted(s1)
  <2>1. s1.ack = "None"
    BY <1>1, <1>2 DEF ReqAsserted, Sound, Handshake
  <2> QED
    BY <1>1, <2>1, ConsumeDataOutSound DEF WriteDataOut
<1>3. CASE ~ReqAsserted(s1)
  BY <1>1, <1>3 DEF WriteDataOut
<1> QED
  BY <1>2, <1>3

LEMMA BusResetSound ==
  ASSUME NEW s \in ScsiState
  PROVE  Sound(BusReset(s))
<1>0. << >> \in Seq(Byte)
  OBVIOUS
<1>1. BusReset(s) \in ScsiState
  BY <1>0 DEF BusReset, ScsiState, Phases, DmaStarts, AckCompletions
<1> QED
  BY <1>1 DEF BusReset, ScsiState, Sound, Handshake, Busy

LEMMA WriteIcrSound ==
  ASSUME NEW s, Sound(s), NEW v \in SUBSET IcrLines, NEW a \in Operands
  PROVE  Sound(WriteIcr(s, v, a))
<1> DEFINE s1 == [s EXCEPT !.icr = v]
           selecting == /\ "SEL" \in v /\ "BSY" \notin v
                        /\ s.phase \in {"BusFree", "Arbitration"}
                        /\ FindTarget(s)
           s2 == IF selecting THEN EnterCommand(s1) ELSE s1
           s3 == IF "ACK" \in v \ s.icr /\ ReqAsserted(s) THEN AcceptAckByte(s2, a) ELSE s2
<1>0. s \in ScsiState /\ Handshake(s)
  BY DEF Sound
<1>1. s1 \in ScsiState /\ s1.ack = s.ack /\ s1.icr = v /\ s1.phase = s.phase
  BY <1>0 DEF ScsiState
<1>2. TargetReady(s1) <=> TargetReady(s)
  BY <1>0 DEF ScsiState, TargetReady
<1>3. CASE "RST" \in v
  BY <1>1, <1>3, BusResetSound DEF WriteIcr
<1>4. CASE "RST" \notin v /\ "ACK" \in s.icr \ v
  \* /ACK falls: nothing was accepted in this write
  <2>1. s3 = s2
    BY <1>4
  <2>2. s2 \in ScsiState /\ (Busy(s2) /\ s2.ack = "None" => TargetReady(s2))
    <3>1. CASE selecting
      BY <1>1, <3>1, EnterCommandSound DEF Sound, Handshake
    <3>2. CASE ~selecting
      BY <1>0, <1>1, <1>2, <3>2 DEF Handshake, Busy
    <3> QED
      BY <3>1, <3>2
  <2>3. WriteIcr(s, v, a) = FinishAckHandshake(s3, a)
    BY <1>4 DEF WriteIcr
  <2> HIDE DEF s2, s3
  <2> QED
    BY <2>1, <2>2, <2>3, FinishAckHandshakeSound
<1>5. CASE "RST" \notin v /\ ~("ACK" \in s.icr \ v)
  <2>1. s1.ack # "None" => "ACK" \in v
    BY <1>0, <1>1, <1>5 DEF Handshake
  <2>2. Sound(s1)
    BY <1>0, <1>1, <1>2, <2>1 DEF Sound, Handshake, Busy
  <2>3. Sound(s2)
    BY <1>1, <2>2, EnterCommandSound
  <2>4. Sound(s3)
    <3>1. CASE "ACK" \in v \ s.icr /\ ReqAsserted(s)
      <4>1. s2.ack = "None" /\ s2.icr = v
        BY <1>0, <1>1, <3>1 DEF EnterCommand, ScsiState, Handshake
      <4> HIDE DEF s2
      <4> QED
        BY <2>3, <3>1, <4>1, AcceptAckByteSound
    <3>2. CASE ~("ACK" \in v \ s.icr /\ ReqAsserted(s))
      BY <2>3, <3>2
    <3> QED
      BY <3>1, <3>2
  <2>5. WriteIcr(s, v, a) = s3
    BY <1>5 DEF WriteIcr
  <2> QED
    BY <2>4, <2>5
<1> QED
  BY <1>3, <1>4, <1>5

LEMMA WriteMrSound ==
  ASSUME NEW s, Sound(s), NEW v \in SUBSET MrLines
  PROVE  Sound(WriteMr(s, v))
<1> DEFINE p == IF "ARB" \in v \ s.mr /\ s.phase = "BusFree" THEN "Arbitration"
                ELSE IF "ARB" \notin v /\ s.phase = "Arbitration" THEN "BusFree"
                ELSE s.phase
<1>0. s \in ScsiState /\ Handshake(s)
  BY DEF Sound
<1>1. /\ p \in Phases
      /\ p \notin {"BusFree", "Arbitration"} => p = s.phase
  BY <1>0 DEF ScsiState, Phases
<1>2. WriteMr(s, v) = [s EXCEPT !.mr = v, !.phase = p]
  BY <1>0 DEF WriteMr, ScsiState
<1> HIDE DEF p
<1> QED
  BY ZenonT(60), <1>0, <1>1, <1>2 DEF Sound, ScsiState, Handshake, Busy, TargetReady

LEMMA ResetChipSound ==
  ASSUME NEW s \in ScsiState
  PROVE  Sound(ResetChip(s))
<1>0. << >> \in Seq(Byte) /\ 0 \in Byte /\ 0 \in {Good, CheckStatus} /\ 0 \in 0..7
  BY DEF Byte, Good
<1> DEFINE t == [s EXCEPT !.odr = 0, !.icr = {}, !.mr = {}, !.tcr = 0, !.status = 0]
           u == [t EXCEPT !.xferPos = 0, !.cdbPos = 0, !.cdbLen = 0, !.writeMode = FALSE,
                          !.sel = FALSE, !.xfer = << >>]
<1>1. t \in ScsiState
  <2>1. \A z \in Byte, st \in {Good, CheckStatus}, v \in 0..7 :
          [s EXCEPT !.odr = z, !.icr = {}, !.mr = {}, !.tcr = v, !.status = st] \in ScsiState
    BY ZenonT(60) DEF ScsiState
  <2> QED
    BY <1>0, <2>1
<1>2. u \in ScsiState
  <2> HIDE DEF t
  <2> QED
    BY <1>0, <1>1 DEF ScsiState
<1>3. ResetChip(s) \in ScsiState
  <2>1. ResetChip(s) = [u EXCEPT !.phase = "BusFree", !.irq = FALSE, !.dmaStart = "None",
                                 !.ack = "None"]
    BY ZenonT(60) DEF ResetChip, ScsiState
  <2> HIDE DEF u
  <2> QED
    BY ZenonT(60), <1>2, <2>1 DEF ScsiState, Phases, DmaStarts, AckCompletions
<1>4. ResetChip(s).ack = "None" /\ ResetChip(s).phase = "BusFree"
  BY DEF ResetChip, ScsiState
<1> QED
  BY <1>3, <1>4 DEF Sound, Handshake, Busy

LEMMA EndOfProcessSound ==
  ASSUME NEW s, Sound(s)
  PROVE  Sound(SignalEndOfProcess(s))
<1>1. s \in ScsiState /\ Handshake(s)
  BY DEF Sound
<1>2. \A q \in BOOLEAN : Sound([s EXCEPT !.irq = q, !.dmaStart = "None"])
  BY ZenonT(60), <1>1 DEF Sound, ScsiState, Handshake, Busy, TargetReady, DmaStarts
<1>3. (s.irq \/ "EOPIRQ" \in s.mr) \in BOOLEAN
  OBVIOUS
<1> QED
  BY <1>2, <1>3 DEF SignalEndOfProcess

\* The fields that no bus line depends on.
LEMMA OtherFieldsSound ==
  ASSUME NEW s, Sound(s)
  PROVE  /\ \A v \in 0..7 : Sound([s EXCEPT !.tcr = v])
         /\ \A d \in DmaStarts : Sound([s EXCEPT !.dmaStart = d])
         /\ \A q \in BOOLEAN : Sound([s EXCEPT !.irq = q])
         /\ \A m \in Seq(Byte), q \in BOOLEAN : Sound([s EXCEPT !.image = m, !.readOnly = q])
         /\ \A m \in Seq(Byte) : Sound([s EXCEPT !.image = m])
<1>0. s \in ScsiState /\ Handshake(s)
  BY DEF Sound
<1>1. \A v \in 0..7 : Sound([s EXCEPT !.tcr = v])
  BY <1>0 DEF Sound, ScsiState, Handshake, Busy, TargetReady
<1>2. \A d \in DmaStarts : Sound([s EXCEPT !.dmaStart = d])
  BY <1>0 DEF Sound, ScsiState, Handshake, Busy, TargetReady
<1>3. \A q \in BOOLEAN : Sound([s EXCEPT !.irq = q])
  BY <1>0 DEF Sound, ScsiState, Handshake, Busy, TargetReady
<1>4. ASSUME NEW m \in Seq(Byte), NEW q \in BOOLEAN
      PROVE  Sound([s EXCEPT !.image = m, !.readOnly = q])
  <2> DEFINE t == [s EXCEPT !.image = m, !.readOnly = q]
  <2>1. t \in ScsiState
    BY <1>0 DEF ScsiState
  <2>2. Handshake(t)
    BY <1>0 DEF ScsiState, Handshake, Busy, TargetReady
  <2> QED
    BY <2>1, <2>2 DEF Sound
<1>5. \A m \in Seq(Byte) : Sound([s EXCEPT !.image = m])
  BY <1>0 DEF Sound, ScsiState, Handshake, Busy, TargetReady
<1> QED
  BY <1>1, <1>2, <1>3, <1>4, <1>5

-----------------------------------------------------------------------------
(* The theorems                                                            *)

IInv == Sound(scsi)

LEMMA InitSound == Init => IInv
<1> SUFFICES ASSUME NEW image \in Images \cup {NoImage}, NEW readOnly \in BOOLEAN
             PROVE  Sound(PowerOn(image, readOnly))
  BY DEF Init, IInv
<1>0. << >> \in Seq(Byte) /\ image \in Seq(Byte)
  <2>1. << >> \in Seq(Byte)
    OBVIOUS
  <2>2. CASE image \in Images
    BY <2>1, <2>2, ImagesAssumption
  <2>3. CASE image = NoImage
    BY <2>1, <2>3 DEF NoImage
  <2> QED
    BY <2>2, <2>3
<1>1. 0 \in Byte
  BY DEF Byte
<1>2. PowerOn(image, readOnly) \in ScsiState
  BY <1>0, <1>1 DEF PowerOn, ScsiState, Phases, DmaStarts, AckCompletions, Good
<1> QED
  BY <1>2 DEF PowerOn, Sound, Handshake, Busy

LEMMA NextSound == IInv /\ [Next]_scsi => IInv'
<1> SUFFICES ASSUME Sound(scsi), [Next]_scsi
             PROVE  Sound(scsi')
  BY DEF IInv
<1>0. scsi \in ScsiState
  BY DEF Sound
<1>1. CASE WriteOdrReg
  BY <1>1, BusBytesAssumption, WriteDataOutSound DEF WriteOdrReg
<1>2. CASE WriteIcrReg
  <2>1. PICK v \in IcrWrites, a \in Operands : scsi' = WriteIcr(scsi, v, a)
    BY <1>2 DEF WriteIcrReg
  <2>2. v \in SUBSET IcrLines
    BY RegisterAssumption
  <2> QED
    BY <2>1, <2>2, WriteIcrSound
<1>3. CASE WriteMrReg
  <2>1. PICK v \in MrWrites : scsi' = WriteMr(scsi, v)
    BY <1>3 DEF WriteMrReg
  <2>2. v \in SUBSET MrLines
    BY RegisterAssumption
  <2> QED
    BY <2>1, <2>2, WriteMrSound
<1>4. CASE WriteTcrReg
  <2>1. PICK v \in TcrWrites : scsi' = [scsi EXCEPT !.tcr = v]
    BY <1>4 DEF WriteTcrReg
  <2>2. v \in 0..7
    BY RegisterAssumption
  <2> QED
    BY <2>1, <2>2, OtherFieldsSound
<1>5. CASE StartDma
  <2>1. PICK d \in DmaStarts : scsi' = [scsi EXCEPT !.dmaStart = d]
    BY <1>5 DEF StartDma
  <2> QED
    BY <2>1, OtherFieldsSound
<1>6. CASE ReadIdr
  BY <1>6, ConsumeDataInSound DEF ReadIdr, DmaDataIn
<1>7. CASE ClearIrq
  BY <1>7, OtherFieldsSound DEF ClearIrq
<1>8. CASE EndOfProcess
  <2>1. scsi' = SignalEndOfProcess(scsi)
    BY <1>8 DEF EndOfProcess
  <2> QED
    BY <2>1, EndOfProcessSound
<1>9. CASE Reset
  BY <1>9, <1>0, ResetChipSound DEF Reset
<1>10. CASE InsertDisk
  <2>1. PICK m \in Images, q \in BOOLEAN : scsi' = [scsi EXCEPT !.image = m, !.readOnly = q]
    BY <1>10 DEF InsertDisk
  <2>2. m \in Seq(Byte)
    BY ImagesAssumption
  <2> QED
    BY <2>1, <2>2, OtherFieldsSound
<1>11. CASE RemoveDisk
  <2>1. NoImage \in Seq(Byte)
    BY DEF NoImage
  <2> QED
    BY <1>11, <2>1, OtherFieldsSound DEF RemoveDisk
<1>12. CASE UNCHANGED scsi
  BY <1>12
<1> QED
  BY <1>1, <1>2, <1>3, <1>4, <1>5, <1>6, <1>7, <1>8, <1>9, <1>10, <1>11, <1>12
  DEF Next, RegisterAccess

\* The inductive invariant: in every reachable state the chip is well-typed,
\* nothing is postponed unless /ACK is held, and a target that owns the bus
\* with nothing postponed is ready for the next byte.
THEOREM AlwaysSound == Spec => []IInv
BY InitSound, NextSound, PTL DEF Spec

\* Every register, the staged data and the image keep their types.
THEOREM TypeCorrect == Spec => []TypeOK
<1>1. IInv => TypeOK
  BY DEF IInv, Sound, TypeOK
<1> QED
  BY <1>1, AlwaysSound, PTL

\* Whatever the initiator writes and whenever the disk is swapped, a busy bus
\* with /ACK released has /REQ up: the ROM's wait for /REQ always ends.
THEOREM NeverWedged == Spec => []NoWedge
<1>1. IInv => NoWedge
  BY DEF IInv, Sound, Handshake, NoWedge, ReqAsserted
<1> QED
  BY <1>1, AlwaysSound, PTL

-----------------------------------------------------------------------------
(* What is postponed, and where a byte leads                               *)

\* What is postponed on /ACK belongs to the phase it ends, whose last byte is then
\* across; and no phase is ever past its last byte.
Linked(s) ==
  /\ s.ack = "ExecuteCdb" => s.phase = "Command" /\ s.cdbPos = s.cdbLen
  /\ s.ack = "FinishDataOut" => s.phase = "DataOut" /\ s.xferPos = Len(s.xfer)
  /\ s.ack = "ToStatus" => s.phase = "DataIn" /\ s.xferPos = Len(s.xfer)
  /\ s.ack = "ToMsgIn" => s.phase = "Status" /\ ~s.statusReady
  /\ s.ack = "BusFree" => s.phase = "MsgIn" /\ ~s.msgReady
  /\ s.phase = "Command" => /\ s.sel /\ s.cdbLen \in {6, 10, 12} /\ s.cdbPos <= s.cdbLen
                            /\ s.cdbPos = 0 => s.cdbLen = 6
  /\ s.phase = "DataOut" => s.sel /\ s.writeMode /\ s.xferPos <= Len(s.xfer)
  /\ s.phase = "DataIn" => s.xferPos <= Len(s.xfer)

LEMMA ToStatusLinked ==
  ASSUME NEW s \in ScsiState
  PROVE  Linked(ToStatus(s))
BY DEF Linked, ToStatus, ScsiState

LEMMA ToMsgInLinked ==
  ASSUME NEW s \in ScsiState, s.ack = "None"
  PROVE  Linked(ToMsgIn(s))
BY DEF Linked, ToMsgIn, ScsiState

LEMMA EnterCommandLinked ==
  ASSUME NEW s \in ScsiState
  PROVE  Linked(EnterCommand(s))
BY DEF Linked, EnterCommand, ScsiState

\* The runs of whole blocks of a medium, and what a command may send.
Run(image, i, j) == SubSeq(image, i * BlockLen + 1, j * BlockLen)

Runs(image) == {Run(image, i, j) : i \in 0..Len(image), j \in 1..(Len(image) \div BlockLen)}

Replies(image) == {<< >>} \cup {<< b >> : b \in Byte} \cup Runs(image)

LEMMA ReadBlocksRun ==
  ASSUME NEW s \in ScsiState, NEW lba \in Nat, NEW n \in Nat
  PROVE  /\ ReadBlocks(s, lba, n).take = 0
         /\ ReadBlocks(s, lba, n).out \in Replies(s.image)
<1>0. BlockLen \in Nat /\ BlockLen > 0
  BY BlockLenAssumption
<1>1. s.image \in Seq(Byte) /\ Len(s.image) \in Nat
  BY DEF ScsiState
<1>2. BlockCount(s) \in Nat /\ BlockCount(s) <= Len(s.image)
  <2>1. \A k \in Nat : k \div BlockLen \in Nat /\ k \div BlockLen <= k
    <3> SUFFICES ASSUME NEW k \in Nat PROVE k \div BlockLen \in Nat /\ k \div BlockLen <= k
      OBVIOUS
    <3> DEFINE q == k \div BlockLen
    <3>2. q \in Int /\ q >= 0
      BY <1>0
    <3>3. q * BlockLen <= k
      BY <1>0
    <3> HIDE DEF q
    <3>4. q <= q * BlockLen
      BY <1>0, <3>2
    <3>5. q \in Nat /\ q <= k
      BY <1>0, <3>2, <3>3, <3>4
    <3> QED
      BY <3>5 DEF q
  <2> QED
    BY <1>1, <2>1 DEF BlockCount
<1>3. CASE s.image = NoImage \/ lba >= BlockCount(s)
  BY <1>3 DEF ReadBlocks, CheckCondition, Answer, Replies
<1>4. CASE s.image # NoImage /\ lba < BlockCount(s)
  <2> DEFINE last == IF n > BlockCount(s) - lba THEN BlockCount(s) ELSE lba + n
             run  == SubSeq(s.image, lba * BlockLen + 1, last * BlockLen)
  <2>1. last \in Nat /\ last <= BlockCount(s) /\ lba \in 0..Len(s.image)
    BY <1>1, <1>2, <1>4
  <2> HIDE DEF last
  <2>2. run \in Replies(s.image)
    <3>1. CASE last = 0
      <4>1. last * BlockLen = 0 /\ lba * BlockLen + 1 > 0
        BY <1>0, <3>1
      <4>2. run = << >>
        BY <1>1, <4>1, <1>0
      <4> QED
        BY <4>2 DEF Replies
    <3>2. CASE last # 0
      <4>1. last \in 1..(Len(s.image) \div BlockLen)
        BY <2>1, <1>2, <3>2 DEF BlockCount
      <4>2. Run(s.image, lba, last) \in Runs(s.image)
        BY <2>1, <4>1 DEF Runs
      <4> QED
        BY <4>2 DEF Run, Replies
    <3> QED
      BY <3>1, <3>2
  <2>3. ReadBlocks(s, lba, n) = Answer(s, Good, run, 0, 0)
    BY <1>2, <1>4 DEF ReadBlocks, last
  <2> QED
    BY <2>2, <2>3 DEF Answer
<1> QED
  BY <1>2, <1>3, <1>4

LEMMA ExecuteAnswers ==
  ASSUME NEW s \in ScsiState, NEW a \in Operands
  PROVE  /\ \E n \in Nat : DiskExecute(s, a).take = n * BlockLen
         /\ DiskExecute(s, a).out \in Replies(s.image)
<1> DEFINE Fine(r) == (\E n \in Nat : r.take = n * BlockLen) /\ r.out \in Replies(s.image)
<1>0. a.lba \in Nat /\ a.n \in Nat /\ Blocks6(a.n) \in Nat
  BY OperandAssumption, WrapCountAssumption DEF Operands, Blocks6
<1>1. 0 = 0 * BlockLen /\ 0 \in Nat
  BY BlockLenAssumption
<1>2. \A k, out : out \in Replies(s.image) => Fine(CheckCondition(s, k, out))
  BY <1>1 DEF CheckCondition, Answer
<1>3. \A k, out : out \in Replies(s.image) => Fine(Answer(s, Good, out, 0, k))
  BY <1>1 DEF Answer
<1>4. << >> \in Replies(s.image) /\ << 0 >> \in Replies(s.image)
  BY DEF Replies, Byte
<1>5. ASSUME NEW n \in Nat PROVE Fine(StageWrite(s, a.lba, n))
  <2>1. StageWrite(s, a.lba, n).take = n * BlockLen /\ StageWrite(s, a.lba, n).out = << >>
    BY DEF StageWrite, Answer
  <2> QED
    BY <1>4, <2>1
<1>6. \A n \in Nat : Fine(ReadBlocks(s, a.lba, n))
  BY <1>0, <1>1, ReadBlocksRun
<1>7. Fine(DiskExecute(s, a))
  <2> HIDE DEF Fine
  <2> QED
    BY <1>0, <1>2, <1>3, <1>4, <1>5, <1>6
    DEF DiskExecute, TestUnitReady, RequestSense, Inquiry, ModeSense, ReadCapacity,
        Read6, Read10, Write6, Write10
<1> QED
  BY <1>7

\* Where a command may lead: to its status, to taking whole blocks, or to sending a
\* reply of the medium or of one byte.
LEMMA ExecuteCdbOutcome ==
  ASSUME NEW s \in ScsiState, NEW a \in Operands, NEW t, t = ExecuteCdb(s, a)
  PROVE  \/ \E s1 \in ScsiState : /\ t = ToStatus(s1)
                                  /\ s1.image = s.image /\ s1.readOnly = s.readOnly
         \/ /\ t.phase = "DataOut" /\ t.writeMode /\ t.sel /\ t.writeLba \in Nat
            /\ \E n \in Nat : Len(t.xfer) = n * BlockLen /\ n * BlockLen > 0
            /\ t.xfer \in Seq(Byte) /\ t.xferPos = 0 /\ t.ack = s.ack
            /\ t.image = s.image /\ t.readOnly = s.readOnly
         \/ /\ t.phase = "DataIn" /\ t.xfer # << >> /\ t.xfer \in Replies(s.image)
            /\ t.xfer \in Seq(Byte) /\ t.xferPos = 0 /\ t.ack = s.ack
            /\ t.image = s.image /\ t.readOnly = s.readOnly
<1> DEFINE r  == IF s.sel THEN DiskExecute(s, a) ELSE CheckCondition(s, s.senseKey, s.xfer)
           s1 == [s EXCEPT !.status = r.status, !.xfer = r.out, !.xferPos = 0,
                           !.senseKey = r.sense, !.writeLba = r.lba]
<1>1. r \in Outcome
  BY ExecuteType DEF CheckCondition, Answer, Outcome, ScsiState
<1>2. s1 \in ScsiState /\ s1.ack = s.ack /\ s1.image = s.image /\ s1.readOnly = s.readOnly
      /\ s1.xferPos = 0 /\ s1.xfer = r.out /\ s1.writeLba = r.lba /\ s1.sel = s.sel
  <2> HIDE DEF r
  <2> QED
    BY <1>1 DEF Outcome, ScsiState
<1>3. CASE r.status = Good /\ r.take # 0
  <2>1. s.sel /\ r = DiskExecute(s, a)
    BY <1>3 DEF CheckCondition, Answer, Good, CheckStatus
  <2>2. PICK n \in Nat : r.take = n * BlockLen
    BY <2>1, ExecuteAnswers
  <2>3. r.take \in Nat /\ Zeros(r.take) \in Seq(Byte) /\ Len(Zeros(r.take)) = r.take
    BY <1>1, ZerosType DEF Outcome
  <2>4. t = [s1 EXCEPT !.writeMode = TRUE, !.xfer = Zeros(r.take), !.phase = "DataOut"]
    BY <1>3 DEF ExecuteCdb
  <2>5. r.lba \in Nat /\ r.take > 0
    BY <1>1, <1>3 DEF Outcome
  <2> HIDE DEF s1, r
  <2>6. /\ t.phase = "DataOut" /\ t.writeMode /\ t.sel /\ t.writeLba \in Nat
        /\ t.xfer = Zeros(r.take) /\ t.xferPos = 0 /\ t.ack = s.ack
        /\ t.image = s.image /\ t.readOnly = s.readOnly
    BY ZenonT(60), <1>2, <2>1, <2>4, <2>5 DEF ScsiState
  <2>7. Len(t.xfer) = n * BlockLen /\ n * BlockLen > 0 /\ t.xfer \in Seq(Byte)
    BY <2>2, <2>3, <2>5, <2>6
  <2> QED
    BY <2>6, <2>7
<1>4. CASE r.status = Good /\ r.take = 0 /\ r.out # << >>
  <2>1. s.sel /\ r = DiskExecute(s, a)
    BY <1>4 DEF CheckCondition, Answer, Good, CheckStatus
  <2>2. r.out \in Replies(s.image) /\ r.out \in Seq(Byte)
    BY <1>1, <2>1, ExecuteAnswers DEF Outcome
  <2>3. t = [s1 EXCEPT !.phase = "DataIn"]
    BY <1>4 DEF ExecuteCdb
  <2> HIDE DEF s1, r
  <2> QED
    BY <1>2, <1>4, <2>2, <2>3 DEF ScsiState
<1>5. CASE r.status # Good \/ (r.take = 0 /\ r.out = << >>)
  <2>1. t = ToStatus(s1)
    BY <1>5 DEF ExecuteCdb
  <2> HIDE DEF s1
  <2> QED
    BY <1>2, <2>1
<1> QED
  BY <1>3, <1>4, <1>5

LEMMA ExecuteCdbLinked ==
  ASSUME NEW s \in ScsiState, NEW a \in Operands, s.ack = "None"
  PROVE  Linked(ExecuteCdb(s, a))
<1> DEFINE t == ExecuteCdb(s, a)
<1>1. CASE \E s1 \in ScsiState : t = ToStatus(s1)
  BY <1>1, ToStatusLinked
<1>2. CASE /\ t.phase \in {"DataIn", "DataOut"} /\ t.ack = "None" /\ t.xferPos = 0
           /\ t.xfer \in Seq(Byte) /\ (t.phase = "DataOut" => t.sel /\ t.writeMode)
  BY <1>2 DEF Linked
<1> QED
  BY <1>1, <1>2, ExecuteCdbOutcome

LEMMA FinishDataOutLinked ==
  ASSUME NEW s \in ScsiState
  PROVE  Linked(FinishDataOut(s))
<1> DEFINE image == IF s.writeMode /\ s.sel THEN AcceptWrite(s) ELSE s.image
<1>1. image \in Seq(Byte)
  BY AcceptWriteType DEF ScsiState
<1> HIDE DEF image
<1>2. [s EXCEPT !.image = image, !.writeMode = FALSE] \in ScsiState
  BY <1>1 DEF ScsiState
<1> QED
  BY <1>2, ToStatusLinked DEF FinishDataOut, image

\* The fields that the passing of one byte leaves alone.
Alike(s, t) ==
  /\ t.phase = s.phase /\ t.ack = s.ack /\ t.icr = s.icr /\ t.mr = s.mr
  /\ t.dmaStart = s.dmaStart /\ t.irq = s.irq
  /\ t.sel = s.sel /\ t.writeMode = s.writeMode /\ t.writeLba = s.writeLba
  /\ t.image = s.image /\ t.readOnly = s.readOnly

\* One byte of a CDB, and one byte of a write, has been taken.
TookCommand(s, t) ==
  /\ Alike(s, t) /\ t.cdbPos = s.cdbPos + 1 /\ t.cdbPos <= t.cdbLen
  /\ t.cdbLen \in IF s.cdbPos = 0 THEN {6, 10, 12} ELSE {s.cdbLen}

TookData(s, t) ==
  /\ Alike(s, t) /\ t.xferPos = s.xferPos + 1 /\ t.xferPos <= Len(t.xfer)
  /\ t.xfer = [s.xfer EXCEPT ![s.xferPos + 1] = s.odr]

\* A byte that the target was ready to take: the phase goes on, or its end is
\* postponed, or it happens at once.
LEMMA ConsumeDataOutOutcome ==
  ASSUME NEW s \in ScsiState, Linked(s), TargetReady(s), NEW im \in BOOLEAN, NEW a \in Operands
  PROVE  /\ s.phase = "Command" =>
              \E s1 \in ScsiState :
                /\ TookCommand(s, s1)
                /\ ConsumeDataOut(s, im, a) = IF s1.cdbPos < s1.cdbLen THEN s1
                                              ELSE IF im THEN ExecuteCdb(s1, a)
                                              ELSE [s1 EXCEPT !.ack = "ExecuteCdb"]
         /\ s.phase = "DataOut" =>
              \E s1 \in ScsiState :
                /\ TookData(s, s1)
                /\ ConsumeDataOut(s, im, a) = IF s1.xferPos < Len(s1.xfer) THEN s1
                                              ELSE IF im THEN FinishDataOut(s1)
                                              ELSE [s1 EXCEPT !.ack = "FinishDataOut"]
<1>1. ASSUME s.phase = "Command"
      PROVE  \E s1 \in ScsiState :
                /\ TookCommand(s, s1)
                /\ ConsumeDataOut(s, im, a) = IF s1.cdbPos < s1.cdbLen THEN s1
                                              ELSE IF im THEN ExecuteCdb(s1, a)
                                              ELSE [s1 EXCEPT !.ack = "ExecuteCdb"]
  <2> DEFINE first == s.cdbPos = 0
             s1 == [s EXCEPT !.op = IF first THEN s.odr ELSE @,
                             !.cdbLen = IF first THEN CdbLen(s.odr) ELSE @,
                             !.cdbPos = @ + 1]
             Upd(o, n, k) == [s EXCEPT !.op = o, !.cdbLen = n, !.cdbPos = k]
             o1 == IF first THEN s.odr ELSE s.op
             n1 == IF first THEN CdbLen(s.odr) ELSE s.cdbLen
  <2>1. CdbLen(s.odr) \in {6, 10, 12}
    BY DEF CdbLen
  <2>2. \A o \in Byte, n \in Nat, k \in Nat :
          /\ Upd(o, n, k) \in ScsiState
          /\ Upd(o, n, k).cdbPos = k /\ Upd(o, n, k).cdbLen = n
          /\ Upd(o, n, k).phase = s.phase /\ Upd(o, n, k).ack = s.ack /\ Upd(o, n, k).icr = s.icr
          /\ Upd(o, n, k).mr = s.mr /\ Upd(o, n, k).dmaStart = s.dmaStart /\ Upd(o, n, k).irq = s.irq
          /\ Upd(o, n, k).sel = s.sel /\ Upd(o, n, k).writeMode = s.writeMode
          /\ Upd(o, n, k).writeLba = s.writeLba
          /\ Upd(o, n, k).image = s.image /\ Upd(o, n, k).readOnly = s.readOnly
    <3>1. \A o \in Byte, n \in Nat, k \in Nat : Upd(o, n, k) \in ScsiState
      BY DEF ScsiState
    <3>2. \A o, n, k :
          /\ Upd(o, n, k).cdbPos = k /\ Upd(o, n, k).cdbLen = n
          /\ Upd(o, n, k).phase = s.phase /\ Upd(o, n, k).ack = s.ack /\ Upd(o, n, k).icr = s.icr
          /\ Upd(o, n, k).mr = s.mr /\ Upd(o, n, k).dmaStart = s.dmaStart
          /\ Upd(o, n, k).irq = s.irq
          /\ Upd(o, n, k).sel = s.sel /\ Upd(o, n, k).writeMode = s.writeMode
          /\ Upd(o, n, k).writeLba = s.writeLba
          /\ Upd(o, n, k).image = s.image /\ Upd(o, n, k).readOnly = s.readOnly
      BY DEF ScsiState
    <3> HIDE DEF Upd
    <3> QED
      BY <3>1, <3>2
  <2>3. o1 \in Byte /\ n1 \in Nat /\ s.cdbPos + 1 \in Nat
    BY <2>1 DEF ScsiState
  <2>4. s1 = Upd(o1, n1, s.cdbPos + 1)
    BY DEF ScsiState
  <2>5. s.cdbPos \in Nat /\ s.cdbPos < s.cdbLen /\ s.cdbLen \in {6, 10, 12}
    BY <1>1 DEF TargetReady, Linked, ScsiState
  <2>6. /\ n1 \in IF s.cdbPos = 0 THEN {6, 10, 12} ELSE {s.cdbLen}
        /\ s.cdbPos + 1 <= n1
    BY <2>1, <2>5
  <2>7. ConsumeDataOut(s, im, a) = IF s1.cdbPos < s1.cdbLen THEN s1
                                   ELSE IF im THEN ExecuteCdb(s1, a)
                                   ELSE [s1 EXCEPT !.ack = "ExecuteCdb"]
    BY <1>1 DEF ConsumeDataOut
  <2> HIDE DEF s1, o1, n1
  <2>8. /\ s1 \in ScsiState /\ s1.cdbPos = s.cdbPos + 1 /\ s1.cdbLen = n1
        /\ s1.phase = s.phase /\ s1.ack = s.ack /\ s1.icr = s.icr
        /\ s1.mr = s.mr /\ s1.dmaStart = s.dmaStart /\ s1.irq = s.irq
        /\ s1.sel = s.sel /\ s1.writeMode = s.writeMode /\ s1.writeLba = s.writeLba
        /\ s1.image = s.image /\ s1.readOnly = s.readOnly
    <3> HIDE DEF Upd
    <3> QED
      BY <2>2, <2>3, <2>4
  <2> HIDE DEF Upd
  <2>9. /\ s1.cdbLen \in IF s.cdbPos = 0 THEN {6, 10, 12} ELSE {s.cdbLen}
        /\ s1.cdbPos <= s1.cdbLen
    BY <2>6, <2>8
  <2>10. TookCommand(s, s1)
    BY <2>8, <2>9 DEF TookCommand, Alike
  <2> QED
    BY <2>7, <2>8, <2>10
<1>2. ASSUME s.phase = "DataOut"
      PROVE  \E s1 \in ScsiState :
                /\ TookData(s, s1)
                /\ ConsumeDataOut(s, im, a) = IF s1.xferPos < Len(s1.xfer) THEN s1
                                              ELSE IF im THEN FinishDataOut(s1)
                                              ELSE [s1 EXCEPT !.ack = "FinishDataOut"]
  <2> DEFINE xfer == [s.xfer EXCEPT ![s.xferPos + 1] = s.odr]
             Upd(x, k) == [s EXCEPT !.xfer = x, !.xferPos = k]
             s1 == Upd(xfer, s.xferPos + 1)
  <2>0. s.xfer \in Seq(Byte) /\ s.odr \in Byte /\ s.xferPos \in Nat /\ s.xferPos < Len(s.xfer)
    BY <1>2 DEF ScsiState, TargetReady
  <2>1. xfer \in Seq(Byte) /\ Len(xfer) = Len(s.xfer)
    BY <2>0, ExceptSeq
  <2>2. \A x \in Seq(Byte), k \in Nat :
          /\ Upd(x, k) \in ScsiState /\ Upd(x, k).xfer = x /\ Upd(x, k).xferPos = k
          /\ Upd(x, k).phase = s.phase /\ Upd(x, k).ack = s.ack /\ Upd(x, k).icr = s.icr
          /\ Upd(x, k).mr = s.mr /\ Upd(x, k).dmaStart = s.dmaStart /\ Upd(x, k).irq = s.irq
          /\ Upd(x, k).sel = s.sel /\ Upd(x, k).writeMode = s.writeMode
          /\ Upd(x, k).writeLba = s.writeLba
          /\ Upd(x, k).image = s.image /\ Upd(x, k).readOnly = s.readOnly
    <3>1. ASSUME NEW x \in Seq(Byte), NEW k \in Nat PROVE Upd(x, k) \in ScsiState
      BY DEF ScsiState
    <3>2. \A x, k :
          /\ Upd(x, k).xfer = x /\ Upd(x, k).xferPos = k
          /\ Upd(x, k).phase = s.phase /\ Upd(x, k).ack = s.ack /\ Upd(x, k).icr = s.icr
          /\ Upd(x, k).mr = s.mr /\ Upd(x, k).dmaStart = s.dmaStart /\ Upd(x, k).irq = s.irq
          /\ Upd(x, k).sel = s.sel /\ Upd(x, k).writeMode = s.writeMode
          /\ Upd(x, k).writeLba = s.writeLba
          /\ Upd(x, k).image = s.image /\ Upd(x, k).readOnly = s.readOnly
      BY DEF ScsiState
    <3> HIDE DEF Upd
    <3> QED
      BY <3>1, <3>2
  <2>3. ConsumeDataOut(s, im, a) = IF s1.xferPos < Len(s1.xfer) THEN s1
                                   ELSE IF im THEN FinishDataOut(s1)
                                   ELSE [s1 EXCEPT !.ack = "FinishDataOut"]
    <3>1. s1 = IF s.xferPos < Len(s.xfer)
               THEN [s EXCEPT !.xfer[s.xferPos + 1] = s.odr, !.xferPos = @ + 1] ELSE s
      BY <2>0 DEF ScsiState
    <3> HIDE DEF s1
    <3> QED
      BY <1>2, <3>1 DEF ConsumeDataOut
  <2>4. s.xferPos + 1 \in Nat /\ s.xferPos + 1 <= Len(s.xfer)
    BY <2>0
  <2>5. /\ s1 \in ScsiState /\ s1.xfer = xfer /\ s1.xferPos = s.xferPos + 1
        /\ s1.phase = s.phase /\ s1.ack = s.ack /\ s1.icr = s.icr
        /\ s1.mr = s.mr /\ s1.dmaStart = s.dmaStart /\ s1.irq = s.irq
        /\ s1.sel = s.sel /\ s1.writeMode = s.writeMode /\ s1.writeLba = s.writeLba
        /\ s1.image = s.image /\ s1.readOnly = s.readOnly
    <3> HIDE DEF Upd, xfer
    <3> QED
      BY <2>1, <2>2, <2>4
  <2> HIDE DEF s1, Upd
  <2>6. s1.xferPos <= Len(s1.xfer)
    <3> HIDE DEF xfer
    <3> QED
      BY <2>1, <2>4, <2>5
  <2>7. TookData(s, s1)
    BY <2>5, <2>6 DEF TookData, Alike
  <2> QED
    BY <2>3, <2>5, <2>7
<1> QED
  BY <1>1, <1>2

LEMMA ConsumeDataOutLinked ==
  ASSUME NEW s \in ScsiState, Linked(s), s.ack = "None", TargetReady(s),
         NEW im \in BOOLEAN, NEW a \in Operands
  PROVE  Linked(ConsumeDataOut(s, im, a))
<1>1. CASE s.phase = "Command"
  <2>1. PICK s1 \in ScsiState :
          /\ TookCommand(s, s1)
          /\ ConsumeDataOut(s, im, a) = IF s1.cdbPos < s1.cdbLen THEN s1
                                        ELSE IF im THEN ExecuteCdb(s1, a)
                                        ELSE [s1 EXCEPT !.ack = "ExecuteCdb"]
    BY <1>1, ConsumeDataOutOutcome
  <2>2. /\ s1.phase = "Command" /\ s1.ack = "None" /\ s1.sel
        /\ s1.cdbPos <= s1.cdbLen /\ s1.cdbPos \in Nat /\ s1.cdbPos # 0 /\ s1.cdbLen \in {6, 10, 12}
    BY <1>1, <2>1 DEF Linked, ScsiState, TookCommand, Alike
  <2>3. Linked(s1)
    BY <2>2 DEF Linked
  <2>4. CASE ~(s1.cdbPos < s1.cdbLen) /\ ~im
    BY <2>1, <2>2, <2>4 DEF Linked, ScsiState
  <2> QED
    BY <2>1, <2>2, <2>3, <2>4, ExecuteCdbLinked
<1>2. CASE s.phase = "DataOut"
  <2>1. PICK s1 \in ScsiState :
          /\ TookData(s, s1)
          /\ ConsumeDataOut(s, im, a) = IF s1.xferPos < Len(s1.xfer) THEN s1
                                        ELSE IF im THEN FinishDataOut(s1)
                                        ELSE [s1 EXCEPT !.ack = "FinishDataOut"]
    BY <1>2, ConsumeDataOutOutcome
  <2>2. /\ s1.phase = "DataOut" /\ s1.ack = "None" /\ s1.sel /\ s1.writeMode
        /\ s1.xferPos <= Len(s1.xfer) /\ s1.xferPos \in Nat /\ Len(s1.xfer) \in Nat
    BY <1>2, <2>1 DEF Linked, ScsiState, TookData, Alike
  <2>3. Linked(s1)
    BY <2>2 DEF Linked
  <2>4. CASE ~(s1.xferPos < Len(s1.xfer)) /\ ~im
    BY <2>1, <2>2, <2>4 DEF Linked, ScsiState
  <2> QED
    BY <2>1, <2>3, <2>4, FinishDataOutLinked
<1>3. CASE s.phase \notin {"Command", "DataOut"}
  BY <1>3 DEF ConsumeDataOut
<1> QED
  BY <1>1, <1>2, <1>3

\* What giving a byte does: nothing outside the three phases; in Data In it ends the
\* phase with the last byte.
LEMMA ConsumeDataInOutcome ==
  ASSUME NEW s \in ScsiState, TargetReady(s), NEW im \in BOOLEAN
  PROVE  /\ s.phase = "DataIn" =>
              \E s1 \in ScsiState :
                /\ s1 = [s EXCEPT !.xferPos = s.xferPos + 1] /\ s1.xferPos <= Len(s1.xfer)
                /\ LET more == s1.xferPos < Len(s1.xfer)
                   IN  ConsumeDataIn(s, im) = IF more THEN s1
                                              ELSE IF im THEN ToStatus(s1)
                                              ELSE [s1 EXCEPT !.ack = "ToStatus"]
         /\ s.phase = "Status" =>
              \E s1 \in ScsiState :
                /\ s1 = [s EXCEPT !.statusReady = FALSE]
                /\ ConsumeDataIn(s, im) = IF im THEN ToMsgIn(s1) ELSE [s1 EXCEPT !.ack = "ToMsgIn"]
         /\ s.phase = "MsgIn" =>
              \E s1 \in ScsiState :
                /\ s1 = [s EXCEPT !.msgReady = FALSE]
                /\ ConsumeDataIn(s, im) = IF im THEN [s1 EXCEPT !.phase = "BusFree"]
                                          ELSE [s1 EXCEPT !.ack = "BusFree"]
<1>1. ASSUME s.phase = "DataIn"
      PROVE  \E s1 \in ScsiState :
                /\ s1 = [s EXCEPT !.xferPos = s.xferPos + 1] /\ s1.xferPos <= Len(s1.xfer)
                /\ LET more == s1.xferPos < Len(s1.xfer)
                   IN  ConsumeDataIn(s, im) = IF more THEN s1
                                              ELSE IF im THEN ToStatus(s1)
                                              ELSE [s1 EXCEPT !.ack = "ToStatus"]
  <2> DEFINE k == s.xferPos + 1
             s1 == [s EXCEPT !.xferPos = k]
  <2>1. s.xferPos \in Nat /\ s.xferPos < Len(s.xfer) /\ Len(s.xfer) \in Nat
    BY <1>1 DEF TargetReady, ScsiState
  <2>2. ConsumeDataIn(s, im) = IF s1.xferPos < Len(s1.xfer) THEN s1
                               ELSE IF im THEN ToStatus(s1)
                               ELSE [s1 EXCEPT !.ack = "ToStatus"]
    BY <1>1, <2>1 DEF ConsumeDataIn
  <2>3. k \in Nat /\ k <= Len(s.xfer)
    BY <2>1
  <2> HIDE DEF k
  <2>4. s1 \in ScsiState /\ s1.xferPos = k /\ s1.xfer = s.xfer
    BY <2>3 DEF ScsiState
  <2> HIDE DEF s1
  <2> QED
    BY <2>2, <2>3, <2>4 DEF s1, k
<1>2. ASSUME s.phase = "Status"
      PROVE  \E s1 \in ScsiState :
                /\ s1 = [s EXCEPT !.statusReady = FALSE]
                /\ ConsumeDataIn(s, im) = IF im THEN ToMsgIn(s1) ELSE [s1 EXCEPT !.ack = "ToMsgIn"]
  <2>1. [s EXCEPT !.statusReady = FALSE] \in ScsiState
    BY DEF ScsiState
  <2> QED
    BY <1>2, <2>1 DEF ConsumeDataIn
<1>3. ASSUME s.phase = "MsgIn"
      PROVE  \E s1 \in ScsiState :
                /\ s1 = [s EXCEPT !.msgReady = FALSE]
                /\ ConsumeDataIn(s, im) = IF im THEN [s1 EXCEPT !.phase = "BusFree"]
                                          ELSE [s1 EXCEPT !.ack = "BusFree"]
  <2>1. [s EXCEPT !.msgReady = FALSE] \in ScsiState
    BY DEF ScsiState
  <2> QED
    BY <1>3, <2>1 DEF ConsumeDataIn
<1> QED
  BY <1>1, <1>2, <1>3

LEMMA ConsumeDataInLinked ==
  ASSUME NEW s \in ScsiState, Linked(s), s.ack = "None", TargetReady(s), NEW im \in BOOLEAN
  PROVE  Linked(ConsumeDataIn(s, im))
<1>1. CASE s.phase = "DataIn"
  <2>1. PICK s1 \in ScsiState :
          /\ s1 = [s EXCEPT !.xferPos = s.xferPos + 1] /\ s1.xferPos <= Len(s1.xfer)
          /\ LET more == s1.xferPos < Len(s1.xfer)
             IN  ConsumeDataIn(s, im) = IF more THEN s1
                                        ELSE IF im THEN ToStatus(s1)
                                        ELSE [s1 EXCEPT !.ack = "ToStatus"]
    BY <1>1, ConsumeDataInOutcome
  <2>2. s1.phase = "DataIn" /\ s1.ack = "None" /\ s1.xferPos \in Nat /\ Len(s1.xfer) \in Nat
    BY <1>1, <2>1 DEF ScsiState
  <2>3. Linked(s1)
    BY <2>1, <2>2 DEF Linked
  <2>4. CASE ~(s1.xferPos < Len(s1.xfer)) /\ ~im
    <3>1. ConsumeDataIn(s, im) = [s1 EXCEPT !.ack = "ToStatus"]
      BY <2>1, <2>4
    <3> QED
      BY <2>1, <2>2, <2>4, <3>1 DEF Linked, ScsiState
  <2> QED
    BY <2>1, <2>3, <2>4, ToStatusLinked
<1>2. CASE s.phase = "Status"
  <2>1. PICK s1 \in ScsiState :
          /\ s1 = [s EXCEPT !.statusReady = FALSE]
          /\ ConsumeDataIn(s, im) = IF im THEN ToMsgIn(s1) ELSE [s1 EXCEPT !.ack = "ToMsgIn"]
    BY <1>2, ConsumeDataInOutcome
  <2>2. s1.phase = "Status" /\ s1.ack = "None" /\ ~s1.statusReady
    BY <1>2, <2>1 DEF ScsiState
  <2>3. Linked([s1 EXCEPT !.ack = "ToMsgIn"])
    BY <2>2 DEF Linked, ScsiState
  <2> QED
    BY <2>1, <2>2, <2>3, ToMsgInLinked
<1>3. CASE s.phase = "MsgIn"
  <2>1. PICK s1 \in ScsiState :
          /\ s1 = [s EXCEPT !.msgReady = FALSE]
          /\ ConsumeDataIn(s, im) = IF im THEN [s1 EXCEPT !.phase = "BusFree"]
                                    ELSE [s1 EXCEPT !.ack = "BusFree"]
    BY <1>3, ConsumeDataInOutcome
  <2>2. s1.phase = "MsgIn" /\ s1.ack = "None" /\ ~s1.msgReady
    BY <1>3, <2>1 DEF ScsiState
  <2>3. Linked([s1 EXCEPT !.ack = "BusFree"]) /\ Linked([s1 EXCEPT !.phase = "BusFree"])
    BY <2>2 DEF Linked, ScsiState
  <2> QED
    BY <2>1, <2>3
<1>4. CASE s.phase \notin {"DataIn", "Status", "MsgIn"}
  BY <1>4 DEF ConsumeDataIn
<1> QED
  BY <1>1, <1>2, <1>3, <1>4

LEMMA FinishAckHandshakeLinked ==
  ASSUME NEW s \in ScsiState, Linked(s), NEW a \in Operands
  PROVE  Linked(FinishAckHandshake(s, a))
<1> DEFINE s1 == [s EXCEPT !.ack = "None"]
<1>1. s1 \in ScsiState /\ s1.ack = "None" /\ s.ack \in AckCompletions
  BY DEF ScsiState, AckCompletions
<1>2. CASE s.ack = "BusFree"
  <2>1. FinishAckHandshake(s, a) = [s1 EXCEPT !.phase = "BusFree", !.sel = FALSE]
    BY <1>2 DEF FinishAckHandshake
  <2> HIDE DEF s1
  <2> QED
    BY <1>1, <2>1 DEF Linked, ScsiState
<1>3. CASE s.ack = "None"
  <2>1. FinishAckHandshake(s, a) = s1 /\ s1 = s
    BY <1>3 DEF FinishAckHandshake, ScsiState
  <2> QED
    BY <2>1
<1>4. CASE s.ack \in {"ExecuteCdb", "FinishDataOut", "ToStatus", "ToMsgIn"}
  <2> HIDE DEF s1
  <2> QED
    BY <1>1, <1>4, ExecuteCdbLinked, FinishDataOutLinked, ToStatusLinked, ToMsgInLinked
    DEF FinishAckHandshake, s1
<1> QED
  BY <1>1, <1>2, <1>3, <1>4 DEF AckCompletions

\* With /ACK released the target has the byte it is asked for, or is asked for none.
LEMMA WriteDataOutLinked ==
  ASSUME NEW s, Sound(s), Linked(s), NEW v \in Byte, NEW a \in Operands
  PROVE  Linked(WriteDataOut(s, v, a))
<1> DEFINE s1 == [s EXCEPT !.odr = v]
<1>0. s \in ScsiState
  BY DEF Sound
<1>1. s1 \in ScsiState /\ Linked(s1) /\ s1.ack = s.ack /\ s1.icr = s.icr
  BY <1>0 DEF ScsiState, Linked
<1>2. CASE ReqAsserted(s1)
  <2>1. s1.ack = "None" /\ TargetReady(s1)
    BY <1>1, <1>2 DEF ReqAsserted, Sound, Handshake
  <2> HIDE DEF s1
  <2> QED
    BY <1>1, <2>1, ConsumeDataOutLinked DEF WriteDataOut, s1
<1>3. CASE ~ReqAsserted(s1)
  BY <1>1, <1>3 DEF WriteDataOut
<1> QED
  BY <1>2, <1>3

LEMMA WriteIcrLinked ==
  ASSUME NEW s, Sound(s), Linked(s), NEW v \in SUBSET IcrLines, NEW a \in Operands
  PROVE  Linked(WriteIcr(s, v, a))
<1> DEFINE s1 == [s EXCEPT !.icr = v]
           selecting == /\ "SEL" \in v /\ "BSY" \notin v
                        /\ s.phase \in {"BusFree", "Arbitration"}
                        /\ FindTarget(s)
           s2 == IF selecting THEN EnterCommand(s1) ELSE s1
           s3 == IF "ACK" \in v \ s.icr /\ ReqAsserted(s) THEN AcceptAckByte(s2, a) ELSE s2
<1>0. s \in ScsiState /\ Handshake(s)
  BY DEF Sound
<1>1. s1 \in ScsiState /\ Linked(s1) /\ s1.ack = s.ack /\ (TargetReady(s1) <=> TargetReady(s))
  BY SMTT(60), <1>0 DEF ScsiState, Linked, TargetReady
<1>2. s2 \in ScsiState /\ Linked(s2)
  BY <1>1, EnterCommandLinked, EnterCommandSound DEF Sound
<1>3. CASE "RST" \in v
  <2>1. WriteIcr(s, v, a) = BusReset(s1)
    BY <1>3 DEF WriteIcr
  <2> QED
    BY <1>1, <2>1 DEF BusReset, Linked, ScsiState
<1>4. CASE "RST" \notin v /\ "ACK" \in s.icr \ v
  <2>1. WriteIcr(s, v, a) = FinishAckHandshake(s2, a)
    BY <1>4 DEF WriteIcr
  <2> HIDE DEF s2
  <2> QED
    BY <1>2, <2>1, FinishAckHandshakeLinked
<1>5. CASE "RST" \notin v /\ "ACK" \in v \ s.icr /\ ReqAsserted(s)
  <2>1. WriteIcr(s, v, a) = AcceptAckByte(s2, a)
    BY <1>5 DEF WriteIcr
  <2>2. TargetReady(s) /\ s.ack = "None" /\ ~selecting
    BY <1>0, <1>5 DEF ReqAsserted, TargetReady, Handshake
  <2>3. s2 = s1
    BY <2>2
  <2> HIDE DEF s1, s2
  <2> QED
    BY <1>1, <2>1, <2>2, <2>3, ConsumeDataOutLinked, ConsumeDataInLinked DEF AcceptAckByte
<1>6. CASE "RST" \notin v /\ "ACK" \notin s.icr \ v /\ ~("ACK" \in v \ s.icr /\ ReqAsserted(s))
  <2>1. WriteIcr(s, v, a) = s2
    BY <1>6 DEF WriteIcr
  <2> QED
    BY <1>2, <2>1
<1> QED
  BY <1>3, <1>4, <1>5, <1>6

-----------------------------------------------------------------------------
(* The refinement's invariant                                              *)

LInv == IInv /\ Linked(scsi)

LEMMA InitLinked == Init => LInv
<1>1. Init => Linked(scsi)
  BY DEF Init, PowerOn, Linked
<1> QED
  BY <1>1, InitSound DEF LInv

LEMMA NextLinked ==
  ASSUME ~MixedHandshake, LInv, [Next]_scsi
  PROVE  LInv'
<1> SUFFICES Linked(scsi')
  BY NextSound DEF LInv
<1>0. Sound(scsi) /\ scsi \in ScsiState /\ Linked(scsi)
  BY DEF LInv, IInv, Sound
<1>1. CASE WriteOdrReg
  BY <1>0, <1>1, BusBytesAssumption, WriteDataOutLinked DEF WriteOdrReg
<1>2. CASE WriteIcrReg
  <2>1. PICK v \in IcrWrites, a \in Operands : scsi' = WriteIcr(scsi, v, a)
    BY <1>2 DEF WriteIcrReg
  <2>2. v \in SUBSET IcrLines
    BY RegisterAssumption
  <2> QED
    BY <1>0, <2>1, <2>2, WriteIcrLinked
<1>3. CASE WriteMrReg
  BY <1>0, <1>3 DEF WriteMrReg, WriteMr, ScsiState, Linked
<1>4. CASE WriteTcrReg
  BY <1>0, <1>4 DEF WriteTcrReg, ScsiState, Linked
<1>5. CASE StartDma
  BY <1>0, <1>5 DEF StartDma, ScsiState, Linked
<1>6. CASE ReadIdr
  <2>1. "ACK" \notin scsi.icr /\ scsi' = ConsumeDataIn(scsi, TRUE)
    BY <1>6 DEF ReadIdr, DmaDataIn
  <2>2. scsi.ack = "None"
    BY <1>0, <2>1 DEF Sound, Handshake
  <2>3. CASE Busy(scsi)
    <3>1. TargetReady(scsi)
      BY <1>0, <2>2, <2>3 DEF Sound, Handshake
    <3> QED
      BY <1>0, <2>1, <2>2, <3>1, ConsumeDataInLinked
  <2>4. CASE ~Busy(scsi)
    BY <1>0, <2>1, <2>4 DEF ConsumeDataIn, Busy
  <2> QED
    BY <2>3, <2>4
<1>7. CASE ClearIrq
  BY <1>0, <1>7 DEF ClearIrq, ScsiState, Linked
<1>8. CASE EndOfProcess
  BY <1>0, <1>8 DEF EndOfProcess, SignalEndOfProcess, ScsiState, Linked
<1>9. CASE Reset
  BY <1>0, <1>9 DEF Reset, ResetChip, ScsiState, Linked
<1>10. CASE InsertDisk
  BY <1>0, <1>10 DEF InsertDisk, ScsiState, Linked
<1>11. CASE RemoveDisk
  BY <1>0, <1>11 DEF RemoveDisk, ScsiState, Linked
<1>12. CASE UNCHANGED scsi
  BY <1>0, <1>12
<1> QED
  BY <1>1, <1>2, <1>3, <1>4, <1>5, <1>6, <1>7, <1>8, <1>9, <1>10, <1>11, <1>12
  DEF Next, RegisterAccess

-----------------------------------------------------------------------------
(* The chip implements ScsiBusSpec, step by step                           *)

\* What the bus shows in each phase.
LEMMA BusView ==
  ASSUME NEW t
  PROVE  /\ t.phase \in {"BusFree", "Arbitration"} =>
              BusMoved(t) = 0 /\ BusDue(t) = 0 /\ BusData(t) = << >> /\ BusAt(t) = 0
         /\ t.phase = "Command" =>
              BusMoved(t) = t.cdbPos /\ BusDue(t) = t.cdbLen /\ BusData(t) = << >> /\ BusAt(t) = 0
         /\ t.phase = "DataOut" =>
              /\ BusMoved(t) = t.xferPos /\ BusDue(t) = Len(t.xfer)
              /\ BusData(t) = SubSeq(t.xfer, 1, t.xferPos) /\ BusAt(t) = t.writeLba
         /\ t.phase = "DataIn" =>
              /\ BusMoved(t) = t.xferPos /\ BusDue(t) = Len(t.xfer)
              /\ BusData(t) = t.xfer /\ BusAt(t) = 0
         /\ t.phase = "Status" =>
              /\ BusMoved(t) = IF t.statusReady THEN 0 ELSE 1
              /\ BusDue(t) = 1 /\ BusData(t) = << >> /\ BusAt(t) = 0
         /\ t.phase = "MsgIn" =>
              /\ BusMoved(t) = IF t.msgReady THEN 0 ELSE 1
              /\ BusDue(t) = 1 /\ BusData(t) = << >> /\ BusAt(t) = 0
BY DEF BusMoved, BusDue, BusData, BusAt

LEMMA StatusView ==
  ASSUME NEW s \in ScsiState, NEW t, t = ToStatus(s)
  PROVE  /\ t.phase = "Status" /\ BusMoved(t) = 0 /\ BusDue(t) = 1
         /\ BusData(t) = << >> /\ BusAt(t) = 0
         /\ t.image = s.image /\ t.readOnly = s.readOnly
<1>1. t.phase = "Status" /\ t.statusReady /\ t.image = s.image /\ t.readOnly = s.readOnly
  BY DEF ToStatus, ScsiState
<1> QED
  BY <1>1, BusView

LEMMA ExecuteStep ==
  ASSUME scsi \in ScsiState, scsi.phase = "Command",
         scsi.cdbPos \in {scsi.cdbLen - 1, scsi.cdbLen},
         NEW s1 \in ScsiState, s1.image = scsi.image, s1.readOnly = scsi.readOnly,
         NEW a \in Operands, scsi' = ExecuteCdb(s1, a)
  PROVE  Bus!Next
<1>0. BusMoved(scsi) = scsi.cdbPos /\ BusDue(scsi) = scsi.cdbLen
  BY BusView
<1>1. CASE \E s2 \in ScsiState : /\ scsi' = ToStatus(s2)
                                 /\ s2.image = s1.image /\ s2.readOnly = s1.readOnly
  BY <1>0, <1>1, StatusView
  DEF Bus!Next, Bus!Execute, Bus!AllMoved, Bus!Enter, Bus!Quiet, Bus!disk
<1>2. CASE /\ scsi'.phase = "DataOut" /\ scsi'.writeMode /\ scsi'.sel /\ scsi'.writeLba \in Nat
           /\ \E n \in Nat : Len(scsi'.xfer) = n * BlockLen /\ n * BlockLen > 0
           /\ scsi'.xfer \in Seq(Byte) /\ scsi'.xferPos = 0 /\ scsi'.ack = s1.ack
           /\ scsi'.image = s1.image /\ scsi'.readOnly = s1.readOnly
  <2>1. /\ BusMoved(scsi') = 0 /\ BusDue(scsi') = Len(scsi'.xfer)
        /\ BusData(scsi') = SubSeq(scsi'.xfer, 1, 0) /\ BusAt(scsi') = scsi'.writeLba
    BY <1>2, BusView
  <2>2. SubSeq(scsi'.xfer, 1, 0) = << >>
    BY <1>2
  <2>3. Len(scsi'.xfer) > 0 /\ Len(scsi'.xfer) % BlockLen = 0
    <3>1. \A n \in Nat : (n * BlockLen) % BlockLen = 0
      BY BlockLenAssumption
    <3> QED
      BY <1>2, <3>1
  <2> QED
    BY <1>0, <1>2, <2>1, <2>2, <2>3
    DEF Bus!Next, Bus!Execute, Bus!AllMoved, Bus!Enter, Bus!disk
<1>3. CASE /\ scsi'.phase = "DataIn" /\ scsi'.xfer # << >> /\ scsi'.xfer \in Replies(s1.image)
           /\ scsi'.xfer \in Seq(Byte) /\ scsi'.xferPos = 0 /\ scsi'.ack = s1.ack
           /\ scsi'.image = s1.image /\ scsi'.readOnly = s1.readOnly
  <2>1. /\ BusMoved(scsi') = 0 /\ BusDue(scsi') = Len(scsi'.xfer)
        /\ BusData(scsi') = scsi'.xfer /\ BusAt(scsi') = 0
    BY <1>3, BusView
  <2>2. scsi'.xfer \in Bus!BlockRun \cup {<< b >> : b \in Byte}
    <3>1. \A i, j : Run(scsi.image, i, j) = Bus!Blocks(i, j)
      BY DEF Run, Bus!Blocks
    <3>2. Runs(scsi.image) \ {<< >>} = Bus!BlockRun
      BY <3>1 DEF Runs, Bus!BlockRun
    <3> QED
      BY <1>3, <3>2 DEF Replies
  <2> QED
    BY <1>0, <1>3, <2>1, <2>2
    DEF Bus!Next, Bus!Execute, Bus!AllMoved, Bus!Enter, Bus!disk
<1> QED
  BY <1>1, <1>2, <1>3, ExecuteCdbOutcome

LEMMA CommitStep ==
  ASSUME scsi \in ScsiState, scsi.phase = "DataOut",
         NEW s1 \in ScsiState, s1.sel, s1.writeMode, s1.writeLba = scsi.writeLba,
         s1.image = scsi.image, s1.readOnly = scsi.readOnly,
         NEW last \in {<< >>} \cup {<< b >> : b \in Byte},
         Len(last) = Len(scsi.xfer) - scsi.xferPos,
         s1.xfer = SubSeq(scsi.xfer, 1, scsi.xferPos) \o last,
         scsi' = FinishDataOut(s1)
  PROVE  Bus!Next
<1> DEFINE image == AcceptWrite(s1)
           s2 == [s1 EXCEPT !.image = image, !.writeMode = FALSE]
<1>1. image \in Seq(Byte)
  BY AcceptWriteType
<1>2. scsi' = ToStatus(s2)
  BY DEF FinishDataOut
<1>3. image = IF scsi.readOnly THEN scsi.image
              ELSE Bus!Overlay(scsi.image, BusAt(scsi) * BlockLen, BusData(scsi) \o last)
  BY BusView DEF AcceptWrite, Overlay, Bus!Overlay
<1> HIDE DEF image
<1>4. s2 \in ScsiState /\ s2.image = image /\ s2.readOnly = scsi.readOnly
  BY <1>1 DEF ScsiState
<1>5. /\ scsi'.phase = "Status" /\ BusMoved(scsi') = 0 /\ BusDue(scsi') = 1
      /\ BusData(scsi') = << >> /\ BusAt(scsi') = 0
      /\ scsi'.image = image /\ scsi'.readOnly = scsi.readOnly
  <2> HIDE DEF s2
  <2> QED
    BY <1>2, <1>4, StatusView
<1>6. /\ BusMoved(scsi) \in {BusDue(scsi) - 1, BusDue(scsi)}
      /\ Len(last) = BusDue(scsi) - BusMoved(scsi)
  <2>1. BusMoved(scsi) = scsi.xferPos /\ BusDue(scsi) = Len(scsi.xfer)
    BY BusView
  <2>2. scsi.xferPos \in Nat /\ Len(scsi.xfer) \in Nat
    BY DEF ScsiState
  <2>3. Len(last) = 0 \/ Len(last) = 1
    <3>1. CASE last = << >>
      BY <3>1
    <3>2. ASSUME NEW b \in Byte, last = << b >>
          PROVE  Len(last) = 1
      BY <3>2
    <3> QED
      BY <3>1, <3>2
  <2> QED
    BY <2>1, <2>2, <2>3
<1>7. Bus!Commit
  BY <1>3, <1>5, <1>6 DEF Bus!Commit, Bus!AllMoved, Bus!Enter, Bus!Quiet
<1> QED
  BY <1>7 DEF Bus!Next

LEMMA EndReadStep ==
  ASSUME scsi \in ScsiState, scsi.phase = "DataIn",
         scsi.xferPos \in {Len(scsi.xfer) - 1, Len(scsi.xfer)},
         NEW s1 \in ScsiState, s1.image = scsi.image, s1.readOnly = scsi.readOnly,
         scsi' = ToStatus(s1)
  PROVE  Bus!Next
<1>1. BusMoved(scsi) = scsi.xferPos /\ BusDue(scsi) = Len(scsi.xfer)
  BY BusView
<1> QED
  BY <1>1, StatusView DEF Bus!Next, Bus!EndRead, Bus!AllMoved, Bus!Enter, Bus!Quiet, Bus!disk

LEMMA CompleteStep ==
  ASSUME scsi.phase = "Status",
         NEW s1 \in ScsiState, s1.image = scsi.image, s1.readOnly = scsi.readOnly,
         scsi' = ToMsgIn(s1)
  PROVE  Bus!Next
<1>1. BusMoved(scsi) \in {0, 1} /\ BusDue(scsi) = 1
  BY BusView
<1>2. /\ scsi'.phase = "MsgIn" /\ scsi'.msgReady
      /\ scsi'.image = scsi.image /\ scsi'.readOnly = scsi.readOnly
  BY DEF ToMsgIn, ScsiState
<1>3. BusMoved(scsi') = 0 /\ BusDue(scsi') = 1 /\ BusData(scsi') = << >> /\ BusAt(scsi') = 0
  BY <1>2, BusView
<1> QED
  BY <1>1, <1>2, <1>3 DEF Bus!Next, Bus!Complete, Bus!AllMoved, Bus!Enter, Bus!Quiet, Bus!disk

\* The bus goes free, after its last message byte or because it was reset.
LEMMA FreeStep ==
  ASSUME scsi'.phase = "BusFree", scsi'.image = scsi.image, scsi'.readOnly = scsi.readOnly
  PROVE  Bus!Next
<1>1. BusMoved(scsi') = 0 /\ BusDue(scsi') = 0 /\ BusData(scsi') = << >> /\ BusAt(scsi') = 0
  BY BusView
<1> QED
  BY <1>1 DEF Bus!Next, Bus!Abort, Bus!Enter, Bus!Quiet, Bus!disk

\* One byte more, in a phase that does not take a write's data.
LEMMA MoveStep ==
  ASSUME scsi.phase \in {"Command", "DataIn", "Status", "MsgIn"}, scsi'.phase = scsi.phase,
         BusMoved(scsi) < BusDue(scsi), BusMoved(scsi') = BusMoved(scsi) + 1,
         BusDue(scsi') \in IF scsi.phase = "Command" /\ BusMoved(scsi) = 0 THEN {6, 10, 12}
                           ELSE {BusDue(scsi)},
         scsi.phase = "DataIn" => scsi'.xfer = scsi.xfer,
         scsi'.image = scsi.image, scsi'.readOnly = scsi.readOnly
  PROVE  Bus!Next
<1>1. BusData(scsi') = BusData(scsi) /\ BusAt(scsi') = BusAt(scsi)
  BY BusView
<1> QED
  BY <1>1 DEF Bus!Next, Bus!Move, Bus!Free

\* The fields that the bus shows or that its further course depends on.
SameBus(s, t) ==
  /\ t.phase = s.phase /\ t.cdbPos = s.cdbPos /\ t.cdbLen = s.cdbLen
  /\ t.xfer = s.xfer /\ t.xferPos = s.xferPos
  /\ t.statusReady = s.statusReady /\ t.msgReady = s.msgReady
  /\ t.sel = s.sel /\ t.writeMode = s.writeMode /\ t.writeLba = s.writeLba
  /\ t.image = s.image /\ t.readOnly = s.readOnly

LEMMA SameBusStutters ==
  ASSUME SameBus(scsi, scsi')
  PROVE  UNCHANGED Bus!vars
BY DEF SameBus, Bus!vars, BusMoved, BusDue, BusData, BusAt

\* Writing the last byte into its place appends it to what has been sent.
LEMMA PlaceAppends ==
  ASSUME NEW xfer \in Seq(Byte), NEW b \in Byte, NEW k \in Nat, k < Len(xfer)
  PROVE  SubSeq([xfer EXCEPT ![k + 1] = b], 1, k + 1) = Append(SubSeq(xfer, 1, k), b)
<1> DEFINE new == [xfer EXCEPT ![k + 1] = b]
           l == SubSeq(new, 1, k + 1)
           r == Append(SubSeq(xfer, 1, k), b)
<1>0. Len(xfer) \in Nat /\ k + 1 \in Nat /\ k + 1 <= Len(xfer)
  OBVIOUS
<1>1. new \in Seq(Byte) /\ Len(new) = Len(xfer)
  BY <1>0, ExceptSeq
<1>2. \A i \in 1..Len(xfer) : new[i] = IF i = k + 1 THEN b ELSE xfer[i]
  BY <1>0
<1> HIDE DEF new
<1>3. /\ l \in Seq(Byte) /\ Len(l) = k + 1
      /\ \A i \in 1..(k + 1) : l[i] = new[i]
  BY <1>0, <1>1
<1>4. /\ SubSeq(xfer, 1, k) \in Seq(Byte) /\ Len(SubSeq(xfer, 1, k)) = k
      /\ \A i \in 1..k : SubSeq(xfer, 1, k)[i] = xfer[i]
  BY <1>0
<1>5. /\ r \in Seq(Byte) /\ Len(r) = k + 1
      /\ \A i \in 1..(k + 1) : r[i] = IF i = k + 1 THEN b ELSE xfer[i]
  <2> DEFINE q == SubSeq(xfer, 1, k)
  <2> HIDE DEF q
  <2> QED
    BY <1>0, <1>4 DEF q
<1> HIDE DEF l, r
<1>6. \A i \in 1..(k + 1) : l[i] = r[i]
  BY <1>0, <1>2, <1>3, <1>5
<1>7. l = r
  BY <1>0, <1>3, <1>5, <1>6, SeqEqual
<1> QED
  BY <1>7 DEF l, r, new

LEMMA CommandByteStep ==
  ASSUME scsi \in ScsiState, Linked(scsi), scsi.phase = "Command",
         NEW s \in ScsiState, SameBus(scsi, s), Linked(s), TargetReady(s),
         NEW im \in BOOLEAN, NEW a \in Operands, scsi' = ConsumeDataOut(s, im, a)
  PROVE  Bus!Next
<1>1. PICK s1 \in ScsiState :
         /\ TookCommand(s, s1)
         /\ ConsumeDataOut(s, im, a) = IF s1.cdbPos < s1.cdbLen THEN s1
                                       ELSE IF im THEN ExecuteCdb(s1, a)
                                       ELSE [s1 EXCEPT !.ack = "ExecuteCdb"]
  BY ConsumeDataOutOutcome DEF SameBus
<1>2. /\ s1.phase = "Command" /\ s1.cdbPos = scsi.cdbPos + 1 /\ s1.cdbPos <= s1.cdbLen
      /\ s1.cdbLen \in IF scsi.cdbPos = 0 THEN {6, 10, 12} ELSE {scsi.cdbLen}
      /\ s1.image = scsi.image /\ s1.readOnly = scsi.readOnly
  BY <1>1 DEF TookCommand, Alike, SameBus
<1>3. /\ scsi.cdbPos \in Nat /\ scsi.cdbLen \in {6, 10, 12} /\ scsi.cdbPos < scsi.cdbLen
      /\ BusMoved(scsi) = scsi.cdbPos /\ BusDue(scsi) = scsi.cdbLen
  BY BusView DEF Linked, ScsiState, TargetReady, SameBus
<1>4. CASE ~(s1.cdbPos < s1.cdbLen) /\ im
  <2>1. scsi.cdbPos \in {scsi.cdbLen - 1, scsi.cdbLen}
    BY <1>2, <1>3, <1>4
  <2> QED
    BY <1>1, <1>2, <1>4, <2>1, ExecuteStep
<1>5. CASE s1.cdbPos < s1.cdbLen \/ ~im
  <2>1. scsi' = s1 \/ scsi' = [s1 EXCEPT !.ack = "ExecuteCdb"]
    BY <1>1, <1>5
  <2>2. /\ scsi'.phase = "Command" /\ scsi'.cdbPos = s1.cdbPos /\ scsi'.cdbLen = s1.cdbLen
        /\ scsi'.image = scsi.image /\ scsi'.readOnly = scsi.readOnly
    BY <1>2, <2>1 DEF ScsiState
  <2>3. BusMoved(scsi') = scsi.cdbPos + 1 /\ BusDue(scsi') = s1.cdbLen
    BY <1>2, <2>2, BusView
  <2> QED
    BY <1>2, <1>3, <2>2, <2>3, MoveStep
<1> QED
  BY <1>4, <1>5

LEMMA DataByteStep ==
  ASSUME scsi \in ScsiState, Linked(scsi), scsi.phase = "DataOut",
         NEW s \in ScsiState, SameBus(scsi, s), Linked(s), TargetReady(s),
         NEW im \in BOOLEAN, NEW a \in Operands, scsi' = ConsumeDataOut(s, im, a)
  PROVE  Bus!Next
<1>1. PICK s1 \in ScsiState :
         /\ TookData(s, s1)
         /\ ConsumeDataOut(s, im, a) = IF s1.xferPos < Len(s1.xfer) THEN s1
                                       ELSE IF im THEN FinishDataOut(s1)
                                       ELSE [s1 EXCEPT !.ack = "FinishDataOut"]
  BY ConsumeDataOutOutcome DEF SameBus
<1>2. /\ s1.phase = "DataOut" /\ s1.xferPos = scsi.xferPos + 1 /\ s1.xferPos <= Len(s1.xfer)
      /\ s1.xfer = [scsi.xfer EXCEPT ![scsi.xferPos + 1] = s.odr]
      /\ s1.sel = scsi.sel /\ s1.writeMode = scsi.writeMode /\ s1.writeLba = scsi.writeLba
      /\ s1.image = scsi.image /\ s1.readOnly = scsi.readOnly
  BY <1>1 DEF TookData, Alike, SameBus
<1>3. /\ scsi.xfer \in Seq(Byte) /\ Len(scsi.xfer) \in Nat /\ s.odr \in Byte
      /\ scsi.xferPos \in Nat /\ scsi.xferPos < Len(scsi.xfer) /\ scsi.sel /\ scsi.writeMode
  BY DEF Linked, ScsiState, TargetReady, SameBus
<1>4. Len(s1.xfer) = Len(scsi.xfer)
  BY <1>2, <1>3, ExceptSeq
<1>5. /\ SubSeq(s1.xfer, 1, scsi.xferPos + 1) = Append(SubSeq(scsi.xfer, 1, scsi.xferPos), s.odr)
      /\ SubSeq(scsi.xfer, 1, scsi.xferPos) \in Seq(Byte)
  <2>1. SubSeq(s1.xfer, 1, scsi.xferPos + 1) = Append(SubSeq(scsi.xfer, 1, scsi.xferPos), s.odr)
    <3>1. SubSeq([scsi.xfer EXCEPT ![scsi.xferPos + 1] = s.odr], 1, scsi.xferPos + 1)
            = Append(SubSeq(scsi.xfer, 1, scsi.xferPos), s.odr)
      BY <1>3, PlaceAppends
    <3> QED
      BY <1>2, <3>1
  <2> QED
    BY <1>3, <2>1
<1>6. CASE ~(s1.xferPos < Len(s1.xfer)) /\ im
  <2> DEFINE last == << s.odr >>
  <2>1. scsi.xferPos + 1 = Len(scsi.xfer)
    BY <1>2, <1>3, <1>4, <1>6
  <2>2. Len(last) = Len(scsi.xfer) - scsi.xferPos /\ last \in {<< >>} \cup {<< b >> : b \in Byte}
    BY <1>3, <2>1
  <2>3. s1.xfer = SubSeq(s1.xfer, 1, scsi.xferPos + 1)
    <3>1. s1.xfer \in Seq(Byte) /\ Len(s1.xfer) = scsi.xferPos + 1
      BY <1>4, <2>1 DEF ScsiState
    <3> QED
      BY <3>1
  <2>4. s1.xfer = SubSeq(scsi.xfer, 1, scsi.xferPos) \o last
    <3> DEFINE sent == SubSeq(scsi.xfer, 1, scsi.xferPos)
    <3> HIDE DEF sent
    <3>0. sent \in Seq(Byte)
      BY <1>5 DEF sent
    <3>1. Append(sent, s.odr) = sent \o << s.odr >>
      BY <1>3, <3>0
    <3> QED
      BY <1>5, <2>3, <3>1 DEF sent
  <2>5. scsi' = FinishDataOut(s1)
    BY <1>1, <1>6
  <2> HIDE DEF last
  <2> QED
    BY <1>2, <1>3, <2>2, <2>4, <2>5, CommitStep
<1>7. CASE s1.xferPos < Len(s1.xfer) \/ ~im
  <2>1. scsi' = s1 \/ scsi' = [s1 EXCEPT !.ack = "FinishDataOut"]
    BY <1>1, <1>7
  <2>2. /\ scsi'.phase = "DataOut" /\ scsi'.xferPos = scsi.xferPos + 1 /\ scsi'.xfer = s1.xfer
        /\ scsi'.writeLba = scsi.writeLba
        /\ scsi'.image = scsi.image /\ scsi'.readOnly = scsi.readOnly
    BY <1>2, <2>1 DEF ScsiState
  <2>3. /\ BusMoved(scsi) = scsi.xferPos /\ BusDue(scsi) = Len(scsi.xfer)
        /\ BusMoved(scsi') = scsi.xferPos + 1 /\ BusDue(scsi') = Len(scsi.xfer)
        /\ BusData(scsi') = Append(BusData(scsi), s.odr) /\ BusAt(scsi') = BusAt(scsi)
    BY <1>4, <1>5, <2>2, BusView
  <2> QED
    BY <1>3, <2>2, <2>3 DEF Bus!Next, Bus!Move, Bus!Free
<1> QED
  BY <1>6, <1>7

LEMMA ByteInStep ==
  ASSUME scsi \in ScsiState, scsi.phase \in {"DataIn", "Status", "MsgIn"},
         NEW s \in ScsiState, SameBus(scsi, s), TargetReady(s),
         NEW im \in BOOLEAN, scsi' = ConsumeDataIn(s, im)
  PROVE  Bus!Next
<1>1. CASE scsi.phase = "DataIn"
  <2>1. PICK s1 \in ScsiState :
          /\ s1 = [s EXCEPT !.xferPos = s.xferPos + 1] /\ s1.xferPos <= Len(s1.xfer)
          /\ LET more == s1.xferPos < Len(s1.xfer)
             IN  ConsumeDataIn(s, im) = IF more THEN s1
                                        ELSE IF im THEN ToStatus(s1)
                                        ELSE [s1 EXCEPT !.ack = "ToStatus"]
    BY <1>1, ConsumeDataInOutcome DEF SameBus
  <2>2. /\ s1.phase = "DataIn" /\ s1.xferPos = scsi.xferPos + 1 /\ s1.xfer = scsi.xfer
        /\ s1.image = scsi.image /\ s1.readOnly = scsi.readOnly
        /\ scsi.xferPos \in Nat /\ Len(scsi.xfer) \in Nat /\ scsi.xferPos < Len(scsi.xfer)
    BY <1>1, <2>1 DEF ScsiState, SameBus, TargetReady
  <2>3. BusMoved(scsi) = scsi.xferPos /\ BusDue(scsi) = Len(scsi.xfer)
    BY <1>1, BusView
  <2>4. CASE ~(s1.xferPos < Len(s1.xfer)) /\ im
    <3>1. scsi.xferPos \in {Len(scsi.xfer) - 1, Len(scsi.xfer)}
      BY <2>2, <2>4
    <3> QED
      BY <1>1, <2>1, <2>2, <2>4, <3>1, EndReadStep
  <2>5. CASE s1.xferPos < Len(s1.xfer) \/ ~im
    <3>1. scsi' = s1 \/ scsi' = [s1 EXCEPT !.ack = "ToStatus"]
      BY <2>1, <2>5
    <3>2. /\ scsi'.phase = "DataIn" /\ scsi'.xferPos = scsi.xferPos + 1 /\ scsi'.xfer = scsi.xfer
          /\ scsi'.image = scsi.image /\ scsi'.readOnly = scsi.readOnly
      BY <2>2, <3>1 DEF ScsiState
    <3>3. BusMoved(scsi') = BusMoved(scsi) + 1 /\ BusDue(scsi') = BusDue(scsi)
      BY <2>3, <3>2, BusView
    <3> QED
      BY <1>1, <2>2, <2>3, <3>2, <3>3, MoveStep
  <2> QED
    BY <2>4, <2>5
<1>2. CASE scsi.phase = "Status"
  <2>1. PICK s1 \in ScsiState :
          /\ s1 = [s EXCEPT !.statusReady = FALSE]
          /\ ConsumeDataIn(s, im) = IF im THEN ToMsgIn(s1) ELSE [s1 EXCEPT !.ack = "ToMsgIn"]
    BY <1>2, ConsumeDataInOutcome DEF SameBus
  <2>2. /\ s1.phase = "Status" /\ ~s1.statusReady /\ scsi.statusReady
        /\ s1.image = scsi.image /\ s1.readOnly = scsi.readOnly
    BY <1>2, <2>1 DEF ScsiState, SameBus, TargetReady
  <2>3. CASE im
    BY <1>2, <2>1, <2>2, <2>3, CompleteStep
  <2>4. CASE ~im
    <3>1. /\ scsi'.phase = "Status" /\ ~scsi'.statusReady
          /\ scsi'.image = scsi.image /\ scsi'.readOnly = scsi.readOnly
      BY <2>1, <2>2, <2>4 DEF ScsiState
    <3>2. /\ BusMoved(scsi) = 0 /\ BusDue(scsi) = 1
          /\ BusMoved(scsi') = 1 /\ BusDue(scsi') = 1
      BY <1>2, <2>2, <3>1, BusView
    <3> QED
      BY <1>2, <3>1, <3>2, MoveStep
  <2> QED
    BY <2>3, <2>4
<1>3. CASE scsi.phase = "MsgIn"
  <2>1. PICK s1 \in ScsiState :
          /\ s1 = [s EXCEPT !.msgReady = FALSE]
          /\ ConsumeDataIn(s, im) = IF im THEN [s1 EXCEPT !.phase = "BusFree"]
                                    ELSE [s1 EXCEPT !.ack = "BusFree"]
    BY <1>3, ConsumeDataInOutcome DEF SameBus
  <2>2. /\ s1.phase = "MsgIn" /\ ~s1.msgReady /\ scsi.msgReady
        /\ s1.image = scsi.image /\ s1.readOnly = scsi.readOnly
    BY <1>3, <2>1 DEF ScsiState, SameBus, TargetReady
  <2>3. CASE im
    <3>1. /\ scsi'.phase = "BusFree"
          /\ scsi'.image = scsi.image /\ scsi'.readOnly = scsi.readOnly
      BY <2>1, <2>2, <2>3 DEF ScsiState
    <3> QED
      BY <3>1, FreeStep
  <2>4. CASE ~im
    <3>1. /\ scsi'.phase = "MsgIn" /\ ~scsi'.msgReady
          /\ scsi'.image = scsi.image /\ scsi'.readOnly = scsi.readOnly
      BY <2>1, <2>2, <2>4 DEF ScsiState
    <3>2. /\ BusMoved(scsi) = 0 /\ BusDue(scsi) = 1
          /\ BusMoved(scsi') = 1 /\ BusDue(scsi') = 1
      BY <1>3, <2>2, <3>1, BusView
    <3> QED
      BY <1>3, <3>1, <3>2, MoveStep
  <2> QED
    BY <2>3, <2>4
<1> QED
  BY <1>1, <1>2, <1>3

\* The release of /ACK ends the phase whose last byte it waited for.
LEMMA ReleaseStep ==
  ASSUME scsi \in ScsiState, Linked(scsi),
         NEW s \in ScsiState, SameBus(scsi, s), s.ack = scsi.ack,
         NEW a \in Operands, scsi' = FinishAckHandshake(s, a)
  PROVE  Bus!Next \/ UNCHANGED Bus!vars
<1> DEFINE s1 == [s EXCEPT !.ack = "None"]
<1>1. /\ s1 \in ScsiState /\ SameBus(scsi, s1) /\ s1.ack = "None"
      /\ s.ack \in AckCompletions
  BY DEF ScsiState, AckCompletions, SameBus
<1>2. /\ s1.image = scsi.image /\ s1.readOnly = scsi.readOnly /\ s1.sel = scsi.sel
      /\ s1.writeMode = scsi.writeMode /\ s1.writeLba = scsi.writeLba /\ s1.xfer = scsi.xfer
  BY <1>1 DEF SameBus
<1>3. CASE s.ack = "ExecuteCdb"
  <2>1. scsi' = ExecuteCdb(s1, a)
    BY <1>3 DEF FinishAckHandshake
  <2>2. scsi.phase = "Command" /\ scsi.cdbPos \in {scsi.cdbLen - 1, scsi.cdbLen}
    BY <1>3 DEF Linked
  <2> HIDE DEF s1
  <2> QED
    BY <1>1, <1>2, <2>1, <2>2, ExecuteStep
<1>4. CASE s.ack = "FinishDataOut"
  <2> DEFINE last == << >>
  <2>1. scsi' = FinishDataOut(s1)
    BY <1>4 DEF FinishAckHandshake
  <2>2. /\ scsi.phase = "DataOut" /\ scsi.xferPos = Len(scsi.xfer)
        /\ scsi.sel /\ scsi.writeMode /\ scsi.xfer \in Seq(Byte)
    BY <1>4 DEF Linked, ScsiState
  <2>3. s1.xfer = SubSeq(scsi.xfer, 1, scsi.xferPos) \o last
    <3>1. SubSeq(scsi.xfer, 1, Len(scsi.xfer)) = scsi.xfer
      BY <2>2
    <3>2. scsi.xfer \o last = scsi.xfer
      BY <2>2
    <3> HIDE DEF s1
    <3> QED
      BY <1>2, <2>2, <3>1, <3>2
  <2>4. Len(last) = Len(scsi.xfer) - scsi.xferPos /\ last \in {<< >>} \cup {<< b >> : b \in Byte}
    BY <2>2
  <2> HIDE DEF s1, last
  <2> QED
    BY <1>1, <1>2, <2>1, <2>2, <2>3, <2>4, CommitStep
<1>5. CASE s.ack = "ToStatus"
  <2>1. scsi' = ToStatus(s1)
    BY <1>5 DEF FinishAckHandshake
  <2>2. scsi.phase = "DataIn" /\ scsi.xferPos \in {Len(scsi.xfer) - 1, Len(scsi.xfer)}
    BY <1>5 DEF Linked
  <2> HIDE DEF s1
  <2> QED
    BY <1>1, <1>2, <2>1, <2>2, EndReadStep
<1>6. CASE s.ack = "ToMsgIn"
  <2>1. scsi' = ToMsgIn(s1) /\ scsi.phase = "Status"
    BY <1>6 DEF FinishAckHandshake, Linked
  <2> HIDE DEF s1
  <2> QED
    BY <1>1, <1>2, <2>1, CompleteStep
<1>7. CASE s.ack = "BusFree"
  <2>1. scsi' = [s1 EXCEPT !.phase = "BusFree", !.sel = FALSE]
    BY <1>7 DEF FinishAckHandshake
  <2> HIDE DEF s1
  <2>2. /\ scsi'.phase = "BusFree"
        /\ scsi'.image = scsi.image /\ scsi'.readOnly = scsi.readOnly
    BY <1>1, <1>2, <2>1 DEF ScsiState
  <2> QED
    BY <2>2, FreeStep
<1>8. CASE s.ack = "None"
  <2>1. scsi' = s1
    BY <1>8 DEF FinishAckHandshake
  <2> QED
    BY <1>1, <2>1, SameBusStutters
<1> QED
  BY <1>1, <1>3, <1>4, <1>5, <1>6, <1>7, <1>8 DEF AckCompletions

LEMMA WriteOdrStep ==
  ASSUME Sound(scsi), Linked(scsi), NEW v \in Byte, NEW a \in Operands,
         scsi' = WriteDataOut(scsi, v, a)
  PROVE  Bus!Next \/ UNCHANGED Bus!vars
<1> DEFINE s1 == [scsi EXCEPT !.odr = v]
<1>0. scsi \in ScsiState
  BY DEF Sound
<1>1. s1 \in ScsiState /\ Linked(s1) /\ SameBus(scsi, s1)
  BY <1>0 DEF ScsiState, Linked, SameBus
<1>2. CASE scsi' = ConsumeDataOut(s1, TRUE, a) /\ ReqAsserted(s1)
  <2>1. TargetReady(s1)
    BY <1>2 DEF ReqAsserted
  <2> HIDE DEF s1
  <2>2. CASE scsi.phase = "Command"
    BY <1>0, <1>1, <1>2, <2>1, <2>2, CommandByteStep
  <2>3. CASE scsi.phase = "DataOut"
    BY <1>0, <1>1, <1>2, <2>1, <2>3, DataByteStep
  <2>4. CASE scsi.phase \notin {"Command", "DataOut"}
    <3>1. scsi' = s1
      BY <1>1, <1>2, <2>4 DEF ConsumeDataOut, SameBus
    <3> QED
      BY <1>1, <3>1, SameBusStutters
  <2> QED
    BY <2>2, <2>3, <2>4
<1>3. CASE scsi' = s1
  BY <1>1, <1>3, SameBusStutters
<1> QED
  BY <1>2, <1>3 DEF WriteDataOut

LEMMA WriteIcrStep ==
  ASSUME Sound(scsi), Linked(scsi), NEW v \in SUBSET IcrLines, NEW a \in Operands,
         scsi' = WriteIcr(scsi, v, a)
  PROVE  Bus!Next \/ UNCHANGED Bus!vars
<1> DEFINE s1 == [scsi EXCEPT !.icr = v]
           selecting == /\ "SEL" \in v /\ "BSY" \notin v
                        /\ scsi.phase \in {"BusFree", "Arbitration"}
                        /\ FindTarget(scsi)
           s2 == IF selecting THEN EnterCommand(s1) ELSE s1
<1>0. scsi \in ScsiState /\ Handshake(scsi)
  BY DEF Sound
<1>1. s1 \in ScsiState /\ Linked(s1) /\ SameBus(scsi, s1) /\ s1.ack = scsi.ack
  BY <1>0 DEF ScsiState, Linked, SameBus
<1>2. CASE "RST" \in v
  <2>1. scsi' = BusReset(s1)
    BY <1>2 DEF WriteIcr
  <2>2. /\ scsi'.phase = "BusFree"
        /\ scsi'.image = scsi.image /\ scsi'.readOnly = scsi.readOnly
    BY <1>1, <2>1 DEF BusReset, ScsiState, SameBus
  <2> QED
    BY <2>2, FreeStep
<1>3. CASE "RST" \notin v /\ selecting
  \* the target is selected; with the bus free nothing else can happen
  <2>1. ~ReqAsserted(scsi)
    BY <1>3 DEF ReqAsserted, TargetReady
  <2>2. scsi' = EnterCommand(s1) \/ scsi' = FinishAckHandshake(EnterCommand(s1), a)
    BY <1>3, <2>1 DEF WriteIcr
  <2> DEFINE t == EnterCommand(s1)
  <2>3. t \in ScsiState
    BY <1>1, EnterCommandSound DEF Sound
  <2>4. FinishAckHandshake(t, a) = t
    <3>1. t.ack = "None"
      BY <1>1 DEF EnterCommand, ScsiState
    <3> HIDE DEF t
    <3>2. [t EXCEPT !.ack = "None"] = t
      BY <2>3, <3>1 DEF ScsiState
    <3> QED
      BY <3>1, <3>2 DEF FinishAckHandshake
  <2>5. /\ scsi'.phase = "Command" /\ scsi'.cdbPos = 0 /\ scsi'.cdbLen = 6
        /\ scsi'.image = scsi.image /\ scsi'.readOnly = scsi.readOnly
    <3>1. s1.image = scsi.image /\ s1.readOnly = scsi.readOnly
      BY <1>1 DEF SameBus
    <3>2. scsi' = t
      BY <2>2, <2>4
    <3> HIDE DEF s1
    <3> QED
      BY <1>1, <3>1, <3>2 DEF EnterCommand, ScsiState
  <2>6. /\ BusMoved(scsi') = 0 /\ BusDue(scsi') = 6
        /\ BusData(scsi') = << >> /\ BusAt(scsi') = 0
    BY <2>5, BusView
  <2>7. scsi.image # << >>
    BY <1>3, BlockLenAssumption DEF FindTarget, Present
  <2> QED
    BY <1>3, <2>5, <2>6, <2>7
    DEF Bus!Next, Bus!Select, Bus!Enter, Bus!Quiet, Bus!disk, Bus!Free
<1>4. CASE "RST" \notin v /\ ~selecting /\ "ACK" \in scsi.icr \ v
  <2>1. scsi' = FinishAckHandshake(s1, a)
    BY <1>4 DEF WriteIcr
  <2> HIDE DEF s1
  <2> QED
    BY <1>0, <1>1, <2>1, ReleaseStep
<1>5. CASE "RST" \notin v /\ ~selecting /\ "ACK" \in v \ scsi.icr /\ ReqAsserted(scsi)
  <2>1. scsi' = AcceptAckByte(s1, a)
    BY <1>5 DEF WriteIcr
  <2>2. TargetReady(s1)
    BY <1>0, <1>5 DEF ReqAsserted, TargetReady, ScsiState
  <2> HIDE DEF s1
  <2>3. CASE scsi.phase = "Command"
    BY <1>0, <1>1, <2>1, <2>2, <2>3, CommandByteStep DEF AcceptAckByte, SameBus
  <2>4. CASE scsi.phase = "DataOut"
    BY <1>0, <1>1, <2>1, <2>2, <2>4, DataByteStep DEF AcceptAckByte, SameBus
  <2>5. CASE scsi.phase \notin {"Command", "DataOut"}
    <3>1. scsi.phase \in {"DataIn", "Status", "MsgIn"}
      BY <1>1, <2>2, <2>5 DEF TargetReady, SameBus
    <3>2. scsi' = ConsumeDataIn(s1, FALSE)
      BY <1>1, <2>1, <2>5 DEF AcceptAckByte, SameBus
    <3> QED
      BY <1>0, <1>1, <2>2, <3>1, <3>2, ByteInStep
  <2> QED
    BY <2>3, <2>4, <2>5
<1>6. CASE /\ "RST" \notin v /\ ~selecting /\ "ACK" \notin scsi.icr \ v
           /\ ~("ACK" \in v \ scsi.icr /\ ReqAsserted(scsi))
  <2>1. scsi' = s1
    BY <1>6 DEF WriteIcr
  <2> QED
    BY <1>1, <2>1, SameBusStutters
<1> QED
  BY <1>2, <1>3, <1>4, <1>5, <1>6

LEMMA BusStep ==
  ASSUME ~MixedHandshake, LInv, [Next]_scsi
  PROVE  Bus!Next \/ UNCHANGED Bus!vars
<1>0. Sound(scsi) /\ scsi \in ScsiState /\ Linked(scsi)
  BY DEF LInv, IInv, Sound
<1>1. CASE WriteOdrReg
  BY <1>0, <1>1, BusBytesAssumption, WriteOdrStep DEF WriteOdrReg
<1>2. CASE WriteIcrReg
  <2>1. PICK v \in IcrWrites, a \in Operands : scsi' = WriteIcr(scsi, v, a)
    BY <1>2 DEF WriteIcrReg
  <2>2. v \in SUBSET IcrLines
    BY RegisterAssumption
  <2> QED
    BY <1>0, <2>1, <2>2, WriteIcrStep
<1>3. CASE WriteMrReg
  <2>1. PICK v \in MrWrites : scsi' = WriteMr(scsi, v)
    BY <1>3 DEF WriteMrReg
  <2>2. CASE scsi.phase \in {"BusFree", "Arbitration"}
    <3>1. /\ scsi'.phase \in {"BusFree", "Arbitration"}
          /\ scsi'.image = scsi.image /\ scsi'.readOnly = scsi.readOnly
      BY <1>0, <2>1, <2>2 DEF WriteMr, ScsiState
    <3>2. /\ BusMoved(scsi) = 0 /\ BusDue(scsi) = 0 /\ BusData(scsi) = << >> /\ BusAt(scsi) = 0
          /\ BusMoved(scsi') = 0 /\ BusDue(scsi') = 0 /\ BusData(scsi') = << >>
          /\ BusAt(scsi') = 0
      BY <2>2, <3>1, BusView
    <3> QED
      BY <2>2, <3>1, <3>2 DEF Bus!Next, Bus!Arbitrate, Bus!Free
  <2>3. CASE scsi.phase \notin {"BusFree", "Arbitration"}
    <3>1. SameBus(scsi, scsi')
      BY <1>0, <2>1, <2>3 DEF WriteMr, ScsiState, SameBus
    <3> QED
      BY <3>1, SameBusStutters
  <2> QED
    BY <2>2, <2>3
<1>4. CASE WriteTcrReg \/ StartDma \/ ClearIrq \/ EndOfProcess
  <2>1. SameBus(scsi, scsi')
    BY ZenonT(60), <1>0, <1>4 DEF WriteTcrReg, StartDma, ClearIrq, EndOfProcess, SignalEndOfProcess,
                      ScsiState, SameBus
  <2> QED
    BY <2>1, SameBusStutters
<1>5. CASE ReadIdr
  <2>1. "ACK" \notin scsi.icr /\ scsi' = ConsumeDataIn(scsi, TRUE)
    BY <1>5 DEF ReadIdr, DmaDataIn
  <2>2. SameBus(scsi, scsi)
    BY DEF SameBus
  <2>3. CASE scsi.phase \in {"DataIn", "Status", "MsgIn"}
    <3>1. TargetReady(scsi)
      BY <1>0, <2>1, <2>3 DEF Sound, Handshake, Busy
    <3> QED
      BY <1>0, <2>1, <2>2, <2>3, <3>1, ByteInStep
  <2>4. CASE scsi.phase \notin {"DataIn", "Status", "MsgIn"}
    <3>1. scsi' = scsi
      BY <2>1, <2>4 DEF ConsumeDataIn
    <3> QED
      BY <2>2, <3>1, SameBusStutters
  <2> QED
    BY <2>3, <2>4
<1>6. CASE Reset
  <2>1. /\ scsi'.phase = "BusFree"
        /\ scsi'.image = scsi.image /\ scsi'.readOnly = scsi.readOnly
    BY <1>0, <1>6 DEF Reset, ResetChip, ScsiState
  <2> QED
    BY <2>1, FreeStep
<1>7. CASE InsertDisk \/ RemoveDisk
  <2>1. /\ scsi'.image \in Images \cup {NoImage} /\ scsi'.readOnly \in BOOLEAN
        /\ SameBus(scsi, [scsi' EXCEPT !.image = scsi.image, !.readOnly = scsi.readOnly])
    BY <1>0, <1>7 DEF InsertDisk, RemoveDisk, ScsiState, SameBus
  <2>2. /\ scsi'.phase = scsi.phase /\ BusMoved(scsi') = BusMoved(scsi)
        /\ BusDue(scsi') = BusDue(scsi)
        /\ BusData(scsi') = BusData(scsi) /\ BusAt(scsi') = BusAt(scsi)
    BY ZenonT(60), <1>0, <1>7
    DEF InsertDisk, RemoveDisk, ScsiState, BusMoved, BusDue, BusData, BusAt
  <2> QED
    BY <2>1, <2>2 DEF Bus!Next, Bus!ChangeMedium, Bus!bus
<1>8. CASE UNCHANGED scsi
  BY <1>8 DEF Bus!vars
<1> QED
  BY <1>1, <1>2, <1>3, <1>4, <1>5, <1>6, <1>7, <1>8 DEF Next, RegisterAccess

LEMMA AlwaysLinked ==
  ASSUME ~MixedHandshake
  PROVE  Spec => []LInv
<1>1. LInv /\ [Next]_scsi => LInv'
  BY NextLinked
<1> QED
  BY <1>1, InitLinked, PTL DEF Spec

\* The chip and its disk, behind an initiator that does not mix the two handshakes,
\* are what ScsiBusSpec promises: phases in the standard's order that end with their
\* last byte, reads of whole blocks, writes that reach the medium once, by exactly
\* their bytes, or not at all (scsi.hpp:3-16).
THEOREM ImplementsBusSpec ==
  ASSUME ~MixedHandshake
  PROVE  Spec => BusSpec
<1>1. Init => Bus!Init
  BY DEF Init, PowerOn, Bus!Init, BusMoved, BusDue, BusData, BusAt
<1>2. LInv /\ [Next]_scsi => [Bus!Next]_Bus!vars
  BY BusStep
<1> QED
  BY <1>1, <1>2, AlwaysLinked, PTL DEF Spec, BusSpec, Bus!Spec

-----------------------------------------------------------------------------
(* The handshakes                                                          *)

\* What the release of /ACK sets off leaves the register itself alone.
LEMMA FinishKeepsIcr ==
  ASSUME NEW s \in ScsiState, NEW a \in Operands
  PROVE  FinishAckHandshake(s, a).icr = s.icr
<1> DEFINE s1 == [s EXCEPT !.ack = "None"]
<1>1. s1 \in ScsiState /\ s1.icr = s.icr /\ s.ack \in AckCompletions
  BY DEF ScsiState, AckCompletions
<1>2. \A t \in ScsiState : ToStatus(t).icr = t.icr /\ ToMsgIn(t).icr = t.icr
  BY DEF ToStatus, ToMsgIn, ScsiState
<1> HIDE DEF s1
<1>3. FinishDataOut(s1).icr = s1.icr
  <2> DEFINE image == IF s1.writeMode /\ s1.sel THEN AcceptWrite(s1) ELSE s1.image
             s2 == [s1 EXCEPT !.image = image, !.writeMode = FALSE]
  <2>1. image \in Seq(Byte)
    BY <1>1, AcceptWriteType DEF ScsiState
  <2>2. FinishDataOut(s1) = ToStatus(s2)
    BY <1>1 DEF FinishDataOut, ScsiState
  <2> HIDE DEF image
  <2>3. s2 \in ScsiState /\ s2.icr = s1.icr
    BY <1>1, <2>1 DEF ScsiState
  <2> HIDE DEF s2
  <2> QED
    BY <1>2, <2>2, <2>3
<1>4. ExecuteCdb(s1, a).icr = s1.icr
  <2> DEFINE r  == IF s1.sel THEN DiskExecute(s1, a) ELSE CheckCondition(s1, s1.senseKey, s1.xfer)
             s2 == [s1 EXCEPT !.status = r.status, !.xfer = r.out, !.xferPos = 0,
                              !.senseKey = r.sense, !.writeLba = r.lba]
  <2>1. r \in Outcome
    BY <1>1, ExecuteType DEF CheckCondition, Answer, Outcome, ScsiState
  <2>2. ExecuteCdb(s1, a)
          = IF r.status # Good THEN ToStatus(s2)
            ELSE IF r.take # 0
              THEN [s2 EXCEPT !.writeMode = TRUE, !.xfer = Zeros(r.take), !.phase = "DataOut"]
            ELSE IF r.out # << >> THEN [s2 EXCEPT !.phase = "DataIn"]
            ELSE ToStatus(s2)
    BY DEF ExecuteCdb
  <2> HIDE DEF r
  <2>3. s2 \in ScsiState /\ s2.icr = s1.icr
    BY <1>1, <2>1 DEF Outcome, ScsiState
  <2> HIDE DEF s2
  <2> QED
    BY <1>2, <2>2, <2>3 DEF ScsiState
<1>5. CASE s.ack = "BusFree"
  BY <1>1, <1>5 DEF FinishAckHandshake, s1, ScsiState
<1>6. CASE s.ack # "BusFree"
  BY <1>1, <1>2, <1>3, <1>4, <1>6 DEF FinishAckHandshake, s1, AckCompletions
<1> QED
  BY <1>5, <1>6

\* While /ACK is held no byte is counted and no phase ends: nothing in the chip
\* acts but on an edge of /ACK, and there is no edge.
LEMMA HeldStep ==
  ASSUME ~MixedHandshake, LInv, [Next]_scsi,
         Busy(scsi), Busy(scsi'), "ACK" \in scsi.icr, "ACK" \in scsi'.icr
  PROVE  /\ scsi'.phase = scsi.phase
         /\ scsi'.xferPos = scsi.xferPos /\ scsi'.cdbPos = scsi.cdbPos
<1>0. scsi \in ScsiState
  BY DEF LInv, IInv, Sound
<1>1. CASE WriteOdrReg
  <2>1. PICK v \in BusBytes, a \in Operands : scsi' = WriteDataOut(scsi, v, a)
    BY <1>1 DEF WriteOdrReg
  <2>2. scsi' = [scsi EXCEPT !.odr = v]
    BY <1>0, <2>1 DEF WriteDataOut, ReqAsserted, ScsiState
  <2> QED
    BY <1>0, <2>2 DEF ScsiState
<1>2. CASE WriteIcrReg
  <2>1. PICK v \in IcrWrites, a \in Operands : scsi' = WriteIcr(scsi, v, a)
    BY <1>2 DEF WriteIcrReg
  <2> DEFINE s1 == [scsi EXCEPT !.icr = v]
  <2>2. CASE "RST" \in v
    <3>1. scsi'.phase = "BusFree"
      BY <1>0, <2>1, <2>2 DEF WriteIcr, BusReset, ScsiState
    <3> QED
      BY <3>1 DEF Busy
  <2>3. CASE "RST" \notin v /\ "ACK" \in v
    <3>1. scsi' = s1
      BY <2>1, <2>3 DEF WriteIcr, Busy
    <3> QED
      BY <1>0, <3>1 DEF ScsiState
  <2>4. CASE "RST" \notin v /\ "ACK" \notin v
    <3>1. scsi' = FinishAckHandshake(s1, a)
      BY <2>1, <2>4 DEF WriteIcr, Busy
    <3>2. v \in SUBSET IcrLines
      BY RegisterAssumption
    <3>3. s1 \in ScsiState /\ s1.icr = v
      BY <1>0, <3>2 DEF ScsiState
    <3> HIDE DEF s1
    <3>4. scsi'.icr = v
      BY <3>1, <3>3, FinishKeepsIcr
    <3> QED
      BY <2>4, <3>4
  <2> QED
    BY <2>2, <2>3, <2>4
<1>3. CASE WriteMrReg \/ WriteTcrReg \/ StartDma \/ ClearIrq \/ EndOfProcess
  BY ZenonT(60), <1>0, <1>3 DEF WriteMrReg, WriteMr, WriteTcrReg, StartDma, ClearIrq, EndOfProcess,
                    SignalEndOfProcess, ScsiState, Busy
<1>4. CASE ReadIdr
  BY <1>4 DEF ReadIdr
<1>5. CASE Reset
  <2>1. scsi'.phase = "BusFree"
    BY <1>0, <1>5 DEF Reset, ResetChip, ScsiState
  <2> QED
    BY <2>1 DEF Busy
<1>6. CASE InsertDisk \/ RemoveDisk \/ UNCHANGED scsi
  BY <1>0, <1>6 DEF InsertDisk, RemoveDisk, ScsiState
<1> QED
  BY <1>1, <1>2, <1>3, <1>4, <1>5, <1>6 DEF Next, RegisterAccess

\* A DMA transfer cut off by the target interrupts.
LEMMA StatusInterrupts ==
  ASSUME NEW s \in ScsiState, "DMA" \in s.mr, s.dmaStart # "None"
  PROVE  ToStatus(s).irq /\ FinishDataOut(s).irq
<1>1. \A t \in ScsiState : "DMA" \in t.mr /\ t.dmaStart # "None" => ToStatus(t).irq
  BY DEF ToStatus, ScsiState
<1> DEFINE image == IF s.writeMode /\ s.sel THEN AcceptWrite(s) ELSE s.image
           s2 == [s EXCEPT !.image = image, !.writeMode = FALSE]
<1>2. image \in Seq(Byte)
  BY AcceptWriteType DEF ScsiState
<1>3. FinishDataOut(s) = ToStatus(s2)
  BY DEF FinishDataOut, ScsiState
<1> HIDE DEF image
<1>4. s2 \in ScsiState /\ s2.mr = s.mr /\ s2.dmaStart = s.dmaStart
  BY <1>2 DEF ScsiState
<1> HIDE DEF s2
<1> QED
  BY <1>1, <1>3, <1>4

LEMMA CutStep ==
  ASSUME ~MixedHandshake, LInv, [Next]_scsi,
         scsi.phase \in {"DataIn", "DataOut"}, scsi.dmaStart # "None", "DMA" \in scsi.mr,
         scsi'.phase # scsi.phase
  PROVE  scsi'.irq \/ scsi' = ResetChip(scsi)
<1>0. Sound(scsi) /\ scsi \in ScsiState /\ Linked(scsi) /\ Busy(scsi)
  BY DEF LInv, IInv, Sound, Busy
<1>1. CASE WriteOdrReg
  <2>1. PICK v \in BusBytes, a \in Operands : scsi' = WriteDataOut(scsi, v, a)
    BY <1>1 DEF WriteOdrReg
  <2> DEFINE s1 == [scsi EXCEPT !.odr = v]
  <2>2. v \in Byte
    BY BusBytesAssumption
  <2>3. /\ s1 \in ScsiState /\ Linked(s1) /\ s1.phase = scsi.phase
        /\ s1.mr = scsi.mr /\ s1.dmaStart = scsi.dmaStart
    BY <1>0, <2>2 DEF ScsiState, Linked
  <2>4. scsi' = ConsumeDataOut(s1, TRUE, a) /\ TargetReady(s1)
    BY <2>1, <2>3 DEF WriteDataOut, ReqAsserted
  <2> HIDE DEF s1
  <2>5. CASE scsi.phase = "DataOut"
    <3>1. PICK s2 \in ScsiState :
            /\ TookData(s1, s2)
            /\ ConsumeDataOut(s1, TRUE, a) = IF s2.xferPos < Len(s2.xfer) THEN s2
                                             ELSE IF TRUE THEN FinishDataOut(s2)
                                             ELSE [s2 EXCEPT !.ack = "FinishDataOut"]
      BY <2>3, <2>4, <2>5, ConsumeDataOutOutcome
    <3>2. s2.phase = scsi.phase /\ s2.mr = scsi.mr /\ s2.dmaStart = scsi.dmaStart
      BY <2>3, <3>1 DEF TookData, Alike
    <3>3. scsi' = FinishDataOut(s2)
      BY <2>4, <3>1, <3>2
    <3> QED
      BY <3>2, <3>3, StatusInterrupts
  <2>6. CASE scsi.phase = "DataIn"
    BY <2>3, <2>4, <2>6 DEF ConsumeDataOut
  <2> QED
    BY <2>5, <2>6
<1>2. CASE WriteIcrReg
  <2>1. PICK v \in IcrWrites, a \in Operands : scsi' = WriteIcr(scsi, v, a)
    BY <1>2 DEF WriteIcrReg
  <2> DEFINE s1 == [scsi EXCEPT !.icr = v]
             s2 == [s1 EXCEPT !.ack = "None"]
  <2>2. v \in SUBSET IcrLines
    BY RegisterAssumption
  <2>3. /\ s1 \in ScsiState /\ Linked(s1) /\ s1.phase = scsi.phase /\ s1.ack = scsi.ack
        /\ s2 \in ScsiState /\ s2.mr = scsi.mr /\ s2.dmaStart = scsi.dmaStart
        /\ s2.phase = scsi.phase
        /\ TargetReady(s1) <=> TargetReady(scsi)
    BY <1>0, <2>2 DEF ScsiState, Linked, AckCompletions, TargetReady
  <2>4. CASE "RST" \in v
    BY <1>0, <2>1, <2>4 DEF WriteIcr, BusReset, ScsiState
  <2>5. CASE "RST" \notin v /\ "ACK" \in scsi.icr \ v
    <3>1. scsi' = FinishAckHandshake(s1, a)
      BY <2>1, <2>5 DEF WriteIcr
    <3>2. scsi.ack \in {"FinishDataOut", "ToStatus", "None"}
      BY <1>0 DEF Linked, ScsiState, AckCompletions
    <3>3. scsi' = FinishDataOut(s2) \/ scsi' = ToStatus(s2) \/ scsi' = s2
      BY <2>3, <3>1, <3>2 DEF FinishAckHandshake
    <3> HIDE DEF s1, s2
    <3> QED
      BY <2>3, <3>3, StatusInterrupts
  <2>6. CASE "RST" \notin v /\ "ACK" \in v \ scsi.icr /\ ReqAsserted(scsi)
    <3>1. scsi' = AcceptAckByte(s1, a) /\ TargetReady(s1)
      BY <2>1, <2>3, <2>6 DEF WriteIcr, ReqAsserted
    <3> HIDE DEF s1, s2
    <3>2. CASE scsi.phase = "DataOut"
      <4>1. PICK t \in ScsiState :
              /\ TookData(s1, t)
              /\ ConsumeDataOut(s1, FALSE, a) = IF t.xferPos < Len(t.xfer) THEN t
                                                ELSE IF FALSE THEN FinishDataOut(t)
                                                ELSE [t EXCEPT !.ack = "FinishDataOut"]
        BY <2>3, <3>1, <3>2, ConsumeDataOutOutcome
      <4>2. scsi' = t \/ scsi' = [t EXCEPT !.ack = "FinishDataOut"]
        BY <2>3, <3>1, <3>2, <4>1 DEF AcceptAckByte
      <4>3. t.phase = scsi.phase
        BY <2>3, <4>1 DEF TookData, Alike
      <4> QED
        BY <4>2, <4>3 DEF ScsiState
    <3>3. CASE scsi.phase = "DataIn"
      <4>1. PICK t \in ScsiState :
              /\ t = [s1 EXCEPT !.xferPos = s1.xferPos + 1] /\ t.xferPos <= Len(t.xfer)
              /\ LET more == t.xferPos < Len(t.xfer)
                 IN  ConsumeDataIn(s1, FALSE) = IF more THEN t
                                                ELSE IF FALSE THEN ToStatus(t)
                                                ELSE [t EXCEPT !.ack = "ToStatus"]
        BY <2>3, <3>1, <3>3, ConsumeDataInOutcome
      <4>2. scsi' = t \/ scsi' = [t EXCEPT !.ack = "ToStatus"]
        BY <2>3, <3>1, <3>3, <4>1 DEF AcceptAckByte
      <4>3. t.phase = scsi.phase
        BY <2>3, <4>1 DEF ScsiState
      <4> QED
        BY <4>2, <4>3 DEF ScsiState
    <3> QED
      BY <3>2, <3>3
  <2>7. CASE /\ "RST" \notin v /\ "ACK" \notin scsi.icr \ v
             /\ ~("ACK" \in v \ scsi.icr /\ ReqAsserted(scsi))
    <3>1. scsi' = s1
      BY <2>1, <2>7 DEF WriteIcr
    <3> QED
      BY <2>3, <3>1
  <2> QED
    BY <2>4, <2>5, <2>6, <2>7
<1>3. CASE WriteMrReg \/ WriteTcrReg \/ StartDma \/ ClearIrq \/ EndOfProcess
  BY <1>0, <1>3 DEF WriteMrReg, WriteMr, WriteTcrReg, StartDma, ClearIrq, EndOfProcess,
                    SignalEndOfProcess, ScsiState, Busy
<1>4. CASE ReadIdr
  <2>1. scsi' = ConsumeDataIn(scsi, TRUE) /\ "ACK" \notin scsi.icr
    BY <1>4 DEF ReadIdr, DmaDataIn
  <2>2. scsi.phase = "DataIn"
    BY <2>1 DEF ConsumeDataIn
  <2>3. TargetReady(scsi)
    BY <1>0, <2>1 DEF Sound, Handshake
  <2>4. PICK t \in ScsiState :
          /\ t = [scsi EXCEPT !.xferPos = scsi.xferPos + 1] /\ t.xferPos <= Len(t.xfer)
          /\ LET more == t.xferPos < Len(t.xfer)
             IN  ConsumeDataIn(scsi, TRUE) = IF more THEN t
                                             ELSE IF TRUE THEN ToStatus(t)
                                             ELSE [t EXCEPT !.ack = "ToStatus"]
    BY <1>0, <2>2, <2>3, ConsumeDataInOutcome
  <2>5. t.phase = scsi.phase /\ t.mr = scsi.mr /\ t.dmaStart = scsi.dmaStart
    BY <1>0, <2>4 DEF ScsiState
  <2>6. scsi' = ToStatus(t)
    BY <2>1, <2>4, <2>5
  <2> QED
    BY <2>5, <2>6, StatusInterrupts
<1>5. CASE Reset
  BY <1>5 DEF Reset
<1>6. CASE InsertDisk \/ RemoveDisk \/ UNCHANGED scsi
  BY <1>0, <1>6 DEF InsertDisk, RemoveDisk, ScsiState
<1> QED
  BY <1>1, <1>2, <1>3, <1>4, <1>5, <1>6 DEF Next, RegisterAccess

\* With such an initiator a held /ACK freezes the target, and no DMA transfer is cut
\* off in silence (scsi.hpp:438-453, 593-605).
THEOREM HandshakesAreSound ==
  ASSUME ~MixedHandshake
  PROVE  Spec => HandshakeIsSound
<1>1. LInv /\ [Next]_scsi
        => /\ [Busy(scsi) /\ Busy(scsi') /\ {"ACK"} \subseteq scsi.icr \cap scsi'.icr
                => /\ scsi'.phase = scsi.phase
                   /\ scsi'.xferPos = scsi.xferPos /\ scsi'.cdbPos = scsi.cdbPos]_scsi
           /\ [scsi.phase \in {"DataIn", "DataOut"} /\ scsi.dmaStart # "None" /\ "DMA" \in scsi.mr
                /\ scsi'.phase # scsi.phase => scsi'.irq \/ scsi' = ResetChip(scsi)]_scsi
  BY HeldStep, CutStep
<1> QED
  BY <1>1, AlwaysLinked, PTL DEF Spec, HandshakeIsSound, HeldByAck, CutTransferInterrupts


-----------------------------------------------------------------------------
(* The ring of addresses and its words                                     *)

\* The address of byte i of a transfer that started at f, and the bytes moved
\* by a transfer that has come from f to a.
At(f, i) == (f + i - 1) % AddrSpace
Gap(f, a) == (a - f) % AddrSpace

LEMMA Space == AddrSpace \in Nat /\ AddrSpace > 0 /\ AddrSpace % 4 = 0
  BY AddrSpaceAssumption

LEMMA AtCases ==
  ASSUME NEW f \in Addrs, NEW i \in 1..AddrSpace
  PROVE  /\ f + i - 1 < AddrSpace => At(f, i) = f + i - 1
         /\ f + i - 1 >= AddrSpace => At(f, i) = f + i - 1 - AddrSpace
<1> DEFINE x == f + i - 1
<1>1. x \in Nat /\ x < 2 * AddrSpace /\ AddrSpace \in Nat /\ f \in Nat /\ i \in Nat
  BY Space DEF Addrs
<1>2. At(f, i) = x % AddrSpace
  BY DEF At
<1>3. x = f + i - 1
  OBVIOUS
<1> HIDE DEF x
<1>4. x < AddrSpace => x % AddrSpace = x
  BY <1>1, Space
<1>5. x >= AddrSpace => x % AddrSpace = x - AddrSpace
  BY <1>1, Space
<1> QED
  BY <1>1, <1>2, <1>3, <1>4, <1>5

LEMMA AtIsAddress ==
  ASSUME NEW f \in Addrs, NEW i \in Nat \ {0}
  PROVE  At(f, i) \in Addrs
<1> DEFINE x == f + i - 1
<1>1. x \in Nat
  BY Space DEF Addrs
<1> HIDE DEF x
<1>2. x % AddrSpace \in 0..AddrSpace - 1
  BY <1>1, Space
<1> QED
  BY <1>2 DEF At, Addrs, x

\* No two bytes of a lap share an address.
LEMMA AtDistinct ==
  ASSUME NEW f \in Addrs, NEW i \in 1..AddrSpace, NEW j \in 1..AddrSpace, At(f, i) = At(f, j)
  PROVE  i = j
<1>1. f \in Nat /\ f < AddrSpace /\ AddrSpace \in Nat
  BY Space DEF Addrs
<1>2. /\ f + i - 1 < AddrSpace => At(f, i) = f + i - 1
      /\ f + i - 1 >= AddrSpace => At(f, i) = f + i - 1 - AddrSpace
  BY AtCases
<1>3. /\ f + j - 1 < AddrSpace => At(f, j) = f + j - 1
      /\ f + j - 1 >= AddrSpace => At(f, j) = f + j - 1 - AddrSpace
  BY AtCases
<1> QED
  BY <1>1, <1>2, <1>3

LEMMA GapCases ==
  ASSUME NEW f \in Addrs, NEW a \in Addrs
  PROVE  /\ a >= f => Gap(f, a) = a - f
         /\ a < f => Gap(f, a) = a - f + AddrSpace
         /\ Gap(f, a) \in Addrs
<1> DEFINE x == a - f
<1>1. x \in Int /\ -AddrSpace < x /\ x < AddrSpace /\ AddrSpace \in Nat
  BY Space DEF Addrs
<1>2. (a >= f <=> x >= 0) /\ (a < f <=> x < 0)
  BY Space DEF Addrs
<1> HIDE DEF x
<1>3. x >= 0 => x % AddrSpace = x
  BY <1>1, Space
<1>4. x < 0 => x % AddrSpace = x + AddrSpace
  BY <1>1, Space
<1>5. x % AddrSpace \in 0..AddrSpace - 1
  BY <1>1, <1>3, <1>4
<1> QED
  BY <1>2, <1>3, <1>4, <1>5 DEF Gap, Addrs, x

LEMMA GapStarts == ASSUME NEW f \in Addrs PROVE Gap(f, f) = 0
  BY GapCases, Space DEF Addrs

LEMMA NextAddress ==
  ASSUME NEW a \in Addrs, NEW b, b = (a + 1) % AddrSpace
  PROVE  b \in Addrs /\ b = IF a + 1 < AddrSpace THEN a + 1 ELSE 0
<1> DEFINE x == a + 1
<1>1. x \in Nat /\ x <= AddrSpace /\ AddrSpace \in Nat /\ AddrSpace > 0
  BY Space DEF Addrs
<1> HIDE DEF x
<1>2. x < AddrSpace => x % AddrSpace = x
  BY <1>1
<1>3. x = AddrSpace => x % AddrSpace = 0
  BY <1>1
<1>4. b = IF x < AddrSpace THEN x ELSE 0
  BY <1>1, <1>2, <1>3 DEF x
<1>5. b \in 0..AddrSpace - 1
  BY <1>1, <1>4
<1> QED
  BY <1>4, <1>5 DEF Addrs, x

LEMMA GapGrows ==
  ASSUME NEW f \in Addrs, NEW a \in Addrs, NEW b, b = (a + 1) % AddrSpace, Gap(f, a) + 1 < AddrSpace
  PROVE  Gap(f, b) = Gap(f, a) + 1
<1>1. b \in Addrs /\ b = IF a + 1 < AddrSpace THEN a + 1 ELSE 0
  BY NextAddress
<1>2. (a >= f => Gap(f, a) = a - f) /\ (a < f => Gap(f, a) = a - f + AddrSpace)
  BY GapCases
<1>3. (b >= f => Gap(f, b) = b - f) /\ (b < f => Gap(f, b) = b - f + AddrSpace)
  BY <1>1, GapCases
<1>4. f \in Nat /\ f < AddrSpace /\ a \in Nat /\ a < AddrSpace /\ AddrSpace \in Nat
  BY Space DEF Addrs
<1> QED
  BY <1>1, <1>2, <1>3, <1>4

\* The byte to move next is the one the address register points to.
LEMMA AtGap ==
  ASSUME NEW f \in Addrs, NEW a \in Addrs
  PROVE  At(f, Gap(f, a) + 1) = a
<1> DEFINE i == Gap(f, a) + 1
<1>1. (a >= f => i = a - f + 1) /\ (a < f => i = a - f + AddrSpace + 1)
  BY GapCases
<1>2. f \in Nat /\ f < AddrSpace /\ a \in Nat /\ a < AddrSpace /\ AddrSpace \in Nat
  BY Space DEF Addrs
<1>3. i \in 1..AddrSpace
  BY <1>1, <1>2
<1> HIDE DEF i
<1>4. /\ f + i - 1 < AddrSpace => At(f, i) = f + i - 1
      /\ f + i - 1 >= AddrSpace => At(f, i) = f + i - 1 - AddrSpace
  BY <1>3, AtCases
<1>5. At(f, i) = a
  BY <1>1, <1>2, <1>3, <1>4
<1> QED
  BY <1>5 DEF i

\* The addresses of the word at a whose lanes have been passed.
Passed(a) == WordBase(a)..(a - 1)

LEMMA WordFacts ==
  ASSUME NEW a \in Addrs
  PROVE  /\ a % 4 \in Lanes /\ WordBase(a) + (a % 4) = a
         /\ \A l \in Lanes : WordBase(a) + l \in Addrs /\ (WordBase(a) + l) % 4 = l
         /\ \A l \in Lanes : l < a % 4 => WordBase(a) + l \in Passed(a)
         /\ \A b \in Passed(a) : b % 4 \in Lanes /\ b % 4 < a % 4 /\ b = WordBase(a) + (b % 4)
         /\ a % 4 # 3 => a + 1 < AddrSpace /\ WordBase(a + 1) = WordBase(a) /\ (a + 1) % 4 = (a % 4) + 1
         /\ a % 4 = 3 => IF a + 1 < AddrSpace THEN Passed(a + 1) = {} ELSE Passed(0) = {}
<1> DEFINE w == WordBase(a)
           r == a % 4
<1>1. a \in Nat /\ a < AddrSpace /\ AddrSpace \in Nat /\ AddrSpace % 4 = 0
  BY Space DEF Addrs
<1>2. r \in 0..3 /\ w = a - r /\ w % 4 = 0 /\ w \in Nat
  BY <1>1 DEF WordBase
<1>3. w + 3 < AddrSpace
  BY <1>1 DEF WordBase
<1>4. a % 4 = r /\ WordBase(a) = w
  OBVIOUS
<1>5. r # 3 => WordBase(a + 1) = w /\ (a + 1) % 4 = r + 1
  BY <1>1 DEF WordBase
<1>6. r = 3 => WordBase(a + 1) = a + 1
  BY <1>1 DEF WordBase
<1>7. WordBase(0) = 0
  BY DEF WordBase
<1> HIDE DEF w, r
<1>8. \A l \in Lanes : (w + l) % 4 = l /\ w + l \in Addrs
  <2> SUFFICES ASSUME NEW l \in Lanes PROVE (w + l) % 4 = l /\ w + l \in Addrs
    OBVIOUS
  <2>1. l \in 0..3
    BY DEF Lanes
  <2>2. w + l \in Addrs
    BY <1>1, <1>2, <1>3, <2>1 DEF Addrs
  <2>3. (w + l) % 4 = l
    BY <1>2, <2>1
  <2> QED
    BY <2>2, <2>3
<1>9. \A l \in Lanes : l < r => w + l \in Passed(a)
  BY <1>1, <1>2, <1>4 DEF Passed, Lanes
<1>10. \A b \in Passed(a) : b % 4 \in Lanes /\ b % 4 < r /\ b = w + (b % 4)
  <2> SUFFICES ASSUME NEW b \in Passed(a) PROVE b % 4 \in Lanes /\ b % 4 < r /\ b = w + (b % 4)
    OBVIOUS
  <2>1. b \in w..(a - 1)
    BY <1>4 DEF Passed
  <2>2. PICK l \in Lanes : b = w + l /\ l < r
    <3>1. b - w \in Lanes /\ b = w + (b - w) /\ b - w < r
      BY <1>1, <1>2, <2>1 DEF Lanes
    <3> QED
      BY <3>1
  <2>3. b % 4 = l
    BY <1>8, <2>2
  <2> DEFINE c == b % 4
  <2>4. c = l
    BY <2>3
  <2> HIDE DEF c
  <2>5. c \in Lanes /\ c < r /\ b = w + c
    BY <2>2, <2>4
  <2> QED
    BY <2>5 DEF c
<1>11. Passed(0) = {} /\ (r = 3 => Passed(a + 1) = {})
  BY <1>1, <1>6, <1>7 DEF Passed
<1>12. r # 3 => a + 1 < AddrSpace
  BY <1>1, <1>2, <1>3
<1>13. r \in Lanes /\ w + r = a
  BY <1>1, <1>2 DEF Lanes
<1>14. /\ r \in Lanes /\ w + r = a
       /\ \A l \in Lanes : w + l \in Addrs /\ (w + l) % 4 = l
       /\ \A l \in Lanes : l < r => w + l \in Passed(a)
       /\ \A b \in Passed(a) : b % 4 \in Lanes /\ b % 4 < r /\ b = w + (b % 4)
       /\ r # 3 => a + 1 < AddrSpace /\ WordBase(a + 1) = w /\ (a + 1) % 4 = r + 1
       /\ r = 3 => IF a + 1 < AddrSpace THEN Passed(a + 1) = {} ELSE Passed(0) = {}
  <2>1. r # 3 => a + 1 < AddrSpace /\ WordBase(a + 1) = w /\ (a + 1) % 4 = r + 1
    BY <1>5, <1>12
  <2>2. r = 3 => IF a + 1 < AddrSpace THEN Passed(a + 1) = {} ELSE Passed(0) = {}
    BY <1>11
  <2>3. \A l \in Lanes : w + l \in Addrs /\ (w + l) % 4 = l
    BY <1>8
  <2> QED
    BY <2>1, <2>2, <2>3, <1>9, <1>10, <1>13
<1> QED
  BY <1>14 DEF w, r

-----------------------------------------------------------------------------
(* The invariant                                                           *)

DmaRegisters ==
  [control : SUBSET ControlLines, count : Addrs, address : Addrs, reload : Nat,
   counter : Nat, fifo : [Lanes -> Byte], valid : SUBSET Lanes, active : BOOLEAN,
   direction : {"None", "ToScsi", "FromScsi"}, wdPending : BOOLEAN,
   busError : BOOLEAN, resetHigh : BOOLEAN, last : BOOLEAN]

\* The engine runs only with bytes to move and a direction to move them in, and
\* never a whole lap around the address space.
Armed(d, f) ==
  d.active => /\ d.count # 0 /\ "ENABLE" \in d.control /\ d.direction # "None"
              /\ Gap(f, d.address) + d.count < AddrSpace

\* Byte i of a transfer is in its lane.
InLane(d, f, t, i) == At(f, i) % 4 \in d.valid /\ d.fifo[At(f, i) % 4] = t[i]

\* NothingLost of registers d, memory m and the bytes t taken since f.
Kept(d, m, f, t) == \A i \in 1..Len(t) : m[At(f, i)] = t[i] \/ InLane(d, f, t, i)

\* The lanes that are valid hold the bytes of t that belong there.
LanesTaken(d, f, t) ==
  \A l \in d.valid : \E i \in 1..Len(t) : At(f, i) = WordBase(d.address) + l

\* While bytes arrive, those of the present word are in their lanes and all
\* others in memory, and no other lane is valid.
Assembled(d, m, f, t) ==
  /\ Len(t) = Gap(f, d.address)
  /\ \A l \in d.valid : l < d.address % 4
  /\ LanesTaken(d, f, t)
  /\ \A i \in 1..Len(t) : IF At(f, i) \in Passed(d.address) THEN InLane(d, f, t, i)
                                                            ELSE m[At(f, i)] = t[i]

Places(d, m, f, t) ==
  /\ Kept(d, m, f, t)
  /\ d.active /\ d.direction = "ToScsi" => d.valid = {} /\ t = << >>
  /\ d.active /\ d.direction = "FromScsi" => Assembled(d, m, f, t)

\* Registers, memory and history that agree with each other.
Settled(d, m, f, t) ==
  /\ d \in DmaRegisters /\ m \in [Addrs -> Byte] /\ f \in Addrs /\ t \in Seq(Byte)
  /\ Armed(d, f)
  /\ Places(d, m, f, t)

DInv == /\ Sound(scsi) /\ Settled(dma, mem, from, taken)
        /\ oss \in BOOLEAN /\ (oss <=> dma.last)

-----------------------------------------------------------------------------
(* Operators that keep it                                                  *)

LEMMA IrqType ==
  ASSUME NEW d, NEW s, Sound(s), d \in DmaRegisters
  PROVE  IrqAsserted(d, s) \in BOOLEAN
BY DEF IrqAsserted

\* Only these registers matter to Settled.
SameRegs(d, e) ==
  /\ e \in DmaRegisters
  /\ e.address = d.address /\ e.count = d.count /\ e.fifo = d.fifo /\ e.valid = d.valid
  /\ e.direction = d.direction /\ e.control = d.control /\ (e.active <=> d.active)

LEMMA SameRegsSettled ==
  ASSUME NEW d, NEW m, NEW f, NEW t, NEW e, Settled(d, m, f, t), SameRegs(d, e)
  PROVE  Settled(e, m, f, t)
<1>1. Armed(e, f)
  BY DEF Settled, SameRegs, Armed
<1>2. \A i : InLane(d, f, t, i) => InLane(e, f, t, i)
  BY DEF InLane, SameRegs
<1>3. Kept(e, m, f, t)
  BY <1>2 DEF Settled, Places, Kept
<1>4. Assembled(d, m, f, t) => Assembled(e, m, f, t)
  BY <1>2 DEF Assembled, LanesTaken, SameRegs
<1> QED
  BY <1>1, <1>3, <1>4 DEF Settled, Places, SameRegs

\* A transfer that ends leaves every byte where it was.
Stopped(d, e) ==
  /\ e \in DmaRegisters /\ ~e.active
  /\ e.fifo = d.fifo /\ e.valid = d.valid

LEMMA StoppedSettled ==
  ASSUME NEW d, NEW m, NEW f, NEW t, NEW e, Stopped(d, e),
         m \in [Addrs -> Byte], f \in Addrs, t \in Seq(Byte), Kept(d, m, f, t)
  PROVE  Settled(e, m, f, t)
<1>1. \A i : InLane(d, f, t, i) => InLane(e, f, t, i)
  BY DEF InLane, Stopped
<1>2. Kept(e, m, f, t)
  BY <1>1 DEF Kept
<1> QED
  BY <1>2 DEF Settled, Places, Stopped, Armed

\* Notify delivers the level and leaves the rest alone.
LEMMA NotifySettled ==
  ASSUME NEW d, NEW s, NEW m, NEW f, NEW t, Settled(d, m, f, t), Sound(s),
         d.last = dma.last, oss \in BOOLEAN, oss <=> dma.last, Notify(d, s)
  PROVE  /\ Settled(dma', m, f, t)
         /\ oss' \in BOOLEAN /\ (oss' <=> dma'.last)
         /\ oss' = IrqAsserted(dma', s)
         /\ SameRegs(d, dma')
<1> DEFINE q == IrqAsserted(d, s)
<1>1. d \in DmaRegisters
  BY DEF Settled
<1>2. q \in BOOLEAN
  BY <1>1, IrqType
<1>3. dma' = [d EXCEPT !.last = q] /\ oss' = IF q # d.last THEN q ELSE oss
  BY DEF Notify
<1>4. IrqAsserted(d, s) = q
  OBVIOUS
<1> HIDE DEF q
<1>5. dma' \in DmaRegisters /\ SameRegs(d, dma') /\ (dma'.last <=> q)
      /\ dma'.control = d.control /\ dma'.wdPending = d.wdPending
  BY <1>1, <1>2, <1>3 DEF DmaRegisters, SameRegs
<1>6. d.last \in BOOLEAN
  BY <1>1 DEF DmaRegisters
<1>7. oss' \in BOOLEAN /\ (oss' <=> q)
  BY <1>2, <1>3, <1>6
<1>8. IrqAsserted(dma', s) <=> q
  BY <1>4, <1>5 DEF IrqAsserted
<1>9. IrqAsserted(dma', s) \in BOOLEAN
  BY <1>5, IrqType
<1>10. oss' = IrqAsserted(dma', s)
  BY <1>7, <1>8, <1>9
<1>11. Settled(dma', m, f, t)
  BY <1>5, SameRegsSettled
<1> QED
  BY <1>5, <1>7, <1>10, <1>11

-----------------------------------------------------------------------------
(* A byte from the target                                                  *)

\* The registers with byte b in its lane.
Held(d, b) == [d EXCEPT !.fifo[d.address % 4] = b, !.valid = @ \cup {d.address % 4}]

\* Registers that differ in the lanes, in the place of the transfer or in the watchdog.
Alongside(d, e) ==
  /\ e \in DmaRegisters
  /\ e.control = d.control /\ e.direction = d.direction /\ e.last = d.last
  /\ (e.active <=> d.active)

SamePlace(d, e) == e.address = d.address /\ e.count = d.count

LEMMA HeldFields ==
  ASSUME NEW d \in DmaRegisters, NEW b \in Byte, NEW e, e = Held(d, b)
  PROVE  /\ Alongside(d, e) /\ SamePlace(d, e)
         /\ e.fifo = [d.fifo EXCEPT ![d.address % 4] = b]
         /\ e.valid = d.valid \cup {d.address % 4}
<1> DEFINE lane == d.address % 4
           fifo == [d.fifo EXCEPT ![lane] = b]
           valid == d.valid \cup {lane}
<1>1. lane \in Lanes
  BY WordFacts DEF DmaRegisters
<1>2. e = [d EXCEPT !.fifo = fifo, !.valid = valid]
  BY DEF Held
<1>3. fifo \in [Lanes -> Byte] /\ valid \in SUBSET Lanes
  BY <1>1 DEF DmaRegisters
<1> HIDE DEF fifo, valid, lane
<1>4. e \in DmaRegisters /\ e.fifo = fifo /\ e.valid = valid
  BY <1>2, <1>3 DEF DmaRegisters
<1>5. e.address = d.address /\ e.count = d.count /\ e.control = d.control
      /\ e.direction = d.direction /\ e.last = d.last /\ (e.active <=> d.active)
  BY <1>2 DEF DmaRegisters
<1>6. Alongside(d, e) /\ SamePlace(d, e)
  BY <1>4, <1>5 DEF Alongside, SamePlace
<1> QED
  BY <1>4, <1>6 DEF fifo, valid, lane

\* The new byte, the last of u, has joined those of its word in e's lanes; the others
\* are where they were.
Joined(d, m, f, e, u) ==
  /\ u \in Seq(Byte) /\ Len(u) = Gap(f, d.address) + 1
  /\ \A i \in 1..Len(u) : IF At(f, i) \in Passed(d.address) \cup {d.address}
                           THEN InLane(e, f, u, i) ELSE m[At(f, i)] = u[i]
  /\ LanesTaken(e, f, u)
  /\ \A l \in e.valid : l <= d.address % 4

LEMMA ReceiveAssembles ==
  ASSUME NEW d, NEW m, NEW f, NEW t, Settled(d, m, f, t), d.active, d.direction = "FromScsi",
         NEW b \in Byte, NEW e, e = Held(d, b), NEW u, u = Append(t, b)
  PROVE  Joined(d, m, f, e, u)
<1> DEFINE a == d.address
           g == Gap(f, a)
           lane == a % 4
<1>1. d \in DmaRegisters /\ f \in Addrs /\ t \in Seq(Byte) /\ Assembled(d, m, f, t) /\ Armed(d, f)
  BY DEF Settled, Places
<1>2. a \in Addrs /\ d.count \in Nat /\ d.valid \in SUBSET Lanes /\ d.fifo \in [Lanes -> Byte]
  BY <1>1 DEF DmaRegisters, Addrs
<1>3. g \in Nat /\ g + 1 <= AddrSpace
  <2>1. g \in Addrs
    BY <1>1, <1>2, GapCases
  <2> HIDE DEF g
  <2> QED
    BY <2>1, Space DEF Addrs
<1>4. Len(t) = g /\ Len(u) = g + 1 /\ u \in Seq(Byte) /\ u[g + 1] = b
      /\ \A i \in 1..g : u[i] = t[i]
  BY <1>1 DEF Assembled
<1>5. lane \in Lanes /\ \A c \in Passed(a) : c % 4 \in Lanes /\ c % 4 < lane
  BY <1>2, WordFacts
<1>6. At(f, g + 1) = a
  BY <1>1, <1>2, AtGap
<1>7. e.fifo = [d.fifo EXCEPT ![lane] = b] /\ e.valid = d.valid \cup {lane} /\ e.address = a
  BY <1>1, HeldFields DEF SamePlace
<1>8. \A i \in 1..g : At(f, i) # a
  <2> SUFFICES ASSUME NEW i \in 1..g, At(f, i) = a PROVE FALSE
    OBVIOUS
  <2>1. i \in 1..AddrSpace /\ g + 1 \in 1..AddrSpace
    BY <1>3, Space
  <2>2. i = g + 1
    BY <1>1, <1>6, <2>1, AtDistinct
  <2> QED
    BY <1>3, <2>2
<1>9. InLane(e, f, u, g + 1)
  BY <1>2, <1>4, <1>5, <1>6, <1>7 DEF InLane
<1>10. ASSUME NEW i \in 1..g
       PROVE  IF At(f, i) \in Passed(a) \cup {a} THEN InLane(e, f, u, i) ELSE m[At(f, i)] = u[i]
  <2>1. i \in 1..Len(t) /\ u[i] = t[i] /\ At(f, i) # a
    BY <1>4, <1>8
  <2>2. CASE At(f, i) \in Passed(a)
    <3>1. InLane(d, f, t, i)
      BY <1>1, <2>1, <2>2 DEF Assembled
    <3> DEFINE k == At(f, i) % 4
    <3>2. k \in d.valid /\ d.fifo[k] = t[i] /\ k \in Lanes /\ k < lane
      BY <1>5, <2>2, <3>1 DEF InLane
    <3> HIDE DEF k
    <3>3. k # lane /\ k \in e.valid /\ e.fifo[k] = u[i]
      BY <1>2, <1>5, <1>7, <2>1, <3>2 DEF Lanes
    <3> QED
      BY <2>2, <3>3 DEF InLane, k
  <2>3. CASE At(f, i) \notin Passed(a)
    BY <1>1, <2>1, <2>3 DEF Assembled
  <2> QED
    BY <2>2, <2>3
<1>11. \A i \in 1..Len(u) : IF At(f, i) \in Passed(a) \cup {a} THEN InLane(e, f, u, i)
                                                              ELSE m[At(f, i)] = u[i]
  <2> SUFFICES ASSUME NEW i \in 1..Len(u)
               PROVE  IF At(f, i) \in Passed(a) \cup {a} THEN InLane(e, f, u, i)
                                                         ELSE m[At(f, i)] = u[i]
    OBVIOUS
  <2>1. i \in 1..g \/ i = g + 1
    BY <1>3, <1>4
  <2> QED
    BY <1>6, <1>9, <1>10, <2>1
<1>12. LanesTaken(e, f, u)
  <2> SUFFICES ASSUME NEW l \in e.valid
               PROVE  \E i \in 1..Len(u) : At(f, i) = WordBase(a) + l
    BY <1>7 DEF LanesTaken
  <2>1. CASE l \in d.valid
    <3>1. PICK i \in 1..Len(t) : At(f, i) = WordBase(a) + l
      BY <1>1, <2>1 DEF Assembled, LanesTaken
    <3>2. i \in 1..Len(u)
      BY <1>3, <1>4
    <3> QED
      BY <3>1, <3>2
  <2>2. CASE l = lane
    <3>1. WordBase(a) + l = a
      BY <1>2, <2>2, WordFacts
    <3>2. g + 1 \in 1..Len(u)
      BY <1>3, <1>4
    <3> QED
      BY <1>6, <3>1, <3>2
  <2> QED
    BY <1>7, <2>1, <2>2
<1>13. \A l \in e.valid : l <= lane
  <2>1. \A l \in d.valid : l < lane
    BY <1>1 DEF Assembled
  <2> QED
    BY <1>2, <1>5, <1>7, <2>1 DEF Lanes
<1> QED
  BY <1>4, <1>11, <1>12, <1>13 DEF Joined

LEMMA AdvanceFields ==
  ASSUME NEW d \in DmaRegisters, d.count # 0, NEW e, e = Advance(d)
  PROVE  /\ Alongside(d, e)
         /\ e.address = (d.address + 1) % AddrSpace /\ e.count = d.count - 1
         /\ e.fifo = d.fifo /\ e.valid = d.valid
<1> DEFINE a == (d.address + 1) % AddrSpace
           n == d.count - 1
<1>1. e = [d EXCEPT !.address = a, !.count = n, !.counter = d.reload]
  BY DEF Advance
<1>2. a \in Addrs
  BY NextAddress DEF DmaRegisters
<1>3. n \in Addrs
  BY Space DEF DmaRegisters, Addrs
<1> HIDE DEF a, n
<1>4. e \in DmaRegisters /\ e.address = a /\ e.count = n
  BY <1>1, <1>2, <1>3 DEF DmaRegisters
<1>5. e.fifo = d.fifo /\ e.valid = d.valid /\ e.control = d.control
      /\ e.direction = d.direction /\ e.last = d.last /\ (e.active <=> d.active)
  BY <1>1 DEF DmaRegisters
<1>6. Alongside(d, e)
  BY <1>4, <1>5 DEF Alongside
<1> QED
  BY <1>4, <1>5, <1>6 DEF a, n

LEMMA FinishFields ==
  ASSUME NEW d \in DmaRegisters, NEW e, e = FinishDma(d)
  PROVE  Stopped(d, e) /\ e.last = d.last
BY DEF FinishDma, Stopped, DmaRegisters

LEMMA BusErrorFields ==
  ASSUME NEW d \in DmaRegisters, NEW e, e = BusError(d)
  PROVE  Stopped(d, e) /\ e.last = d.last
BY DEF BusError, Stopped, DmaRegisters

LEMMA ClearFields ==
  ASSUME NEW d \in DmaRegisters, NEW e, e = [d EXCEPT !.valid = {}]
  PROVE  Alongside(d, e) /\ SamePlace(d, e) /\ e.fifo = d.fifo /\ e.valid = {}
BY DEF Alongside, SamePlace, DmaRegisters

\* A byte in the middle of a word waits in its lane.
LEMMA ByteWaits ==
  ASSUME NEW d, NEW m, NEW f, NEW t, Settled(d, m, f, t), d.active, d.direction = "FromScsi",
         d.address % 4 # 3, d.count # 1,
         NEW b \in Byte, NEW e, e = Held(d, b), NEW u, u = Append(t, b), NEW n, n = Advance(e)
  PROVE  Settled(n, m, f, u) /\ n.count # 0 /\ n.last = d.last
<1> DEFINE a == d.address
           c == (a + 1) % AddrSpace
<1>1. d \in DmaRegisters /\ f \in Addrs /\ m \in [Addrs -> Byte] /\ Armed(d, f)
  BY DEF Settled
<1>2. a \in Addrs /\ d.count \in Addrs /\ d.count # 0 /\ Gap(f, a) + d.count < AddrSpace
      /\ "ENABLE" \in d.control
  BY <1>1 DEF Armed, DmaRegisters
<1>3. d.count \in Nat /\ d.count >= 2 /\ Gap(f, a) \in Nat
  <2>1. d.count \in Nat /\ d.count >= 2
    BY <1>2, Space DEF Addrs
  <2>2. Gap(f, a) \in Addrs
    BY <1>1, <1>2, GapCases
  <2> QED
    BY <2>1, <2>2, Space DEF Addrs
<1>4. Alongside(d, e) /\ SamePlace(d, e) /\ e \in DmaRegisters
  BY ZenonT(60), <1>1, HeldFields DEF Alongside
<1>5. /\ Alongside(d, n) /\ n.address = c /\ n.count = d.count - 1
      /\ n.fifo = e.fifo /\ n.valid = e.valid
  <2>1. e.count # 0 /\ e.count = d.count /\ e.address = a
    BY <1>2, <1>4 DEF SamePlace
  <2>2. Alongside(e, n) /\ n.address = (e.address + 1) % AddrSpace /\ n.count = e.count - 1
        /\ n.fifo = e.fifo /\ n.valid = e.valid
    BY <1>4, <2>1, AdvanceFields
  <2> QED
    BY <1>4, <2>1, <2>2 DEF Alongside
<1>6. a + 1 < AddrSpace /\ WordBase(a + 1) = WordBase(a) /\ (a + 1) % 4 = (a % 4) + 1
  BY <1>2, WordFacts
<1>7. c = a + 1
  BY <1>2, <1>6, NextAddress
<1>8. Gap(f, c) = Gap(f, a) + 1
  BY <1>1, <1>2, <1>3, GapGrows, Space
<1>9. /\ u \in Seq(Byte) /\ Len(u) = Gap(f, a) + 1
      /\ \A i \in 1..Len(u) : IF At(f, i) \in Passed(a) \cup {a} THEN InLane(e, f, u, i)
                                                               ELSE m[At(f, i)] = u[i]
      /\ LanesTaken(e, f, u)
      /\ \A l \in e.valid : l <= a % 4
  <2>1. Joined(d, m, f, e, u)
    BY ReceiveAssembles
  <2> QED
    BY <2>1 DEF Joined
<1>10. Passed(c) = Passed(a) \cup {a}
  <2>1. a \in Nat /\ WordBase(a) \in Int /\ WordBase(a) <= a
    BY <1>2, Space DEF WordBase, Addrs
  <2> QED
    BY <1>6, <1>7, <2>1 DEF Passed
<1>11. \A i : InLane(e, f, u, i) => InLane(n, f, u, i)
  BY <1>5 DEF InLane
<1>12. LanesTaken(n, f, u)
  BY <1>4, <1>5, <1>6, <1>7, <1>9 DEF LanesTaken, SamePlace
<1>13. \A l \in n.valid : l < c % 4
  <2>1. a % 4 \in Lanes /\ c % 4 = (a % 4) + 1 /\ n.valid \in SUBSET Lanes
    BY <1>2, <1>5, <1>6, <1>7, WordFacts DEF DmaRegisters, Alongside
  <2> QED
    BY <1>5, <1>9, <2>1 DEF Lanes
<1>14. Assembled(n, m, f, u)
  BY <1>5, <1>8, <1>9, <1>10, <1>11, <1>12, <1>13 DEF Assembled
<1>15. Kept(n, m, f, u)
  BY <1>9, <1>11 DEF Kept
<1>16. Armed(n, f)
  BY <1>2, <1>3, <1>5, <1>8 DEF Armed, Alongside
<1> QED
  BY <1>1, <1>3, <1>5, <1>9, <1>14, <1>15, <1>16 DEF Settled, Places, Alongside

-----------------------------------------------------------------------------
(* The word that is written out                                            *)

\* What a flush writes, of registers that hold a received byte: every address is
\* either as it was or that of a byte taken, and it holds that byte.
LEMMA FlushWrites ==
  ASSUME NEW d, NEW f, NEW t, Settled(d, mem, f, t), d.active, d.direction = "FromScsi",
         NEW b \in Byte, NEW e, e = Held(d, b), NEW u, u = Append(t, b), NEW m, m = FlushTo(e)
  PROVE  /\ m \in [Addrs -> Byte]
         /\ Kept(e, m, f, u)
         /\ Reached(e) = e.valid => \A i \in 1..Len(u) : m[At(f, i)] = u[i]
         /\ \A x \in Addrs : m[x] # mem[x] => \E i \in 1..Len(u) : x = At(f, i) /\ m[x] = u[i]
<1> DEFINE a == d.address
           w == WordBase(a)
           W == {w + l : l \in Reached(e)}
<1>1. d \in DmaRegisters /\ f \in Addrs /\ mem \in [Addrs -> Byte] /\ a \in Addrs
  BY DEF Settled, DmaRegisters
<1>2. /\ u \in Seq(Byte) /\ Len(u) = Gap(f, a) + 1
      /\ \A i \in 1..Len(u) : IF At(f, i) \in Passed(a) \cup {a} THEN InLane(e, f, u, i)
                                                               ELSE mem[At(f, i)] = u[i]
      /\ LanesTaken(e, f, u)
      /\ \A l \in e.valid : l <= a % 4
  <2>1. Joined(d, mem, f, e, u)
    BY ReceiveAssembles
  <2> QED
    BY <2>1 DEF Joined
<1>3. e \in DmaRegisters /\ e.address = a
  <2>1. Alongside(d, e) /\ SamePlace(d, e)
    BY <1>1, HeldFields
  <2> QED
    BY <2>1 DEF Alongside, SamePlace
<1>4. e.valid \in SUBSET Lanes /\ e.fifo \in [Lanes -> Byte] /\ Reached(e) \subseteq e.valid
  BY <1>3 DEF DmaRegisters, Reached
<1>5. \A l \in Lanes : w + l \in Addrs /\ (w + l) % 4 = l
  BY <1>1, WordFacts
<1>6. m = [x \in Addrs |-> IF x \in W THEN e.fifo[x % 4] ELSE mem[x]]
  BY <1>3 DEF FlushTo
<1>7. \A x \in W : x \in Addrs /\ x % 4 \in Reached(e) /\ x = w + (x % 4)
  BY <1>4, <1>5
<1>8. \A l \in Lanes : l <= a % 4 => w + l \in Passed(a) \cup {a}
  <2> SUFFICES ASSUME NEW l \in Lanes, l <= a % 4 PROVE w + l \in Passed(a) \cup {a}
    OBVIOUS
  <2>1. a % 4 \in Lanes /\ w + (a % 4) = a
    BY <1>1, WordFacts
  <2>2. l < a % 4 \/ l = a % 4
    BY <2>1 DEF Lanes
  <2> QED
    BY <1>1, <2>1, <2>2, WordFacts
<1>9. W \subseteq Passed(a) \cup {a}
  BY <1>2, <1>4, <1>8
<1>10. \A i \in 1..Len(u) : At(f, i) \in Addrs
  BY <1>1, <1>2, AtIsAddress
<1> HIDE DEF W
<1>11. m \in [Addrs -> Byte]
  <2> SUFFICES ASSUME NEW x \in Addrs PROVE (IF x \in W THEN e.fifo[x % 4] ELSE mem[x]) \in Byte
    BY <1>6
  <2>1. x \in W => x % 4 \in Lanes
    BY <1>4, <1>7
  <2> QED
    BY <1>1, <1>4, <2>1
<1>12. ASSUME NEW i \in 1..Len(u)
       PROVE  /\ m[At(f, i)] = u[i] \/ InLane(e, f, u, i)
              /\ Reached(e) = e.valid => m[At(f, i)] = u[i]
  <2> DEFINE x == At(f, i)
  <2>1. x \in Addrs
    BY <1>10
  <2>2. CASE x \in W
    <3>1. InLane(e, f, u, i)
      BY <1>2, <1>9, <2>2
    <3>2. m[x] = e.fifo[x % 4]
      BY <1>6, <2>1, <2>2
    <3> QED
      BY <3>1, <3>2 DEF InLane
  <2>3. CASE x \notin W
    <3>1. m[x] = mem[x]
      BY <1>6, <2>1, <2>3
    <3>2. CASE x \in Passed(a) \cup {a}
      <4>1. InLane(e, f, u, i)
        BY <1>2, <3>2
      <4>2. x % 4 \in e.valid
        BY <4>1 DEF InLane
      <4>3. x = w + (x % 4)
        BY <1>1, <3>2, WordFacts
      <4>4. Reached(e) # e.valid
        BY <2>3, <4>2, <4>3 DEF W
      <4> QED
        BY <4>1, <4>4
    <3>3. CASE x \notin Passed(a) \cup {a}
      BY <1>2, <3>1, <3>3
    <3> QED
      BY <3>2, <3>3
  <2> QED
    BY <2>2, <2>3
<1>13. ASSUME NEW x \in Addrs, m[x] # mem[x]
       PROVE  \E i \in 1..Len(u) : x = At(f, i) /\ m[x] = u[i]
  <2>1. x \in W /\ m[x] = e.fifo[x % 4]
    BY <1>6, <1>13
  <2>2. x % 4 \in e.valid /\ x = w + (x % 4)
    BY <1>4, <1>7, <2>1
  <2>3. PICK i \in 1..Len(u) : At(f, i) = w + (x % 4)
    BY <1>2, <1>3, <2>2 DEF LanesTaken
  <2>4. InLane(e, f, u, i)
    BY <1>2, <1>9, <2>1, <2>2, <2>3
  <2> QED
    BY <2>1, <2>2, <2>3, <2>4 DEF InLane
<1> QED
  BY <1>11, <1>12, <1>13 DEF Kept

\* The word is written out whole: with its last byte, or the last of the transfer.
LEMMA WordWritten ==
  ASSUME NEW d, NEW f, NEW t, Settled(d, mem, f, t), d.active, d.direction = "FromScsi",
         d.address % 4 = 3 \/ d.count = 1,
         NEW b \in Byte, NEW e, e = Held(d, b), NEW u, u = Append(t, b), Reached(e) = e.valid,
         NEW m, m = FlushTo(e), NEW n, n = Advance([e EXCEPT !.valid = {}])
  PROVE  /\ n.count # 0 => Settled(n, m, f, u)
         /\ Settled(FinishDma(n), m, f, u)
         /\ n \in DmaRegisters /\ n.last = d.last
<1> DEFINE a == d.address
           c == (a + 1) % AddrSpace
           k == [e EXCEPT !.valid = {}]
<1>1. d \in DmaRegisters /\ f \in Addrs /\ Armed(d, f)
  BY DEF Settled
<1>2. a \in Addrs /\ d.count \in Addrs /\ d.count # 0 /\ Gap(f, a) + d.count < AddrSpace
      /\ "ENABLE" \in d.control
  BY <1>1 DEF Armed, DmaRegisters
<1>3. Alongside(d, e) /\ SamePlace(d, e)
  BY <1>1, HeldFields
<1>4. Alongside(e, k) /\ SamePlace(e, k) /\ k.valid = {}
  BY <1>3, ClearFields DEF Alongside
<1>5. n = Advance(k)
  OBVIOUS
<1> HIDE DEF k
<1>6. k.count # 0 /\ k.count = d.count /\ k.address = a /\ k \in DmaRegisters
  BY <1>2, <1>3, <1>4 DEF SamePlace, Alongside
<1>7. Alongside(k, n) /\ n.address = c /\ n.count = d.count - 1 /\ n.valid = {}
  BY <1>4, <1>5, <1>6, AdvanceFields
<1>8. Alongside(d, n)
  BY <1>3, <1>4, <1>7 DEF Alongside
<1>9. Joined(d, mem, f, e, u)
  BY ReceiveAssembles
<1>10. u \in Seq(Byte) /\ Len(u) = Gap(f, a) + 1
  BY <1>9 DEF Joined
<1>11. m \in [Addrs -> Byte] /\ \A i \in 1..Len(u) : m[At(f, i)] = u[i]
  BY FlushWrites
<1>12. \A r : Kept(r, m, f, u)
  BY <1>11 DEF Kept
<1>13. ASSUME n.count # 0
       PROVE  Settled(n, m, f, u)
  <2>1. a % 4 = 3 /\ d.count \in Nat /\ d.count >= 2 /\ Gap(f, a) \in Nat
    <3>1. Gap(f, a) \in Addrs
      BY <1>1, <1>2, GapCases
    <3>2. d.count \in Nat /\ d.count # 1
      BY <1>2, <1>7, <1>13, Space DEF Addrs
    <3> QED
      BY <1>2, <3>1, <3>2, Space DEF Addrs
  <2>2. Gap(f, c) = Gap(f, a) + 1
    BY <1>1, <1>2, <2>1, GapGrows, Space
  <2>3. Passed(c) = {}
    <3>1. IF a + 1 < AddrSpace THEN Passed(a + 1) = {} ELSE Passed(0) = {}
      BY <1>2, <2>1, WordFacts
    <3>2. c = IF a + 1 < AddrSpace THEN a + 1 ELSE 0
      BY <1>2, NextAddress
    <3> QED
      BY <3>1, <3>2
  <2>4. Assembled(n, m, f, u)
    BY <1>7, <1>10, <1>11, <2>2, <2>3 DEF Assembled, LanesTaken
  <2>5. Armed(n, f)
    BY <1>2, <1>7, <1>8, <1>13, <2>1, <2>2 DEF Armed, Alongside
  <2> QED
    BY <1>1, <1>8, <1>10, <1>11, <1>12, <2>4, <2>5 DEF Settled, Places, Alongside
<1>14. Settled(FinishDma(n), m, f, u)
  <2> DEFINE o == FinishDma(n)
  <2>1. Stopped(n, o)
    BY <1>8, FinishFields DEF Alongside
  <2> HIDE DEF o
  <2>2. Settled(o, m, f, u)
    BY <1>1, <1>10, <1>11, <1>12, <2>1, StoppedSettled
  <2> QED
    BY <2>2 DEF o
<1> QED
  BY <1>8, <1>13, <1>14 DEF Alongside

\* A fault stops the engine with the bytes still in their lanes.
LEMMA WordFaults ==
  ASSUME NEW d, NEW f, NEW t, Settled(d, mem, f, t), d.active, d.direction = "FromScsi",
         NEW b \in Byte, NEW e, e = Held(d, b), NEW u, u = Append(t, b), NEW m, m = FlushTo(e)
  PROVE  Settled(BusError(e), m, f, u)
<1> DEFINE n == BusError(e)
<1>1. e \in DmaRegisters /\ f \in Addrs
  <2>1. d \in DmaRegisters /\ f \in Addrs
    BY DEF Settled
  <2>2. Alongside(d, e)
    BY <2>1, HeldFields
  <2> QED
    BY <2>1, <2>2 DEF Alongside
<1>2. Stopped(e, n)
  BY <1>1, BusErrorFields
<1>3. Joined(d, mem, f, e, u)
  BY ReceiveAssembles
<1>4. u \in Seq(Byte)
  BY <1>3 DEF Joined
<1>5. m \in [Addrs -> Byte] /\ Kept(e, m, f, u)
  BY FlushWrites
<1> HIDE DEF n
<1>6. Settled(n, m, f, u)
  BY <1>1, <1>2, <1>4, <1>5, StoppedSettled
<1> QED
  BY <1>6 DEF n

-----------------------------------------------------------------------------
(* The byte slot                                                           *)

LEMMA PeekType ==
  ASSUME NEW s \in ScsiState
  PROVE  PeekDataIn(s) \in Byte
<1>1. 0 \in Byte /\ s.status \in Byte /\ s.odr \in Byte
  BY DEF ScsiState, Byte, Good, CheckStatus
<1>2. s.xferPos < Len(s.xfer) => s.xfer[s.xferPos + 1] \in Byte
  <2>1. s.xfer \in Seq(Byte) /\ s.xferPos \in Nat
    BY DEF ScsiState
  <2> QED
    BY <2>1, ElementOfSeq
<1> QED
  BY <1>1, <1>2 DEF PeekDataIn

\* A step that ends by notifying of settled registers.
LEMMA NotifyKeeps ==
  ASSUME DInv, NEW d, Settled(d, mem', from', taken'), Sound(scsi'), d.last = dma.last,
         Notify(d, scsi')
  PROVE  DInv' /\ oss' = IrqAsserted(dma', scsi')
<1>1. oss \in BOOLEAN /\ (oss <=> dma.last)
  BY DEF DInv
<1>2. /\ Settled(dma', mem', from', taken')
      /\ oss' \in BOOLEAN /\ (oss' <=> dma'.last)
      /\ oss' = IrqAsserted(dma', scsi')
  BY <1>1, NotifySettled
<1> QED
  BY <1>2 DEF DInv

\* What a step writes to memory is a byte taken, at its address.
Window == \A x \in Addrs : mem'[x] # mem[x] =>
             \E i \in 1..Len(taken') : x = At(from, i) /\ mem'[x] = taken'[i]

LEMMA SendKeeps ==
  ASSUME DInv, NEW d, Settled(d, mem, from, taken), d.last = dma.last, d.active,
         d.direction = "ToScsi", NEW a \in Operands, SendByte(d, scsi, a),
         UNCHANGED << mem, taken, from >>
  PROVE  DInv' /\ oss' = IrqAsserted(dma', scsi')
<1> DEFINE d1 == [d EXCEPT !.fifo[d.address % 4] = mem[d.address], !.valid = @ \ {d.address % 4}]
           done == Advance(d1)
           s1 == WriteDataOut(scsi, mem[d.address], a)
           fifo == [d.fifo EXCEPT ![d.address % 4] = mem[d.address]]
           valid == d.valid \ {d.address % 4}
<1>1. /\ d \in DmaRegisters /\ from \in Addrs /\ taken \in Seq(Byte) /\ mem \in [Addrs -> Byte]
      /\ Armed(d, from) /\ taken = << >> /\ d.valid = {} /\ Sound(scsi)
  BY DEF Settled, Places, DInv
<1>2. d.address \in Addrs /\ d.count \in Addrs /\ d.count # 0 /\ "ENABLE" \in d.control
      /\ Gap(from, d.address) + d.count < AddrSpace
  BY <1>1 DEF Armed, DmaRegisters
<1>3. UNCHANGED mem /\ UNCHANGED taken /\ UNCHANGED from
  OBVIOUS
<1>4. CASE d.address \in BadAddrs
  <2> DEFINE e == BusError(d)
  <2>1. scsi' = scsi /\ Notify(e, scsi')
    BY <1>4 DEF SendByte
  <2>2. Stopped(d, e) /\ e.last = d.last
    BY <1>1, BusErrorFields
  <2>3. Kept(d, mem, from, taken)
    BY DEF Settled, Places
  <2> HIDE DEF e
  <2>4. Settled(e, mem', from', taken')
    BY <1>1, <1>3, <2>2, <2>3, StoppedSettled
  <2>5. Sound(scsi')
    BY <1>1, <2>1
  <2> QED
    BY <2>1, <2>2, <2>4, <2>5, NotifyKeeps
<1>5. CASE d.address \notin BadAddrs
  <2> DEFINE e == IF done.count = 0 THEN FinishDma(done) ELSE done
             s2 == IF done.count = 0 THEN SignalEndOfProcess(s1) ELSE s1
  <2>1. scsi' = s2 /\ Notify(e, s2)
    BY <1>5 DEF SendByte
  <2>2. Sound(s1)
    <3>1. mem[d.address] \in Byte
      BY <1>1, <1>2
    <3> QED
      BY <1>1, <3>1, WriteDataOutSound
  <2>3. Alongside(d, d1) /\ SamePlace(d, d1) /\ d1.valid = {}
    <3>1. d.address % 4 \in Lanes
      BY <1>2, WordFacts
    <3>2. fifo \in [Lanes -> Byte] /\ valid = {}
      BY <1>1, <1>2, <3>1 DEF DmaRegisters
    <3>3. d1 = [d EXCEPT !.fifo = fifo, !.valid = valid]
      OBVIOUS
    <3> HIDE DEF fifo, valid, d1
    <3> QED
      BY <1>1, <3>2, <3>3 DEF Alongside, SamePlace, DmaRegisters
  <2>4. done = Advance(d1)
    OBVIOUS
  <2> HIDE DEF d1, s1
  <2>5. d1 \in DmaRegisters /\ d1.count # 0 /\ d1.count = d.count /\ d1.address = d.address
    BY <1>2, <2>3 DEF Alongside, SamePlace
  <2>6. /\ Alongside(d1, done) /\ done.count = d.count - 1 /\ done.valid = {}
        /\ done.address = (d.address + 1) % AddrSpace
    BY <2>3, <2>5, AdvanceFields
  <2> HIDE DEF done
  <2>7. Alongside(d, done)
    BY <2>3, <2>6 DEF Alongside
  <2>8. \A r : Kept(r, mem, from, taken)
    BY <1>1 DEF Kept
  <2>9. Sound(s2)
    BY <2>2, EndOfProcessSound
  <2>10. CASE done.count = 0
    <3> DEFINE o == FinishDma(done)
    <3>1. Stopped(done, o) /\ o.last = done.last
      BY <2>7, FinishFields DEF Alongside
    <3>2. Notify(o, scsi') /\ Sound(scsi')
      BY <2>1, <2>9, <2>10
    <3> HIDE DEF o
    <3>3. Settled(o, mem', from', taken')
      BY <1>1, <1>3, <2>8, <3>1, StoppedSettled
    <3>4. o.last = dma.last
      BY <2>7, <3>1 DEF Alongside
    <3> QED
      BY <3>2, <3>3, <3>4, NotifyKeeps
  <2>11. CASE done.count # 0
    <3>1. Notify(done, scsi') /\ Sound(scsi')
      BY <2>1, <2>9, <2>11
    <3>2. Gap(from, done.address) = Gap(from, d.address) + 1
      <4>1. d.count \in Nat /\ d.count >= 2
        BY <1>2, <2>6, <2>11, Space DEF Addrs
      <4>2. Gap(from, d.address) \in Nat
        <5>1. Gap(from, d.address) \in Addrs
          BY <1>1, <1>2, GapCases
        <5> QED
          BY <1>2, <5>1, Space DEF Addrs
      <4> QED
        BY <1>1, <1>2, <2>6, <4>1, <4>2, GapGrows, Space
    <3>3. Armed(done, from)
      <4>1. d.count \in Nat /\ Gap(from, d.address) \in Addrs
        <5>1. Gap(from, d.address) \in Addrs
          BY <1>1, <1>2, GapCases
        <5> QED
          BY <1>2, <5>1, Space DEF Addrs
      <4>2. Gap(from, done.address) + done.count < AddrSpace
        BY <1>2, <2>6, <3>2, <4>1, Space DEF Addrs
      <4> QED
        BY <1>2, <2>7, <2>11, <4>2 DEF Armed, Alongside
    <3>4. Settled(done, mem', from', taken')
      BY <1>1, <1>3, <2>6, <2>7, <2>8, <3>3 DEF Settled, Places, Alongside
    <3>5. done.last = dma.last
      BY <2>7 DEF Alongside
    <3> QED
      BY <3>1, <3>4, <3>5, NotifyKeeps
  <2> QED
    BY <2>10, <2>11
<1> QED
  BY <1>4, <1>5

LEMMA ReceiveKeeps ==
  ASSUME DInv, NEW d, Settled(d, mem, from, taken), d.last = dma.last, d.active,
         d.direction = "FromScsi", TargetReady(scsi), ReceiveByte(d, scsi), UNCHANGED from
  PROVE  DInv' /\ oss' = IrqAsserted(dma', scsi') /\ Window
<1> DEFINE b == PeekDataIn(scsi)
           e == [d EXCEPT !.fifo[d.address % 4] = b, !.valid = @ \cup {d.address % 4}]
           u == Append(taken, b)
           s1 == DmaDataIn(scsi)
           flush == d.address % 4 = 3 \/ d.count = 1
           whole == Reached(e) = e.valid
           n == Advance(IF flush THEN [e EXCEPT !.valid = {}] ELSE e)
           s2 == IF n.count = 0 THEN SignalEndOfProcess(s1) ELSE s1
           m == FlushTo(e)
           o == IF n.count = 0 THEN FinishDma(n) ELSE n
<1>1. /\ mem' = IF flush THEN m ELSE mem
      /\ taken' = u
      /\ IF flush /\ ~whole THEN scsi' = s1 /\ Notify(BusError(e), s1)
                            ELSE scsi' = s2 /\ Notify(o, s2)
  BY DEF ReceiveByte
<1>2. d \in DmaRegisters /\ Sound(scsi)
  BY DEF Settled, DInv
<1>3. b \in Byte
  BY <1>2, PeekType DEF Sound
<1>4. e = Held(d, b)
  BY DEF Held
<1>5. Sound(s1)
  BY <1>2, ConsumeDataInSound DEF DmaDataIn
<1>6. Sound(s2)
  BY <1>5, EndOfProcessSound
<1>7. from' = from
  OBVIOUS
<1>8. m = FlushTo(e) /\ u = Append(taken, b)
  OBVIOUS
<1>9. (flush => n = Advance([e EXCEPT !.valid = {}])) /\ (~flush => n = Advance(e))
  OBVIOUS
<1>10. flush \/ (d.address % 4 # 3 /\ d.count # 1)
  OBVIOUS
<1>11. (n.count = 0 => o = FinishDma(n)) /\ (n.count # 0 => o = n)
  OBVIOUS
<1>12. whole <=> Reached(e) = e.valid
  OBVIOUS
<1>13. flush => d.address % 4 = 3 \/ d.count = 1
  OBVIOUS
<1>14. Alongside(d, e)
  BY <1>2, <1>3, <1>4, HeldFields
<1> HIDE DEF b, e, u, s1, flush, whole, n, s2, m, o
<1>15. CASE ~flush
  <2>1. Settled(n, mem, from, u) /\ n.count # 0 /\ n.last = d.last
    <3>1. d.address % 4 # 3 /\ d.count # 1 /\ n = Advance(e) /\ u = Append(taken, b)
      BY <1>8, <1>9, <1>10, <1>15
    <3>2. Settled(n, mem, from, u)
      BY <1>3, <1>4, <3>1, ByteWaits
    <3>3. n.count # 0
      BY <1>3, <1>4, <3>1, ByteWaits
    <3>4. n.last = d.last
      BY <1>3, <1>4, <3>1, ByteWaits
    <3> QED
      BY <3>2, <3>3, <3>4
  <2>2. mem' = mem /\ taken' = u /\ scsi' = s2 /\ Notify(n, scsi')
    BY <1>1, <1>11, <1>15, <2>1
  <2>3. Settled(n, mem', from', taken') /\ n.last = dma.last /\ Sound(scsi')
    BY <1>6, <1>7, <2>1, <2>2
  <2>4. Window
    BY <2>2 DEF Window
  <2> QED
    BY <2>2, <2>3, <2>4, NotifyKeeps
<1>16. CASE flush
  <2>1. mem' = m /\ taken' = u
    BY <1>1, <1>16
  <2>2. Window
    <3>1. \A x \in Addrs : m[x] # mem[x] => \E i \in 1..Len(u) : x = At(from, i) /\ m[x] = u[i]
      BY <1>3, <1>4, <1>8, FlushWrites
    <3> QED
      BY <2>1, <3>1 DEF Window
  <2>3. CASE ~whole
    <3> DEFINE x == BusError(e)
    <3>1. scsi' = s1 /\ Notify(x, scsi')
      BY <1>1, <1>16, <2>3
    <3>2. Settled(x, m, from, u)
      BY <1>3, <1>4, <1>8, WordFaults
    <3>3. x.last = dma.last
      BY <1>14, BusErrorFields DEF Alongside
    <3> HIDE DEF x
    <3>4. Settled(x, mem', from', taken') /\ Sound(scsi')
      BY <1>5, <1>7, <2>1, <3>1, <3>2
    <3> QED
      BY <2>2, <3>1, <3>3, <3>4, NotifyKeeps
  <2>4. CASE whole
    <3>1. Reached(e) = e.valid /\ n = Advance([e EXCEPT !.valid = {}])
      BY <1>9, <1>12, <1>16, <2>4
    <3>2. d.address % 4 = 3 \/ d.count = 1
      BY <1>13, <1>16
    <3>3. /\ n.count # 0 => Settled(n, m, from, u)
          /\ Settled(FinishDma(n), m, from, u)
          /\ n \in DmaRegisters /\ n.last = d.last
      <4>1. u = Append(taken, b) /\ m = FlushTo(e)
        BY <1>8
      <4>2. n.count # 0 => Settled(n, m, from, u)
        BY <1>3, <1>4, <3>1, <3>2, <4>1, WordWritten
      <4>3. Settled(FinishDma(n), m, from, u)
        BY <1>3, <1>4, <3>1, <3>2, <4>1, WordWritten
      <4>4. n \in DmaRegisters
        BY <1>3, <1>4, <3>1, <3>2, <4>1, WordWritten
      <4>5. n.last = d.last
        BY <1>3, <1>4, <3>1, <3>2, <4>1, WordWritten
      <4> QED
        BY <4>2, <4>3, <4>4, <4>5
    <3>4. Settled(o, m, from, u)
      BY <1>11, <3>3
    <3>5. o.last = dma.last
      <4>1. n.count = 0 => FinishDma(n).last = n.last
        BY <3>3, FinishFields
      <4> QED
        BY <1>11, <3>3, <4>1
    <3>6. scsi' = s2 /\ Notify(o, scsi')
      BY <1>1, <2>4
    <3>7. Settled(o, mem', from', taken') /\ Sound(scsi')
      BY <1>6, <1>7, <2>1, <3>4, <3>6
    <3> QED
      BY <2>2, <3>5, <3>6, <3>7, NotifyKeeps
  <2> QED
    BY <2>3, <2>4
<1> QED
  BY <1>15, <1>16

\* The watchdog changes nothing that matters, or stops the engine.
LEMMA CountDownSettled ==
  ASSUME DInv, NEW n \in {1, 2}, NEW d, d = CountDown(dma, n)
  PROVE  Settled(d, mem, from, taken) /\ d.last = dma.last
<1>1. dma \in DmaRegisters /\ Settled(dma, mem, from, taken)
  BY DEF DInv, Settled
<1>2. dma.counter \in Nat
  BY <1>1 DEF DmaRegisters
<1>3. CASE dma.counter = 0
  BY <1>1, <1>3 DEF CountDown
<1>4. CASE dma.counter # 0 /\ n >= dma.counter
  <2>1. d = [dma EXCEPT !.counter = 0, !.wdPending = TRUE, !.active = FALSE]
    BY <1>4 DEF CountDown
  <2>2. Stopped(dma, d) /\ d.last = dma.last
    <3> DEFINE c == 0
               p == TRUE
               q == FALSE
    <3>0. d = [dma EXCEPT !.counter = c, !.wdPending = p, !.active = q]
          /\ c \in Nat /\ p \in BOOLEAN /\ q \in BOOLEAN
      BY <2>1
    <3> HIDE DEF c, p, q
    <3>1. d \in DmaRegisters
      BY <1>1, <3>0 DEF DmaRegisters
    <3>2. ~d.active /\ d.fifo = dma.fifo /\ d.valid = dma.valid /\ d.last = dma.last
      BY <1>1, <2>1 DEF DmaRegisters
    <3> QED
      BY <3>1, <3>2 DEF Stopped
  <2>3. mem \in [Addrs -> Byte] /\ from \in Addrs /\ taken \in Seq(Byte) /\ Kept(dma, mem, from, taken)
    BY <1>1 DEF Settled, Places
  <2> QED
    BY <2>2, <2>3, StoppedSettled
<1>5. CASE dma.counter # 0 /\ ~(n >= dma.counter)
  <2> DEFINE c == dma.counter - n
  <2>1. c \in Nat
    BY <1>2, <1>5
  <2>2. d = [dma EXCEPT !.counter = c]
    BY <1>5 DEF CountDown
  <2> HIDE DEF c
  <2>3. SameRegs(dma, d) /\ d.last = dma.last
    BY <1>1, <2>1, <2>2 DEF SameRegs, DmaRegisters
  <2> QED
    BY <1>1, <2>3, SameRegsSettled
<1> QED
  BY <1>3, <1>4, <1>5

LEMMA TickKeeps ==
  ASSUME DInv, Tick
  PROVE  DInv' /\ oss' = IrqAsserted(dma', scsi') /\ Window
<1>1. PICK n \in {1, 2}, slot \in BOOLEAN, a \in Operands :
        /\ UNCHANGED << from, accesses >>
        /\ IF slot /\ CountDown(dma, n).active /\ "ENABLE" \in CountDown(dma, n).control
           THEN TransferByte(CountDown(dma, n), scsi, a)
           ELSE Notify(CountDown(dma, n), scsi) /\ UNCHANGED << scsi, mem, taken >>
  BY DEF Tick
<1> DEFINE d == CountDown(dma, n)
<1>2. Settled(d, mem, from, taken) /\ d.last = dma.last
  BY CountDownSettled
<1>3. from' = from /\ Sound(scsi)
  BY <1>1 DEF DInv
<1>4. \/ d.active /\ TransferByte(d, scsi, a)
      \/ Notify(d, scsi) /\ UNCHANGED << scsi, mem, taken >>
  BY <1>1
<1> HIDE DEF d
<1>5. CASE Notify(d, scsi) /\ UNCHANGED << scsi, mem, taken >>
  <2>1. Settled(d, mem', from', taken') /\ Sound(scsi') /\ Notify(d, scsi') /\ mem' = mem
    BY <1>2, <1>3, <1>5
  <2> QED
    BY <1>2, <2>1, NotifyKeeps DEF Window
<1>6. CASE d.active /\ TransferByte(d, scsi, a)
  <2>1. d \in DmaRegisters /\ d.count # 0 /\ d.direction # "None"
    BY <1>2, <1>6 DEF Settled, Armed
  <2>2. d.direction \in {"ToScsi", "FromScsi"}
    BY <2>1 DEF DmaRegisters
  <2>3. CASE ~DmaRequest(scsi) \/ ~PhaseMatch(scsi)
    <3> DEFINE q == d.active /\ ~scsi.irq
               e == [d EXCEPT !.active = q]
    <3>1. scsi' = scsi /\ Notify(e, scsi) /\ mem' = mem /\ taken' = taken
      BY <1>6, <2>1, <2>3 DEF TransferByte
    <3>2. q \in BOOLEAN /\ (q => d.active)
      BY <2>1 DEF DmaRegisters
    <3> HIDE DEF q
    <3>3. e \in DmaRegisters /\ (e.active <=> q) /\ e.last = d.last
      BY <2>1, <3>2 DEF DmaRegisters
    <3>4. Settled(e, mem, from, taken)
      <4>1. CASE q
        <5>1. SameRegs(d, e)
          BY <1>6, <2>1, <3>3, <4>1 DEF SameRegs, DmaRegisters
        <5> HIDE DEF e
        <5> QED
          BY <1>2, <5>1, SameRegsSettled
      <4>2. CASE ~q
        <5>1. Stopped(d, e)
          BY <2>1, <3>3, <4>2 DEF Stopped, DmaRegisters
        <5>2. mem \in [Addrs -> Byte] /\ from \in Addrs /\ taken \in Seq(Byte)
              /\ Kept(d, mem, from, taken)
          BY <1>2 DEF Settled, Places
        <5> HIDE DEF e
        <5> QED
          BY <5>1, <5>2, StoppedSettled
      <4> QED
        BY <4>1, <4>2
    <3>5. e.last = dma.last
      BY <1>2, <3>3
    <3> HIDE DEF e
    <3>6. Settled(e, mem', from', taken') /\ Sound(scsi') /\ Notify(e, scsi')
      BY <1>3, <3>1, <3>4
    <3> QED
      BY <3>1, <3>5, <3>6, NotifyKeeps DEF Window
  <2>4. CASE ~(~DmaRequest(scsi) \/ ~PhaseMatch(scsi)) /\ d.direction = "ToScsi"
    <3>1. SendByte(d, scsi, a) /\ UNCHANGED << mem, taken, from >> /\ mem' = mem
      BY <1>3, <1>6, <2>1, <2>4 DEF TransferByte
    <3> QED
      BY <1>2, <1>6, <2>4, <3>1, SendKeeps DEF Window
  <2>5. CASE ~(~DmaRequest(scsi) \/ ~PhaseMatch(scsi)) /\ d.direction = "FromScsi"
    <3>1. ReceiveByte(d, scsi) /\ UNCHANGED from
      BY <1>3, <1>6, <2>1, <2>5 DEF TransferByte
    <3>2. TargetReady(scsi)
      BY <2>5 DEF DmaRequest, ReqAsserted
    <3> QED
      BY <1>2, <1>6, <2>5, <3>1, <3>2, ReceiveKeeps
  <2> QED
    BY <2>2, <2>3, <2>4, <2>5
<1> QED
  BY <1>4, <1>5, <1>6

-----------------------------------------------------------------------------
(* The guest's accesses                                                    *)

\* What every step does.
Keeps == DInv' /\ (dma' # dma => oss' = IrqAsserted(dma', scsi')) /\ Window

\* A step whose history stands still and that notifies of settled registers.
LEMMA QuietKeeps ==
  ASSUME DInv, UNCHANGED << mem, from, taken >>, Sound(scsi'),
         NEW d, Settled(d, mem, from, taken), d.last = dma.last, Notify(d, scsi')
  PROVE  Keeps /\ oss' = IrqAsserted(dma', scsi')
<1>1. Settled(d, mem', from', taken') /\ mem' = mem
  OBVIOUS
<1> QED
  BY <1>1, NotifyKeeps DEF Keeps, Window

LEMMA ChipStepSound == ASSUME DInv, Next PROVE Sound(scsi')
BY NextSound DEF DInv, IInv

LEMMA WindowAccessKeeps ==
  ASSUME DInv, WindowAccess
  PROVE  Keeps /\ oss' = IrqAsserted(dma', scsi')
<1>1. Next
  BY DEF WindowAccess, Next, RegisterAccess
<1>2. Sound(scsi')
  BY <1>1, ChipStepSound
<1>3. Notify(dma, scsi') /\ UNCHANGED << mem, from, taken >> /\ Settled(dma, mem, from, taken)
  BY DEF WindowAccess, DInv
<1> QED
  BY <1>2, <1>3, QuietKeeps

LEMMA DirectAccessKeeps == ASSUME DInv, DirectAccess PROVE Keeps
<1>1. Next
  BY DEF DirectAccess, Next
<1>2. Sound(scsi')
  BY <1>1, ChipStepSound
<1>3. dma' = dma /\ mem' = mem /\ oss' = oss /\ from' = from /\ taken' = taken
  BY DEF DirectAccess
<1> QED
  BY <1>2, <1>3 DEF DInv, Keeps, Window

\* Registers that differ only where nothing depends on them while the engine is idle.
LEMMA IdleSettled ==
  ASSUME NEW d, NEW m, NEW f, NEW t, Settled(d, m, f, t), ~d.active,
         NEW e \in DmaRegisters, ~e.active, e.fifo = d.fifo, e.valid = d.valid
  PROVE  Settled(e, m, f, t)
<1>1. Stopped(d, e)
  BY DEF Stopped
<1>2. m \in [Addrs -> Byte] /\ f \in Addrs /\ t \in Seq(Byte) /\ Kept(d, m, f, t)
  BY DEF Settled, Places
<1> QED
  BY <1>1, <1>2, StoppedSettled

LEMMA WriteAddressKeeps == ASSUME DInv, WriteAddress PROVE Keeps
<1>1. PICK v \in Addresses :
        /\ ~dma.active /\ Notify([dma EXCEPT !.address = v], scsi)
        /\ UNCHANGED << scsi, mem, from, taken >>
  BY DEF WriteAddress
<1> DEFINE d == [dma EXCEPT !.address = v]
<1>2. dma \in DmaRegisters /\ Settled(dma, mem, from, taken) /\ Sound(scsi)
  BY DEF DInv, Settled
<1>3. v \in Addrs
  BY <1>1, DmaRegisterAssumption
<1>4. d \in DmaRegisters /\ (d.active <=> dma.active) /\ d.fifo = dma.fifo
      /\ d.valid = dma.valid /\ d.last = dma.last
  BY <1>2, <1>3 DEF DmaRegisters
<1>5. Notify(d, scsi') /\ Sound(scsi') /\ UNCHANGED << mem, from, taken >>
  BY <1>1, <1>2
<1> HIDE DEF d
<1>6. Settled(d, mem, from, taken)
  BY <1>1, <1>2, <1>4, IdleSettled
<1> QED
  BY <1>4, <1>5, <1>6, QuietKeeps

LEMMA WriteCountKeeps == ASSUME DInv, WriteCount PROVE Keeps
<1>1. PICK v \in Counts :
        /\ ~dma.active /\ Notify([dma EXCEPT !.count = v], scsi)
        /\ UNCHANGED << scsi, mem, from, taken >>
  BY DEF WriteCount
<1> DEFINE d == [dma EXCEPT !.count = v]
<1>2. dma \in DmaRegisters /\ Settled(dma, mem, from, taken) /\ Sound(scsi)
  BY DEF DInv, Settled
<1>3. v \in Addrs
  BY <1>1, DmaRegisterAssumption
<1>4. d \in DmaRegisters /\ (d.active <=> dma.active) /\ d.fifo = dma.fifo
      /\ d.valid = dma.valid /\ d.last = dma.last
  BY <1>2, <1>3 DEF DmaRegisters
<1>5. Notify(d, scsi') /\ Sound(scsi') /\ UNCHANGED << mem, from, taken >>
  BY <1>1, <1>2
<1> HIDE DEF d
<1>6. Settled(d, mem, from, taken)
  BY <1>1, <1>2, <1>4, IdleSettled
<1> QED
  BY <1>4, <1>5, <1>6, QuietKeeps

LEMMA WriteWatchdogKeeps == ASSUME DInv, WriteWatchdog PROVE Keeps
<1>1. PICK v \in Reloads :
        Notify(LoadWatchdog(dma, v), scsi) /\ UNCHANGED << scsi, mem, from, taken >>
  BY DEF WriteWatchdog
<1> DEFINE d == LoadWatchdog(dma, v)
<1>2. dma \in DmaRegisters /\ Settled(dma, mem, from, taken) /\ Sound(scsi)
  BY DEF DInv, Settled
<1>3. v \in Nat
  BY <1>1, DmaRegisterAssumption
<1>4. SameRegs(dma, d) /\ d.last = dma.last
  <2>1. d = [dma EXCEPT !.reload = v, !.counter = v, !.wdPending = FALSE]
    BY DEF LoadWatchdog
  <2> HIDE DEF d
  <2>2. d \in DmaRegisters
    BY <1>2, <1>3, <2>1 DEF DmaRegisters
  <2>3. /\ d.address = dma.address /\ d.count = dma.count /\ d.fifo = dma.fifo
        /\ d.valid = dma.valid /\ d.direction = dma.direction /\ d.control = dma.control
        /\ (d.active <=> dma.active) /\ d.last = dma.last
    BY <1>2, <2>1 DEF DmaRegisters
  <2> QED
    BY <2>2, <2>3 DEF SameRegs
<1>5. Notify(d, scsi') /\ Sound(scsi') /\ UNCHANGED << mem, from, taken >>
  BY <1>1, <1>2
<1> HIDE DEF d
<1>6. Settled(d, mem, from, taken)
  BY <1>2, <1>4, SameRegsSettled
<1> QED
  BY <1>4, <1>5, <1>6, QuietKeeps

LEMMA ReadWatchdogKeeps == ASSUME DInv, ReadWatchdog PROVE Keeps
<1> DEFINE d == [dma EXCEPT !.wdPending = FALSE]
<1>1. Notify(d, scsi) /\ UNCHANGED << scsi, mem, from, taken >>
  BY DEF ReadWatchdog
<1>2. dma \in DmaRegisters /\ Settled(dma, mem, from, taken) /\ Sound(scsi)
  BY DEF DInv, Settled
<1>3. d \in DmaRegisters /\ d.last = dma.last
  BY <1>2 DEF DmaRegisters
<1>4. SameRegs(dma, d)
  BY <1>2, <1>3 DEF SameRegs, DmaRegisters
<1>5. Notify(d, scsi') /\ Sound(scsi') /\ UNCHANGED << mem, from, taken >>
  BY <1>1, <1>2
<1> HIDE DEF d
<1>6. Settled(d, mem, from, taken)
  BY <1>2, <1>4, SameRegsSettled
<1> QED
  BY <1>3, <1>5, <1>6, QuietKeeps

\* With no byte on record and the engine idle, any registers are settled.
LEMMA EmptySettled ==
  ASSUME NEW d \in DmaRegisters, ~d.active, NEW m \in [Addrs -> Byte], NEW f \in Addrs,
         NEW t, t = << >>
  PROVE  Settled(d, m, f, t)
BY DEF Settled, Armed, Places, Kept

LEMMA WriteFifoKeeps == ASSUME DInv, WriteFifo PROVE Keeps
<1>1. PICK b \in FifoBytes :
        /\ ~dma.active
        /\ Notify([dma EXCEPT !.fifo = [l \in Lanes |-> b], !.valid = Lanes], scsi)
        /\ taken' = << >> /\ UNCHANGED << scsi, mem, from >>
  BY DEF WriteFifo
<1> DEFINE fifo == [l \in Lanes |-> b]
           lanes == Lanes
           d == [dma EXCEPT !.fifo = fifo, !.valid = lanes]
<1>2. dma \in DmaRegisters /\ mem \in [Addrs -> Byte] /\ from \in Addrs /\ Sound(scsi)
  BY DEF DInv, Settled
<1>3. b \in Byte
  BY <1>1, DmaRegisterAssumption
<1>4. fifo \in [Lanes -> Byte] /\ lanes \in SUBSET Lanes
  BY <1>3
<1>5. Notify(d, scsi') /\ Sound(scsi') /\ mem' = mem /\ from' = from /\ taken' = << >>
  BY <1>1, <1>2
<1> HIDE DEF fifo, lanes
<1>6. d \in DmaRegisters /\ (d.active <=> dma.active) /\ d.last = dma.last
  BY <1>2, <1>4 DEF DmaRegisters
<1> HIDE DEF d
<1>7. Settled(d, mem', from', taken')
  BY <1>1, <1>2, <1>5, <1>6, EmptySettled
<1> QED
  BY <1>5, <1>6, <1>7, NotifyKeeps DEF Keeps, Window

LEMMA WindowStartKeeps == ASSUME DInv, WindowStart PROVE Keeps
<1>1. PICK start \in DmaStarts \ {"None"} :
        /\ scsi' = [scsi EXCEPT !.dmaStart = start]
        /\ Notify(BeginTransfer(dma, start), scsi')
        /\ IF Begins(dma) THEN from' = dma.address /\ taken' = << >> ELSE UNCHANGED << from, taken >>
        /\ UNCHANGED mem
  BY DEF WindowStart
<1>2. dma \in DmaRegisters /\ mem \in [Addrs -> Byte] /\ Sound(scsi) /\ Settled(dma, mem, from, taken)
  BY DEF DInv, Settled
<1>3. Sound(scsi')
  BY <1>1, <1>2, OtherFieldsSound
<1>4. CASE ~Begins(dma)
  <2>1. Notify(dma, scsi') /\ UNCHANGED << mem, from, taken >>
    BY <1>1, <1>4 DEF BeginTransfer
  <2> QED
    BY <1>2, <1>3, <2>1, QuietKeeps
<1>5. CASE Begins(dma)
  <2> DEFINE way == IF start = "Send" THEN "ToScsi" ELSE "FromScsi"
             none == {}
             p == TRUE
             q == FALSE
             d == [dma EXCEPT !.direction = way, !.active = p, !.busError = q, !.valid = none]
  <2>1. Notify(d, scsi') /\ from' = dma.address /\ taken' = << >> /\ mem' = mem
    BY <1>1, <1>5 DEF BeginTransfer
  <2>2. way \in {"ToScsi", "FromScsi"} /\ none \in SUBSET Lanes /\ p \in BOOLEAN /\ q \in BOOLEAN
    OBVIOUS
  <2>3. none = {}
    OBVIOUS
  <2> HIDE DEF way, none, p, q
  <2>4. d \in DmaRegisters
    BY <1>2, <2>2 DEF DmaRegisters
  <2>5. d.valid = {} /\ d.address = dma.address /\ d.count = dma.count /\ d.control = dma.control
        /\ d.direction = way /\ d.last = dma.last
    BY <1>2, <2>3 DEF DmaRegisters
  <2> HIDE DEF d
  <2>6. dma.address \in Addrs /\ dma.count \in Addrs
    BY <1>2 DEF DmaRegisters
  <2>7. "ENABLE" \in dma.control /\ dma.count # 0
    BY <1>5 DEF Begins
  <2>8. Gap(dma.address, dma.address) = 0
    BY <2>6, GapStarts
  <2>9. Armed(d, dma.address)
    BY <2>2, <2>5, <2>6, <2>7, <2>8, Space DEF Armed, Addrs
  <2>10. Places(d, mem, dma.address, << >>)
    <3>1. Len(<< >>) = 0 /\ 1..0 = {}
      OBVIOUS
    <3> QED
      BY <2>5, <2>8, <3>1 DEF Places, Kept, Assembled, LanesTaken
  <2>11. Settled(d, mem, dma.address, << >>)
    BY <1>2, <2>4, <2>6, <2>9, <2>10 DEF Settled
  <2>12. Settled(d, mem', from', taken')
    BY <2>1, <2>11
  <2> QED
    BY <1>3, <2>1, <2>5, <2>12, NotifyKeeps DEF Keeps, Window
<1> QED
  BY <1>4, <1>5

LEMMA WriteControlKeeps == ASSUME DInv, WriteControl PROVE Keeps
<1>1. PICK v \in ControlWrites :
        LET pulse == "RESET" \in v /\ ~dma.resetHigh
            d1 == [dma EXCEPT !.control = v, !.resetHigh = "RESET" \in v]
            d2 == IF pulse THEN [d1 EXCEPT !.active = FALSE, !.direction = "None", !.valid = {}]
                           ELSE d1
            s1 == IF pulse THEN ResetChip(scsi) ELSE scsi
        IN  /\ scsi' = s1
            /\ Notify([d2 EXCEPT !.active = @ /\ "ENABLE" \in v], s1)
            /\ taken' = IF pulse THEN << >> ELSE taken
            /\ UNCHANGED << mem, from >>
  BY DEF WriteControl
<1> DEFINE pulse == "RESET" \in v /\ ~dma.resetHigh
           high == "RESET" \in v
           d1 == [dma EXCEPT !.control = v, !.resetHigh = high]
<1>2. /\ dma \in DmaRegisters /\ mem \in [Addrs -> Byte] /\ from \in Addrs /\ Sound(scsi)
      /\ Settled(dma, mem, from, taken)
  BY DEF DInv, Settled
<1>3. v \in SUBSET ControlLines /\ high \in BOOLEAN
  BY <1>1, DmaRegisterAssumption
<1>4. Sound(scsi')
  <2>1. Sound(ResetChip(scsi))
    BY <1>2, ResetChipSound DEF Sound
  <2> QED
    BY <1>1, <1>2, <2>1
<1>5. CASE pulse
  <2> DEFINE d2 == [d1 EXCEPT !.active = FALSE, !.direction = "None", !.valid = {}]
             e == [d2 EXCEPT !.active = @ /\ "ENABLE" \in v]
  <2>1. Notify(e, scsi') /\ taken' = << >> /\ mem' = mem /\ from' = from
    BY <1>1, <1>5
  <2> HIDE DEF high
  <2>2. d1 \in DmaRegisters /\ d1.last = dma.last
    BY <1>2, <1>3 DEF DmaRegisters
  <2> HIDE DEF d1
  <2>3. d2 \in DmaRegisters /\ ~d2.active /\ d2.last = dma.last
    BY <2>2 DEF DmaRegisters
  <2> HIDE DEF d2
  <2>4. e \in DmaRegisters /\ ~e.active /\ e.last = dma.last
    BY <2>3 DEF DmaRegisters
  <2> HIDE DEF e
  <2>5. Settled(e, mem', from', taken')
    BY <1>2, <2>1, <2>4, EmptySettled
  <2> QED
    BY <1>4, <2>1, <2>4, <2>5, NotifyKeeps DEF Keeps, Window
<1>6. CASE ~pulse
  <2> DEFINE on == d1.active /\ "ENABLE" \in v
             e == [d1 EXCEPT !.active = on]
  <2>1. Notify(e, scsi') /\ taken' = taken /\ mem' = mem /\ from' = from
    BY <1>1, <1>6
  <2> HIDE DEF high
  <2>2. d1 \in DmaRegisters /\ d1.last = dma.last /\ d1.control = v
    BY <1>2, <1>3 DEF DmaRegisters
  <2>3. /\ d1.address = dma.address /\ d1.count = dma.count /\ d1.fifo = dma.fifo
        /\ d1.valid = dma.valid /\ d1.direction = dma.direction /\ (d1.active <=> dma.active)
    BY <1>2 DEF DmaRegisters
  <2> HIDE DEF d1
  <2>4. on \in BOOLEAN /\ (on => dma.active /\ "ENABLE" \in v)
    BY <2>3
  <2> HIDE DEF on
  <2>5. e \in DmaRegisters /\ e.last = dma.last /\ (e.active <=> on) /\ e.control = v
    BY <2>2, <2>4 DEF DmaRegisters
  <2>6. /\ e.address = dma.address /\ e.count = dma.count /\ e.fifo = dma.fifo
        /\ e.valid = dma.valid /\ e.direction = dma.direction
    BY <2>2, <2>3 DEF DmaRegisters
  <2> HIDE DEF e
  <2>7. Settled(e, mem, from, taken)
    <3>1. Kept(dma, mem, from, taken) /\ taken \in Seq(Byte)
      BY <1>2 DEF Settled, Places
    <3>2. \A i : InLane(dma, from, taken, i) => InLane(e, from, taken, i)
      BY <2>6 DEF InLane
    <3>3. Kept(e, mem, from, taken)
      BY <3>1, <3>2 DEF Kept
    <3>4. Assembled(dma, mem, from, taken) => Assembled(e, mem, from, taken)
      BY <2>6, <3>2 DEF Assembled, LanesTaken
    <3>5. Places(e, mem, from, taken)
      BY <1>2, <2>4, <2>5, <2>6, <3>3, <3>4 DEF Settled, Places
    <3>6. Armed(e, from)
      BY <1>2, <2>4, <2>5, <2>6 DEF Settled, Armed
    <3> QED
      BY <1>2, <2>5, <3>1, <3>5, <3>6 DEF Settled
  <2>8. Settled(e, mem', from', taken')
    BY <2>1, <2>7
  <2> QED
    BY <1>4, <2>1, <2>5, <2>8, NotifyKeeps DEF Keeps, Window
<1> QED
  BY <1>5, <1>6

LEMMA BlankFields ==
  /\ Blank \in DmaRegisters /\ ~Blank.active /\ ~Blank.last /\ Blank.control = {}
  /\ Blank.valid = {}
<1> DEFINE fifo == [l \in Lanes |-> 0]
           none == {}
<1>1. fifo \in [Lanes -> Byte] /\ none \in SUBSET Lanes /\ none \in SUBSET ControlLines
  BY DEF Byte
<1>2. 0 \in Addrs
  BY Space DEF Addrs
<1>3. none = {}
  OBVIOUS
<1>4. Blank = [control |-> none, count |-> 0, address |-> 0, reload |-> 0, counter |-> 0,
               fifo |-> fifo, valid |-> none, active |-> FALSE,
               direction |-> "None", wdPending |-> FALSE, busError |-> FALSE,
               resetHigh |-> FALSE, last |-> FALSE]
  BY DEF Blank
<1> HIDE DEF fifo, none
<1> QED
  BY <1>1, <1>2, <1>3, <1>4 DEF DmaRegisters

LEMMA MachineResetKeeps == ASSUME DInv, MachineReset PROVE Keeps
<1>1. scsi' = ResetChip(scsi) /\ dma' = Blank /\ oss' = FALSE /\ from' = 0 /\ taken' = << >>
      /\ mem' = mem
  BY DEF MachineReset
<1>2. Sound(scsi')
  BY <1>1, ResetChipSound DEF DInv, Sound
<1>3. mem \in [Addrs -> Byte] /\ 0 \in Addrs
  BY Space DEF DInv, Settled, Addrs
<1>4. Settled(dma', mem', from', taken')
  BY <1>1, <1>3, BlankFields, EmptySettled
<1>5. oss' = IrqAsserted(dma', scsi')
  BY <1>1, BlankFields DEF IrqAsserted
<1>6. oss' \in BOOLEAN /\ (oss' <=> dma'.last)
  BY <1>1, BlankFields
<1> QED
  BY <1>1, <1>2, <1>4, <1>5, <1>6 DEF DInv, Keeps, Window

LEMMA PowerOnType ==
  ASSUME NEW image \in Images
  PROVE  PowerOn(image, FALSE) \in ScsiState
<1>0. << >> \in Seq(Byte) /\ image \in Seq(Byte)
  BY ImagesAssumption
<1>1. 0 \in Byte /\ 0 \in {Good, CheckStatus} /\ 0 \in 0..7
  BY DEF Byte, Good
<1> QED
  BY <1>0, <1>1 DEF PowerOn, ScsiState, Phases, DmaStarts, AckCompletions

LEMMA AfterCommandSound ==
  ASSUME NEW image \in Images, NEW op \in Opcodes, NEW a \in Operands
  PROVE  Sound(AfterCommand(image, op, a))
<1> DEFINE s == EnterCommand(PowerOn(image, FALSE))
           k == 6
           s1 == [s EXCEPT !.op = op, !.cdbPos = k]
<1>1. s \in ScsiState
  BY PowerOnType, EnterCommandSound DEF Sound
<1>2. s.ack = "None"
  BY <1>1, PowerOnType DEF EnterCommand, ScsiState
<1>3. AfterCommand(image, op, a) = ExecuteCdb(s1, a)
  BY DEF AfterCommand
<1>4. op \in Byte /\ k \in Nat
  BY DmaRegisterAssumption
<1> HIDE DEF s, k
<1>5. s1 \in ScsiState /\ s1.ack = s.ack
  BY <1>1, <1>4 DEF ScsiState
<1> HIDE DEF s1
<1>6. Sound(ExecuteCdb(s1, a))
  BY <1>2, <1>5, ExecuteCdbSound
<1> QED
  BY <1>3, <1>6

LEMMA StartSettled == Start => DInv
<1> SUFFICES ASSUME Start PROVE DInv
  OBVIOUS
<1>1. PICK image \in Images, op \in Opcodes, a \in Operands : scsi = AfterCommand(image, op, a)
  BY DEF Start
<1>2. dma = Blank /\ mem = [x \in Addrs |-> x % 256] /\ oss = FALSE /\ from = 0 /\ taken = << >>
  BY DEF Start
<1>3. mem \in [Addrs -> Byte]
  <2> SUFFICES ASSUME NEW x \in Addrs PROVE x % 256 \in Byte
    BY <1>2
  <2> QED
    BY Space DEF Addrs, Byte
<1>4. 0 \in Addrs
  BY Space DEF Addrs
<1>5. Settled(dma, mem, from, taken)
  BY <1>2, <1>3, <1>4, BlankFields, EmptySettled
<1>6. Sound(scsi)
  BY <1>1, AfterCommandSound
<1> QED
  BY <1>2, <1>5, <1>6, BlankFields DEF DInv

-----------------------------------------------------------------------------
(* The theorems that hold of every guest                                   *)

LEMMA AccessKeeps == ASSUME DInv, Access PROVE Keeps
<1>1. CASE WindowStart
  BY <1>1, WindowStartKeeps
<1>2. CASE WindowAccess
  BY <1>2, WindowAccessKeeps
<1>3. CASE DirectAccess
  BY <1>3, DirectAccessKeeps
<1>4. CASE WriteControl
  BY <1>4, WriteControlKeeps
<1>5. CASE WriteAddress
  BY <1>5, WriteAddressKeeps
<1>6. CASE WriteCount
  BY <1>6, WriteCountKeeps
<1>7. CASE WriteWatchdog
  BY <1>7, WriteWatchdogKeeps
<1>8. CASE ReadWatchdog
  BY <1>8, ReadWatchdogKeeps
<1>9. CASE WriteFifo
  BY <1>9, WriteFifoKeeps
<1>10. CASE MachineReset
  BY <1>10, MachineResetKeeps
<1> QED
  BY <1>1, <1>2, <1>3, <1>4, <1>5, <1>6, <1>7, <1>8, <1>9, <1>10 DEF Access

LEMMA StepKeeps == ASSUME DInv, Step PROVE Keeps
<1>1. CASE Tick
  BY <1>1, TickKeeps DEF Keeps
<1>2. CASE GuestAccess
  BY <1>2, AccessKeeps DEF GuestAccess
<1> QED
  BY <1>1, <1>2 DEF Step

LEMMA StutterKeeps == ASSUME DInv, UNCHANGED vars PROVE DInv' /\ Window
<1>1. scsi' = scsi /\ dma' = dma /\ mem' = mem /\ oss' = oss /\ from' = from /\ taken' = taken
  BY DEF vars
<1> QED
  BY <1>1 DEF DInv, Window

\* The inductive invariant for any guest: types, a window of less than a lap, and the
\* place of every byte the target has given, in memory or in the lane of its address.
THEOREM AlwaysSettled == DmaSpec => []DInv
<1>1. DInv /\ [Step]_vars => DInv'
  BY StepKeeps, StutterKeeps DEF Keeps
<1> QED
  BY <1>1, StartSettled, PTL DEF DmaSpec

\* Every register of the controller, memory and the history keep their types.
THEOREM DmaTypeCorrect == DmaSpec => []DmaTypeOK
<1>1. DInv => DmaTypeOK
  <2> SUFFICES ASSUME DInv PROVE DmaTypeOK
    OBVIOUS
  <2>1. /\ scsi \in ScsiState /\ dma \in DmaRegisters /\ mem \in [Addrs -> Byte]
        /\ oss \in BOOLEAN /\ from \in Addrs /\ taken \in Seq(Byte)
    BY DEF DInv, Settled, Sound
  <2>2. Addrs \subseteq Nat
    BY Space DEF Addrs
  <2>3. dma \in [control : SUBSET ControlLines, count : Nat, address : Addrs, reload : Nat,
                 counter : Nat, fifo : [Lanes -> Byte], valid : SUBSET Lanes, active : BOOLEAN,
                 direction : {"None", "ToScsi", "FromScsi"}, wdPending : BOOLEAN,
                 busError : BOOLEAN, resetHigh : BOOLEAN, last : BOOLEAN]
    BY <2>1, <2>2 DEF DmaRegisters
  <2> QED
    BY <2>1, <2>3 DEF DmaTypeOK, TypeOK
<1> QED
  BY <1>1, AlwaysSettled, PTL

\* Whatever the guest does, no byte the target gave is lost and the engine runs only
\* with bytes to move (scsi_dma.hpp:314-341, iifx.cpp:2582-2587).
THEOREM NothingIsLost == DmaSpec => [](NothingLost /\ ActiveIsArmed)
<1>1. DInv => NothingLost /\ ActiveIsArmed
  BY DEF DInv, Settled, Places, Kept, InLane, At, Armed, NothingLost, ActiveIsArmed
<1> QED
  BY <1>1, AlwaysSettled, PTL

\* Memory changes only where a received byte belongs, and to that byte
\* (scsi_dma.hpp:295-341).
THEOREM WritesStayInWindow == DmaSpec => WritesInWindow
<1> DEFINE W == \A a \in Addrs : mem'[a] # mem[a] =>
                  \E i \in 1..Len(taken') : a = (from + i - 1) % AddrSpace /\ mem'[a] = taken'[i]
<1>1. DInv /\ [Step]_vars => [W]_vars
  <2>1. Window => W
    BY DEF Window, At
  <2> QED
    BY <2>1, StepKeeps DEF Keeps
<1> QED
  BY <1>1, AlwaysSettled, PTL DEF DmaSpec, WritesInWindow

\* After every tick, window access and change of the controller, the OSS holds the
\* level that the enabled causes call for (scsi_dma.hpp:359-364, iifx.cpp:585-587).
THEOREM OssAlwaysCurrent == DmaSpec => OssIsCurrent
<1> DEFINE C == dma' # dma \/ Tick \/ WindowAccess => oss' = IrqAsserted(dma', scsi')
<1>1. DInv /\ [Step]_vars => [C]_vars
  <2> SUFFICES ASSUME DInv, Step PROVE C
    OBVIOUS
  <2>1. dma' # dma => oss' = IrqAsserted(dma', scsi')
    BY StepKeeps DEF Keeps
  <2>2. Tick => oss' = IrqAsserted(dma', scsi')
    BY TickKeeps
  <2>3. WindowAccess => oss' = IrqAsserted(dma', scsi')
    BY WindowAccessKeeps
  <2> QED
    BY <2>1, <2>2, <2>3
<1> QED
  BY <1>1, AlwaysSettled, PTL DEF DmaSpec, OssIsCurrent

-----------------------------------------------------------------------------
(* A transfer to the target                                                *)

\* The driver leaves the handshake to the DMA engine: it neither raises /ACK nor
\* selects by hand, drives no data byte and does not turn HANDSHAKE on.
HandsOff == /\ \A v \in IcrWrites : "ACK" \notin v /\ "SEL" \notin v
            /\ \A v \in ControlWrites : "HANDSHAKE" \notin v
            /\ BusBytes = {}

Calm(s) == "ACK" \notin s.icr /\ s.phase # "Command"

\* The chip is still in the same place of the same Data Out phase, or in none.
SameStream(s, t) ==
  t.phase = "DataOut" => /\ s.phase = "DataOut" /\ t.dmaStart = s.dmaStart
                         /\ t.xfer = s.xfer /\ t.xferPos = s.xferPos

\* What the engine has moved since f is what the target took last.
Streams(s, d, m, f) ==
  d.active /\ d.direction = "ToScsi" /\ s.phase = "DataOut" =>
    LET g == Gap(f, d.address)
    IN  /\ s.dmaStart = "Send" /\ g <= s.xferPos /\ s.xferPos <= Len(s.xfer)
        /\ \A i \in 1..g : s.xfer[s.xferPos - g + i] = m[At(f, i)]

SInv == DInv /\ Calm(scsi) /\ "HANDSHAKE" \notin dma.control /\ Streams(scsi, dma, mem, from)

LEMMA StatusFields ==
  ASSUME NEW s \in ScsiState, NEW t, t = ToStatus(s)
  PROVE  t.phase = "Status" /\ t.icr = s.icr
BY DEF ToStatus, ScsiState

\* Giving a byte by DMA enters neither Command nor Data Out.
LEMMA ConsumeDataInCalm ==
  ASSUME NEW s \in ScsiState, Calm(s), NEW t, t = ConsumeDataIn(s, TRUE)
  PROVE  Calm(t) /\ SameStream(s, t)
<1>1. CASE s.phase = "DataIn"
  <2> DEFINE k == s.xferPos + 1
             s1 == IF s.xferPos < Len(s.xfer) THEN [s EXCEPT !.xferPos = k] ELSE s
  <2>1. t = IF s1.xferPos < Len(s1.xfer) THEN s1 ELSE ToStatus(s1)
    BY <1>1 DEF ConsumeDataIn
  <2>2. s1 \in ScsiState /\ s1.phase = "DataIn" /\ s1.icr = s.icr
    <3>1. k \in Nat
      BY DEF ScsiState
    <3> HIDE DEF k
    <3> QED
      BY ZenonT(60), <1>1, <3>1 DEF ScsiState
  <2> HIDE DEF s1
  <2>3. ToStatus(s1).phase = "Status" /\ ToStatus(s1).icr = s1.icr
    BY <2>2, StatusFields
  <2>4. t.phase \in {"DataIn", "Status"} /\ t.icr = s.icr
    BY <2>1, <2>2, <2>3
  <2> QED
    BY <2>4 DEF Calm, SameStream
<1>2. CASE s.phase = "Status"
  <2>1. t = ToMsgIn([s EXCEPT !.statusReady = FALSE])
    BY <1>2 DEF ConsumeDataIn
  <2>2. t.phase = "MsgIn" /\ t.icr = s.icr
    BY <2>1 DEF ToMsgIn, ScsiState
  <2> QED
    BY <2>2 DEF Calm, SameStream
<1>3. CASE s.phase = "MsgIn"
  <2>1. t = [[s EXCEPT !.msgReady = FALSE] EXCEPT !.phase = "BusFree"]
    BY <1>3 DEF ConsumeDataIn
  <2>2. t.phase = "BusFree" /\ t.icr = s.icr
    BY <2>1 DEF ScsiState
  <2> QED
    BY <2>2 DEF Calm, SameStream
<1>4. CASE s.phase \notin {"DataIn", "Status", "MsgIn"}
  <2>1. t = s
    BY <1>4 DEF ConsumeDataIn
  <2> QED
    BY <2>1 DEF Calm, SameStream
<1> QED
  BY <1>1, <1>2, <1>3, <1>4

LEMMA WriteIcrCalm ==
  ASSUME NEW s \in ScsiState, Calm(s), NEW v \in SUBSET IcrLines, "ACK" \notin v, "SEL" \notin v,
         NEW a \in Operands, NEW t, t = WriteIcr(s, v, a)
  PROVE  Calm(t) /\ SameStream(s, t)
<1> DEFINE s1 == [s EXCEPT !.icr = v]
<1>1. t = IF "RST" \in v THEN BusReset(s1) ELSE s1
  BY DEF WriteIcr, Calm
<1>2. s1 \in ScsiState /\ s1.icr = v /\ s1.phase = s.phase /\ s1.dmaStart = s.dmaStart
      /\ s1.xfer = s.xfer /\ s1.xferPos = s.xferPos
  BY DEF ScsiState
<1> HIDE DEF s1
<1>3. BusReset(s1).phase = "BusFree" /\ BusReset(s1).icr = v
  BY <1>2 DEF BusReset, ScsiState
<1> QED
  BY <1>1, <1>2, <1>3 DEF Calm, SameStream

LEMMA WriteMrCalm ==
  ASSUME NEW s \in ScsiState, Calm(s), NEW v \in SUBSET MrLines, NEW t, t = WriteMr(s, v)
  PROVE  Calm(t) /\ SameStream(s, t)
<1> DEFINE p == IF "ARB" \in v \ s.mr /\ s.phase = "BusFree" THEN "Arbitration"
                ELSE IF "ARB" \notin v /\ s.phase = "Arbitration" THEN "BusFree"
                ELSE s.phase
<1>1. t = [s EXCEPT !.mr = v, !.phase = p]
  BY DEF WriteMr
<1>2. p # "Command" /\ (p = "DataOut" => s.phase = "DataOut")
  BY DEF Calm
<1> HIDE DEF p
<1>3. t.phase = p /\ t.icr = s.icr /\ t.dmaStart = s.dmaStart /\ t.xfer = s.xfer
      /\ t.xferPos = s.xferPos
  BY <1>1 DEF ScsiState
<1> QED
  BY <1>2, <1>3 DEF Calm, SameStream

\* The accesses that do not start a DMA cycle.
LEMMA ChipStaysCalm ==
  ASSUME HandsOff, Sound(scsi), Calm(scsi),
         WriteOdrReg \/ WriteIcrReg \/ WriteMrReg \/ WriteTcrReg \/ ReadIdr \/ ClearIrq
  PROVE  Calm(scsi') /\ SameStream(scsi, scsi')
<1>0. scsi \in ScsiState
  BY DEF Sound
<1>1. CASE WriteOdrReg
  BY <1>1 DEF WriteOdrReg, HandsOff
<1>2. CASE WriteIcrReg
  <2>1. PICK v \in IcrWrites, a \in Operands : scsi' = WriteIcr(scsi, v, a)
    BY <1>2 DEF WriteIcrReg
  <2>2. v \in SUBSET IcrLines /\ "ACK" \notin v /\ "SEL" \notin v
    BY <2>1, RegisterAssumption DEF HandsOff
  <2> QED
    BY <1>0, <2>1, <2>2, WriteIcrCalm
<1>3. CASE WriteMrReg
  <2>1. PICK v \in MrWrites : scsi' = WriteMr(scsi, v)
    BY <1>3 DEF WriteMrReg
  <2>2. v \in SUBSET MrLines
    BY <2>1, RegisterAssumption
  <2> QED
    BY <1>0, <2>1, <2>2, WriteMrCalm
<1>4. CASE WriteTcrReg
  BY <1>0, <1>4 DEF WriteTcrReg, ScsiState, Calm, SameStream
<1>5. CASE ReadIdr
  BY <1>0, <1>5, ConsumeDataInCalm DEF ReadIdr, DmaDataIn
<1>6. CASE ClearIrq
  BY <1>0, <1>6 DEF ClearIrq, ScsiState, Calm, SameStream
<1> QED
  BY <1>1, <1>2, <1>3, <1>4, <1>5, <1>6

LEMMA EndOfProcessCalm ==
  ASSUME NEW s \in ScsiState, Calm(s), NEW t, t = SignalEndOfProcess(s)
  PROVE  Calm(t)
BY DEF SignalEndOfProcess, Calm, ScsiState

LEMMA ResetChipCalm ==
  ASSUME NEW s \in ScsiState, NEW t, t = ResetChip(s)
  PROVE  Calm(t) /\ t.phase = "BusFree"
BY DEF ResetChip, Calm, ScsiState

LEMMA FinishDataOutFields ==
  ASSUME NEW s \in ScsiState, NEW t, t = FinishDataOut(s)
  PROVE  t.phase = "Status" /\ t.icr = s.icr
<1> DEFINE image == IF s.writeMode /\ s.sel THEN AcceptWrite(s) ELSE s.image
           mode == FALSE
           s1 == [s EXCEPT !.image = image, !.writeMode = mode]
<1>1. image \in Seq(Byte) /\ mode \in BOOLEAN
  BY AcceptWriteType DEF ScsiState
<1>2. t = ToStatus(s1)
  BY DEF FinishDataOut
<1> HIDE DEF image, mode
<1>3. s1 \in ScsiState /\ s1.icr = s.icr
  BY <1>1 DEF ScsiState
<1> HIDE DEF s1
<1> QED
  BY <1>2, <1>3, StatusFields

\* The byte was taken and the data phase goes on.
TookByte(s, t, v) ==
  /\ t.xferPos = s.xferPos + 1 /\ t.xferPos <= Len(t.xfer)
  /\ t.xfer[t.xferPos] = v /\ \A j \in 1..s.xferPos : t.xfer[j] = s.xfer[j]

LEMMA ConsumeDataOutCalm ==
  ASSUME NEW s \in ScsiState, Calm(s), TargetReady(s), NEW a \in Operands,
         NEW t, t = ConsumeDataOut(s, TRUE, a)
  PROVE  /\ Calm(t)
         /\ t.phase = "DataOut" => /\ s.phase = "DataOut" /\ t.dmaStart = s.dmaStart
                                   /\ TookByte(s, t, s.odr)
<1>1. CASE s.phase = "DataOut"
  <2> DEFINE k == s.xferPos + 1
             xfer == [s.xfer EXCEPT ![k] = s.odr]
             s1 == [s EXCEPT !.xfer = xfer, !.xferPos = k]
  <2>1. s.xferPos \in Nat /\ s.xferPos < Len(s.xfer) /\ s.xfer \in Seq(Byte) /\ s.odr \in Byte
    BY <1>1 DEF ScsiState, TargetReady
  <2>2. t = IF s1.xferPos < Len(s1.xfer) THEN s1 ELSE FinishDataOut(s1)
    BY <1>1, <2>1 DEF ConsumeDataOut
  <2>3. k \in Nat /\ k \in 1..Len(s.xfer)
    BY <2>1
  <2>4. xfer \in Seq(Byte) /\ Len(xfer) = Len(s.xfer) /\ xfer[k] = s.odr
        /\ \A j \in 1..Len(s.xfer) : j # k => xfer[j] = s.xfer[j]
    BY <2>1, <2>3
  <2>5. \A j \in 1..s.xferPos : xfer[j] = s.xfer[j]
    BY <2>1, <2>4
  <2> HIDE DEF xfer
  <2>6. s1 \in ScsiState /\ s1.xfer = xfer /\ s1.xferPos = k /\ s1.icr = s.icr
        /\ s1.phase = s.phase /\ s1.dmaStart = s.dmaStart
    BY <2>3, <2>4 DEF ScsiState
  <2> HIDE DEF s1
  <2>7. FinishDataOut(s1).phase = "Status" /\ FinishDataOut(s1).icr = s1.icr
    BY <2>6, FinishDataOutFields
  <2>8. CASE t = s1
    <3>1. TookByte(s, t, s.odr)
      <4>1. t.xferPos = k /\ t.xfer = xfer /\ k = s.xferPos + 1
        BY <2>6, <2>8
      <4>2. k <= Len(xfer)
        BY <2>1, <2>3, <2>4
      <4> HIDE DEF k
      <4> QED
        BY <2>4, <2>5, <4>1, <4>2 DEF TookByte
    <3> QED
      BY <1>1, <2>6, <2>8, <3>1 DEF Calm
  <2>9. CASE t = FinishDataOut(s1)
    BY <2>6, <2>7, <2>9 DEF Calm
  <2> QED
    BY <2>2, <2>8, <2>9
<1>2. CASE s.phase # "DataOut"
  <2>1. s.phase # "Command"
    BY DEF Calm
  <2>2. t = s
    BY <1>2, <2>1 DEF ConsumeDataOut
  <2> QED
    BY <1>2, <2>2
<1> QED
  BY <1>1, <1>2

LEMMA WriteDataOutCalm ==
  ASSUME NEW s \in ScsiState, Calm(s), DmaRequest(s), NEW v \in Byte, NEW a \in Operands,
         NEW t, t = WriteDataOut(s, v, a)
  PROVE  /\ Calm(t)
         /\ t.phase = "DataOut" => /\ s.phase = "DataOut" /\ t.dmaStart = s.dmaStart
                                   /\ s.dmaStart = "Send" => TookByte(s, t, v)
<1> DEFINE s1 == [s EXCEPT !.odr = v]
<1>1. t = IF "DMA" \in s1.mr /\ s1.dmaStart = "Send" /\ ReqAsserted(s1)
          THEN ConsumeDataOut(s1, TRUE, a) ELSE s1
  BY DEF WriteDataOut
<1>2. s1 \in ScsiState /\ s1.odr = v /\ s1.icr = s.icr /\ s1.phase = s.phase /\ s1.mr = s.mr
      /\ s1.dmaStart = s.dmaStart /\ s1.xfer = s.xfer /\ s1.xferPos = s.xferPos
      /\ s1.cdbPos = s.cdbPos /\ s1.cdbLen = s.cdbLen
      /\ s1.statusReady = s.statusReady /\ s1.msgReady = s.msgReady
  BY DEF ScsiState
<1> HIDE DEF s1
<1>3. Calm(s1)
  BY <1>2 DEF Calm
<1>4. ReqAsserted(s1) /\ TargetReady(s1) /\ "DMA" \in s1.mr
  BY <1>2 DEF DmaRequest, ReqAsserted, TargetReady
<1>5. CASE s1.dmaStart = "Send"
  <2>1. t = ConsumeDataOut(s1, TRUE, a)
    BY <1>1, <1>4, <1>5
  <2>2. /\ Calm(t)
        /\ t.phase = "DataOut" => /\ s1.phase = "DataOut" /\ t.dmaStart = s1.dmaStart
                                  /\ TookByte(s1, t, s1.odr)
    BY <1>2, <1>3, <1>4, <2>1, ConsumeDataOutCalm
  <2>3. TookByte(s1, t, s1.odr) => TookByte(s, t, v)
    BY <1>2 DEF TookByte
  <2> QED
    BY <1>2, <2>2, <2>3
<1>6. CASE s1.dmaStart # "Send"
  <2>1. t = s1
    BY <1>1, <1>6
  <2> QED
    BY <1>2, <1>3, <1>6, <2>1
<1> QED
  BY <1>5, <1>6

\* One more byte: the target's last bytes are still memory in address order.
LEMMA StreamGrows ==
  ASSUME NEW s, NEW t, NEW d, NEW m, NEW f \in Addrs, NEW v, NEW e,
         s.xferPos \in Nat, s.dmaStart = "Send", t.dmaStart = "Send", TookByte(s, t, v),
         d.address \in Addrs, v = m[d.address], Gap(f, e.address) = Gap(f, d.address) + 1,
         Gap(f, d.address) <= s.xferPos,
         \A i \in 1..Gap(f, d.address) :
            s.xfer[s.xferPos - Gap(f, d.address) + i] = m[At(f, i)]
  PROVE  Streams(t, e, m, f)
<1> DEFINE g == Gap(f, d.address)
           h == Gap(f, e.address)
           p == s.xferPos
           q == t.xferPos
<1>1. g \in Nat
  <2>1. g \in Addrs
    BY GapCases
  <2> QED
    BY <2>1, Space DEF Addrs
<1>2. h = g + 1 /\ q = p + 1 /\ p \in Nat /\ g <= p /\ q <= Len(t.xfer)
  BY DEF TookByte
<1>3. At(f, g + 1) = d.address
  BY AtGap
<1>4. \A i \in 1..g : s.xfer[p - g + i] = m[At(f, i)]
  OBVIOUS
<1>5. t.xfer[q] = m[d.address] /\ \A j \in 1..p : t.xfer[j] = s.xfer[j]
  BY DEF TookByte
<1> HIDE DEF g, h, p, q
<1>6. ASSUME NEW i \in 1..h PROVE t.xfer[q - h + i] = m[At(f, i)]
  <2>1. CASE i = g + 1
    <3>1. q - h + i = q
      BY <1>1, <1>2, <2>1
    <3> QED
      BY <1>3, <1>5, <2>1, <3>1
  <2>2. CASE i # g + 1
    <3>1. i \in 1..g
      BY <1>1, <1>2, <2>2
    <3> DEFINE j == p - g + i
    <3>2. q - h + i = j /\ j \in 1..p
      BY <1>1, <1>2, <3>1
    <3>3. s.xfer[j] = m[At(f, i)]
      BY <1>4, <3>1
    <3> HIDE DEF j
    <3> QED
      BY <1>5, <3>2, <3>3
  <2> QED
    BY <2>1, <2>2
<1>7. h <= q
  BY <1>1, <1>2
<1> QED
  BY <1>2, <1>6, <1>7 DEF Streams, h, q

\* Streams depends on little of the registers and the chip.
LEMMA StreamsKept ==
  ASSUME NEW s, NEW t, NEW d, NEW e, NEW m, NEW f, Streams(s, d, m, f), SameStream(s, t),
         e.address = d.address, e.active => d.active, e.direction = d.direction
  PROVE  Streams(t, e, m, f)
BY DEF Streams, SameStream

LEMMA StreamsIdle ==
  ASSUME NEW s, NEW d, NEW m, NEW f, ~d.active \/ d.direction # "ToScsi" \/ s.phase # "DataOut"
  PROVE  Streams(s, d, m, f)
BY DEF Streams

LEMMA SameStreamSame == \A s : SameStream(s, s)
BY DEF SameStream

\* What SInv asks of the next state beyond DInv.
StreamKeeps == /\ Calm(scsi') /\ "HANDSHAKE" \notin dma'.control
               /\ Streams(scsi', dma', mem', from')

LEMMA NotifyStream ==
  ASSUME NEW e \in DmaRegisters, Notify(e, scsi'), Calm(scsi'), "HANDSHAKE" \notin e.control,
         Streams(scsi', e, mem', from')
  PROVE  StreamKeeps
<1> DEFINE q == IrqAsserted(e, scsi')
<1>1. dma' = [e EXCEPT !.last = q]
  BY DEF Notify
<1> HIDE DEF q
<1>2. dma'.address = e.address /\ dma'.direction = e.direction /\ dma'.control = e.control
      /\ (dma'.active <=> e.active)
  BY <1>1 DEF DmaRegisters
<1> QED
  BY <1>2, StreamsKept, SameStreamSame DEF StreamKeeps

LEMMA CountDownFields ==
  ASSUME NEW r \in DmaRegisters, NEW n, NEW d, d = CountDown(r, n)
  PROVE  d.address = r.address /\ d.direction = r.direction /\ d.control = r.control
         /\ (d.active => r.active)
<1> DEFINE c == r.counter - n
<1>1. \/ d = r
      \/ d = [r EXCEPT !.counter = 0, !.wdPending = TRUE, !.active = FALSE]
      \/ d = [r EXCEPT !.counter = c]
  BY DEF CountDown
<1> HIDE DEF c
<1> QED
  BY <1>1 DEF DmaRegisters

LEMMA SendStreams ==
  ASSUME SInv, NEW d, Settled(d, mem, from, taken), d.active,
         d.direction = "ToScsi", "HANDSHAKE" \notin d.control, Streams(scsi, d, mem, from),
         DmaRequest(scsi), NEW a \in Operands, SendByte(d, scsi, a), UNCHANGED << mem, from >>
  PROVE  StreamKeeps
<1> DEFINE d1 == [d EXCEPT !.fifo[d.address % 4] = mem[d.address], !.valid = @ \ {d.address % 4}]
           done == Advance(d1)
           v == mem[d.address]
           s1 == WriteDataOut(scsi, v, a)
<1>1. /\ d \in DmaRegisters /\ from \in Addrs /\ mem \in [Addrs -> Byte]
      /\ Armed(d, from) /\ scsi \in ScsiState /\ Sound(scsi) /\ Calm(scsi)
  BY DEF Settled, SInv, DInv, Sound
<1>2. d.address \in Addrs /\ d.count \in Addrs /\ d.count # 0
      /\ Gap(from, d.address) + d.count < AddrSpace
  BY <1>1 DEF Armed, DmaRegisters
<1>3. mem' = mem /\ from' = from
  OBVIOUS
<1>4. CASE d.address \in BadAddrs
  <2> DEFINE e == BusError(d)
  <2>1. scsi' = scsi /\ Notify(e, scsi')
    BY <1>4 DEF SendByte
  <2>2. e \in DmaRegisters /\ ~e.active /\ e.control = d.control
    <3>1. e = [d EXCEPT !.busError = TRUE, !.active = FALSE, !.direction = "None"]
      BY DEF BusError
    <3> HIDE DEF e
    <3>2. e.control = d.control
      BY <1>1, <3>1 DEF DmaRegisters
    <3>3. Stopped(d, e)
      BY <1>1, BusErrorFields DEF e
    <3> QED
      BY <3>2, <3>3 DEF Stopped
  <2> HIDE DEF e
  <2>3. Streams(scsi', e, mem', from')
    BY <2>2, StreamsIdle
  <2>4. Calm(scsi')
    BY <1>1, <2>1
  <2> QED
    BY <2>1, <2>2, <2>3, <2>4, NotifyStream
<1>5. CASE d.address \notin BadAddrs
  <2> DEFINE e == IF done.count = 0 THEN FinishDma(done) ELSE done
             s2 == IF done.count = 0 THEN SignalEndOfProcess(s1) ELSE s1
  <2>1. scsi' = s2 /\ Notify(e, s2)
    BY <1>5 DEF SendByte
  <2>2. v \in Byte
    BY <1>1, <1>2
  <2>3. Alongside(d, d1) /\ SamePlace(d, d1)
    <3> DEFINE fifo == [d.fifo EXCEPT ![d.address % 4] = v]
               valid == d.valid \ {d.address % 4}
    <3>1. fifo \in [Lanes -> Byte] /\ valid \in SUBSET Lanes
      BY <1>1, <2>2, WordFacts DEF DmaRegisters
    <3>2. d1 = [d EXCEPT !.fifo = fifo, !.valid = valid]
      OBVIOUS
    <3> HIDE DEF fifo, valid, d1
    <3> QED
      BY <1>1, <3>1, <3>2 DEF Alongside, SamePlace, DmaRegisters
  <2>4. done = Advance(d1) /\ s1 = WriteDataOut(scsi, v, a) /\ v = mem[d.address]
    OBVIOUS
  <2> HIDE DEF d1, s1, v
  <2>5. d1 \in DmaRegisters /\ d1.count # 0 /\ d1.count = d.count /\ d1.address = d.address
    BY <1>2, <2>3 DEF Alongside, SamePlace
  <2>6. Alongside(d1, done) /\ done.count = d.count - 1
        /\ done.address = (d.address + 1) % AddrSpace
    BY <2>4, <2>5, AdvanceFields
  <2> HIDE DEF done
  <2>7. Alongside(d, done)
    BY <2>3, <2>6 DEF Alongside
  <2>8. Calm(s1)
    BY <1>1, <2>2, <2>4, WriteDataOutCalm
  <2>9. Sound(s1)
    BY <1>1, <2>2, <2>4, WriteDataOutSound
  <2>10. CASE done.count = 0
    <3> DEFINE o == FinishDma(done)
    <3>1. Notify(o, scsi') /\ scsi' = SignalEndOfProcess(s1)
      BY <2>1, <2>10
    <3>2. Calm(scsi')
      BY <2>8, <2>9, <3>1, EndOfProcessCalm DEF Sound
    <3>3. done \in DmaRegisters /\ "HANDSHAKE" \notin done.control
      BY <2>7 DEF Alongside
    <3>4. o \in DmaRegisters /\ ~o.active
      BY <3>3, FinishFields DEF Stopped
    <3>5. "HANDSHAKE" \notin o.control
      BY <3>3 DEF FinishDma, DmaRegisters
    <3> HIDE DEF o
    <3>6. Streams(scsi', o, mem', from')
      BY <3>4, StreamsIdle
    <3> QED
      BY <3>1, <3>2, <3>4, <3>5, <3>6, NotifyStream
  <2>11. CASE done.count # 0
    <3>1. Notify(done, scsi') /\ scsi' = s1
      BY <2>1, <2>11
    <3>2. Gap(from, done.address) = Gap(from, d.address) + 1
      <4>1. d.count \in Nat /\ d.count >= 2
        BY <1>2, <2>6, <2>11, Space DEF Addrs
      <4>2. Gap(from, d.address) \in Addrs
        BY <1>1, <1>2, GapCases
      <4>3. Gap(from, d.address) \in Nat
        BY <4>2, Space DEF Addrs
      <4> QED
        BY <1>1, <1>2, <2>6, <4>1, <4>3, GapGrows, Space
    <3>3. Streams(s1, done, mem, from)
      <4>1. CASE s1.phase # "DataOut"
        BY <4>1, StreamsIdle
      <4>2. CASE s1.phase = "DataOut"
        <5>1. scsi.phase = "DataOut" /\ s1.dmaStart = scsi.dmaStart
              /\ (scsi.dmaStart = "Send" => TookByte(scsi, s1, v))
          BY <1>1, <2>2, <2>4, <4>2, WriteDataOutCalm
        <5>2. /\ scsi.dmaStart = "Send" /\ Gap(from, d.address) <= scsi.xferPos
              /\ \A i \in 1..Gap(from, d.address) :
                    scsi.xfer[scsi.xferPos - Gap(from, d.address) + i] = mem[At(from, i)]
          BY <5>1 DEF Streams
        <5>3. scsi.xferPos \in Nat
          BY <1>1 DEF ScsiState
        <5> QED
          BY <1>1, <1>2, <2>4, <3>2, <5>1, <5>2, <5>3, StreamGrows
      <4> QED
        BY <4>1, <4>2
    <3>4. done \in DmaRegisters /\ "HANDSHAKE" \notin done.control
      BY <2>7 DEF Alongside
    <3>5. Streams(scsi', done, mem', from') /\ Calm(scsi')
      BY <1>3, <2>8, <3>1, <3>3
    <3> QED
      BY <3>1, <3>4, <3>5, NotifyStream
  <2> QED
    BY <2>10, <2>11
<1> QED
  BY <1>4, <1>5

LEMMA ReceiveStreams ==
  ASSUME SInv, NEW d, Settled(d, mem, from, taken), d.active, d.direction = "FromScsi",
         "HANDSHAKE" \notin d.control, ReceiveByte(d, scsi)
  PROVE  StreamKeeps
<1> DEFINE b == PeekDataIn(scsi)
           e == [d EXCEPT !.fifo[d.address % 4] = b, !.valid = @ \cup {d.address % 4}]
           s1 == DmaDataIn(scsi)
           flush == d.address % 4 = 3 \/ d.count = 1
           k == IF flush THEN [e EXCEPT !.valid = {}] ELSE e
           n == Advance(k)
           s2 == IF n.count = 0 THEN SignalEndOfProcess(s1) ELSE s1
           o == IF n.count = 0 THEN FinishDma(n) ELSE n
<1>1. \/ scsi' = s1 /\ Notify(BusError(e), scsi')
      \/ scsi' = s2 /\ Notify(o, scsi')
  BY DEF ReceiveByte
<1>2. d \in DmaRegisters /\ scsi \in ScsiState /\ Sound(scsi) /\ Calm(scsi) /\ d.count # 0
  BY DEF Settled, SInv, DInv, Sound, Armed
<1>3. b \in Byte
  BY <1>2, PeekType
<1>4. e = Held(d, b)
  BY DEF Held
<1>5. Alongside(d, e) /\ SamePlace(d, e)
  BY <1>2, <1>3, <1>4, HeldFields
<1>6. Calm(s1) /\ s1 \in ScsiState
  <2>1. Calm(s1)
    BY <1>2, ConsumeDataInCalm DEF DmaDataIn
  <2>2. Sound(s1)
    BY <1>2, ConsumeDataInSound DEF DmaDataIn
  <2> QED
    BY <2>1, <2>2 DEF Sound
<1> HIDE DEF b, e, s1, flush
<1>7. Alongside(d, k) /\ SamePlace(d, k)
  <2> DEFINE x == [e EXCEPT !.valid = {}]
  <2>1. Alongside(e, x) /\ SamePlace(e, x)
    BY <1>5, ClearFields DEF Alongside
  <2> HIDE DEF x
  <2>2. Alongside(d, x) /\ SamePlace(d, x)
    BY <1>5, <2>1 DEF Alongside, SamePlace
  <2>3. k = x \/ k = e
    BY DEF x
  <2> HIDE DEF k
  <2> QED
    BY <1>5, <2>2, <2>3
<1>8. n = Advance(k)
  OBVIOUS
<1> HIDE DEF k
<1>9. k \in DmaRegisters /\ k.count # 0
  BY <1>2, <1>7 DEF Alongside, SamePlace
<1>10. Alongside(k, n)
  BY <1>8, <1>9, AdvanceFields
<1> HIDE DEF n
<1>11. n \in DmaRegisters /\ n.control = d.control /\ n.direction = "FromScsi"
  BY <1>7, <1>10 DEF Alongside
<1>12. Calm(s2)
  BY <1>6, EndOfProcessCalm
<1> HIDE DEF s2
<1>13. CASE scsi' = s1 /\ Notify(BusError(e), scsi')
  <2> DEFINE x == BusError(e)
  <2>1. e \in DmaRegisters /\ e.control = d.control
    BY <1>5 DEF Alongside
  <2>2. x \in DmaRegisters /\ ~x.active
    BY <2>1, BusErrorFields DEF Stopped
  <2>3. x.control = d.control
    BY <2>1 DEF BusError, DmaRegisters
  <2> HIDE DEF x
  <2>4. Streams(scsi', x, mem', from')
    BY <2>2, StreamsIdle
  <2> QED
    BY <1>6, <1>13, <2>2, <2>3, <2>4, NotifyStream DEF x
<1>14. CASE scsi' = s2 /\ Notify(o, scsi')
  <2>1. o \in DmaRegisters /\ o.direction # "ToScsi" /\ o.control = d.control
    <3> DEFINE x == FinishDma(n)
    <3>1. x \in DmaRegisters
      BY <1>11, FinishFields DEF Stopped
    <3>2. x.control = d.control /\ x.direction = "None"
      BY <1>11 DEF FinishDma, DmaRegisters
    <3>3. o = x \/ o = n
      OBVIOUS
    <3> HIDE DEF x, o
    <3> QED
      BY <1>11, <3>1, <3>2, <3>3
  <2> HIDE DEF o
  <2>2. Streams(scsi', o, mem', from')
    BY <2>1, StreamsIdle
  <2> QED
    BY <1>12, <1>14, <2>1, <2>2, NotifyStream
<1> QED
  BY <1>1, <1>13, <1>14

LEMMA TickStreams == ASSUME SInv, Tick PROVE StreamKeeps
<1>1. PICK n \in {1, 2}, slot \in BOOLEAN, a \in Operands :
        /\ UNCHANGED << from, accesses >>
        /\ IF slot /\ CountDown(dma, n).active /\ "ENABLE" \in CountDown(dma, n).control
           THEN TransferByte(CountDown(dma, n), scsi, a)
           ELSE Notify(CountDown(dma, n), scsi) /\ UNCHANGED << scsi, mem, taken >>
  BY DEF Tick
<1> DEFINE d == CountDown(dma, n)
<1>2. Settled(d, mem, from, taken)
  BY CountDownSettled DEF SInv
<1>3. from' = from /\ Calm(scsi)
  BY <1>1 DEF SInv
<1>4. d \in DmaRegisters /\ "HANDSHAKE" \notin d.control /\ Streams(scsi, d, mem, from)
  <2>1. dma \in DmaRegisters /\ "HANDSHAKE" \notin dma.control /\ Streams(scsi, dma, mem, from)
    BY DEF SInv, DInv, Settled
  <2>2. d.address = dma.address /\ d.direction = dma.direction /\ d.control = dma.control
        /\ (d.active => dma.active)
    BY <2>1, CountDownFields
  <2>3. d \in DmaRegisters
    BY <1>2 DEF Settled
  <2> HIDE DEF d
  <2> QED
    BY <2>1, <2>2, <2>3, StreamsKept, SameStreamSame
<1>5. \/ d.active /\ TransferByte(d, scsi, a)
      \/ Notify(d, scsi) /\ UNCHANGED << scsi, mem, taken >>
  BY <1>1
<1> HIDE DEF d
<1>6. CASE Notify(d, scsi) /\ UNCHANGED << scsi, mem, taken >>
  <2>1. Streams(scsi', d, mem', from') /\ Calm(scsi') /\ Notify(d, scsi')
    BY <1>3, <1>4, <1>6
  <2> QED
    BY <1>4, <2>1, NotifyStream
<1>7. CASE d.active /\ TransferByte(d, scsi, a)
  <2>1. d.count # 0 /\ d.direction \in {"ToScsi", "FromScsi"}
    BY <1>2, <1>4, <1>7 DEF Settled, Armed, DmaRegisters
  <2>2. CASE ~DmaRequest(scsi) \/ ~PhaseMatch(scsi)
    <3> DEFINE q == d.active /\ ~scsi.irq
               e == [d EXCEPT !.active = q]
    <3>1. scsi' = scsi /\ Notify(e, scsi) /\ mem' = mem
      BY <1>7, <2>1, <2>2 DEF TransferByte
    <3>2. q \in BOOLEAN /\ (q => d.active)
      BY <1>4 DEF DmaRegisters
    <3> HIDE DEF q
    <3>3. e \in DmaRegisters /\ (e.active => d.active) /\ e.address = d.address
          /\ e.direction = d.direction /\ e.control = d.control
      BY <1>4, <3>2 DEF DmaRegisters
    <3> HIDE DEF e
    <3>4. Streams(scsi, e, mem, from)
      BY <1>4, <3>3, StreamsKept, SameStreamSame
    <3>5. Streams(scsi', e, mem', from') /\ Calm(scsi') /\ Notify(e, scsi')
      BY <1>3, <3>1, <3>4
    <3> QED
      BY <1>4, <3>3, <3>5, NotifyStream
  <2>3. CASE ~(~DmaRequest(scsi) \/ ~PhaseMatch(scsi)) /\ d.direction = "ToScsi"
    <3>1. SendByte(d, scsi, a) /\ UNCHANGED << mem, from >>
      BY <1>3, <1>7, <2>1, <2>3 DEF TransferByte
    <3> QED
      BY <1>2, <1>4, <1>7, <2>3, <3>1, SendStreams
  <2>4. CASE ~(~DmaRequest(scsi) \/ ~PhaseMatch(scsi)) /\ d.direction = "FromScsi"
    <3>1. ReceiveByte(d, scsi)
      BY <1>7, <2>1, <2>4 DEF TransferByte
    <3> QED
      BY <1>2, <1>4, <1>7, <2>4, <3>1, ReceiveStreams
  <2> QED
    BY <2>1, <2>2, <2>3, <2>4
<1> QED
  BY <1>5, <1>6, <1>7

\* Without HANDSHAKE, every start through the window (re)starts the transfer.
LEMMA WindowStartStreams == ASSUME SInv, WindowStart PROVE StreamKeeps
<1>1. PICK start \in DmaStarts \ {"None"} :
        /\ scsi' = [scsi EXCEPT !.dmaStart = start]
        /\ Notify(BeginTransfer(dma, start), scsi')
        /\ IF Begins(dma) THEN from' = dma.address /\ taken' = << >> ELSE UNCHANGED << from, taken >>
        /\ UNCHANGED mem
  BY DEF WindowStart
<1>2. /\ dma \in DmaRegisters /\ scsi \in ScsiState /\ Calm(scsi) /\ "HANDSHAKE" \notin dma.control
      /\ Armed(dma, from)
  BY DEF SInv, DInv, Settled, Sound
<1>3. scsi'.dmaStart = start /\ scsi'.xferPos = scsi.xferPos /\ scsi'.xfer = scsi.xfer
      /\ scsi'.phase = scsi.phase /\ scsi'.icr = scsi.icr
  BY <1>1, <1>2 DEF ScsiState
<1>4. Calm(scsi')
  BY <1>2, <1>3 DEF Calm
<1>5. CASE ~Begins(dma)
  <2>1. Notify(dma, scsi')
    BY <1>1, <1>5 DEF BeginTransfer
  <2>2. ~dma.active
    BY <1>2, <1>5 DEF Armed, Begins
  <2> QED
    BY <1>2, <1>4, <2>1, <2>2, StreamsIdle, NotifyStream
<1>6. CASE Begins(dma)
  <2> DEFINE way == IF start = "Send" THEN "ToScsi" ELSE "FromScsi"
             none == {}
             p == TRUE
             q == FALSE
             d == [dma EXCEPT !.direction = way, !.active = p, !.busError = q, !.valid = none]
  <2>1. Notify(d, scsi') /\ from' = dma.address /\ mem' = mem
    BY <1>1, <1>6 DEF BeginTransfer
  <2>2. way \in {"ToScsi", "FromScsi"} /\ none \in SUBSET Lanes /\ p \in BOOLEAN /\ q \in BOOLEAN
        /\ (way = "ToScsi" => start = "Send")
    OBVIOUS
  <2> HIDE DEF way, none, p, q
  <2>3. d \in DmaRegisters /\ d.address = dma.address /\ d.control = dma.control
        /\ d.direction = way
    BY <1>2, <2>2 DEF DmaRegisters
  <2> HIDE DEF d
  <2>4. dma.address \in Addrs
    BY <1>2 DEF DmaRegisters
  <2>5. Gap(dma.address, d.address) = 0
    BY <2>3, <2>4, GapStarts
  <2>6. Streams(scsi', d, mem, dma.address)
    <3>1. scsi.xferPos \in Nat /\ (scsi.phase = "DataOut" => scsi.xferPos <= Len(scsi.xfer))
      <4>1. scsi.xferPos \in Nat
        BY <1>2 DEF ScsiState
      <4>2. scsi.phase = "DataOut" => TargetReady(scsi)
        BY <1>2 DEF SInv, DInv, Sound, Handshake, Busy, Calm
      <4>3. scsi.xfer \in Seq(Byte)
        BY <1>2 DEF ScsiState
      <4> QED
        BY <4>1, <4>2, <4>3 DEF TargetReady
    <3>2. 1..0 = {}
      OBVIOUS
    <3> QED
      BY <1>3, <2>2, <2>3, <2>5, <3>1, <3>2 DEF Streams
  <2>7. Streams(scsi', d, mem', from')
    BY <2>1, <2>6
  <2> QED
    BY <1>2, <1>4, <2>1, <2>3, <2>7, NotifyStream
<1> QED
  BY <1>5, <1>6

\* The accesses after which the engine's registers are r, with the same transfer or none.
LEMMA RegisterStreams ==
  ASSUME SInv, NEW r \in DmaRegisters, Notify(r, scsi'), "HANDSHAKE" \notin r.control,
         ~r.active \/ (r.address = dma.address /\ r.direction = dma.direction /\ dma.active),
         Calm(scsi'), SameStream(scsi, scsi'), UNCHANGED << mem, from >>
  PROVE  StreamKeeps
<1>1. Streams(scsi, dma, mem, from) /\ mem' = mem /\ from' = from
  BY DEF SInv
<1>2. Streams(scsi', r, mem, from)
  <2>1. CASE ~r.active
    BY <2>1, StreamsIdle
  <2>2. CASE r.address = dma.address /\ r.direction = dma.direction /\ dma.active
    BY <1>1, <2>2, StreamsKept
  <2> QED
    BY <2>1, <2>2
<1>3. Streams(scsi', r, mem', from')
  BY <1>1, <1>2
<1> QED
  BY <1>3, NotifyStream

LEMMA WindowAccessStreams == ASSUME HandsOff, SInv, WindowAccess PROVE StreamKeeps
<1>1. /\ dma \in DmaRegisters /\ Sound(scsi) /\ Calm(scsi) /\ "HANDSHAKE" \notin dma.control
      /\ dma.active \in BOOLEAN
  BY DEF SInv, DInv, Settled, DmaRegisters
<1>2. Notify(dma, scsi') /\ UNCHANGED << mem, from >>
  BY DEF WindowAccess
<1>3. Calm(scsi') /\ SameStream(scsi, scsi')
  BY <1>1, ChipStaysCalm DEF WindowAccess
<1> QED
  BY <1>1, <1>2, <1>3, RegisterStreams

LEMMA DirectAccessStreams == ASSUME HandsOff, SInv, DirectAccess PROVE StreamKeeps
<1>1. /\ scsi \in ScsiState /\ Sound(scsi) /\ Calm(scsi) /\ "HANDSHAKE" \notin dma.control
      /\ Streams(scsi, dma, mem, from)
  BY DEF SInv, DInv, Sound
<1>2. dma' = dma /\ mem' = mem /\ from' = from /\ RegisterAccess
      /\ (dma.active => scsi'.dmaStart \in {scsi.dmaStart, "None"})
  BY DEF DirectAccess
<1>3. CASE StartDma
  <2>1. PICK start \in DmaStarts \ {"None"} : scsi' = [scsi EXCEPT !.dmaStart = start]
    BY <1>3 DEF StartDma
  <2>2. scsi'.dmaStart = start /\ scsi'.xferPos = scsi.xferPos /\ scsi'.xfer = scsi.xfer
        /\ scsi'.phase = scsi.phase /\ scsi'.icr = scsi.icr
    BY <1>1, <2>1 DEF ScsiState
  <2>3. Calm(scsi')
    BY <1>1, <2>2 DEF Calm
  <2>4. Streams(scsi', dma, mem, from)
    <3>1. CASE ~dma.active
      BY <3>1, StreamsIdle
    <3>2. CASE dma.active
      <4>1. SameStream(scsi, scsi')
        BY <1>2, <2>1, <2>2, <3>2 DEF SameStream
      <4> QED
        BY <1>1, <4>1, StreamsKept
    <3> QED
      BY <3>1, <3>2
  <2> QED
    BY <1>1, <1>2, <2>3, <2>4 DEF StreamKeeps
<1>4. CASE ~StartDma
  <2>1. Calm(scsi') /\ SameStream(scsi, scsi')
    BY <1>1, <1>2, <1>4, ChipStaysCalm DEF RegisterAccess
  <2>2. Streams(scsi', dma, mem, from)
    BY <1>1, <2>1, StreamsKept
  <2> QED
    BY <1>1, <1>2, <2>1, <2>2 DEF StreamKeeps
<1> QED
  BY <1>3, <1>4

LEMMA WriteControlStreams == ASSUME HandsOff, SInv, WriteControl PROVE StreamKeeps
<1>1. PICK v \in ControlWrites :
        LET pulse == "RESET" \in v /\ ~dma.resetHigh
            d1 == [dma EXCEPT !.control = v, !.resetHigh = "RESET" \in v]
            d2 == IF pulse THEN [d1 EXCEPT !.active = FALSE, !.direction = "None", !.valid = {}]
                           ELSE d1
            s1 == IF pulse THEN ResetChip(scsi) ELSE scsi
        IN  /\ scsi' = s1
            /\ Notify([d2 EXCEPT !.active = @ /\ "ENABLE" \in v], s1)
            /\ taken' = IF pulse THEN << >> ELSE taken
            /\ UNCHANGED << mem, from >>
  BY DEF WriteControl
<1> DEFINE pulse == "RESET" \in v /\ ~dma.resetHigh
           high == "RESET" \in v
           d1 == [dma EXCEPT !.control = v, !.resetHigh = high]
           d2 == [d1 EXCEPT !.active = FALSE, !.direction = "None", !.valid = {}]
           d3 == IF pulse THEN d2 ELSE d1
           on == d3.active /\ "ENABLE" \in v
           e == [d3 EXCEPT !.active = on]
<1>2. dma \in DmaRegisters /\ scsi \in ScsiState /\ Calm(scsi) /\ dma.active \in BOOLEAN
  BY DEF SInv, DInv, Settled, Sound, DmaRegisters
<1>3. v \in SUBSET ControlLines /\ high \in BOOLEAN /\ "HANDSHAKE" \notin v
  BY <1>1, DmaRegisterAssumption DEF HandsOff
<1>4. Calm(scsi') /\ SameStream(scsi, scsi')
  <2>1. Calm(ResetChip(scsi)) /\ ResetChip(scsi).phase = "BusFree"
    BY <1>2, ResetChipCalm
  <2> QED
    BY <1>1, <1>2, <2>1, SameStreamSame DEF SameStream
<1>5. Notify(e, scsi') /\ UNCHANGED << mem, from >>
  BY <1>1
<1>6. d3 = d1 \/ d3 = d2
  OBVIOUS
<1> HIDE DEF high, d3
<1>7. d1 \in DmaRegisters /\ d1.address = dma.address /\ d1.control = v
      /\ d1.direction = dma.direction /\ (d1.active <=> dma.active)
  BY <1>2, <1>3 DEF DmaRegisters
<1> HIDE DEF d1
<1>8. d2 \in DmaRegisters /\ ~d2.active /\ d2.control = v
  BY <1>7 DEF DmaRegisters
<1> HIDE DEF d2
<1>9. d3 \in DmaRegisters /\ d3.control = v
      /\ (~d3.active \/ (d3.address = dma.address /\ d3.direction = dma.direction /\ dma.active))
  BY <1>2, <1>6, <1>7, <1>8
<1>10. on \in BOOLEAN /\ (on => d3.active)
  BY <1>9 DEF DmaRegisters
<1> HIDE DEF on
<1>11. e \in DmaRegisters /\ e.control = v /\ (e.active <=> on) /\ e.address = d3.address
       /\ e.direction = d3.direction
  BY <1>9, <1>10 DEF DmaRegisters
<1> HIDE DEF e
<1> QED
  BY <1>3, <1>4, <1>5, <1>9, <1>10, <1>11, RegisterStreams

\* The other accesses leave the chip alone and keep the transfer, or come between two.
LEMMA OtherStreams ==
  ASSUME SInv, WriteAddress \/ WriteCount \/ WriteWatchdog \/ ReadWatchdog \/ WriteFifo
  PROVE  StreamKeeps
<1>1. /\ dma \in DmaRegisters /\ scsi \in ScsiState /\ Calm(scsi) /\ "HANDSHAKE" \notin dma.control
      /\ Streams(scsi, dma, mem, from)
  BY DEF SInv, DInv, Settled, Sound
<1> DEFINE Same(e) == /\ e.control = dma.control
                      /\ ~e.active \/ (e.address = dma.address /\ e.direction = dma.direction
                                        /\ dma.active)
           q(e) == IrqAsserted(e, scsi)
<1>2. \E e : /\ e \in DmaRegisters /\ Same(e) /\ dma' = [e EXCEPT !.last = q(e)]
             /\ scsi' = scsi /\ mem' = mem /\ from' = from
  <2>1. CASE WriteAddress
    <3>1. PICK v \in Addresses : /\ ~dma.active /\ Notify([dma EXCEPT !.address = v], scsi)
                                 /\ UNCHANGED << scsi, mem, from, taken >>
      BY <2>1 DEF WriteAddress
    <3> DEFINE e == [dma EXCEPT !.address = v]
    <3>2. v \in Addrs
      BY <3>1, DmaRegisterAssumption
    <3>3. e \in DmaRegisters /\ e.control = dma.control /\ ~e.active
      BY <1>1, <3>1, <3>2 DEF DmaRegisters
    <3>4. dma' = [e EXCEPT !.last = q(e)]
      BY <3>1 DEF Notify
    <3> HIDE DEF e, q
    <3> QED
      BY <3>1, <3>3, <3>4
  <2>2. CASE WriteCount
    <3>1. PICK v \in Counts : /\ ~dma.active /\ Notify([dma EXCEPT !.count = v], scsi)
                              /\ UNCHANGED << scsi, mem, from, taken >>
      BY <2>2 DEF WriteCount
    <3> DEFINE e == [dma EXCEPT !.count = v]
    <3>2. v \in Addrs
      BY <3>1, DmaRegisterAssumption
    <3>3. e \in DmaRegisters /\ e.control = dma.control /\ ~e.active
      BY <1>1, <3>1, <3>2 DEF DmaRegisters
    <3>4. dma' = [e EXCEPT !.last = q(e)]
      BY <3>1 DEF Notify
    <3> HIDE DEF e, q
    <3> QED
      BY <3>1, <3>3, <3>4
  <2>3. CASE WriteWatchdog
    <3>1. PICK v \in Reloads :
            Notify(LoadWatchdog(dma, v), scsi) /\ UNCHANGED << scsi, mem, from, taken >>
      BY <2>3 DEF WriteWatchdog
    <3> DEFINE z == FALSE
               e == [dma EXCEPT !.reload = v, !.counter = v, !.wdPending = z]
    <3>2. v \in Nat /\ z \in BOOLEAN
      BY <3>1, DmaRegisterAssumption
    <3>3. dma' = [e EXCEPT !.last = q(e)]
      BY <3>1 DEF Notify, LoadWatchdog
    <3> HIDE DEF z
    <3>4. e \in DmaRegisters /\ e.control = dma.control /\ (e.active <=> dma.active)
          /\ e.address = dma.address /\ e.direction = dma.direction
      BY <1>1, <3>2 DEF DmaRegisters
    <3>5. Same(e)
      BY <3>4
    <3> HIDE DEF e, q
    <3> QED
      BY <3>1, <3>3, <3>4, <3>5
  <2>4. CASE ReadWatchdog
    <3> DEFINE e == [dma EXCEPT !.wdPending = FALSE]
    <3>1. Notify(e, scsi) /\ UNCHANGED << scsi, mem, from, taken >>
      BY <2>4 DEF ReadWatchdog
    <3>2. e \in DmaRegisters /\ e.control = dma.control /\ (e.active <=> dma.active)
          /\ e.address = dma.address /\ e.direction = dma.direction
      BY <1>1 DEF DmaRegisters
    <3>3. dma' = [e EXCEPT !.last = q(e)]
      BY <3>1 DEF Notify
    <3>4. Same(e)
      BY <3>2
    <3> HIDE DEF e, q
    <3> QED
      BY <3>1, <3>2, <3>3, <3>4
  <2>5. CASE WriteFifo
    <3>1. PICK b \in FifoBytes :
            /\ ~dma.active
            /\ Notify([dma EXCEPT !.fifo = [l \in Lanes |-> b], !.valid = Lanes], scsi)
            /\ taken' = << >> /\ UNCHANGED << scsi, mem, from >>
      BY <2>5 DEF WriteFifo
    <3> DEFINE fifo == [l \in Lanes |-> b]
               lanes == Lanes
               e == [dma EXCEPT !.fifo = fifo, !.valid = lanes]
    <3>2. fifo \in [Lanes -> Byte] /\ lanes \in SUBSET Lanes
      BY <3>1, DmaRegisterAssumption
    <3>3. dma' = [e EXCEPT !.last = q(e)]
      BY <3>1 DEF Notify
    <3> HIDE DEF fifo, lanes
    <3>4. e \in DmaRegisters /\ e.control = dma.control /\ ~e.active
      BY <1>1, <3>1, <3>2 DEF DmaRegisters
    <3> HIDE DEF e, q
    <3> QED
      BY <3>1, <3>3, <3>4
  <2> QED
    BY <2>1, <2>2, <2>3, <2>4, <2>5
<1>3. PICK e : /\ e \in DmaRegisters /\ Same(e) /\ dma' = [e EXCEPT !.last = q(e)]
               /\ scsi' = scsi /\ mem' = mem /\ from' = from
  BY <1>2
<1> HIDE DEF q
<1>4. dma'.address = e.address /\ dma'.direction = e.direction /\ dma'.control = e.control
      /\ (dma'.active <=> e.active)
  BY <1>3 DEF DmaRegisters
<1>5. Streams(scsi, dma', mem, from)
  <2>1. CASE ~e.active
    BY <1>4, <2>1, StreamsIdle
  <2>2. CASE e.address = dma.address /\ e.direction = dma.direction /\ dma.active
    BY <1>1, <1>4, <2>2, StreamsKept, SameStreamSame
  <2> QED
    BY <1>3, <2>1, <2>2
<1> QED
  BY <1>1, <1>3, <1>4, <1>5 DEF StreamKeeps

LEMMA MachineResetStreams == ASSUME SInv, MachineReset PROVE StreamKeeps
<1>1. scsi' = ResetChip(scsi) /\ dma' = Blank
  BY DEF MachineReset
<1>2. Calm(scsi')
  BY <1>1, ResetChipCalm DEF SInv, DInv, Sound
<1> QED
  BY <1>1, <1>2, BlankFields, StreamsIdle DEF StreamKeeps

LEMMA StartStreams == Start => SInv
<1> SUFFICES ASSUME Start PROVE SInv
  OBVIOUS
<1>1. PICK image \in Images, op \in Opcodes, a \in Operands : scsi = AfterCommand(image, op, a)
  BY DEF Start
<1>2. dma = Blank
  BY DEF Start
<1> DEFINE s == EnterCommand(PowerOn(image, FALSE))
           k == 6
           s1 == [s EXCEPT !.op = op, !.cdbPos = k]
<1>3. s \in ScsiState /\ s.icr = {}
  <2>1. PowerOn(image, FALSE) \in ScsiState /\ PowerOn(image, FALSE).icr = {}
    BY PowerOnType DEF PowerOn
  <2>2. Sound(s)
    BY <2>1, EnterCommandSound
  <2> QED
    BY <2>1, <2>2 DEF Sound, EnterCommand, ScsiState
<1>4. scsi = ExecuteCdb(s1, a)
  BY <1>1 DEF AfterCommand
<1>5. op \in Byte /\ k \in Nat
  BY DmaRegisterAssumption
<1> HIDE DEF s, k
<1>6. s1 \in ScsiState /\ s1.icr = {}
  BY <1>3, <1>5 DEF ScsiState
<1> HIDE DEF s1
<1>7. scsi.phase # "Command" /\ scsi.icr = {}
  <2> DEFINE r  == IF s1.sel THEN DiskExecute(s1, a) ELSE CheckCondition(s1, s1.senseKey, s1.xfer)
             s2 == [s1 EXCEPT !.status = r.status, !.xfer = r.out, !.xferPos = 0,
                              !.senseKey = r.sense, !.writeLba = r.lba]
             zeros == Zeros(r.take)
  <2>1. r \in Outcome
    BY <1>6, ExecuteType DEF CheckCondition, Answer, Outcome, ScsiState
  <2>2. \/ scsi = ToStatus(s2)
        \/ scsi = [s2 EXCEPT !.writeMode = TRUE, !.xfer = zeros, !.phase = "DataOut"]
        \/ scsi = [s2 EXCEPT !.phase = "DataIn"]
    BY <1>4 DEF ExecuteCdb
  <2> HIDE DEF r, zeros
  <2>3. s2 \in ScsiState /\ s2.icr = {}
    BY <1>6, <2>1 DEF ScsiState, Outcome
  <2> HIDE DEF s2
  <2>4. CASE scsi = ToStatus(s2)
    BY <2>3, <2>4, StatusFields
  <2>5. CASE scsi = [s2 EXCEPT !.writeMode = TRUE, !.xfer = zeros, !.phase = "DataOut"]
    BY <2>3, <2>5 DEF ScsiState
  <2>6. CASE scsi = [s2 EXCEPT !.phase = "DataIn"]
    BY <2>3, <2>6 DEF ScsiState
  <2> QED
    BY <2>2, <2>4, <2>5, <2>6
<1>8. Streams(scsi, dma, mem, from)
  BY <1>2, BlankFields, StreamsIdle
<1> QED
  BY <1>2, <1>7, <1>8, StartSettled, BlankFields DEF SInv, Calm

LEMMA StepStreams == ASSUME HandsOff, SInv, [Step]_vars PROVE SInv'
<1>1. DInv'
  BY StepKeeps, StutterKeeps DEF SInv, Keeps
<1>2. StreamKeeps
  <2>1. CASE Tick
    BY <2>1, TickStreams
  <2>2. CASE Access
    <3>1. CASE WindowStart
      BY <3>1, WindowStartStreams
    <3>2. CASE WindowAccess
      BY <3>2, WindowAccessStreams
    <3>3. CASE DirectAccess
      BY <3>3, DirectAccessStreams
    <3>4. CASE WriteControl
      BY <3>4, WriteControlStreams
    <3>5. CASE WriteAddress \/ WriteCount \/ WriteWatchdog \/ ReadWatchdog \/ WriteFifo
      BY <3>5, OtherStreams
    <3>6. CASE MachineReset
      BY <3>6, MachineResetStreams
    <3> QED
      BY <2>2, <3>1, <3>2, <3>3, <3>4, <3>5, <3>6 DEF Access
  <2>3. CASE UNCHANGED vars
    <3>1. scsi' = scsi /\ dma' = dma /\ mem' = mem /\ from' = from
      BY <2>3 DEF vars
    <3> QED
      BY <3>1 DEF SInv, StreamKeeps
  <2> QED
    BY <2>1, <2>2, <2>3 DEF Step, GuestAccess
<1> QED
  BY <1>1, <1>2 DEF SInv, StreamKeeps

\* The inductive invariant of a driver that leaves the handshake to the engine: the
\* chip is calm between the engine's bytes, and has what memory held up to the address.
THEOREM AlwaysStreams == ASSUME HandsOff PROVE DmaSpec => []SInv
<1>1. SInv /\ [Step]_vars => SInv'
  BY StepStreams
<1> QED
  BY <1>1, StartStreams, PTL DEF DmaSpec

\* If the driver leaves the handshake to the engine, whatever it moves reaches its
\* place and no other, in both directions (scsi_dma.hpp:281-347).
THEOREM BytesAreAlwaysKept == ASSUME HandsOff PROVE DmaSpec => BytesAreKept
<1>1. SInv => SentInOrder
  <2> SUFFICES ASSUME SInv, dma.direction = "ToScsi", dma.active, scsi.phase = "DataOut"
               PROVE  LET sent == (dma.address - from) % AddrSpace
                      IN  /\ sent <= scsi.xferPos
                          /\ \A i \in 1..sent : scsi.xfer[scsi.xferPos - sent + i]
                                                  = mem[(from + i - 1) % AddrSpace]
    BY DEF SentInOrder
  <2> QED
    BY DEF SInv, Streams, Gap, At
<1>2. DmaSpec => []SentInOrder
  BY <1>1, AlwaysStreams, PTL
<1> QED
  BY <1>2, NothingIsLost, WritesStayInWindow, PTL DEF BytesAreKept
=============================================================================
