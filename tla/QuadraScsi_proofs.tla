--------------------------- MODULE QuadraScsi_proofs ---------------------------
(***************************************************************************)
(* Proofs about QuadraScsi, for any depth of the FIFO, any length of the   *)
(* data phases and of the commands, and as much free software as one will. *)
(*                                                                         *)
(*   ScsiTypeCorrect   Spec => []ScsiTypeOK                                *)
(*   NothingStrands    Spec => []NothingStranded                           *)
(*   ReadsAreWhole     Spec => []ReadsWhole                                *)
(*                                                                         *)
(* Formed and Quiet are about the chip and hold whatever software does.    *)
(* Fresh ties it to the bytes the driver has, and Managed says what the    *)
(* Manager may rely on at each of its steps.                               *)
(***************************************************************************)
EXTENDS QuadraScsi, SequenceTheorems, TLAPS

Phases == {"dataOut", "dataIn", "command", "status", "msgIn"}
Bits == {"done", "service", "disconnected", "illegal", "reset"}
Feeds == [on : BOOLEAN, select : BOOLEAN, atn : BOOLEAN, dma : BOOLEAN]
Length == 0..MaxData
ChipStates ==
  [ fifo : Seq(Bytes), tcount : Length, counter : Length, tcZero : BOOLEAN, dest : BOOLEAN, mute : BOOLEAN,
    phase : Phases, intr : SUBSET Bits, irq : BOOLEAN, dmaActive : BOOLEAN, feed : Feeds,
    cdb : Seq(Bytes), timer : BOOLEAN, queued : Order \cup {NoOrder}, target : BOOLEAN,
    size : Length, pos : Length, chunk : Length, buf : Length, expect : Length, told : BOOLEAN, owed : BOOLEAN ]
Drivers == {"free", "idle", "selecting", "dispatch", "moving", "ending", "status"}

-----------------------------------------------------------------------------
(* The inductive invariant                                                 *)

\* The FIFO holds bytes of the data phase in the order the target sent them.
Ascending(c) ==
  /\ \A i \in 1..Len(c.fifo) : c.fifo[i] > DataByte => c.fifo[i] <= DataByte + c.pos
  /\ \A i, j \in 1..Len(c.fifo) : i < j /\ c.fifo[i] > DataByte /\ c.fifo[j] > DataByte => c.fifo[i] < c.fifo[j]

Fits(c) == c \in ChipStates /\ Len(c.fifo) <= Fifo /\ c.pos <= c.size /\ Ascending(c)

\* A transfer needs a target, a command feed its phase, a selection timer neither.
Linked(c) ==
  /\ c.dmaActive \/ c.feed.on => c.target
  /\ c.feed.on => c.phase = "command" /\ c.fifo = << >>
  /\ c.feed.dma => c.feed.on
  /\ c.timer => ~c.target
  /\ c.queued # NoOrder => c.timer /\ c.queued.cmd \in Stacking

\* The target of a write still wants bytes.
Writing(c) == c.target /\ c.phase = "dataOut" => c.buf < c.expect

Formed(c) == Fits(c) /\ Linked(c) /\ Writing(c)

\* What can still bring the interrupt that a command owes.
Excused(c) ==
  \/ c.timer \/ c.feed.on
  \/ c.phase = "dataIn" /\ c.pos = c.size
  \/ c.dmaActive /\ c.phase = "dataIn" /\ c.pos < c.size /\ c.chunk # 0
  \/ c.dmaActive /\ c.phase = "dataOut" /\ (c.counter # 0 \/ c.tcZero)

Quiet(c) == c.owed => Excused(c)

\* No byte the driver has is one the FIFO still holds, or is yet to come.
Fresh(c, g) ==
  /\ g \in Seq(1..MaxData)
  /\ \A i \in 1..Len(g) : g[i] <= c.pos
  /\ \A i, j \in 1..Len(g) : i # j => g[i] # g[j]
  /\ \A i \in 1..Len(g), k \in 1..Len(c.fifo) : c.fifo[k] # DataByte + g[i]

\* No byte of the data phase is in the FIFO.
NoData(c) == \A i \in 1..Len(c.fifo) : c.fifo[i] <= DataByte

\* Between two commands of a data phase, or behind it.
Between(c, g) ==
  /\ c.target /\ ~c.feed.on /\ c.phase \in {"dataIn", "dataOut", "status"}
  /\ c.phase = "dataIn" => /\ Len(g) + Len(c.fifo) = c.pos
                           /\ \A i \in 1..Len(c.fifo) : c.fifo[i] = DataByte + Len(g) + i
                           /\ c.dmaActive => c.fifo = << >>
  /\ c.phase = "dataOut" => c.pos = 0 /\ c.size = 0 /\ g = << >>
  /\ c.phase = "status" => c.pos = c.size /\ Len(g) = c.size

\* What the Manager relies on at each of its steps.
Managed ==
  driver # "free" =>
    /\ chip.told <=> Drq(chip)
    /\ chip.queued = NoOrder
    /\ ~chip.irq => chip.intr = {}
    /\ \A i \in 1..Len(got) : got[i] = i
    /\ driver \in {"idle", "dispatch", "status"} => ~chip.irq
    /\ chip.timer => driver = "selecting" /\ ~chip.irq
    /\ driver = "selecting" /\ ~chip.irq => chip.timer \/ chip.feed.on
    /\ driver = "selecting" /\ chip.irq => "disconnected" \in chip.intr \/ Between(chip, got)
    /\ driver \in {"dispatch", "moving"} => Between(chip, got) /\ "disconnected" \notin chip.intr
    /\ driver \in {"ending", "status"} => chip.pos = chip.size /\ Len(got) = chip.size /\ NoData(chip)
    /\ driver = "ending" => chip.irq

Types == /\ Formed(chip) /\ driver \in Drivers /\ task \in Seq(CdbBytes)
         /\ got \in Seq(1..MaxData) /\ work \in 0..MaxWork

IInv == Types /\ Quiet(chip) /\ Fresh(chip, got) /\ Managed

-----------------------------------------------------------------------------
(* The line to the pseudo-VIA                                              *)

LEMMA Sizes == /\ Fifo \in Nat /\ MaxData \in Nat /\ CdbLength \in Nat /\ MaxWork \in Nat
               /\ Fifo >= 2 /\ MaxData >= 1 /\ CdbLength >= 2
  BY SizesAssumption

LEMMA ByteFacts == /\ CdbBytes \subseteq Bytes /\ \A b \in CdbBytes : b <= DataByte
                   /\ \A b \in Bytes : b \in Nat /\ (b > DataByte => b - DataByte \in 1..MaxData)
                   /\ \A i \in 1..MaxData : DataByte + i \in Bytes
  BY Sizes DEF Bytes, CdbBytes, Read, Write, DataByte

\* All that a call of raise or onDrq leaves alone.
Alike(c, d) ==
  /\ d.fifo = c.fifo /\ d.tcount = c.tcount /\ d.counter = c.counter /\ (d.tcZero <=> c.tcZero)
  /\ (d.dest <=> c.dest) /\ (d.mute <=> c.mute) /\ d.phase = c.phase /\ (d.dmaActive <=> c.dmaActive)
  /\ d.feed = c.feed /\ d.cdb = c.cdb /\ (d.timer <=> c.timer) /\ d.queued = c.queued /\ (d.target <=> c.target)
  /\ d.size = c.size /\ d.pos = c.pos /\ d.chunk = c.chunk /\ d.buf = c.buf /\ d.expect = c.expect

LEMMA DrqIsALevel ==
  ASSUME NEW c \in ChipStates
  PROVE  Drq(c) \in BOOLEAN
  BY DEF Drq, ChipStates, Feeds

LEMMA TellFacts ==
  ASSUME NEW c \in ChipStates
  PROVE  /\ Tell(c) \in ChipStates /\ Alike(c, Tell(c))
         /\ (Tell(c).told <=> Drq(c)) /\ (Tell(c).owed <=> c.owed)
         /\ (Tell(c).irq <=> c.irq) /\ Tell(c).intr = c.intr
<1> DEFINE d == Drq(c)
<1>1. d \in BOOLEAN
  BY DrqIsALevel
<1>2. Tell(c) = [c EXCEPT !.told = d]
  BY DEF Tell
<1> HIDE DEF d
<1>3. /\ Tell(c) \in ChipStates /\ Alike(c, Tell(c)) /\ (Tell(c).told <=> d) /\ (Tell(c).owed <=> c.owed)
      /\ (Tell(c).irq <=> c.irq) /\ Tell(c).intr = c.intr
  BY <1>1, <1>2 DEF ChipStates, Alike
<1> QED
  BY <1>3 DEF d

LEMMA RaiseFacts ==
  ASSUME NEW c \in ChipStates, NEW bits \in SUBSET Bits
  PROVE  /\ Raise(c, bits) \in ChipStates /\ Alike(c, Raise(c, bits))
         /\ (Raise(c, bits).told <=> Drq(c)) /\ ~Raise(c, bits).owed
         /\ Raise(c, bits).irq /\ Raise(c, bits).intr = c.intr \cup bits
<1> DEFINE all == c.intr \cup bits
           e == [c EXCEPT !.intr = c.intr \cup bits, !.irq = TRUE, !.owed = FALSE]
<1>1. all \in SUBSET Bits
  BY DEF ChipStates
<1>2. e = [c EXCEPT !.intr = all, !.irq = TRUE, !.owed = FALSE]
  OBVIOUS
<1>3. Raise(c, bits) = Tell(e)
  BY DEF Raise
<1> HIDE DEF all, e
<1>4. e \in ChipStates /\ Alike(c, e) /\ ~e.owed /\ e.irq /\ e.intr = all
  BY <1>1, <1>2 DEF ChipStates, Alike
<1>5. Drq(e) <=> Drq(c)
  BY <1>4 DEF Alike, Drq, Left, ChipStates, Feeds
<1>6. /\ Tell(e) \in ChipStates /\ Alike(e, Tell(e)) /\ (Tell(e).told <=> Drq(e))
      /\ ~Tell(e).owed /\ Tell(e).irq /\ Tell(e).intr = all
  BY <1>4, TellFacts
<1> QED
  BY <1>3, <1>4, <1>5, <1>6 DEF Alike, all

LEMMA AlikeKeeps ==
  ASSUME NEW c \in ChipStates, NEW d \in ChipStates, Alike(c, d)
  PROVE  /\ Fits(c) => Fits(d)
         /\ Linked(c) => Linked(d)
         /\ Writing(c) => Writing(d)
         /\ Drq(d) <=> Drq(c)
         /\ Excused(c) => Excused(d)
<1>1. Fits(c) => Fits(d)
  BY DEF Fits, Alike, Ascending
<1>2. (Linked(c) => Linked(d)) /\ (Writing(c) => Writing(d))
  BY DEF Linked, Writing, Alike
<1>3. (Drq(d) <=> Drq(c)) /\ (Excused(c) => Excused(d))
  BY DEF Drq, Excused, Left, Alike
<1> QED
  BY <1>1, <1>2, <1>3

-----------------------------------------------------------------------------
(* Moving data                                                             *)

\* No byte turns up in the FIFO but those of its own and those sent meanwhile.
Brings(c, d) ==
  d.pos # 0 => /\ d.pos >= c.pos
               /\ \A k \in 1..Len(d.fifo) : \/ d.fifo[k] <= DataByte \/ d.fifo[k] > DataByte + c.pos
                                            \/ \E j \in 1..Len(c.fifo) : d.fifo[k] = c.fifo[j]

Told(c) == c.told <=> Drq(c)

\* A step of a data phase, which may end it.
Moved(c, d) ==
  /\ (d.target <=> c.target) /\ d.feed = c.feed /\ (d.timer <=> c.timer) /\ d.queued = c.queued
  /\ d.size = c.size
  /\ (c.irq => d.irq) /\ d.intr \in {c.intr, c.intr \cup {"service"}} /\ (~d.irq => d.intr = c.intr)
  /\ \/ d.phase = c.phase
     \/ /\ c.phase \in {"dataIn", "dataOut"} /\ d.phase = "status"
        /\ c.phase = "dataIn" => d.pos = d.size /\ d.fifo = << >>

LEMMA MovedChains ==
  ASSUME NEW c, NEW d, NEW e, Moved(c, d), Moved(d, e), d.phase = c.phase
  PROVE  Moved(c, e)
  BY DEF Moved

LEMMA FinishOutcome ==
  ASSUME NEW c, Fits(c), Linked(c), c.target /\ c.phase = "dataOut" => c.expect > 0,
         Quiet(c) \/ (c.phase = "dataOut" /\ c.expect > 0 /\ c.buf >= c.expect), NEW d, d = FinishDataIfDone(c)
  PROVE  /\ Formed(d) /\ Quiet(d) /\ Told(d) /\ Moved(c, d) /\ d.fifo = c.fifo /\ d.pos = c.pos /\ d.chunk = c.chunk
         /\ (d.dmaActive => c.dmaActive) /\ (d.phase = c.phase => (d.dmaActive <=> c.dmaActive))
<1> DEFINE in == [c EXCEPT !.dmaActive = FALSE, !.phase = "status"]
           out == [c EXCEPT !.buf = 0, !.expect = 0, !.dmaActive = FALSE, !.phase = "status"]
<1>1. c \in ChipStates /\ {"service"} \in SUBSET Bits /\ 0 \in Length
  BY Sizes DEF Fits, Bits, Length
<1>2. CASE c.phase = "dataIn" /\ Left(c) = 0 /\ c.fifo = << >>
  <2>1. d = Raise(in, {"service"})
    BY <1>2 DEF FinishDataIfDone
  <2>2. in \in ChipStates
    BY <1>1 DEF ChipStates, Phases
  <2>a. /\ in.fifo = c.fifo /\ in.pos = c.pos /\ in.chunk = c.chunk /\ in.size = c.size /\ in.phase = "status" /\ ~in.dmaActive
        /\ (in.irq <=> c.irq) /\ in.intr = c.intr /\ in.feed = c.feed /\ (in.timer <=> c.timer)
        /\ in.queued = c.queued /\ (in.target <=> c.target)
    BY <1>1 DEF ChipStates
  <2>b. c.pos = c.size /\ ~c.feed.on
    BY <1>1, <1>2, Sizes DEF Left, ChipStates, Length, Linked
  <2> HIDE DEF in
  <2>3. Fits(in) /\ Linked(in) /\ Writing(in) /\ Moved(c, in)
    BY <1>1, <1>2, <2>2, <2>a, <2>b DEF Fits, Linked, Writing, Moved, Ascending
  <2>4. /\ d \in ChipStates /\ Alike(in, d) /\ (d.told <=> Drq(in)) /\ ~d.owed /\ d.irq
        /\ d.intr = c.intr \cup {"service"}
    BY <1>1, <2>1, <2>2, <2>a, RaiseFacts
  <2>5. Fits(d) /\ Linked(d) /\ Writing(d) /\ (Drq(d) <=> Drq(in))
    BY <2>2, <2>3, <2>4, AlikeKeeps
  <2> QED
    BY <1>2, <2>3, <2>4, <2>5, <2>a, <2>b DEF Alike, Formed, Quiet, Told, Moved
<1>3. CASE ~(c.phase = "dataIn" /\ Left(c) = 0 /\ c.fifo = << >>) /\ c.phase = "dataOut" /\ c.expect > 0 /\ c.buf >= c.expect
  <2>1. d = Raise(out, {"service"})
    BY <1>3 DEF FinishDataIfDone
  <2>2. out \in ChipStates
    BY <1>1 DEF ChipStates, Phases
  <2>3. Fits(out) /\ Linked(out) /\ Writing(out) /\ Moved(c, out) /\ out.fifo = c.fifo /\ out.pos = c.pos /\ out.chunk = c.chunk
        /\ out.phase = "status" /\ ~out.dmaActive /\ (out.irq <=> c.irq) /\ out.intr = c.intr
    BY <1>1, <1>3, <2>2 DEF Fits, Linked, Writing, Moved, Ascending, ChipStates
  <2> HIDE DEF out
  <2>4. /\ d \in ChipStates /\ Alike(out, d) /\ (d.told <=> Drq(out)) /\ ~d.owed /\ d.irq
        /\ d.intr = c.intr \cup {"service"}
    BY <1>1, <2>1, <2>2, <2>3, RaiseFacts
  <2>5. Fits(d) /\ Linked(d) /\ Writing(d) /\ (Drq(d) <=> Drq(out))
    BY <2>2, <2>3, <2>4, AlikeKeeps
  <2> QED
    BY <1>3, <2>3, <2>4, <2>5 DEF Alike, Formed, Quiet, Told, Moved
<1>4. CASE /\ ~(c.phase = "dataIn" /\ Left(c) = 0 /\ c.fifo = << >>)
           /\ ~(c.phase = "dataOut" /\ c.expect > 0 /\ c.buf >= c.expect)
  <2>1. d = Tell(c)
    BY <1>4 DEF FinishDataIfDone
  <2>2. Writing(c)
    BY <1>1, <1>4 DEF Writing, ChipStates, Length
  <2>3. d \in ChipStates /\ Alike(c, d) /\ (d.told <=> Drq(c)) /\ (d.owed <=> c.owed) /\ (d.irq <=> c.irq) /\ d.intr = c.intr
    BY <1>1, <2>1, TellFacts
  <2>4. Fits(d) /\ Linked(d) /\ Writing(d) /\ (Drq(d) <=> Drq(c)) /\ (Excused(c) => Excused(d))
    BY <1>1, <2>2, <2>3, AlikeKeeps
  <2> QED
    BY <1>4, <2>3, <2>4 DEF Alike, Formed, Quiet, Told, Moved
<1> QED
  BY <1>2, <1>3, <1>4

LEMMA TakeByteFacts ==
  ASSUME NEW c, Formed(c), InChunk(c), NEW d, d = TakeByte(c)
  PROVE  /\ Formed(d) /\ Moved(c, d) /\ d.fifo = c.fifo /\ d.pos = c.pos + 1 /\ d.chunk = c.chunk - 1
         /\ c.phase = "dataIn" /\ d.phase = "dataIn" /\ (d.owed <=> c.owed) /\ (d.dmaActive <=> c.dmaActive)
<1> DEFINE p == c.pos + 1
           k == c.chunk - 1
<1>1. c \in ChipStates /\ c.phase = "dataIn" /\ c.chunk > 0 /\ c.size > c.pos
  BY DEF Formed, Fits, InChunk, Left, ChipStates, Length
<1>2. p \in Length /\ k \in Length /\ p > c.pos /\ p <= c.size
  BY <1>1, Sizes DEF ChipStates, Length
<1>3. d = [c EXCEPT !.pos = p, !.chunk = k]
  BY DEF TakeByte
<1>4. p \in Nat /\ c.pos \in Nat /\ DataByte \in Nat /\ \A k1 \in 1..Len(c.fifo) : c.fifo[k1] \in Nat
  BY SMTT(60), <1>1, <1>2, Sizes, ByteFacts DEF ChipStates, Length, DataByte
<1> HIDE DEF p, k
<1>5. /\ d \in ChipStates /\ d.fifo = c.fifo /\ d.pos = p /\ d.chunk = k /\ d.phase = c.phase /\ d.size = c.size
      /\ (d.owed <=> c.owed) /\ (d.dmaActive <=> c.dmaActive) /\ (d.told <=> c.told) /\ d.feed = c.feed
      /\ (d.target <=> c.target) /\ (d.timer <=> c.timer) /\ d.queued = c.queued /\ (d.irq <=> c.irq) /\ d.intr = c.intr
      /\ d.buf = c.buf /\ d.expect = c.expect
  BY ZenonT(60), <1>1, <1>2, <1>3 DEF ChipStates
<1>6. Fits(d)
  BY <1>1, <1>2, <1>4, <1>5 DEF Formed, Fits, Ascending
<1>7. Linked(d) /\ Writing(d) /\ Moved(c, d)
  BY <1>5 DEF Formed, Linked, Writing, Moved
<1> QED
  BY <1>1, <1>5, <1>6, <1>7 DEF Formed, p, k

\* The driver takes bytes of the staged chunk, which keeps what is owed on its way.
LEMMA ChunkOutcome ==
  ASSUME NEW c, Formed(c), Quiet(c), InChunk(c), c.dmaActive, NEW d, d = ChunkEnd(TakeByte(c))
  PROVE  /\ Formed(d) /\ Quiet(d) /\ Moved(c, d) /\ d.fifo = c.fifo /\ d.pos = c.pos + 1
         /\ d.phase = "dataIn" /\ d.dmaActive
<1> DEFINE e == TakeByte(c)
<1>1. /\ Formed(e) /\ Moved(c, e) /\ e.fifo = c.fifo /\ e.pos = c.pos + 1 /\ e.chunk = c.chunk - 1
      /\ c.phase = "dataIn" /\ e.phase = "dataIn" /\ (e.owed <=> c.owed) /\ (e.dmaActive <=> c.dmaActive)
  BY TakeByteFacts
<1>2. d = IF e.chunk = 0 /\ Left(e) > 0 THEN Raise(e, {"service"}) ELSE e
  BY DEF ChunkEnd
<1> HIDE DEF e
<1>3. e \in ChipStates /\ {"service"} \in SUBSET Bits
  BY <1>1 DEF Formed, Fits, Bits
<1>4. CASE e.chunk = 0 /\ Left(e) > 0
  <2>1. d \in ChipStates /\ Alike(e, d) /\ ~d.owed /\ d.irq /\ d.intr = e.intr \cup {"service"}
    BY <1>2, <1>3, <1>4, RaiseFacts
  <2>2. Fits(d) /\ Linked(d) /\ Writing(d)
    BY <1>1, <1>3, <2>1, AlikeKeeps DEF Formed
  <2>3. Moved(e, d) /\ e.phase = c.phase
    BY <1>1, <2>1 DEF Moved, Alike
  <2>4. Moved(c, d)
    BY <1>1, <2>3, MovedChains
  <2> QED
    BY <1>1, <2>1, <2>2, <2>4 DEF Formed, Quiet, Alike
<1>5. CASE ~(e.chunk = 0 /\ Left(e) > 0)
  <2>1. Excused(e)
    BY SMTT(60), <1>1, <1>3, <1>5 DEF Excused, Formed, Fits, Left, ChipStates, Length
  <2> QED
    BY <1>1, <1>2, <1>5, <2>1 DEF Quiet
<1> QED
  BY <1>4, <1>5

LEMMA TakeOutcome ==
  ASSUME NEW c, Formed(c), Quiet(c), c.dmaActive \/ ~InChunk(c),
         NEW d, d \in {Take8(c), Take16(c)}
  PROVE  /\ Formed(d) /\ Quiet(d) /\ Told(d) /\ Moved(c, d) /\ d.fifo = c.fifo /\ d.pos >= c.pos
         /\ d.dmaActive \/ ~InChunk(d)
<1> DEFINE first == TakeByte(c)
           one == ChunkEnd(first)
           two == ChunkEnd(TakeByte(first))
<1>1. PICK e \in {c, one, two} : /\ d = FinishDataIfDone(e)
                                 /\ \/ e = c
                                    \/ e = one /\ InChunk(c)
                                    \/ e = two /\ InChunk(c) /\ InChunk(first)
  <2>1. CASE d = Take8(c)
    BY <2>1 DEF Take8
  <2>2. CASE d = Take16(c)
    <3>1. CASE ~InChunk(c)
      BY <2>2, <3>1 DEF Take16
    <3>2. CASE InChunk(c) /\ InChunk(first)
      BY <2>2, <3>2 DEF Take16
    <3>3. CASE InChunk(c) /\ ~InChunk(first)
      BY <2>2, <3>3 DEF Take16
    <3> QED
      BY <3>1, <3>2, <3>3
  <2> QED
    BY <2>1, <2>2
<1>2. /\ Formed(e) /\ Quiet(e) /\ Moved(c, e) /\ e.fifo = c.fifo /\ e.pos >= c.pos /\ e.phase = c.phase
      /\ e.dmaActive \/ ~InChunk(e)
  <2>0. c.pos \in Nat
    BY DEF Formed, Fits, ChipStates, Length
  <2>1. CASE e = c
    BY <2>0, <2>1 DEF Moved
  <2>2. CASE e = one /\ InChunk(c)
    <3>1. c.dmaActive
      BY <2>2
    <3>2. Formed(one) /\ Quiet(one) /\ Moved(c, one) /\ one.fifo = c.fifo /\ one.pos = c.pos + 1 /\ one.phase = "dataIn"
          /\ one.dmaActive /\ c.phase = "dataIn"
      BY <2>2, <3>1, ChunkOutcome DEF InChunk
    <3> HIDE DEF one
    <3> QED
      BY <2>0, <2>2, <3>2
  <2>3. CASE e = two /\ InChunk(c) /\ InChunk(first)
    <3>1. /\ Formed(first) /\ Moved(c, first) /\ first.fifo = c.fifo /\ first.pos = c.pos + 1 /\ first.chunk = c.chunk - 1
          /\ first.phase = "dataIn" /\ (first.owed <=> c.owed) /\ (first.dmaActive <=> c.dmaActive)
      BY <2>3, TakeByteFacts
    <3> HIDE DEF first
    <3>a. first.dmaActive /\ first.chunk > 0 /\ first.pos \in Int /\ first.size \in Int
      BY <2>3, <3>1 DEF InChunk, Formed, Fits, ChipStates, Length
    <3>b. first.pos < first.size /\ first.chunk # 0
      BY <2>3, <3>a DEF InChunk, Left
    <3>2. Excused(first) /\ first.dmaActive
      BY <3>1, <3>a, <3>b DEF Excused
    <3>3. Formed(two) /\ Quiet(two) /\ Moved(first, two) /\ two.fifo = first.fifo /\ two.pos = first.pos + 1 /\ two.phase = "dataIn"
          /\ two.dmaActive /\ c.phase = "dataIn"
      BY <2>3, <3>1, <3>2, ChunkOutcome DEF Quiet, InChunk
    <3>4. Moved(c, two)
      BY <3>1, <3>3, MovedChains
    <3> HIDE DEF two
    <3> QED
      BY <2>0, <2>3, <3>1, <3>3, <3>4
  <2> QED
    BY <1>1, <2>1, <2>2, <2>3
<1>3. Fits(e) /\ Linked(e) /\ (e.target /\ e.phase = "dataOut" => e.expect > 0)
  BY SMTT(60), <1>2 DEF Formed, Fits, Writing, ChipStates, Length
<1>4. /\ Formed(d) /\ Quiet(d) /\ Told(d) /\ Moved(e, d) /\ d.fifo = e.fifo /\ d.pos = e.pos /\ d.chunk = e.chunk
      /\ (d.phase = e.phase => (d.dmaActive <=> e.dmaActive))
  BY <1>1, <1>2, <1>3, FinishOutcome
<1>5. Moved(c, d)
  BY <1>2, <1>4, MovedChains
<1>6. d.dmaActive \/ ~InChunk(d)
  BY <1>2, <1>4 DEF InChunk, Left, Moved
<1> QED
  BY <1>2, <1>4, <1>5, <1>6

LEMMA PopOutcome ==
  ASSUME NEW c, Formed(c), Quiet(c), NEW d, d = Pop(c)
  PROVE  /\ Formed(d) /\ Quiet(d)
         /\ \/ /\ c.fifo # << >> /\ PopByte(c) = Head(c.fifo) /\ d.fifo = Tail(c.fifo) /\ d.pos = c.pos /\ ~c.feed.on
               /\ d = [c EXCEPT !.fifo = d.fifo] /\ (Told(c) => Told(d))
            \/ /\ c.fifo = << >> /\ PopByte(c) = DataByte + c.pos + 1 /\ c.phase = "dataIn" /\ c.pos < c.size
               /\ d.fifo = << >> /\ d.pos = c.pos + 1 /\ Moved(c, d) /\ Told(d)
            \/ c.fifo = << >> /\ PopByte(c) = 0 /\ d = c
<1>1. c \in ChipStates /\ c.fifo \in Seq(Bytes) /\ c.pos \in Nat /\ c.size \in Nat
  BY DEF Formed, Fits, ChipStates, Length
<1>2. CASE c.fifo # << >>
  <2> DEFINE f == Tail(c.fifo)
  <2>1. d = [c EXCEPT !.fifo = f] /\ PopByte(c) = Head(c.fifo)
    BY <1>2 DEF Pop, PopByte
  <2>2. f \in Seq(Bytes) /\ Len(f) = Len(c.fifo) - 1 /\ (\A i \in 1..Len(f) : f[i] = c.fifo[i + 1]) /\ Len(c.fifo) \in Nat
    BY <1>1, <1>2
  <2> HIDE DEF f
  <2>3. /\ d \in ChipStates /\ d.fifo = f /\ d.pos = c.pos /\ d.size = c.size /\ d.phase = c.phase /\ d.feed = c.feed
        /\ (d.target <=> c.target) /\ (d.dmaActive <=> c.dmaActive) /\ (d.timer <=> c.timer) /\ d.queued = c.queued
        /\ d.buf = c.buf /\ d.expect = c.expect /\ (d.owed <=> c.owed) /\ d.chunk = c.chunk /\ d.counter = c.counter
        /\ (d.tcZero <=> c.tcZero) /\ (d.told <=> c.told)
    BY SMTT(60), <1>1, <2>1, <2>2 DEF ChipStates
  <2>4. Fits(d)
    <3>1. \A i \in 1..Len(f) : i + 1 \in 1..Len(c.fifo)
      BY <2>2
    <3>2. \A i \in 1..Len(f) : f[i] > DataByte => f[i] <= DataByte + d.pos
      BY <2>2, <2>3, <3>1 DEF Formed, Fits, Ascending
    <3>3. \A i, j \in 1..Len(f) : i < j /\ f[i] > DataByte /\ f[j] > DataByte => f[i] < f[j]
      <4> TAKE i, j \in 1..Len(f)
      <4>1. i + 1 \in 1..Len(c.fifo) /\ j + 1 \in 1..Len(c.fifo) /\ f[i] = c.fifo[i + 1] /\ f[j] = c.fifo[j + 1]
        BY <2>2, <3>1
      <4> QED
        BY <4>1 DEF Formed, Fits, Ascending
    <3>4. Ascending(d)
      BY <2>3, <3>2, <3>3 DEF Ascending
    <3>5. Len(d.fifo) <= Fifo
      BY <2>2, <2>3, Sizes DEF Formed, Fits
    <3> QED
      BY <2>3, <3>4, <3>5 DEF Formed, Fits
  <2>5. Linked(d) /\ Writing(d) /\ ~c.feed.on
    BY <1>2, <2>3 DEF Formed, Linked, Writing
  <2>6. Quiet(d)
    BY <2>3 DEF Quiet, Excused
  <2>7. Told(c) => Told(d)
    BY <2>3, <2>5 DEF Told, Drq, Formed, Linked, Left
  <2> QED
    BY <1>2, <2>1, <2>3, <2>4, <2>5, <2>6, <2>7 DEF Formed, f
<1>3. CASE c.fifo = << >> /\ c.dmaActive /\ InChunk(c)
  <2> DEFINE e == ChunkEnd(TakeByte(c))
  <2>1. d = FinishDataIfDone(e) /\ PopByte(c) = DataByte + c.pos + 1
    BY <1>3 DEF Pop, PopByte
  <2>2. Formed(e) /\ Quiet(e) /\ Moved(c, e) /\ e.fifo = c.fifo /\ e.pos = c.pos + 1 /\ e.phase = "dataIn"
    BY <1>3, ChunkOutcome
  <2>3. c.phase = "dataIn" /\ c.pos < c.size
    BY <1>1, <1>3 DEF InChunk, Left
  <2> HIDE DEF e
  <2>4. Formed(d) /\ Quiet(d) /\ Told(d) /\ Moved(e, d) /\ d.fifo = e.fifo /\ d.pos = e.pos
    BY <2>1, <2>2, FinishOutcome DEF Formed
  <2>5. Moved(c, d)
    BY <2>2, <2>3, <2>4, MovedChains
  <2> QED
    BY <1>3, <2>1, <2>2, <2>3, <2>4, <2>5
<1>4. CASE c.fifo = << >> /\ ~(c.dmaActive /\ InChunk(c))
  BY <1>4 DEF Pop, PopByte
<1> QED
  BY <1>2, <1>3, <1>4

-----------------------------------------------------------------------------
(* The command feed                                                        *)

\* The target has its command, and asks for what follows.
Answered(c, d) ==
  /\ Formed(d) /\ Quiet(d) /\ Told(d) /\ d.irq /\ (\E bits \in SUBSET {"done", "service"} : d.intr = c.intr \cup bits)
  /\ d.fifo = << >> /\ d.pos = 0 /\ ~d.feed.on /\ d.target /\ d.queued = c.queued
  /\ d.phase \in {"status", "dataIn", "dataOut"} /\ (d.phase # "dataIn" => d.size = 0)

\* The command is still to be fed.
Feeding(c, d) ==
  /\ Formed(d) /\ Quiet(d) /\ d.feed.on /\ d.fifo = << >> /\ (d.irq <=> c.irq) /\ d.intr = c.intr
  /\ d.pos = c.pos /\ d.queued = c.queued

LEMMA NoFeedFacts == NoFeed \in Feeds /\ ~NoFeed.on /\ ~NoFeed.dma
  BY DEF NoFeed, Feeds

LEMMA RunCdbOutcome ==
  ASSUME NEW c, Fits(c), c.target, c.fifo = << >>, c.feed = NoFeed, ~c.timer, c.queued = NoOrder, NEW op, NEW d \in RunCdb(c, op)
  PROVE  /\ Formed(d) /\ d.intr = c.intr /\ d.fifo = << >> /\ d.pos = 0 /\ d.feed = NoFeed /\ d.target /\ d.queued = c.queued
         /\ d.phase \in {"status", "dataIn", "dataOut"} /\ (d.phase # "dataIn" => d.size = 0)
<1> DEFINE fresh == [c EXCEPT !.pos = 0, !.size = 0, !.buf = 0, !.expect = 0]
<1>1. c \in ChipStates /\ 0 \in Length /\ MaxData \in Nat /\ 1..MaxData \subseteq Length
  BY Sizes DEF Fits, Length
<1>2. fresh \in ChipStates /\ fresh.pos = 0 /\ fresh.size = 0 /\ fresh.buf = 0 /\ fresh.expect = 0 /\ fresh.fifo = << >>
      /\ fresh.feed = NoFeed /\ fresh.target /\ fresh.intr = c.intr /\ ~fresh.timer /\ fresh.queued = NoOrder
  BY <1>1 DEF ChipStates
<1>3. \/ d = [fresh EXCEPT !.phase = "status"]
      \/ \E n \in 1..MaxData : d = [fresh EXCEPT !.phase = "dataIn", !.size = n]
      \/ \E n \in 1..MaxData : d = [fresh EXCEPT !.phase = "dataOut", !.expect = n]
  BY DEF RunCdb
<1> HIDE DEF fresh
<1> DEFINE fine == /\ d \in ChipStates /\ d.intr = c.intr /\ d.fifo = << >> /\ d.pos = 0 /\ d.size \in Nat
                   /\ d.feed = NoFeed /\ d.target /\ d.queued = c.queued /\ d.queued = NoOrder /\ ~d.timer
                   /\ d.phase \in {"status", "dataIn", "dataOut"}
                   /\ (d.phase # "dataIn" => d.size = 0) /\ d.buf = 0 /\ (d.phase = "dataOut" => d.expect > 0)
<1>4. fine
  <2>1. CASE d = [fresh EXCEPT !.phase = "status"]
    BY <1>1, <1>2, <2>1 DEF ChipStates, Phases
  <2>2. ASSUME NEW n \in 1..MaxData, d = [fresh EXCEPT !.phase = "dataIn", !.size = n]
        PROVE  fine
    <3>1. n \in Length /\ n \in Nat
      BY <1>1 DEF Length
    <3>2. d \in ChipStates
      BY <1>2, <2>2, <3>1 DEF ChipStates, Phases
    <3> QED
      BY <1>2, <2>2, <3>1, <3>2 DEF ChipStates
  <2>3. ASSUME NEW n \in 1..MaxData, d = [fresh EXCEPT !.phase = "dataOut", !.expect = n]
        PROVE  fine
    <3>1. n \in Length /\ n \in Nat /\ n > 0
      BY <1>1 DEF Length
    <3>2. d \in ChipStates
      BY <1>2, <2>3, <3>1 DEF ChipStates, Phases
    <3> QED
      BY <1>2, <2>3, <3>1, <3>2 DEF ChipStates
  <2> QED
    BY <1>3, <2>1, <2>2, <2>3
<1>5. Len(d.fifo) = 0
  BY <1>4
<1>6. Fits(d) /\ Linked(d) /\ Writing(d)
  BY <1>4, <1>5, Sizes, NoFeedFacts DEF Fits, Linked, Writing, Ascending
<1> QED
  BY <1>4, <1>6 DEF Formed

LEMMA TryFeedOutcome ==
  ASSUME NEW c, Formed(c), NEW d \in TryFeed(c)
  PROVE  d = c \/ (c.feed.on /\ Answered(c, d))
<1> DEFINE skip == IF c.feed.atn THEN 1 ELSE 0
           op == c.cdb[skip + 1]
           bare == [c EXCEPT !.feed = NoFeed]
           bits == IF c.feed.select THEN {"done", "service"} ELSE {"service"}
<1>1. d = c \/ (c.feed.on /\ \E r \in RunCdb(bare, op) : d = [Raise(r, bits) EXCEPT !.cdb = << >>])
  <2>1. CASE ~c.feed.on \/ Len(c.cdb) <= skip
    BY <2>1 DEF TryFeed
  <2>2. CASE ~(~c.feed.on \/ Len(c.cdb) <= skip) /\ Len(c.cdb) < skip + CdbLenFor(op)
    BY <2>2 DEF TryFeed
  <2>3. CASE ~(~c.feed.on \/ Len(c.cdb) <= skip) /\ ~(Len(c.cdb) < skip + CdbLenFor(op))
    BY <2>3 DEF TryFeed
  <2> QED
    BY <2>1, <2>2, <2>3
<1> SUFFICES ASSUME c.feed.on, NEW r \in RunCdb(bare, op), d = [Raise(r, bits) EXCEPT !.cdb = << >>]
             PROVE  Answered(c, d)
  BY <1>1
<1>2. c \in ChipStates /\ c.target /\ c.fifo = << >> /\ ~c.timer /\ c.queued = NoOrder
  BY DEF Formed, Fits, Linked
<1>3. bits \in SUBSET {"done", "service"} /\ bits \in SUBSET Bits
  BY DEF Bits
<1> HIDE DEF bits, op
<1>4. /\ bare \in ChipStates /\ bare.target /\ bare.fifo = << >> /\ ~bare.timer /\ bare.queued = NoOrder
      /\ bare.feed = NoFeed /\ bare.intr = c.intr /\ bare.pos = c.pos /\ bare.size = c.size
  BY <1>2, NoFeedFacts DEF ChipStates
<1> HIDE DEF bare
<1>5. Fits(bare)
  BY <1>2, <1>4 DEF Formed, Fits, Ascending
<1>6. /\ Formed(r) /\ r.intr = c.intr /\ r.fifo = << >> /\ r.pos = 0 /\ r.feed = NoFeed /\ r.target /\ r.queued = NoOrder
      /\ r.phase \in {"status", "dataIn", "dataOut"} /\ (r.phase # "dataIn" => r.size = 0)
  BY <1>4, <1>5, RunCdbOutcome
<1> DEFINE e == Raise(r, bits)
<1>7. r \in ChipStates /\ Fits(r) /\ Linked(r) /\ Writing(r)
  BY <1>6 DEF Formed, Fits
<1>8. e \in ChipStates /\ Alike(r, e) /\ (e.told <=> Drq(r)) /\ ~e.owed /\ e.irq /\ e.intr = r.intr \cup bits
  BY <1>3, <1>7, RaiseFacts
<1>9. Fits(e) /\ Linked(e) /\ Writing(e) /\ (Drq(e) <=> Drq(r))
  BY <1>7, <1>8, AlikeKeeps
<1>10. d = [e EXCEPT !.cdb = << >>]
  OBVIOUS
<1> HIDE DEF e
<1>11. << >> \in Seq(Bytes)
  OBVIOUS
<1>12. d \in ChipStates /\ d.fifo = e.fifo /\ d.pos = e.pos /\ d.size = e.size /\ d.feed = e.feed /\ (d.target <=> e.target)
       /\ (d.dmaActive <=> e.dmaActive) /\ d.phase = e.phase /\ (d.timer <=> e.timer) /\ d.queued = e.queued
       /\ d.buf = e.buf /\ d.expect = e.expect /\ (d.told <=> e.told) /\ (d.owed <=> e.owed) /\ (d.irq <=> e.irq)
       /\ d.intr = e.intr /\ d.counter = e.counter /\ d.chunk = e.chunk
  BY ZenonT(60), <1>8, <1>10, <1>11 DEF ChipStates
<1>13. Fits(d) /\ Linked(d) /\ Writing(d)
  BY <1>9, <1>12 DEF Fits, Linked, Writing, Ascending
<1>14. Told(d)
  BY <1>8, <1>9, <1>12 DEF Told, Drq, Left
<1> QED
  BY ZenonT(60), <1>2, <1>3, <1>6, <1>8, <1>12, <1>13, <1>14, NoFeedFacts DEF Answered, Formed, Quiet, Alike

LEMMA FeedOutcome ==
  ASSUME NEW c, Fits(c), c.target, c.phase = "command", ~c.dmaActive, ~c.timer, c.queued = NoOrder,
         NEW select \in BOOLEAN, NEW atn \in BOOLEAN, NEW dma \in BOOLEAN, NEW d \in Feed(c, select, atn, dma)
  PROVE  Feeding(c, d) \/ Answered(c, d)
<1> DEFINE feed == [on |-> TRUE, select |-> select, atn |-> atn, dma |-> dma]
           e == [c EXCEPT !.feed = feed, !.cdb = c.fifo, !.fifo = << >>]
<1>1. d \in TryFeed(e)
  BY DEF Feed
<1>2. feed \in Feeds /\ feed.on
  BY DEF Feeds
<1> HIDE DEF feed
<1>3. /\ e \in ChipStates /\ e.fifo = << >> /\ e.feed = feed /\ e.target /\ e.phase = "command" /\ ~e.dmaActive /\ ~e.timer
      /\ e.queued = NoOrder /\ e.pos = c.pos /\ e.size = c.size /\ (e.irq <=> c.irq) /\ e.intr = c.intr
  <2> DEFINE held == c.fifo
             none == << >>
  <2>1. held \in Seq(Bytes) /\ none \in Seq(Bytes) /\ c \in ChipStates
    BY DEF Fits, ChipStates
  <2>2. e = [c EXCEPT !.feed = feed, !.cdb = held, !.fifo = none]
    OBVIOUS
  <2> HIDE DEF held, none, e
  <2>3. e \in ChipStates
    BY <1>2, <2>1, <2>2 DEF ChipStates
  <2>4. /\ e.fifo = none /\ e.feed = feed /\ (e.target <=> c.target) /\ e.phase = c.phase /\ (e.dmaActive <=> c.dmaActive)
        /\ (e.timer <=> c.timer) /\ e.queued = c.queued /\ e.pos = c.pos /\ e.size = c.size /\ (e.irq <=> c.irq) /\ e.intr = c.intr
    BY <2>1, <2>2 DEF ChipStates
  <2> QED
    BY <2>3, <2>4 DEF none
<1> HIDE DEF e
<1>4. Formed(e) /\ Quiet(e)
  <2>1. Len(e.fifo) = 0
    BY <1>3
  <2> QED
    BY <1>2, <1>3, <2>1, Sizes DEF Formed, Fits, Linked, Writing, Ascending, Quiet, Excused
<1>5. d = e \/ Answered(e, d)
  BY <1>1, <1>4, TryFeedOutcome
<1> QED
  BY <1>2, <1>3, <1>4, <1>5 DEF Feeding, Answered

\* Telling the level changes nothing of this.
LEMMA TellKeeps ==
  ASSUME NEW c, Formed(c), Quiet(c), NEW d, d = Tell(c)
  PROVE  /\ Formed(d) /\ Quiet(d) /\ Told(d) /\ Alike(c, d) /\ (d.irq <=> c.irq) /\ d.intr = c.intr
<1>1. c \in ChipStates
  BY DEF Formed, Fits
<1>2. d \in ChipStates /\ Alike(c, d) /\ (d.told <=> Drq(c)) /\ (d.owed <=> c.owed) /\ (d.irq <=> c.irq) /\ d.intr = c.intr
  BY <1>1, TellFacts
<1> QED
  BY <1>1, <1>2, AlikeKeeps DEF Formed, Quiet, Told

LEMMA FedAndTold ==
  ASSUME NEW c, NEW r, Feeding(c, r) \/ Answered(c, r), NEW d, d = Tell(r)
  PROVE  (Feeding(c, d) \/ Answered(c, d)) /\ Formed(d) /\ Quiet(d) /\ Told(d)
<1>1. Formed(d) /\ Quiet(d) /\ Told(d) /\ Alike(r, d) /\ (d.irq <=> r.irq) /\ d.intr = r.intr
  BY TellKeeps DEF Feeding, Answered
<1> QED
  BY <1>1 DEF Feeding, Answered, Alike

\* What loading the counter leaves alone.
Loaded(c, d) ==
  /\ d.fifo = c.fifo /\ d.tcount = c.tcount /\ d.phase = c.phase /\ (d.dmaActive <=> c.dmaActive) /\ d.feed = c.feed
  /\ (d.timer <=> c.timer) /\ d.queued = c.queued /\ (d.target <=> c.target) /\ d.size = c.size /\ d.pos = c.pos
  /\ d.chunk = c.chunk /\ d.buf = c.buf /\ d.expect = c.expect /\ (d.told <=> c.told) /\ (d.owed <=> c.owed)
  /\ (d.irq <=> c.irq) /\ d.intr = c.intr /\ (d.dest <=> c.dest) /\ (d.mute <=> c.mute) /\ d.cdb = c.cdb

LEMMA LoadFacts ==
  ASSUME NEW c \in ChipStates, NEW dma \in BOOLEAN, NEW d, d = LoadIf(c, dma)
  PROVE  d \in ChipStates /\ Loaded(c, d) /\ (dma => d.counter = c.tcount) /\ (~dma => d = c)
<1> DEFINE t == c.tcount
<1>1. t \in Length
  BY DEF ChipStates
<1>2. d = IF dma THEN [c EXCEPT !.counter = t, !.tcZero = FALSE] ELSE c
  BY DEF LoadIf, Load
<1> HIDE DEF t
<1>3. CASE dma
  <2>1. d = [c EXCEPT !.counter = t, !.tcZero = FALSE]
    BY <1>2, <1>3
  <2>2. d \in ChipStates /\ d.counter = t
    BY <1>1, <2>1 DEF ChipStates
  <2>3. Loaded(c, d)
    BY <2>1 DEF ChipStates, Loaded
  <2> QED
    BY <1>3, <2>2, <2>3 DEF t
<1>4. CASE ~dma
  BY <1>2, <1>4 DEF Loaded
<1> QED
  BY <1>3, <1>4

\* Select: the timer runs for an absent target, a present one takes the command.
LEMMA SelectOutcome ==
  ASSUME NEW c, Fits(c), Linked(c), c.queued = NoOrder, NEW atn \in BOOLEAN, NEW dma \in BOOLEAN,
         NEW d \in BeginSelect(c, atn, dma)
  PROVE  /\ Formed(d) /\ Quiet(d) /\ Told(d) /\ d.queued = NoOrder
         /\ \/ /\ d.timer /\ ~d.feed.on /\ (d.irq <=> c.irq) /\ d.intr = c.intr /\ d.fifo = c.fifo /\ d.pos = c.pos
            \/ Feeding(c, d)
            \/ Answered(c, d)
<1> DEFINE plain == [c EXCEPT !.feed = NoFeed, !.cdb = << >>, !.dmaActive = FALSE, !.told = FALSE]
           quiet == LoadIf(plain, dma)
           gone == [quiet EXCEPT !.target = FALSE, !.timer = TRUE]
           there == [quiet EXCEPT !.target = TRUE, !.timer = FALSE, !.phase = "command"]
<1>1. c \in ChipStates /\ << >> \in Seq(Bytes)
  BY DEF Fits
<1>2. IF ~c.dest THEN d = gone ELSE \E r \in Feed(there, TRUE, atn, dma) : d = Tell(r)
  BY DEF BeginSelect
<1>3. plain \in ChipStates
  BY <1>1, NoFeedFacts DEF ChipStates
<1>4. /\ plain.fifo = c.fifo /\ plain.feed = NoFeed /\ ~plain.dmaActive /\ ~plain.told /\ (plain.irq <=> c.irq) /\ plain.intr = c.intr
      /\ plain.pos = c.pos /\ plain.size = c.size /\ plain.queued = NoOrder /\ plain.tcount \in Length
  BY <1>1 DEF ChipStates
<1> HIDE DEF plain
<1>5. /\ quiet \in ChipStates /\ quiet.fifo = c.fifo /\ quiet.feed = NoFeed /\ ~quiet.dmaActive /\ ~quiet.told
      /\ (quiet.irq <=> c.irq) /\ quiet.intr = c.intr /\ quiet.pos = c.pos /\ quiet.size = c.size /\ quiet.queued = NoOrder
  BY <1>3, <1>4, LoadFacts DEF Loaded
<1> HIDE DEF quiet
<1>6. CASE ~c.dest
  <2>1. d = gone
    BY <1>2, <1>6
  <2>2. d \in ChipStates
    BY <1>5, <2>1 DEF ChipStates
  <2>3. /\ d.fifo = c.fifo /\ d.feed = NoFeed /\ ~d.dmaActive /\ ~d.told /\ (d.irq <=> c.irq) /\ d.intr = c.intr
        /\ d.pos = c.pos /\ d.size = c.size /\ d.queued = NoOrder /\ d.timer /\ ~d.target
    BY <1>5, <2>1 DEF ChipStates
  <2>4. Formed(d) /\ Quiet(d) /\ Told(d)
    BY <1>1, <2>2, <2>3, NoFeedFacts DEF Formed, Fits, Linked, Writing, Ascending, Quiet, Excused, Told, Drq
  <2> QED
    BY <2>3, <2>4, NoFeedFacts
<1>7. CASE c.dest
  <2>1. PICK r \in Feed(there, TRUE, atn, dma) : d = Tell(r)
    BY <1>2, <1>7
  <2>2. there \in ChipStates
    BY <1>5 DEF ChipStates, Phases
  <2>3. /\ there.fifo = c.fifo /\ ~there.dmaActive /\ (there.irq <=> c.irq) /\ there.intr = c.intr /\ there.phase = "command"
        /\ there.pos = c.pos /\ there.size = c.size /\ there.queued = NoOrder /\ ~there.timer /\ there.target
    BY <1>5 DEF ChipStates
  <2> HIDE DEF there
  <2>4. Fits(there)
    BY <1>1, <2>2, <2>3 DEF Fits, Ascending
  <2>5. Feeding(there, r) \/ Answered(there, r)
    BY <2>1, <2>3, <2>4, FeedOutcome
  <2>6. (Feeding(there, d) \/ Answered(there, d)) /\ Formed(d) /\ Quiet(d) /\ Told(d)
    BY <2>1, <2>5, FedAndTold
  <2> QED
    BY <2>3, <2>6 DEF Feeding, Answered
<1> QED
  BY <1>6, <1>7 DEF Fits, ChipStates

-----------------------------------------------------------------------------
(* The FIFO                                                                *)

LEMMA PushFacts ==
  ASSUME NEW c \in ChipStates, Len(c.fifo) <= Fifo, NEW b \in Bytes, NEW d, d = Push(c, b)
  PROVE  /\ d \in ChipStates /\ Len(d.fifo) <= Fifo /\ d = [c EXCEPT !.fifo = d.fifo]
         /\ d.fifo = IF Len(c.fifo) < Fifo THEN Append(c.fifo, b) ELSE c.fifo
<1> DEFINE f == Append(c.fifo, b)
<1>1. f \in Seq(Bytes) /\ Len(f) = Len(c.fifo) + 1 /\ Len(c.fifo) \in Nat
  BY DEF ChipStates
<1>2. d = IF Len(c.fifo) < Fifo THEN [c EXCEPT !.fifo = f] ELSE c
  BY DEF Push
<1> HIDE DEF f
<1>3. d \in ChipStates /\ d = [c EXCEPT !.fifo = d.fifo] /\ d.fifo = IF Len(c.fifo) < Fifo THEN f ELSE c.fifo
  BY <1>1, <1>2 DEF ChipStates
<1> QED
  BY <1>1, <1>3, Sizes DEF f

\* A byte put in last keeps the order, unless it is of the data phase and old.
LEMMA AscendingAppends ==
  ASSUME NEW c, Fits(c), NEW b \in Bytes, NEW p \in Nat, p >= c.pos,
         b <= DataByte \/ (b > DataByte + c.pos /\ b <= DataByte + p),
         NEW d, d.pos = p, d.fifo = Append(c.fifo, b) \/ d.fifo = c.fifo
  PROVE  Ascending(d) /\ Brings(c, d)
<1>1. c.fifo \in Seq(Bytes) /\ c.pos \in Nat /\ Len(c.fifo) \in Nat /\ DataByte \in Nat
      /\ \A i \in 1..Len(c.fifo) : c.fifo[i] \in Nat
  BY ByteFacts DEF Fits, ChipStates, Length, DataByte
<1>2. b \in Nat
  BY ByteFacts
<1>3. CASE d.fifo = c.fifo
  BY <1>1, <1>3 DEF Fits, Ascending, Brings
<1>4. CASE d.fifo = Append(c.fifo, b)
  <2>1. /\ Len(d.fifo) = Len(c.fifo) + 1 /\ d.fifo[Len(c.fifo) + 1] = b
        /\ \A i \in 1..Len(c.fifo) : d.fifo[i] = c.fifo[i]
    BY <1>1, <1>4
  <2>2. \A i \in 1..Len(d.fifo) : i \in 1..Len(c.fifo) \/ i = Len(c.fifo) + 1
    BY <1>1, <2>1
  <2>3. ASSUME NEW i \in 1..Len(d.fifo), d.fifo[i] > DataByte
        PROVE  d.fifo[i] <= DataByte + d.pos
    <3>1. CASE i \in 1..Len(c.fifo)
      BY SMTT(60), <1>1, <2>1, <2>3, <3>1 DEF Fits, Ascending
    <3>2. CASE i = Len(c.fifo) + 1
      BY <1>1, <1>2, <2>1, <2>3, <3>2
    <3> QED
      BY <2>2, <3>1, <3>2
  <2>4. ASSUME NEW i \in 1..Len(d.fifo), NEW j \in 1..Len(d.fifo), i < j, d.fifo[i] > DataByte, d.fifo[j] > DataByte
        PROVE  d.fifo[i] < d.fifo[j]
    <3>1. i \in 1..Len(c.fifo)
      BY <1>1, <2>1, <2>4
    <3>2. d.fifo[i] = c.fifo[i] /\ c.fifo[i] <= DataByte + c.pos
      BY <2>1, <2>4, <3>1 DEF Fits, Ascending
    <3>3. CASE j \in 1..Len(c.fifo)
      BY <2>1, <2>4, <3>1, <3>3 DEF Fits, Ascending
    <3>4. CASE j = Len(c.fifo) + 1
      BY SMTT(60), <1>1, <1>2, <2>1, <2>4, <3>1, <3>2, <3>4
    <3> QED
      BY <2>2, <3>3, <3>4
  <2>5. Brings(c, d)
    BY <1>1, <1>2, <2>1, <2>2 DEF Brings
  <2> QED
    BY <2>3, <2>4, <2>5 DEF Ascending
<1> QED
  BY <1>3, <1>4

LEMMA PushOutcome ==
  ASSUME NEW c, Formed(c), ~c.feed.on, NEW b \in CdbBytes, NEW d, d = Push(c, b)
  PROVE  /\ Formed(d) /\ (Quiet(c) => Quiet(d)) /\ Brings(c, d) /\ Moved(c, d) /\ d.pos = c.pos /\ d.phase = c.phase
         /\ (d.dmaActive <=> c.dmaActive) /\ (d.told <=> c.told) /\ (d.irq <=> c.irq) /\ d.intr = c.intr
         /\ d.fifo = (IF Len(c.fifo) < Fifo THEN Append(c.fifo, b) ELSE c.fifo)
<1>1. c \in ChipStates /\ b \in Bytes /\ b <= DataByte /\ c.pos \in Nat
  BY ByteFacts DEF Formed, Fits, ChipStates, Length
<1>2. /\ d \in ChipStates /\ Len(d.fifo) <= Fifo /\ d = [c EXCEPT !.fifo = d.fifo]
      /\ d.fifo = (IF Len(c.fifo) < Fifo THEN Append(c.fifo, b) ELSE c.fifo)
  BY <1>1, PushFacts DEF Formed, Fits
<1>3. /\ d.pos = c.pos /\ d.size = c.size /\ d.phase = c.phase /\ d.feed = c.feed
      /\ (d.target <=> c.target) /\ (d.dmaActive <=> c.dmaActive) /\ (d.timer <=> c.timer) /\ d.queued = c.queued
      /\ d.buf = c.buf /\ d.expect = c.expect /\ (d.owed <=> c.owed) /\ d.chunk = c.chunk /\ d.counter = c.counter
      /\ (d.tcZero <=> c.tcZero) /\ (d.told <=> c.told) /\ (d.irq <=> c.irq) /\ d.intr = c.intr
  BY <1>1, <1>2 DEF ChipStates
<1>4. Ascending(d) /\ Brings(c, d)
  <2>1. Fits(c) /\ c.pos >= c.pos /\ (d.fifo = Append(c.fifo, b) \/ d.fifo = c.fifo)
    BY <1>1, <1>2 DEF Formed
  <2> QED
    BY <1>1, <1>3, <2>1, AscendingAppends
<1>5. Fits(d) /\ Linked(d) /\ Writing(d)
  BY <1>2, <1>3, <1>4 DEF Formed, Fits, Linked, Writing
<1>6. (Quiet(c) => Quiet(d)) /\ Moved(c, d)
  BY <1>3 DEF Quiet, Excused, Moved
<1> QED
  BY <1>2, <1>3, <1>4, <1>5, <1>6 DEF Formed

-----------------------------------------------------------------------------
(* Transfer information                                                    *)

\* A byte of the data phase goes into the FIFO, or nothing comes of it yet.
Pulled(c, d) ==
  \/ d.fifo = c.fifo /\ d.pos = c.pos
  \/ /\ ~c.dmaActive /\ c.pos < c.size /\ d.pos = c.pos + 1 /\ d.irq
     /\ d.fifo = IF Len(c.fifo) < Fifo THEN Append(c.fifo, DataByte + c.pos + 1) ELSE c.fifo

\* What a raised interrupt does in a data phase.
LEMMA RaiseKeeps ==
  ASSUME NEW c, Formed(c), NEW bits \in SUBSET Bits, NEW d, d = Raise(c, bits)
  PROVE  /\ Formed(d) /\ Quiet(d) /\ Told(d) /\ Alike(c, d) /\ d.irq /\ d.intr = c.intr \cup bits
         /\ (bits = {"service"} => Moved(c, d))
<1>1. c \in ChipStates
  BY DEF Formed, Fits
<1>2. d \in ChipStates /\ Alike(c, d) /\ (d.told <=> Drq(c)) /\ ~d.owed /\ d.irq /\ d.intr = c.intr \cup bits
  BY <1>1, RaiseFacts
<1>3. Fits(d) /\ Linked(d) /\ Writing(d) /\ (Drq(d) <=> Drq(c))
  BY <1>1, <1>2, AlikeKeeps DEF Formed
<1>4. bits = {"service"} => Moved(c, d)
  BY <1>2 DEF Alike, Moved
<1> QED
  BY <1>2, <1>3, <1>4 DEF Formed, Quiet, Told

LEMMA ReadOutcome ==
  ASSUME NEW c, Formed(c), c.target, c.phase = "dataIn", NEW dma \in BOOLEAN, c.dmaActive <=> dma,
         dma => c.counter # 0, NEW d, d = TransferData(c, dma)
  PROVE  /\ Formed(d) /\ Quiet(d) /\ Told(d) /\ Moved(c, d) /\ (d.dmaActive => c.dmaActive) /\ Pulled(c, d) /\ Brings(c, d)
<1>1. /\ c \in ChipStates /\ c.pos \in Nat /\ c.size \in Length /\ c.size \in Nat /\ c.counter \in Length
      /\ 0 \in Length /\ {"service"} \in SUBSET Bits /\ c.pos <= c.size
  BY Sizes DEF Formed, Fits, ChipStates, Length, Bits
<1>2. d = IF dma THEN FinishDataIfDone([c EXCEPT !.chunk = c.counter, !.counter = 0, !.tcZero = TRUE])
          ELSE IF Left(c) > 0
          THEN FinishDataIfDone(Raise([Push(c, DataByte + c.pos + 1) EXCEPT !.pos = @ + 1], {"service"}))
          ELSE FinishDataIfDone(c)
  BY DEF TransferData
<1>3. CASE dma
  <2> DEFINE n == c.counter
             e == [c EXCEPT !.chunk = n, !.counter = 0, !.tcZero = TRUE]
  <2>1. d = FinishDataIfDone(e) /\ n \in Length /\ n # 0
    BY <1>1, <1>2, <1>3
  <2> HIDE DEF n
  <2>2. e \in ChipStates
    BY <1>1, <2>1 DEF ChipStates
  <2>3. /\ e.fifo = c.fifo /\ e.pos = c.pos /\ e.size = c.size /\ e.phase = c.phase /\ e.feed = c.feed
        /\ (e.target <=> c.target) /\ (e.dmaActive <=> c.dmaActive) /\ (e.timer <=> c.timer) /\ e.queued = c.queued
        /\ e.chunk = n /\ (e.irq <=> c.irq) /\ e.intr = c.intr
    BY <1>1 DEF ChipStates
  <2> HIDE DEF e
  <2>4. Fits(e) /\ Linked(e) /\ Excused(e)
    BY <1>1, <1>3, <2>1, <2>2, <2>3 DEF Formed, Fits, Linked, Ascending, Excused
  <2>5. Formed(d) /\ Quiet(d) /\ Told(d) /\ Moved(e, d) /\ d.fifo = e.fifo /\ d.pos = e.pos /\ (d.dmaActive => e.dmaActive)
    BY <2>1, <2>3, <2>4, FinishOutcome DEF Quiet
  <2>6. Moved(c, e)
    BY <2>3 DEF Moved
  <2>7. Moved(c, d)
    BY <2>3, <2>5, <2>6, MovedChains
  <2>8. Brings(c, d)
    BY <1>1, <2>3, <2>5 DEF Brings
  <2> QED
    BY <2>3, <2>5, <2>7, <2>8 DEF Pulled
<1>4. CASE ~dma /\ Left(c) > 0
  <2> DEFINE b == DataByte + c.pos + 1
             p == c.pos + 1
             pushed == Push(c, b)
             e == [pushed EXCEPT !.pos = p]
             r == Raise(e, {"service"})
  <2>1. p \in Length /\ p \in Nat /\ p <= c.size /\ p \in 1..MaxData /\ c.pos < c.size /\ p >= c.pos
    BY <1>1, <1>4, Sizes DEF Left, Length
  <2>2. b \in Bytes
    <3>1. DataByte + p \in Bytes
      BY <2>1, ByteFacts
    <3>2. b = DataByte + p
      BY <1>1 DEF DataByte
    <3> QED
      BY <3>1, <3>2
  <2>3. /\ pushed \in ChipStates /\ Len(pushed.fifo) <= Fifo /\ pushed = [c EXCEPT !.fifo = pushed.fifo]
        /\ pushed.fifo = IF Len(c.fifo) < Fifo THEN Append(c.fifo, b) ELSE c.fifo
    BY <1>1, <2>2, PushFacts DEF Formed, Fits
  <2>4. [pushed EXCEPT !.pos = @ + 1] = e
    BY <1>1, <2>3 DEF ChipStates
  <2>5. d = FinishDataIfDone(r)
    BY <1>2, <1>4, <2>4
  <2>a. b > DataByte + c.pos /\ b <= DataByte + p
    BY <1>1 DEF DataByte
  <2> HIDE DEF pushed, b, p
  <2>6. /\ pushed.pos = c.pos /\ pushed.size = c.size /\ pushed.phase = c.phase /\ pushed.feed = c.feed
        /\ (pushed.target <=> c.target) /\ (pushed.dmaActive <=> c.dmaActive) /\ (pushed.timer <=> c.timer)
        /\ pushed.queued = c.queued /\ (pushed.irq <=> c.irq) /\ pushed.intr = c.intr
    BY <1>1, <2>3 DEF ChipStates
  <2>7. /\ e \in ChipStates /\ e.pos = p /\ e.size = c.size /\ e.phase = c.phase /\ e.feed = c.feed
        /\ (e.target <=> c.target) /\ (e.dmaActive <=> c.dmaActive) /\ (e.timer <=> c.timer) /\ e.queued = c.queued
        /\ (e.irq <=> c.irq) /\ e.intr = c.intr /\ e.fifo = pushed.fifo
    BY <2>1, <2>3, <2>6 DEF ChipStates
  <2> HIDE DEF e
  <2>8. Ascending(e) /\ Brings(c, e)
    <3>1. Fits(c) /\ (e.fifo = Append(c.fifo, b) \/ e.fifo = c.fifo)
      BY <2>3, <2>7 DEF Formed
    <3> QED
      BY <2>1, <2>2, <2>a, <2>7, <3>1, AscendingAppends
  <2>9. ~c.feed.on
    BY DEF Formed, Linked
  <2>10. Fits(e) /\ Linked(e) /\ Writing(e)
    BY <2>1, <2>3, <2>7, <2>8, <2>9 DEF Formed, Fits, Linked, Writing
  <2>11. Moved(c, e)
    BY <2>7 DEF Moved
  <2>12. Formed(r) /\ Quiet(r) /\ Alike(e, r) /\ r.irq /\ Moved(e, r)
    BY <1>1, <2>10, RaiseKeeps DEF Formed
  <2> HIDE DEF r
  <2>13. Formed(d) /\ Quiet(d) /\ Told(d) /\ Moved(r, d) /\ d.fifo = r.fifo /\ d.pos = r.pos /\ (d.dmaActive => r.dmaActive)
    BY <2>5, <2>7, <2>12, FinishOutcome DEF Formed, Alike
  <2>14. Moved(c, r) /\ r.phase = c.phase
    BY <2>7, <2>11, <2>12, MovedChains DEF Alike
  <2>15. Moved(c, d)
    BY <2>13, <2>14, MovedChains
  <2>16. d.fifo = e.fifo /\ d.pos = e.pos /\ d.irq /\ (d.dmaActive => c.dmaActive)
    BY <2>7, <2>12, <2>13 DEF Alike, Moved
  <2>17. Pulled(c, d)
    BY <1>4, <2>1, <2>3, <2>7, <2>16 DEF Pulled, b, p
  <2>18. Brings(c, d)
    BY <2>8, <2>16 DEF Brings
  <2> QED
    BY <2>13, <2>15, <2>16, <2>17, <2>18
<1>5. CASE ~dma /\ ~(Left(c) > 0)
  <2>1. d = FinishDataIfDone(c)
    BY <1>2, <1>5
  <2>2. Excused(c)
    BY <1>1, <1>5 DEF Left, Excused
  <2>3. Formed(d) /\ Quiet(d) /\ Told(d) /\ Moved(c, d) /\ d.fifo = c.fifo /\ d.pos = c.pos /\ (d.dmaActive => c.dmaActive)
    BY <2>1, <2>2, FinishOutcome DEF Formed, Quiet
  <2> QED
    BY <1>1, <2>3 DEF Pulled, Brings
<1> QED
  BY <1>3, <1>4, <1>5

LEMMA WriteOutcome ==
  ASSUME NEW c, Formed(c), c.target, c.phase = "dataOut", NEW dma \in BOOLEAN, c.dmaActive <=> dma,
         dma => c.counter # 0, NEW d, d = TransferData(c, dma)
  PROVE  /\ Formed(d) /\ Quiet(d) /\ Told(d) /\ Moved(c, d) /\ d.pos = c.pos /\ Brings(c, d)
<1>1. /\ c \in ChipStates /\ c.pos \in Nat /\ c.fifo \in Seq(Bytes) /\ Len(c.fifo) \in Nat /\ Len(c.fifo) <= Fifo
      /\ c.buf \in Nat /\ c.expect \in Nat /\ c.buf < c.expect /\ c.expect <= MaxData /\ MaxData \in Nat
      /\ {"service"} \in SUBSET Bits /\ ~c.feed.on
  BY Sizes DEF Formed, Fits, Linked, Writing, ChipStates, Length, Bits
<1>2. CASE dma
  <2>1. d = FinishDataIfDone(c)
    BY <1>2 DEF TransferData
  <2>2. Excused(c)
    BY <1>2 DEF Excused
  <2>3. Formed(d) /\ Quiet(d) /\ Told(d) /\ Moved(c, d) /\ d.fifo = c.fifo /\ d.pos = c.pos
    BY <1>1, <2>1, <2>2, FinishOutcome DEF Formed, Quiet
  <2> QED
    BY <1>1, <2>3 DEF Brings
<1>3. CASE ~dma
  <2> DEFINE room == c.expect - c.buf
             moved == IF Len(c.fifo) < room THEN Len(c.fifo) ELSE room
             f == SubSeq(c.fifo, moved + 1, Len(c.fifo))
             n == c.buf + moved
             m == [c EXCEPT !.fifo = f, !.buf = n]
             e == IF m.buf < m.expect THEN Raise(m, {"service"}) ELSE m
  <2>1. d = FinishDataIfDone(e)
    <3>1. [c EXCEPT !.fifo = SubSeq(@, moved + 1, Len(@)), !.buf = @ + moved] = m
      BY <1>1 DEF ChipStates
    <3> QED
      BY <1>3, <3>1 DEF TransferData
  <2>2. moved \in Nat /\ moved <= Len(c.fifo) /\ n \in Length /\ n <= c.expect
    BY <1>1 DEF Length
  <2> HIDE DEF moved, n
  <2>3. f \in Seq(Bytes) /\ Len(f) = Len(c.fifo) - moved /\ \A i \in 1..Len(f) : i + moved \in 1..Len(c.fifo) /\ f[i] = c.fifo[i + moved]
    <3> DEFINE a == moved + 1
               z == Len(c.fifo)
    <3>1. a \in Int /\ z \in Int /\ \A i \in a..z : c.fifo[i] \in Bytes
      BY <1>1, <2>2
    <3>2. f = SubSeq(c.fifo, a, z)
      OBVIOUS
    <3> HIDE DEF f, a, z
    <3>3. /\ f \in Seq(Bytes) /\ Len(f) = (IF a <= z THEN z - a + 1 ELSE 0)
          /\ \A i \in 1..(z - a + 1) : f[i] = c.fifo[a + i - 1]
      BY <3>1, <3>2, SubSeqProperties
    <3>4. Len(f) = z - moved /\ z - a + 1 = z - moved
      BY <1>1, <2>2, <3>3 DEF a, z
    <3>5. ASSUME NEW i \in 1..Len(f) PROVE i + moved \in 1..z /\ f[i] = c.fifo[i + moved]
      <4>1. a + i - 1 = i + moved /\ i + moved \in 1..z
        BY <1>1, <2>2, <3>4 DEF a, z
      <4> QED
        BY <3>3, <3>4, <4>1
    <3> QED
      BY <3>3, <3>4, <3>5 DEF z
  <2> HIDE DEF f
  <2>4. m \in ChipStates
    BY <1>1, <2>2, <2>3 DEF ChipStates
  <2>5. /\ m.fifo = f /\ m.pos = c.pos /\ m.size = c.size /\ m.phase = c.phase /\ m.feed = c.feed
        /\ (m.target <=> c.target) /\ (m.dmaActive <=> c.dmaActive) /\ (m.timer <=> c.timer) /\ m.queued = c.queued
        /\ (m.irq <=> c.irq) /\ m.intr = c.intr /\ m.buf = n /\ m.expect = c.expect
    BY <1>1 DEF ChipStates
  <2> HIDE DEF m
  <2>6. Fits(m) /\ Brings(c, m)
    <3>1. \A i, j \in 1..Len(f) : i < j => i + moved < j + moved
      BY <2>2, <2>3
    <3>2. Ascending(m)
      BY <2>3, <2>5, <3>1 DEF Formed, Fits, Ascending
    <3>3. Len(f) <= Fifo
      BY <1>1, <2>2, <2>3, Sizes
    <3>4. Brings(c, m)
      BY SMTT(60), <1>1, <2>3, <2>5 DEF Brings
    <3> QED
      BY <2>4, <2>5, <3>2, <3>3, <3>4 DEF Formed, Fits
  <2>7. Linked(m) /\ Moved(c, m)
    BY <1>1, <2>5 DEF Formed, Linked, Moved
  <2>8. CASE m.buf < m.expect
    <3>1. e = Raise(m, {"service"}) /\ Formed(m)
      BY <2>6, <2>7, <2>8 DEF Formed, Writing
    <3> HIDE DEF e
    <3>2. Formed(e) /\ Quiet(e) /\ Alike(m, e) /\ Moved(m, e)
      BY <1>1, <3>1, RaiseKeeps
    <3>3. Formed(d) /\ Quiet(d) /\ Told(d) /\ Moved(e, d) /\ d.fifo = e.fifo /\ d.pos = e.pos
      BY <1>1, <2>1, <2>5, <3>2, FinishOutcome DEF Formed, Alike
    <3>4. Moved(c, e)
      BY <2>5, <2>7, <3>2, MovedChains
    <3>5. Moved(c, d)
      BY <2>5, <3>2, <3>3, <3>4, MovedChains DEF Alike
    <3> QED
      BY <2>5, <2>6, <3>2, <3>3, <3>5 DEF Alike, Brings
  <2>9. CASE ~(m.buf < m.expect)
    <3>1. e = m
      BY <2>9
    <3> HIDE DEF e
    <3>2. m.expect > 0 /\ m.buf >= m.expect
      BY <1>1, <2>2, <2>5, <2>9 DEF Length
    <3>3. Formed(d) /\ Quiet(d) /\ Told(d) /\ Moved(m, d) /\ d.fifo = m.fifo /\ d.pos = m.pos
      BY <2>1, <2>5, <2>6, <2>7, <3>1, <3>2, FinishOutcome
    <3>4. Moved(c, d)
      BY <2>5, <2>7, <3>3, MovedChains
    <3> QED
      BY <2>5, <2>6, <3>3, <3>4 DEF Brings
  <2> QED
    BY <2>8, <2>9
<1> QED
  BY <1>2, <1>3

\* The last two phases.
LEMMA EndOutcome ==
  ASSUME NEW c, Formed(c), c.target, c.phase \in {"status", "msgIn"}, NEW dma \in BOOLEAN, NEW d, d = TransferData(c, dma)
  PROVE  /\ Formed(d) /\ Quiet(d) /\ Told(d) /\ Moved(c, d) /\ d.pos = c.pos /\ Brings(c, d)
<1>1. {"service"} \in SUBSET Bits /\ 0 \in CdbBytes /\ ~c.feed.on /\ c.pos \in Nat
  BY DEF Bits, CdbBytes, Formed, Linked, Fits, ChipStates, Length
<1>2. CASE c.phase = "status"
  <2>1. d = Raise(c, {"service"})
    BY <1>2 DEF TransferData
  <2>2. Formed(d) /\ Quiet(d) /\ Told(d) /\ Alike(c, d) /\ Moved(c, d)
    BY <1>1, <2>1, RaiseKeeps
  <2> QED
    BY <1>1, <2>2 DEF Alike, Brings
<1>3. CASE c.phase = "msgIn"
  <2> DEFINE e == Push(c, 0)
  <2>1. d = Raise(e, {"service"})
    BY <1>3 DEF TransferData
  <2>2. Formed(e) /\ Brings(c, e) /\ Moved(c, e) /\ e.pos = c.pos /\ e.phase = c.phase
    BY <1>1, PushOutcome
  <2> HIDE DEF e
  <2>3. Formed(d) /\ Quiet(d) /\ Told(d) /\ Alike(e, d) /\ Moved(e, d)
    BY <1>1, <2>1, <2>2, RaiseKeeps
  <2>4. Moved(c, d)
    BY <2>2, <2>3, MovedChains
  <2> QED
    BY <2>2, <2>3, <2>4 DEF Alike, Brings
<1> QED
  BY <1>2, <1>3

LEMMA TransferOutcome ==
  ASSUME NEW c, Formed(c), c.target, c.queued = NoOrder, NEW dma \in BOOLEAN, dma => c.tcount # 0, NEW d \in Transfer(c, dma)
  PROVE  /\ Formed(d) /\ Quiet(d) /\ Told(d) /\ d.queued = NoOrder
         /\ IF c.phase = "command" THEN Feeding(c, d) \/ Answered(c, d)
            ELSE /\ Moved(c, d) /\ Brings(c, d)
                 /\ IF c.phase = "dataIn"
                    THEN \/ d.fifo = c.fifo /\ d.pos = c.pos /\ (d.dmaActive => dma)
                         \/ /\ ~d.dmaActive /\ c.pos < c.size /\ d.pos = c.pos + 1 /\ d.irq
                            /\ d.fifo = IF Len(c.fifo) < Fifo THEN Append(c.fifo, DataByte + c.pos + 1) ELSE c.fifo
                    ELSE d.pos = c.pos
<1> DEFINE load == LoadIf(c, dma)
           loaded == [load EXCEPT !.dmaActive = dma]
           still == [loaded EXCEPT !.dmaActive = FALSE]
<1>1. c \in ChipStates /\ ~c.timer /\ c.phase \in Phases
  BY DEF Formed, Fits, Linked, ChipStates
<1>2. load \in ChipStates /\ Loaded(c, load) /\ (dma => load.counter = c.tcount)
  BY <1>1, LoadFacts
<1>3. PICK r \in IF c.phase = "command" THEN Feed(still, FALSE, FALSE, dma) ELSE {TransferData(loaded, dma)} : d = Tell(r)
  BY DEF Transfer
<1> HIDE DEF load
<1>4. /\ loaded \in ChipStates /\ (loaded.dmaActive <=> dma) /\ (dma => loaded.counter # 0)
      /\ loaded.fifo = c.fifo /\ loaded.phase = c.phase /\ loaded.feed = c.feed
      /\ (loaded.timer <=> c.timer) /\ loaded.queued = c.queued /\ (loaded.target <=> c.target) /\ loaded.size = c.size
      /\ loaded.pos = c.pos /\ loaded.buf = c.buf /\ loaded.expect = c.expect /\ (loaded.irq <=> c.irq) /\ loaded.intr = c.intr
  <2>1. loaded \in ChipStates
    BY <1>2 DEF ChipStates
  <2>2. (loaded.dmaActive <=> dma) /\ loaded.counter = load.counter
    BY <1>2 DEF ChipStates
  <2> QED
    BY <1>2, <2>1, <2>2 DEF ChipStates, Loaded
<1> HIDE DEF loaded
<1>5. Formed(loaded) /\ Moved(c, loaded)
  BY <1>4 DEF Formed, Fits, Linked, Writing, Ascending, Moved
<1>6. CASE c.phase = "command"
  <2>1. /\ still \in ChipStates /\ ~still.dmaActive /\ still.fifo = c.fifo /\ still.phase = c.phase
        /\ (still.timer <=> c.timer) /\ still.queued = c.queued /\ still.target /\ still.size = c.size
        /\ still.pos = c.pos /\ (still.irq <=> c.irq) /\ still.intr = c.intr
    BY <1>4 DEF ChipStates
  <2> HIDE DEF still
  <2>2. Fits(still)
    BY <2>1 DEF Formed, Fits, Ascending
  <2>3. r \in Feed(still, FALSE, FALSE, dma)
    BY <1>3, <1>6
  <2>4. Feeding(still, r) \/ Answered(still, r)
    BY <1>1, <1>6, <2>1, <2>2, <2>3, FeedOutcome
  <2>5. (Feeding(still, d) \/ Answered(still, d)) /\ Formed(d) /\ Quiet(d) /\ Told(d)
    BY <1>3, <2>4, FedAndTold
  <2> QED
    BY <1>6, <2>1, <2>5 DEF Feeding, Answered
<1>7. CASE c.phase # "command"
  <2>1. r = TransferData(loaded, dma)
    BY <1>3, <1>7
  <2>2. /\ Formed(r) /\ Quiet(r) /\ Moved(loaded, r) /\ Brings(loaded, r)
        /\ IF c.phase = "dataIn" THEN Pulled(loaded, r) /\ (r.dmaActive => loaded.dmaActive) ELSE r.pos = loaded.pos
    <3>1. CASE c.phase = "dataIn"
      BY <1>4, <1>5, <2>1, <3>1, ReadOutcome
    <3>2. CASE c.phase = "dataOut"
      BY <1>4, <1>5, <2>1, <3>2, WriteOutcome
    <3>3. CASE c.phase \in {"status", "msgIn"}
      BY <1>4, <1>5, <2>1, <3>3, EndOutcome
    <3> QED
      BY <1>1, <1>7, <3>1, <3>2, <3>3 DEF Phases
  <2>3. Formed(d) /\ Quiet(d) /\ Told(d) /\ Alike(r, d) /\ (d.irq <=> r.irq) /\ d.intr = r.intr
    BY <1>3, <2>2, TellKeeps
  <2>4. Moved(c, r) /\ Brings(c, r)
    BY <1>4, <1>5, <2>2, MovedChains DEF Brings
  <2>5. Moved(c, d) /\ Brings(c, d)
    BY <2>3, <2>4 DEF Moved, Brings, Alike
  <2>6. c.phase = "dataIn" => Pulled(loaded, r) /\ (r.dmaActive => loaded.dmaActive)
    BY <2>2
  <2>7. c.phase # "dataIn" => r.pos = loaded.pos
    BY <2>2
  <2> QED
    BY <1>4, <1>7, <2>3, <2>5, <2>6, <2>7 DEF Pulled, Alike, Moved
<1> QED
  BY <1>6, <1>7

-----------------------------------------------------------------------------
(* The other commands                                                      *)

LEMMA ResetOutcome ==
  ASSUME NEW c \in ChipStates, NEW d, d = ResetChip(c)
  PROVE  Formed(d) /\ ~d.owed /\ d.fifo = << >> /\ d.pos = 0 /\ d.queued = NoOrder /\ ~d.timer
<1>1. << >> \in Seq(Bytes) /\ 0 \in Length /\ "dataOut" \in Phases
  BY Sizes DEF Length, Phases
<1>2. d \in ChipStates
  BY ZenonT(60), <1>1, NoFeedFacts DEF ResetChip, ChipStates
<1>3. /\ d.fifo = << >> /\ d.pos = 0 /\ d.size = 0 /\ d.feed = NoFeed /\ ~d.dmaActive /\ ~d.target /\ ~d.timer
      /\ d.queued = NoOrder /\ ~d.owed
  BY DEF ResetChip, ChipStates
<1>4. Len(d.fifo) = 0
  BY <1>3
<1> QED
  BY <1>2, <1>3, <1>4, NoFeedFacts, Sizes DEF Formed, Fits, Linked, Writing, Ascending

LEMMA NopOutcome ==
  ASSUME NEW c, Formed(c), NEW dma \in BOOLEAN, c.target /\ dma => c.tcount # 0, NEW d, d = LoadIf(c, dma)
  PROVE  Formed(d) /\ (Excused(c) => Excused(d)) /\ Brings(c, d) /\ Loaded(c, d)
<1>1. c \in ChipStates /\ c.pos \in Nat
  BY DEF Formed, Fits, ChipStates, Length
<1>2. d \in ChipStates /\ Loaded(c, d) /\ (dma => d.counter = c.tcount) /\ (~dma => d = c)
  BY <1>1, LoadFacts
<1>3. Formed(d) /\ Brings(c, d)
  BY <1>1, <1>2 DEF Formed, Fits, Linked, Writing, Ascending, Brings, Loaded
<1>4. Excused(c) => Excused(d)
  BY <1>2 DEF Formed, Linked, Excused, Loaded
<1> QED
  BY <1>2, <1>3, <1>4

LEMMA FlushOutcome ==
  ASSUME NEW c, Formed(c), NEW d, d = [c EXCEPT !.fifo = << >>]
  PROVE  /\ Formed(d) /\ (Quiet(c) => Quiet(d)) /\ Brings(c, d) /\ d.fifo = << >> /\ d.pos = c.pos
<1>1. c \in ChipStates /\ << >> \in Seq(Bytes) /\ c.pos \in Nat
  BY DEF Formed, Fits, ChipStates, Length
<1>2. d \in ChipStates
  BY <1>1 DEF ChipStates
<1>3. /\ d.fifo = << >> /\ d.pos = c.pos /\ d.size = c.size /\ d.phase = c.phase /\ d.feed = c.feed
      /\ (d.target <=> c.target) /\ (d.dmaActive <=> c.dmaActive) /\ (d.timer <=> c.timer) /\ d.queued = c.queued
      /\ d.buf = c.buf /\ d.expect = c.expect /\ (d.owed <=> c.owed) /\ d.chunk = c.chunk /\ d.counter = c.counter
      /\ (d.tcZero <=> c.tcZero)
  BY <1>1 DEF ChipStates
<1>4. Len(d.fifo) = 0
  BY <1>3
<1> QED
  BY <1>1, <1>2, <1>3, <1>4, Sizes DEF Formed, Fits, Linked, Writing, Ascending, Brings, Quiet, Excused

Completed(c) == Raise([c EXCEPT !.feed = NoFeed, !.dmaActive = FALSE, !.fifo = << 0, 0 >>, !.phase = "msgIn"], {"done"})
Accepted(c) == Raise([c EXCEPT !.feed = NoFeed, !.dmaActive = FALSE, !.counter = 0, !.phase = "dataOut", !.target = FALSE],
                     {"disconnected"})

LEMMA CompleteOutcome ==
  ASSUME NEW c, Formed(c), c.target, NEW d, d = Completed(c)
  PROVE  /\ Formed(d) /\ Quiet(d) /\ Told(d) /\ Brings(c, d) /\ NoData(d) /\ d.pos = c.pos /\ d.size = c.size /\ d.irq
         /\ d.intr = c.intr \cup {"done"} /\ d.queued = c.queued /\ ~d.timer
<1> DEFINE f == << 0, 0 >>
           e == [c EXCEPT !.feed = NoFeed, !.dmaActive = FALSE, !.fifo = f, !.phase = "msgIn"]
<1>1. c \in ChipStates /\ {"done"} \in SUBSET Bits /\ c.pos \in Nat /\ ~c.timer
  BY DEF Formed, Fits, Linked, Bits, ChipStates, Length
<1>2. f \in Seq(Bytes) /\ Len(f) = 2 /\ \A i \in 1..2 : f[i] = 0
  BY DEF Bytes, CdbBytes
<1>3. d = Raise(e, {"done"})
  BY DEF Completed
<1> HIDE DEF f
<1>4. e \in ChipStates
  BY <1>1, <1>2, NoFeedFacts DEF ChipStates, Phases
<1>5. /\ e.fifo = f /\ e.pos = c.pos /\ e.size = c.size /\ e.phase = "msgIn" /\ e.feed = NoFeed
      /\ e.target /\ ~e.dmaActive /\ (e.timer <=> c.timer) /\ e.queued = c.queued /\ e.intr = c.intr
  BY <1>1 DEF ChipStates
<1> HIDE DEF e
<1>6. Ascending(e) /\ NoData(e) /\ Len(e.fifo) = 2
  <2>1. Len(e.fifo) = 2
    BY <1>2, <1>5
  <2>2. \A i \in 1..Len(e.fifo) : e.fifo[i] = 0
    BY <1>2, <1>5, <2>1
  <2>3. ~(0 > DataByte) /\ 0 <= DataByte
    BY DEF DataByte
  <2> QED
    BY <2>1, <2>2, <2>3 DEF Ascending, NoData
<1>7. Formed(e)
  BY <1>1, <1>4, <1>5, <1>6, NoFeedFacts, Sizes DEF Formed, Fits, Linked, Writing
<1>8. Formed(d) /\ Quiet(d) /\ Told(d) /\ Alike(e, d) /\ d.irq /\ d.intr = e.intr \cup {"done"}
  BY <1>1, <1>3, <1>7, RaiseKeeps
<1>9. NoData(d)
  BY <1>6, <1>8 DEF NoData, Alike
<1>10. Brings(c, d)
  BY <1>1, <1>5, <1>8, <1>9 DEF Brings, NoData, Alike
<1> QED
  BY <1>1, <1>5, <1>8, <1>9, <1>10 DEF Alike

LEMMA AcceptOutcome ==
  ASSUME NEW c, Formed(c), c.target, NEW d, d = Accepted(c)
  PROVE  /\ Formed(d) /\ Quiet(d) /\ Told(d) /\ Brings(c, d) /\ d.fifo = c.fifo /\ d.pos = c.pos /\ d.size = c.size /\ d.irq
         /\ d.intr = c.intr \cup {"disconnected"} /\ d.queued = c.queued /\ ~d.timer
<1> DEFINE e == [c EXCEPT !.feed = NoFeed, !.dmaActive = FALSE, !.counter = 0, !.phase = "dataOut", !.target = FALSE]
<1>1. c \in ChipStates /\ {"disconnected"} \in SUBSET Bits /\ c.pos \in Nat /\ ~c.timer /\ 0 \in Length
  BY Sizes DEF Formed, Fits, Linked, Bits, ChipStates, Length
<1>2. d = Raise(e, {"disconnected"})
  BY DEF Accepted
<1>3. e \in ChipStates
  BY <1>1, NoFeedFacts DEF ChipStates, Phases
<1>4. /\ e.fifo = c.fifo /\ e.pos = c.pos /\ e.size = c.size /\ e.feed = NoFeed /\ ~e.target /\ ~e.dmaActive
      /\ (e.timer <=> c.timer) /\ e.queued = c.queued /\ e.intr = c.intr
  BY <1>1 DEF ChipStates
<1> HIDE DEF e
<1>5. Formed(e)
  BY <1>1, <1>3, <1>4, NoFeedFacts DEF Formed, Fits, Linked, Writing, Ascending
<1>6. Formed(d) /\ Quiet(d) /\ Told(d) /\ Alike(e, d) /\ d.irq /\ d.intr = e.intr \cup {"disconnected"}
  BY <1>1, <1>2, <1>5, RaiseKeeps
<1> QED
  BY <1>1, <1>4, <1>6 DEF Brings, Alike

\* Padding: what is left of a read is skipped.
LEMMA PadOutcome ==
  ASSUME NEW c, Formed(c), c.target, c.phase # "dataIn" => Quiet(c), NEW dma \in BOOLEAN, dma => c.tcount # 0, NEW d,
         d = FinishDataIfDone(IF c.phase = "dataIn" THEN [LoadIf(c, dma) EXCEPT !.pos = c.size] ELSE LoadIf(c, dma))
  PROVE  Formed(d) /\ Quiet(d) /\ Told(d) /\ Brings(c, d) /\ d.queued = c.queued
<1> DEFINE load == LoadIf(c, dma)
           n == c.size
           e == [load EXCEPT !.pos = n]
<1>1. /\ c \in ChipStates /\ c.pos \in Nat /\ n \in Nat /\ n \in Length /\ c.pos <= n
      /\ \A i \in 1..Len(c.fifo) : c.fifo[i] \in Nat
  BY ByteFacts DEF Formed, Fits, ChipStates, Length
<1>2. Formed(load) /\ (Excused(c) => Excused(load)) /\ Brings(c, load) /\ Loaded(c, load)
  BY NopOutcome
<1> HIDE DEF load, n
<1>3. CASE c.phase = "dataIn"
  <2>1. d = FinishDataIfDone(e)
    BY <1>3 DEF load, n
  <2>2. load \in ChipStates
    BY <1>2 DEF Formed, Fits
  <2>3. /\ e \in ChipStates /\ e.pos = n /\ e.fifo = c.fifo /\ e.size = c.size /\ e.phase = c.phase /\ e.feed = c.feed
        /\ (e.target <=> c.target) /\ (e.dmaActive <=> c.dmaActive) /\ (e.timer <=> c.timer) /\ e.queued = c.queued
    BY <1>1, <1>2, <2>2 DEF ChipStates, Loaded
  <2> HIDE DEF e
  <2>4. Ascending(e)
    BY <1>1, <2>3 DEF Formed, Fits, Ascending, DataByte
  <2>5. e.pos = e.size
    BY <2>3 DEF n
  <2>6. Fits(e) /\ Linked(e) /\ Excused(e)
    BY <1>1, <1>3, <2>3, <2>4, <2>5 DEF Formed, Fits, Linked, Excused, n
  <2>7. Formed(d) /\ Quiet(d) /\ Told(d) /\ Moved(e, d) /\ d.fifo = e.fifo /\ d.pos = e.pos
    BY <1>3, <2>1, <2>3, <2>6, FinishOutcome DEF Quiet
  <2> QED
    BY <1>1, <2>3, <2>7 DEF Brings, Moved
<1>4. CASE c.phase # "dataIn"
  <2>1. d = FinishDataIfDone(load)
    BY <1>4 DEF load
  <2>2. load.target /\ load.phase = "dataOut" => load.expect > 0
    BY SMTT(60), <1>2 DEF Formed, Writing, Fits, ChipStates, Length
  <2>3. Quiet(load)
    BY <1>2, <1>4 DEF Quiet, Loaded
  <2>4. Formed(d) /\ Quiet(d) /\ Told(d) /\ Moved(load, d) /\ d.fifo = load.fifo /\ d.pos = load.pos
    BY <1>2, <2>1, <2>2, <2>3, FinishOutcome DEF Formed
  <2> QED
    BY <1>2, <2>4 DEF Brings, Moved, Loaded
<1> QED
  BY <1>3, <1>4

-----------------------------------------------------------------------------
(* The command register and the timer                                      *)

LEMMA ExecuteOutcome ==
  ASSUME NEW c, Formed(c), NEW o \in Order, c.target /\ o.dma => c.tcount # 0, o.cmd \in Stacking => c.queued = NoOrder,
         c.owed => Excused(c) \/ Owes(c, o), NEW d \in Execute(c, o)
  PROVE  Formed(d) /\ Quiet(d) /\ Brings(c, d) /\ (o.cmd \in Stacking => Told(d) /\ d.queued = NoOrder)
<1>1. c \in ChipStates /\ c.pos \in Nat /\ o.dma \in BOOLEAN /\ o.cmd \in Commands
  BY DEF Formed, Fits, ChipStates, Length, Order
<1>2. {"illegal"} \in SUBSET Bits /\ {"reset"} \in SUBSET Bits
  BY DEF Bits
<1> DEFINE Refused == d = Raise(c, {"illegal"})
<1>3. CASE Refused
  <2>1. Formed(d) /\ Quiet(d) /\ Told(d) /\ Alike(c, d)
    BY <1>2, <1>3, RaiseKeeps
  <2> QED
    BY <1>1, <2>1 DEF Alike, Brings
<1>4. CASE o.cmd \in Initiator /\ ~c.target
  <2>1. Refused
    BY <1>4 DEF Execute
  <2> QED
    BY <1>3, <2>1
<1> SUFFICES ASSUME ~(o.cmd \in Initiator /\ ~c.target) PROVE Formed(d) /\ Quiet(d) /\ Brings(c, d) /\ (o.cmd \in Stacking => Told(d) /\ d.queued = NoOrder)
  BY <1>4
<1>a. o.cmd \in {"transfer", "complete", "accept", "pad"} => c.target /\ o.cmd \in Stacking /\ c.queued = NoOrder
  BY DEF Stacking, Initiator
<1>5. CASE o.cmd = "nop"
  <2>1. d = LoadIf(c, o.dma) /\ o.cmd \notin Stacking
    BY <1>5 DEF Execute, Stacking, Initiator, Selects
  <2>2. Formed(d) /\ (Excused(c) => Excused(d)) /\ Brings(c, d) /\ Loaded(c, d)
    BY <1>1, <2>1, NopOutcome
  <2> QED
    BY <2>1, <2>2 DEF Quiet, Owes, Loaded
<1>6. CASE o.cmd = "flush"
  <2>1. d = [c EXCEPT !.fifo = << >>] /\ o.cmd \notin Stacking
    BY <1>6 DEF Execute, Stacking, Initiator, Selects
  <2>2. Quiet(c)
    BY <2>1 DEF Quiet, Owes
  <2> QED
    BY <2>1, <2>2, FlushOutcome
<1>7. CASE o.cmd \in {"resetChip", "resetBus"}
  <2> DEFINE r == ResetChip(c)
  <2>1. d \in {r, Raise(r, {"reset"})} /\ o.cmd \notin Stacking
    BY <1>7 DEF Execute, Stacking, Initiator, Selects
  <2>2. Formed(r) /\ ~r.owed /\ r.pos = 0
    BY <1>1, ResetOutcome
  <2> HIDE DEF r
  <2>3. CASE d = r
    BY <2>1, <2>2, <2>3 DEF Brings, Quiet
  <2>4. CASE d = Raise(r, {"reset"})
    <3>1. Formed(d) /\ Quiet(d) /\ Alike(r, d)
      BY <1>2, <2>2, <2>4, RaiseKeeps
    <3> QED
      BY <2>1, <2>2, <3>1 DEF Brings, Alike
  <2> QED
    BY <2>1, <2>3, <2>4
<1>8. CASE o.cmd = "transfer"
  <2>1. d \in Transfer(c, o.dma) /\ c.target /\ o.cmd \in Stacking /\ c.queued = NoOrder
    <3>1. d \in Transfer(c, o.dma)
      BY <1>8 DEF Execute, Initiator, Selects
    <3> QED
      BY <1>8, <1>a, <3>1
  <2>2. Formed(d) /\ Quiet(d) /\ Told(d) /\ d.queued = NoOrder /\ (Feeding(c, d) \/ Answered(c, d) \/ Brings(c, d))
    BY <1>1, <2>1, TransferOutcome
  <2> QED
    BY <1>1, <2>2 DEF Feeding, Answered, Brings
<1>9. CASE o.cmd = "complete"
  <2>1. d = Completed(c) /\ c.target /\ c.queued = NoOrder
    <3>1. d = Completed(c)
      BY <1>9 DEF Execute, Initiator, Selects, Completed
    <3> QED
      BY <1>9, <1>a, <3>1
  <2> QED
    BY <2>1, CompleteOutcome
<1>10. CASE o.cmd = "accept"
  <2>1. d = Accepted(c) /\ c.target /\ c.queued = NoOrder
    <3>1. d = Accepted(c)
      BY <1>10 DEF Execute, Initiator, Selects, Accepted
    <3> QED
      BY <1>10, <1>a, <3>1
  <2> QED
    BY <2>1, AcceptOutcome
<1>11. CASE o.cmd = "pad"
  <2>1. /\ d = FinishDataIfDone(IF c.phase = "dataIn" THEN [LoadIf(c, o.dma) EXCEPT !.pos = c.size] ELSE LoadIf(c, o.dma))
        /\ c.target /\ c.queued = NoOrder
    <3>1. d = FinishDataIfDone(IF c.phase = "dataIn" THEN [LoadIf(c, o.dma) EXCEPT !.pos = c.size] ELSE LoadIf(c, o.dma))
      BY <1>11 DEF Execute, Initiator, Selects
    <3> QED
      BY <1>11, <1>a, <3>1
  <2>2. c.phase # "dataIn" => Quiet(c)
    BY <1>11 DEF Quiet, Owes
  <2> QED
    BY <1>1, <2>1, <2>2, PadOutcome
<1>12. CASE o.cmd \in Selects
  <2>1. d \in BeginSelect(c, o.cmd = "selectAtn", o.dma) /\ c.queued = NoOrder
    BY <1>12 DEF Execute, Selects, Stacking, Initiator
  <2>2. (o.cmd = "selectAtn") \in BOOLEAN
    OBVIOUS
  <2>3. /\ Formed(d) /\ Quiet(d) /\ Told(d) /\ d.queued = NoOrder
        /\ (d.fifo = c.fifo /\ d.pos = c.pos) \/ Feeding(c, d) \/ Answered(c, d)
    BY ZenonT(60), <1>1, <2>1, <2>2, SelectOutcome DEF Formed
  <2> QED
    BY <1>1, <2>3 DEF Feeding, Answered, Brings
<1>13. CASE o.cmd = "unknown"
  <2>1. Refused
    BY <1>13 DEF Execute, Initiator, Selects
  <2> QED
    BY <1>3, <2>1
<1> QED
  BY <1>1, <1>5, <1>6, <1>7, <1>8, <1>9, <1>10, <1>11, <1>12, <1>13 DEF Commands, Selects

\* What a command sets off is owed until it comes.
LEMMA RunOutcome ==
  ASSUME NEW c, Formed(c), Quiet(c), NEW o \in Order, c.target /\ o.dma => c.tcount # 0, o.cmd \in Stacking => c.queued = NoOrder,
         NEW d \in Run(c, o)
  PROVE  /\ Formed(d) /\ Quiet(d) /\ Brings(c, d) /\ (o.cmd \in Stacking => Told(d) /\ d.queued = NoOrder)
         /\ \E e : Formed(e) /\ Alike(c, e) /\ (e.irq <=> c.irq) /\ e.intr = c.intr /\ d \in Execute(e, o)
<1> DEFINE b == c.owed \/ Owes(c, o)
           e == [c EXCEPT !.owed = b]
<1>1. c \in ChipStates /\ b \in BOOLEAN
  BY DEF Formed, Fits, ChipStates
<1>2. d \in Execute(e, o)
  <2>1. e = [c EXCEPT !.owed = @ \/ Owes(c, o)]
    BY <1>1 DEF ChipStates
  <2> HIDE DEF e
  <2> QED
    BY <2>1 DEF Run
<1>3. b => c.owed \/ Owes(c, o)
  OBVIOUS
<1> HIDE DEF b
<1>4. e \in ChipStates /\ Alike(c, e) /\ (e.owed <=> b) /\ (e.irq <=> c.irq) /\ e.intr = c.intr
  BY <1>1 DEF ChipStates, Alike
<1> HIDE DEF e
<1>5. Formed(e) /\ (Excused(c) => Excused(e))
  BY <1>1, <1>4, AlikeKeeps DEF Formed
<1>6. e.owed => Excused(e) \/ Owes(e, o)
  BY <1>3, <1>4, <1>5 DEF Quiet, Owes, Alike
<1>7. Formed(d) /\ Quiet(d) /\ Brings(e, d) /\ (o.cmd \in Stacking => Told(d) /\ d.queued = NoOrder)
  BY <1>2, <1>4, <1>5, <1>6, ExecuteOutcome DEF Alike
<1>8. Brings(c, d)
  BY <1>4, <1>7 DEF Brings, Alike
<1> QED
  BY <1>2, <1>4, <1>5, <1>7, <1>8

LEMMA CommandOutcome ==
  ASSUME NEW c, Formed(c), Quiet(c), NEW o \in Order, c.tcount # 0, NEW d \in Command(c, o)
  PROVE  Formed(d) /\ Quiet(d) /\ Brings(c, d)
<1>1. c \in ChipStates /\ c.pos \in Nat
  BY DEF Formed, Fits, ChipStates, Length
<1>2. CASE c.timer /\ o.cmd \in Stacking
  <2>1. d = [c EXCEPT !.queued = o]
    BY <1>2 DEF Command
  <2>2. d \in ChipStates
    BY <1>1, <2>1 DEF ChipStates
  <2>3. /\ d.fifo = c.fifo /\ d.pos = c.pos /\ d.size = c.size /\ d.phase = c.phase /\ d.feed = c.feed
        /\ (d.target <=> c.target) /\ (d.dmaActive <=> c.dmaActive) /\ (d.timer <=> c.timer) /\ d.queued = o
    BY <1>1, <2>1 DEF ChipStates
  <2> QED
    BY <1>1, <1>2, <2>2, <2>3 DEF Formed, Fits, Linked, Writing, Ascending, Quiet, Excused, Brings
<1>3. CASE ~(c.timer /\ o.cmd \in Stacking)
  <2>1. d \in Run(c, o)
    BY <1>3 DEF Command
  <2>2. o.cmd \in Stacking => c.queued = NoOrder
    BY <1>3 DEF Formed, Linked
  <2> QED
    BY <2>1, <2>2, RunOutcome
<1> QED
  BY <1>2, <1>3

\* The selection that times out runs the command behind it.
LEMMA TimeOutOutcome ==
  ASSUME NEW c, Formed(c), c.timer, NEW d \in TimeOut(c)
  PROVE  /\ Formed(d) /\ Quiet(d) /\ Brings(c, d) /\ Told(d) /\ d.queued = NoOrder
         /\ c.queued = NoOrder => /\ d.irq /\ d.intr = c.intr \cup {"disconnected"} /\ ~d.timer
                                  /\ d.fifo = c.fifo /\ d.pos = c.pos
<1> DEFINE e == [c EXCEPT !.timer = FALSE]
           late == Raise(e, {"disconnected"})
           bare == [late EXCEPT !.queued = NoOrder]
<1>1. c \in ChipStates /\ {"disconnected"} \in SUBSET Bits /\ ~c.target /\ c.pos \in Nat
  BY DEF Formed, Fits, Linked, Bits, ChipStates, Length
<1>2. IF c.queued = NoOrder THEN d = late ELSE d \in Run(bare, c.queued)
  BY DEF TimeOut
<1>3. /\ e \in ChipStates /\ e.fifo = c.fifo /\ e.pos = c.pos /\ e.size = c.size /\ e.phase = c.phase /\ e.feed = c.feed
      /\ ~e.target /\ (e.dmaActive <=> c.dmaActive) /\ ~e.timer /\ e.queued = c.queued /\ e.intr = c.intr
  BY <1>1 DEF ChipStates
<1> HIDE DEF e
<1>4. late \in ChipStates /\ Alike(e, late) /\ (late.told <=> Drq(e)) /\ ~late.owed /\ late.irq /\ late.intr = c.intr \cup {"disconnected"}
  BY <1>1, <1>3, RaiseFacts
<1>a. Drq(late) <=> Drq(e)
  BY <1>3, <1>4, AlikeKeeps
<1> HIDE DEF late
<1>5. CASE c.queued = NoOrder
  <2>1. Formed(d)
    BY <1>1, <1>2, <1>3, <1>4, <1>5 DEF Formed, Fits, Linked, Writing, Ascending, Alike
  <2> QED
    BY <1>1, <1>2, <1>3, <1>4, <1>5, <1>a, <2>1 DEF Quiet, Brings, Told, Alike
<1>6. CASE c.queued # NoOrder
  <2>1. c.queued \in Order /\ c.queued.cmd \in Stacking
    BY <1>1, <1>6 DEF Formed, Linked, ChipStates
  <2>2. bare \in ChipStates
    BY <1>4 DEF ChipStates
  <2>3. /\ bare.fifo = c.fifo /\ bare.pos = c.pos /\ bare.size = c.size /\ bare.phase = c.phase /\ bare.feed = c.feed
        /\ ~bare.target /\ (bare.dmaActive <=> c.dmaActive) /\ ~bare.timer /\ bare.queued = NoOrder /\ ~bare.owed
    BY <1>3, <1>4 DEF ChipStates, Alike
  <2> HIDE DEF bare
  <2>4. Formed(bare) /\ Quiet(bare)
    BY <1>1, <2>2, <2>3 DEF Formed, Fits, Linked, Writing, Ascending, Quiet
  <2>5. d \in Run(bare, c.queued)
    BY <1>2, <1>6
  <2>6. Formed(d) /\ Quiet(d) /\ Brings(bare, d) /\ Told(d) /\ d.queued = NoOrder
    BY <2>1, <2>3, <2>4, <2>5, RunOutcome
  <2> QED
    BY <1>6, <2>3, <2>6 DEF Brings
<1> QED
  BY <1>5, <1>6

-----------------------------------------------------------------------------
(* The FIFO register, the port and the interrupt register                  *)

LEMMA CdbAppends ==
  ASSUME NEW c, Formed(c), Quiet(c), NEW b \in CdbBytes, NEW d, d = [c EXCEPT !.cdb = Append(@, b)]
  PROVE  Formed(d) /\ Quiet(d) /\ d.feed = c.feed /\ d.fifo = c.fifo /\ d.pos = c.pos
         /\ (d.irq <=> c.irq) /\ d.intr = c.intr /\ d.queued = c.queued
<1> DEFINE s == Append(c.cdb, b)
<1>1. c \in ChipStates /\ b \in Bytes /\ s \in Seq(Bytes)
  BY ByteFacts DEF Formed, Fits, ChipStates
<1>2. d = [c EXCEPT !.cdb = s]
  BY <1>1 DEF ChipStates
<1> HIDE DEF s
<1>3. d \in ChipStates /\ d.cdb = s
  BY <1>1, <1>2 DEF ChipStates
<1>4. /\ d.fifo = c.fifo /\ d.pos = c.pos /\ d.size = c.size /\ d.phase = c.phase /\ d.feed = c.feed
      /\ (d.target <=> c.target) /\ (d.dmaActive <=> c.dmaActive) /\ (d.timer <=> c.timer) /\ d.queued = c.queued
      /\ d.buf = c.buf /\ d.expect = c.expect /\ (d.owed <=> c.owed) /\ d.chunk = c.chunk /\ d.counter = c.counter
      /\ (d.tcZero <=> c.tcZero) /\ (d.irq <=> c.irq) /\ d.intr = c.intr
  BY <1>1, <1>2 DEF ChipStates
<1> QED
  BY <1>1, <1>3, <1>4 DEF Formed, Fits, Linked, Writing, Ascending, Quiet, Excused

LEMMA ConsumeFacts ==
  ASSUME NEW c \in ChipStates, NEW n \in Nat, NEW d, d = Consume(c, n)
  PROVE  d \in ChipStates /\ Loaded(c, d) /\ (d.counter # 0 \/ d.tcZero)
<1> DEFINE left == IF c.counter >= n THEN c.counter - n ELSE 0
           z == c.tcZero \/ left = 0
<1>1. left \in Length /\ z \in BOOLEAN
  BY Sizes DEF ChipStates, Length
<1>2. d = [c EXCEPT !.counter = left, !.tcZero = z]
  <2>1. d = [c EXCEPT !.counter = left, !.tcZero = @ \/ left = 0]
    BY DEF Consume
  <2> HIDE DEF left
  <2> QED
    BY <2>1 DEF ChipStates
<1>3. left = 0 => z
  OBVIOUS
<1> HIDE DEF left, z
<1>4. d \in ChipStates /\ d.counter = left /\ (d.tcZero <=> z)
  BY <1>1, <1>2 DEF ChipStates
<1>5. Loaded(c, d)
  BY <1>2 DEF ChipStates, Loaded
<1> QED
  BY <1>3, <1>4, <1>5

LEMMA FeedsOn ==
  ASSUME NEW c, NEW e, Formed(e), Quiet(e), e.feed.on, e.fifo = c.fifo, e.pos = c.pos, e.irq <=> c.irq, e.intr = c.intr,
         e.queued = c.queued, NEW r \in TryFeed(e), NEW d, d = Tell(r)
  PROVE  (Feeding(c, d) \/ Answered(c, d)) /\ Formed(d) /\ Quiet(d) /\ Told(d)
<1>1. r = e \/ Answered(e, r)
  BY TryFeedOutcome
<1>2. Feeding(c, r) \/ Answered(c, r)
  BY <1>1 DEF Feeding, Answered, Formed, Linked
<1> QED
  BY <1>2, FedAndTold

LEMMA FedBrings ==
  ASSUME NEW c, c.pos \in Nat, NEW d, Feeding(c, d) \/ Answered(c, d)
  PROVE  Brings(c, d)
<1>1. d.fifo = << >> /\ Len(d.fifo) = 0 /\ (d.pos = c.pos \/ d.pos = 0)
  <2>1. d.fifo = << >> /\ (d.pos = c.pos \/ d.pos = 0)
    BY DEF Feeding, Answered
  <2> QED
    BY <2>1
<1> QED
  BY <1>1 DEF Brings

LEMMA FifoOutcome ==
  ASSUME NEW c, Formed(c), Quiet(c), NEW b \in CdbBytes, NEW d \in WriteFifo(c, b)
  PROVE  /\ Formed(d) /\ Quiet(d) /\ Told(d) /\ Brings(c, d)
         /\ IF c.feed.on THEN Feeding(c, d) \/ Answered(c, d)
            ELSE Moved(c, d) /\ d.phase = c.phase /\ d.pos = c.pos /\ (d.irq <=> c.irq)
<1>1. PICK r \in IF c.feed.on THEN TryFeed([c EXCEPT !.cdb = Append(@, b)]) ELSE {Push(c, b)} : d = Tell(r)
  BY DEF WriteFifo
<1>2. c.pos \in Nat
  BY DEF Formed, Fits, ChipStates, Length
<1>3. CASE c.feed.on
  <2> DEFINE e == [c EXCEPT !.cdb = Append(@, b)]
  <2>1. Formed(e) /\ Quiet(e) /\ e.feed = c.feed /\ e.fifo = c.fifo /\ e.pos = c.pos
        /\ (e.irq <=> c.irq) /\ e.intr = c.intr /\ e.queued = c.queued
    BY CdbAppends
  <2>2. r \in TryFeed(e)
    BY <1>1, <1>3
  <2> HIDE DEF e
  <2>3. (Feeding(c, d) \/ Answered(c, d)) /\ Formed(d) /\ Quiet(d) /\ Told(d)
    BY <1>1, <1>3, <2>1, <2>2, FeedsOn
  <2>4. Brings(c, d)
    BY <1>2, <2>3, FedBrings
  <2> QED
    BY <1>3, <2>3, <2>4
<1>4. CASE ~c.feed.on
  <2>1. r = Push(c, b)
    BY <1>1, <1>4
  <2>2. /\ Formed(r) /\ Quiet(r) /\ Brings(c, r) /\ Moved(c, r) /\ r.pos = c.pos /\ r.phase = c.phase
        /\ (r.irq <=> c.irq) /\ r.intr = c.intr
    BY <1>4, <2>1, PushOutcome
  <2>3. Formed(d) /\ Quiet(d) /\ Told(d) /\ Alike(r, d) /\ (d.irq <=> r.irq) /\ d.intr = r.intr
    BY <1>1, <2>2, TellKeeps
  <2> QED
    BY <1>4, <2>2, <2>3 DEF Alike, Moved, Brings
<1> QED
  BY <1>3, <1>4

LEMMA PortFeeds ==
  ASSUME NEW c, Formed(c), Quiet(c), c.feed.on, NEW b \in CdbBytes, NEW d \in PortWrite(c, b)
  PROVE  Formed(d) /\ Quiet(d) /\ Told(d) /\ (Feeding(c, d) \/ Answered(c, d))
<1> DEFINE Kept(e) == /\ Formed(e) /\ Quiet(e) /\ e.feed.on /\ e.fifo = c.fifo /\ e.pos = c.pos /\ (e.irq <=> c.irq) /\ e.intr = c.intr
                      /\ e.queued = c.queued
           Again(e) == Consume([e EXCEPT !.cdb = Append(@, b)], 1)
           one == Again(c)
           two == IF one.counter # 0 THEN Again(one) ELSE one
<1>1. PICK r \in TryFeed(two) : d = Tell(r)
  BY DEF PortWrite
<1>2. ASSUME NEW e, Kept(e) PROVE Kept(Again(e))
  <2> DEFINE f == [e EXCEPT !.cdb = Append(@, b)]
             g == Consume(f, 1)
  <2>1. Formed(f) /\ Quiet(f) /\ f.feed = e.feed /\ f.fifo = e.fifo /\ f.pos = e.pos
        /\ (f.irq <=> e.irq) /\ f.intr = e.intr /\ f.queued = e.queued
    BY <1>2, CdbAppends
  <2> HIDE DEF f
  <2>2. f \in ChipStates
    BY <2>1 DEF Formed, Fits
  <2>3. g \in ChipStates /\ Loaded(f, g)
    BY <2>2, ConsumeFacts
  <2>4. Again(e) = g
    BY DEF f
  <2> HIDE DEF g, Again
  <2>5. Formed(g) /\ Quiet(g)
    BY <1>2, <2>1, <2>3 DEF Formed, Fits, Linked, Writing, Ascending, Quiet, Excused, Loaded
  <2> QED
    BY <1>2, <2>1, <2>3, <2>4, <2>5 DEF Loaded
<1>3. Kept(c)
  OBVIOUS
<1>4. Kept(one)
  BY <1>2, <1>3
<1> HIDE DEF Again, one
<1>5. Kept(two)
  <2> HIDE DEF Kept
  <2> QED
    BY <1>2, <1>4
<1> HIDE DEF two
<1> QED
  BY <1>1, <1>5, FeedsOn

LEMMA PortOutcome ==
  ASSUME NEW c, Formed(c), Quiet(c), c.feed.on \/ Drq(c), NEW b \in CdbBytes, NEW d \in PortWrite(c, b)
  PROVE  /\ Formed(d) /\ Quiet(d) /\ Told(d) /\ Brings(c, d)
         /\ IF c.feed.on THEN Feeding(c, d) \/ Answered(c, d) ELSE Moved(c, d) /\ d.pos = c.pos
<1>1. c \in ChipStates /\ c.pos \in Nat /\ c.buf \in Nat /\ c.expect \in Nat /\ c.expect <= MaxData /\ MaxData \in Nat
  BY Sizes DEF Formed, Fits, ChipStates, Length
<1>2. CASE c.feed.on
  <2>1. Formed(d) /\ Quiet(d) /\ Told(d) /\ (Feeding(c, d) \/ Answered(c, d))
    BY <1>2, PortFeeds
  <2>2. Brings(c, d)
    BY <1>1, <2>1, FedBrings
  <2> QED
    BY <1>2, <2>1, <2>2
<1>3. CASE ~c.feed.on
  <2>1. c.dmaActive /\ c.target
    BY <1>3 DEF Drq, Formed, Linked
  <2>2. CASE c.phase = "dataOut"
    <3> DEFINE n == IF c.buf + 1 < c.expect THEN c.buf + 2 ELSE c.buf + 1
               e == [c EXCEPT !.buf = n]
               f == Consume(e, 2)
    <3>1. d = FinishDataIfDone(f)
      <4>1. [c EXCEPT !.buf = IF @ + 1 < c.expect THEN @ + 2 ELSE @ + 1] = e
        BY <1>1 DEF ChipStates
      <4> QED
        BY <1>3, <2>2, <4>1 DEF PortWrite
    <3>2. c.expect > 0 /\ n \in Length
      BY <1>1, <2>1, <2>2 DEF Formed, Writing, Length
    <3> HIDE DEF n
    <3>3. /\ e \in ChipStates /\ e.fifo = c.fifo /\ e.pos = c.pos /\ e.size = c.size /\ e.phase = c.phase /\ e.feed = c.feed
          /\ (e.target <=> c.target) /\ (e.dmaActive <=> c.dmaActive) /\ (e.timer <=> c.timer) /\ e.queued = c.queued
          /\ e.expect = c.expect /\ (e.irq <=> c.irq) /\ e.intr = c.intr
      BY <1>1, <3>2 DEF ChipStates
    <3> HIDE DEF e
    <3>4. f \in ChipStates /\ Loaded(e, f) /\ (f.counter # 0 \/ f.tcZero)
      BY <3>3, ConsumeFacts
    <3> HIDE DEF f
    <3>5. Fits(f) /\ Linked(f) /\ Excused(f) /\ Moved(c, f)
      BY <2>1, <2>2, <3>3, <3>4 DEF Formed, Fits, Linked, Ascending, Excused, Loaded, Moved
    <3>6. f.phase = c.phase /\ f.expect = c.expect /\ f.fifo = c.fifo /\ f.pos = c.pos
      BY <3>3, <3>4 DEF Loaded
    <3>7. Formed(d) /\ Quiet(d) /\ Told(d) /\ Moved(f, d) /\ d.fifo = f.fifo /\ d.pos = f.pos
      BY <3>1, <3>2, <3>5, <3>6, FinishOutcome DEF Quiet
    <3>8. Moved(c, d)
      BY <3>5, <3>6, <3>7, MovedChains
    <3> QED
      BY <1>1, <1>3, <3>6, <3>7, <3>8 DEF Brings
  <2>3. CASE c.phase # "dataOut"
    <3>1. d = FinishDataIfDone(c)
      BY <1>3, <2>3 DEF PortWrite
    <3>2. Formed(d) /\ Quiet(d) /\ Told(d) /\ Moved(c, d) /\ d.fifo = c.fifo /\ d.pos = c.pos
      BY <2>3, <3>1, FinishOutcome DEF Formed
    <3> QED
      BY <1>1, <1>3, <3>2 DEF Brings
  <2> QED
    BY <2>2, <2>3
<1> QED
  BY <1>2, <1>3

LEMMA ClearOutcome ==
  ASSUME NEW c, Formed(c), Quiet(c), NEW d, d = ReadInterrupt(c)
  PROVE  Formed(d) /\ Quiet(d) /\ Told(d) /\ Alike(c, d) /\ Brings(c, d) /\ ~d.irq /\ d.intr = {}
<1> DEFINE e == [c EXCEPT !.intr = {}, !.irq = FALSE]
<1>1. c \in ChipStates /\ {} \in SUBSET Bits /\ c.pos \in Nat
  BY DEF Formed, Fits, ChipStates, Length
<1>2. d = Tell(e)
  BY DEF ReadInterrupt
<1>3. e \in ChipStates /\ Alike(c, e) /\ ~e.irq /\ e.intr = {} /\ (e.owed <=> c.owed)
  BY ZenonT(60), <1>1 DEF ChipStates, Alike
<1> HIDE DEF e
<1>4. Formed(e) /\ Quiet(e)
  BY <1>1, <1>3, AlikeKeeps DEF Formed, Quiet
<1>5. Formed(d) /\ Quiet(d) /\ Told(d) /\ Alike(e, d) /\ (d.irq <=> e.irq) /\ d.intr = e.intr
  BY <1>2, <1>4, TellKeeps
<1>6. Alike(c, d)
  BY <1>3, <1>5 DEF Alike
<1> QED
  BY <1>1, <1>3, <1>5, <1>6 DEF Alike, Brings

-----------------------------------------------------------------------------
(* The bytes the driver has                                                *)

LEMMA FreshTypes ==
  ASSUME NEW c, Formed(c), NEW g, Fresh(c, g)
  PROVE  /\ c.pos \in Nat /\ c.pos <= MaxData /\ Len(g) \in Nat /\ Len(c.fifo) \in Nat
         /\ \A i \in 1..Len(g) : g[i] \in 1..MaxData /\ g[i] \in Nat
         /\ \A i \in 1..Len(c.fifo) : c.fifo[i] \in Bytes /\ c.fifo[i] \in Nat
<1>1. g \in Seq(1..MaxData) /\ c.fifo \in Seq(Bytes) /\ c.pos \in Length
  BY DEF Formed, Fits, ChipStates, Fresh
<1>2. \A i \in 1..Len(c.fifo) : c.fifo[i] \in Bytes /\ c.fifo[i] \in Nat
  BY <1>1, ByteFacts
<1>3. \A i \in 1..Len(g) : g[i] \in 1..MaxData /\ g[i] \in Nat
  BY <1>1, Sizes
<1> QED
  BY <1>1, <1>2, <1>3, Sizes DEF Length

LEMMA BringsFresh ==
  ASSUME NEW c, Formed(c), NEW g, Fresh(c, g), NEW d, Formed(d), Brings(c, d),
         NEW h, h = IF d.pos = 0 THEN << >> ELSE g
  PROVE  Fresh(d, h)
<1>1. /\ c.pos \in Nat /\ Len(g) \in Nat /\ \A i \in 1..Len(g) : g[i] \in 1..MaxData /\ g[i] \in Nat
  BY FreshTypes
<1>2. d.pos \in Nat /\ Len(d.fifo) \in Nat /\ \A i \in 1..Len(d.fifo) : d.fifo[i] \in Nat
  BY SMTT(60), ByteFacts DEF Formed, Fits, ChipStates, Length
<1>3. CASE d.pos = 0
  <2>1. h = << >> /\ Len(h) = 0 /\ h \in Seq(1..MaxData)
    BY <1>3
  <2> QED
    BY <2>1 DEF Fresh
<1>4. CASE d.pos # 0
  <2>1. h = g /\ d.pos >= c.pos
    BY <1>4 DEF Brings
  <2>2. ASSUME NEW i \in 1..Len(g), NEW k \in 1..Len(d.fifo), d.fifo[k] = DataByte + g[i]
        PROVE  FALSE
    <3>1. d.fifo[k] > DataByte /\ ~(d.fifo[k] > DataByte + c.pos)
      <4>1. g[i] \in Nat /\ g[i] > 0 /\ g[i] <= c.pos
        BY <1>1 DEF Fresh
      <4> QED
        BY <1>1, <2>2, <4>1 DEF DataByte
    <3>2. PICK j \in 1..Len(c.fifo) : d.fifo[k] = c.fifo[j]
      BY <1>2, <1>4, <3>1 DEF Brings, DataByte
    <3> QED
      BY <2>2, <3>2 DEF Fresh
  <2>3. \A i \in 1..Len(g) : g[i] <= d.pos
    BY <1>1, <1>2, <2>1 DEF Fresh
  <2> QED
    BY <2>1, <2>2, <2>3 DEF Fresh
<1> QED
  BY <1>3, <1>4

LEMMA AppendFresh ==
  ASSUME NEW c, Formed(c), NEW g, Fresh(c, g), NEW x \in 1..MaxData, \A i \in 1..Len(g) : g[i] # x,
         NEW d, Formed(d), x <= d.pos, c.pos <= d.pos, \A k \in 1..Len(d.fifo) : d.fifo[k] # DataByte + x,
         \A k \in 1..Len(d.fifo) : \E j \in 1..Len(c.fifo) : d.fifo[k] = c.fifo[j]
  PROVE  Fresh(d, Append(g, x))
<1> DEFINE h == Append(g, x)
<1>1. /\ c.pos \in Nat /\ Len(g) \in Nat /\ \A i \in 1..Len(g) : g[i] \in 1..MaxData /\ g[i] \in Nat
  BY FreshTypes
<1>2. d.pos \in Nat
  BY DEF Formed, Fits, ChipStates, Length
<1>3. /\ h \in Seq(1..MaxData) /\ Len(h) = Len(g) + 1 /\ h[Len(g) + 1] = x /\ \A i \in 1..Len(g) : h[i] = g[i]
  BY <1>1 DEF Fresh
<1> HIDE DEF h
<1>4. \A i \in 1..Len(h) : (i \in 1..Len(g) /\ h[i] = g[i]) \/ (i = Len(g) + 1 /\ h[i] = x)
  BY <1>1, <1>3
<1>5. \A i \in 1..Len(h) : h[i] <= d.pos
  BY <1>1, <1>2, <1>4 DEF Fresh
<1>6. \A i, j \in 1..Len(h) : i # j => h[i] # h[j]
  BY <1>1, <1>4 DEF Fresh
<1>7. \A i \in 1..Len(h), k \in 1..Len(d.fifo) : d.fifo[k] # DataByte + h[i]
  BY <1>1, <1>4 DEF Fresh
<1> QED
  BY <1>3, <1>5, <1>6, <1>7 DEF Fresh, h

\* What the driver has after it took the bytes between two positions.
Took(g, c, d) == g \o [i \in 1..d.pos - c.pos |-> c.pos + i]

LEMMA TakenFresh ==
  ASSUME NEW c, Formed(c), NEW g, Fresh(c, g), NEW d, Formed(d), d.fifo = c.fifo, d.pos >= c.pos,
         NEW h, h = Took(g, c, d)
  PROVE  /\ Fresh(d, h) /\ Len(h) = Len(g) + d.pos - c.pos
         /\ \A i \in 1..Len(g) : h[i] = g[i]
         /\ \A i \in Len(g) + 1..Len(h) : h[i] = c.pos + (i - Len(g))
<1> DEFINE n == d.pos - c.pos
           t == [i \in 1..n |-> c.pos + i]
<1>1. /\ c.pos \in Nat /\ Len(g) \in Nat /\ (\A i \in 1..Len(g) : g[i] \in 1..MaxData /\ g[i] \in Nat) /\ g \in Seq(1..MaxData)
      /\ \A i \in 1..Len(c.fifo) : c.fifo[i] \in Nat
  BY FreshTypes DEF Fresh
<1>2. d.pos \in Nat /\ d.pos <= MaxData /\ MaxData \in Nat /\ n \in Nat
  BY SMTT(60), <1>1, Sizes DEF Formed, Fits, ChipStates, Length
<1>3. t \in Seq(1..MaxData) /\ Len(t) = n /\ \A i \in 1..n : t[i] = c.pos + i
  <2>1. \A i \in 1..n : c.pos + i \in 1..MaxData
    BY <1>1, <1>2
  <2> HIDE DEF n
  <2> QED
    BY <1>2, <2>1
<1>4. h = g \o t
  BY DEF Took
<1> HIDE DEF t
<1>5. /\ h \in Seq(1..MaxData) /\ Len(h) = Len(g) + n /\ (\A i \in 1..Len(g) : h[i] = g[i])
      /\ \A i \in Len(g) + 1..Len(h) : h[i] = c.pos + (i - Len(g))
  <2>1. /\ Len(h) = Len(g) + Len(t) /\ h \in Seq(1..MaxData)
        /\ \A i \in 1..Len(g) + Len(t) : h[i] = IF i <= Len(g) THEN g[i] ELSE t[i - Len(g)]
    <3>1. g \in Seq(1..MaxData) /\ t \in Seq(1..MaxData)
      BY <1>1, <1>3
    <3>2. /\ g \o t \in Seq(1..MaxData) /\ Len(g \o t) = Len(g) + Len(t)
          /\ \A i \in 1..Len(g) + Len(t) : (g \o t)[i] = IF i <= Len(g) THEN g[i] ELSE t[i - Len(g)]
      BY <3>1, ConcatProperties
    <3> QED
      BY <1>4, <3>2
  <2>2. \A i \in 1..Len(g) : i \in 1..Len(h) /\ i <= Len(g)
    BY <1>1, <1>2, <1>3, <2>1
  <2>3. \A i \in Len(g) + 1..Len(h) : i \in 1..Len(h) /\ ~(i <= Len(g)) /\ i - Len(g) \in 1..n
    BY <1>1, <1>2, <1>3, <2>1
  <2> HIDE DEF n
  <2> QED
    BY <1>3, <2>1, <2>2, <2>3
<1>6. \A i \in 1..Len(h) : \/ i \in 1..Len(g) /\ h[i] = g[i]
                           \/ i > Len(g) /\ h[i] = c.pos + (i - Len(g)) /\ h[i] > c.pos /\ h[i] <= d.pos
  <2> SUFFICES ASSUME NEW i \in 1..Len(h)
               PROVE  \/ i \in 1..Len(g) /\ h[i] = g[i]
                      \/ i > Len(g) /\ h[i] = c.pos + (i - Len(g)) /\ h[i] > c.pos /\ h[i] <= d.pos
    OBVIOUS
  <2>1. Len(h) = Len(g) + (d.pos - c.pos) /\ Len(g) \in Nat /\ c.pos \in Nat /\ d.pos \in Nat
    BY <1>1, <1>2, <1>5
  <2>2. CASE i <= Len(g)
    BY <1>5, <2>1, <2>2
  <2>3. CASE ~(i <= Len(g))
    <3>1. i \in Len(g) + 1..Len(h)
      BY <2>1, <2>3
    <3>2. h[i] = c.pos + (i - Len(g))
      BY <1>5, <3>1
    <3> QED
      BY <2>1, <2>3, <3>1, <3>2
  <2> QED
    BY <2>2, <2>3
<1>a. \A i \in 1..Len(h) : h[i] \in Nat /\ i \in Nat
  BY <1>2, <1>5
<1>b. c.pos \in Nat /\ Len(g) \in Nat
  BY <1>1
<1>7. \A i \in 1..Len(h) : h[i] <= d.pos
  BY <1>1, <1>2, <1>6 DEF Fresh
<1>8. \A i, j \in 1..Len(h) : i # j => h[i] # h[j]
  <2> SUFFICES ASSUME NEW i \in 1..Len(h), NEW j \in 1..Len(h), i # j PROVE h[i] # h[j]
    OBVIOUS
  <2>1. CASE i \in 1..Len(g) /\ j \in 1..Len(g)
    BY <1>5, <2>1 DEF Fresh
  <2>2. CASE ~(i \in 1..Len(g)) /\ ~(j \in 1..Len(g))
    <3>1. h[i] = c.pos + (i - Len(g)) /\ h[j] = c.pos + (j - Len(g)) /\ i \in Nat /\ j \in Nat
      BY <1>6, <1>a, <2>2
    <3>2. i # j
      OBVIOUS
    <3> QED
      BY <1>b, <3>1, <3>2
  <2>3. CASE i \in 1..Len(g) /\ ~(j \in 1..Len(g))
    <3>1. h[i] = g[i] /\ g[i] <= c.pos
      BY <1>5, <2>3 DEF Fresh
    <3>2. h[j] > c.pos
      BY <1>6, <2>3
    <3>3. h[i] \in Nat /\ h[j] \in Nat
      BY <1>a
    <3> QED
      BY <1>b, <3>1, <3>2, <3>3
  <2>4. CASE ~(i \in 1..Len(g)) /\ j \in 1..Len(g)
    <3>1. h[j] = g[j] /\ g[j] <= c.pos
      BY <1>5, <2>4 DEF Fresh
    <3>2. h[i] > c.pos
      BY <1>6, <2>4
    <3>3. h[i] \in Nat /\ h[j] \in Nat
      BY <1>a
    <3> QED
      BY <1>b, <3>1, <3>2, <3>3
  <2> QED
    BY <2>1, <2>2, <2>3, <2>4
<1>9. \A i \in 1..Len(h), k \in 1..Len(d.fifo) : d.fifo[k] # DataByte + h[i]
  <2> SUFFICES ASSUME NEW i \in 1..Len(h), NEW k \in 1..Len(c.fifo) PROVE c.fifo[k] # DataByte + h[i]
    OBVIOUS
  <2>1. CASE i \in 1..Len(g)
    BY <1>5, <2>1 DEF Fresh
  <2>2. CASE ~(i \in 1..Len(g))
    <3>1. h[i] > c.pos /\ h[i] \in Nat
      BY <1>6, <1>a, <2>2
    <3>2. c.fifo[k] <= DataByte + c.pos
      <4>1. c.fifo[k] > DataByte => c.fifo[k] <= DataByte + c.pos
        BY DEF Formed, Fits, Ascending
      <4> QED
        BY <1>1, <4>1 DEF DataByte
    <3>3. c.fifo[k] \in Nat
      BY <1>1
    <3> QED
      BY <1>b, <3>1, <3>2, <3>3 DEF DataByte
  <2> QED
    BY <2>1, <2>2
<1> QED
  BY <1>5, <1>7, <1>8, <1>9 DEF Fresh

LEMMA PoppedFresh ==
  ASSUME NEW c, Formed(c), Quiet(c), NEW g, Fresh(c, g), NEW d, d = Pop(c),
         NEW h, h = IF PopByte(c) > DataByte THEN Append(g, PopByte(c) - DataByte) ELSE g
  PROVE  Fresh(d, h)
<1>1. /\ c.pos \in Nat /\ c.pos <= MaxData /\ Len(g) \in Nat /\ Len(c.fifo) \in Nat
      /\ \A i \in 1..Len(g) : g[i] \in 1..MaxData /\ g[i] \in Nat
      /\ \A i \in 1..Len(c.fifo) : c.fifo[i] \in Bytes /\ c.fifo[i] \in Nat
  BY FreshTypes
<1>2. /\ c.fifo \in Seq(Bytes) /\ c.size \in Nat /\ c.size <= MaxData /\ MaxData \in Nat /\ DataByte \in Nat
  BY Sizes DEF Formed, Fits, ChipStates, Length, DataByte
<1>3. Formed(d)
  BY PopOutcome
<1>4. CASE /\ c.fifo # << >> /\ PopByte(c) = Head(c.fifo) /\ d.fifo = Tail(c.fifo) /\ d.pos = c.pos
  <2> DEFINE b == c.fifo[1]
  <2>1. PopByte(c) = b /\ 1 \in 1..Len(c.fifo) /\ b \in Bytes /\ b \in Nat
    BY <1>1, <1>2, <1>4
  <2>2. \A k \in 1..Len(d.fifo) : k + 1 \in 1..Len(c.fifo) /\ d.fifo[k] = c.fifo[k + 1] /\ 1 < k + 1
    BY <1>1, <1>2, <1>4
  <2>3. CASE b > DataByte
    <3> DEFINE x == b - DataByte
    <3>1. x \in 1..MaxData
      BY <2>1, <2>3, ByteFacts
    <3>2. b = DataByte + x /\ h = Append(g, x)
      BY SMTT(60), <1>2, <2>1, <2>3
    <3>3. b <= DataByte + c.pos
      BY <2>1, <2>3 DEF Formed, Fits, Ascending
    <3> HIDE DEF x, b
    <3>4. x <= d.pos /\ c.pos <= d.pos
      BY <1>1, <1>2, <1>4, <2>1, <3>1, <3>2, <3>3
    <3>5. \A i \in 1..Len(g) : g[i] # x
      BY <2>1, <3>2 DEF Fresh, b
    <3>6. ASSUME NEW k \in 1..Len(d.fifo), d.fifo[k] = DataByte + x
          PROVE  FALSE
      <4>1. c.fifo[k + 1] = b /\ c.fifo[1] = b /\ b > DataByte /\ k + 1 \in 1..Len(c.fifo) /\ 1 < k + 1
        BY <2>2, <2>3, <3>2, <3>6 DEF b
      <4>2. c.fifo[1] < c.fifo[k + 1]
        BY <2>1, <4>1 DEF Formed, Fits, Ascending
      <4> QED
        BY <2>1, <4>1, <4>2
    <3>7. \A k \in 1..Len(d.fifo) : \E j \in 1..Len(c.fifo) : d.fifo[k] = c.fifo[j]
      BY <2>2
    <3> QED
      BY SMTT(60), <1>3, <3>1, <3>2, <3>4, <3>5, <3>6, <3>7, AppendFresh
  <2>4. CASE ~(b > DataByte)
    <3>1. h = g
      BY <2>1, <2>4
    <3> QED
      BY <1>4, <2>2, <3>1 DEF Fresh
  <2> QED
    BY <2>3, <2>4
<1>5. CASE /\ PopByte(c) = DataByte + c.pos + 1 /\ c.pos < c.size /\ d.fifo = << >> /\ d.pos = c.pos + 1
  <2> DEFINE x == c.pos + 1
  <2>1. x \in 1..MaxData /\ x <= d.pos /\ c.pos <= d.pos
    BY <1>1, <1>2, <1>5
  <2>2. PopByte(c) > DataByte /\ PopByte(c) - DataByte = x
    BY <1>1, <1>2, <1>5 DEF DataByte
  <2>3. \A i \in 1..Len(g) : g[i] # x
    BY <1>1 DEF Fresh
  <2>4. Len(d.fifo) = 0
    BY <1>5
  <2>5. h = Append(g, x)
    BY <2>2
  <2> HIDE DEF x
  <2> QED
    BY <1>3, <2>1, <2>3, <2>4, <2>5, AppendFresh
<1>6. CASE PopByte(c) = 0 /\ d = c
  <2>1. h = g
    BY <1>6 DEF DataByte
  <2> QED
    BY <1>6, <2>1
<1> QED
  BY <1>4, <1>5, <1>6, PopOutcome

-----------------------------------------------------------------------------
(* Steps that hold whoever drives                                          *)

Base == Types /\ Quiet(chip) /\ Fresh(chip, got)

LEMMA BecomesKeeps ==
  ASSUME Base, NEW d, Formed(d), Quiet(d), Brings(chip, d), Becomes(d)
  PROVE  Formed(chip') /\ Quiet(chip') /\ Fresh(chip', got') /\ got' \in Seq(1..MaxData)
<1>1. chip' = d /\ got' = IF d.pos = 0 THEN << >> ELSE got
  BY DEF Becomes
<1>2. Fresh(chip', got')
  BY <1>1, BringsFresh DEF Base, Types
<1> QED
  BY <1>1, <1>2 DEF Fresh

LEMMA ReadFifoKeeps ==
  ASSUME Base, ReadFifo
  PROVE  Formed(chip') /\ Quiet(chip') /\ Fresh(chip', got') /\ got' \in Seq(1..MaxData)
<1>1. chip' = Pop(chip) /\ got' = IF PopByte(chip) > DataByte THEN Append(got, PopByte(chip) - DataByte) ELSE got
  BY DEF ReadFifo
<1>2. Formed(chip) /\ Quiet(chip) /\ Fresh(chip, got)
  BY DEF Base, Types
<1>3. Fresh(chip', got')
  BY <1>1, <1>2, PoppedFresh
<1>4. Formed(chip') /\ Quiet(chip')
  BY <1>1, <1>2, PopOutcome
<1> QED
  BY <1>3, <1>4 DEF Fresh

LEMMA PortReadKeeps ==
  ASSUME Base, NEW d, Formed(d), Quiet(d), d.fifo = chip.fifo, d.pos >= chip.pos, PortRead(d)
  PROVE  /\ Formed(chip') /\ Quiet(chip') /\ Fresh(chip', got') /\ got' \in Seq(1..MaxData)
         /\ chip' = d /\ Len(got') = Len(got) + d.pos - chip.pos
         /\ \A i \in 1..Len(got) : got'[i] = got[i]
         /\ \A i \in Len(got) + 1..Len(got') : got'[i] = chip.pos + (i - Len(got))
<1>1. chip' = d /\ got' = Took(got, chip, d)
  BY DEF PortRead, Took
<1>2. Formed(chip) /\ Fresh(chip, got)
  BY DEF Base, Types
<1>3. /\ Fresh(d, got') /\ Len(got') = Len(got) + d.pos - chip.pos
      /\ \A i \in 1..Len(got) : got'[i] = got[i]
      /\ \A i \in Len(got) + 1..Len(got') : got'[i] = chip.pos + (i - Len(got))
  BY <1>1, <1>2, TakenFresh
<1> QED
  BY <1>1, <1>3 DEF Fresh

\* A new count and destination change nothing of the above.
Counts(c, n) == [c EXCEPT !.tcount = n]
Aims(c, n, b) == [c EXCEPT !.tcount = n, !.dest = b]

LEMMA CountSet ==
  ASSUME NEW c, Formed(c), Quiet(c), NEW n \in 1..MaxData, NEW b \in BOOLEAN, NEW d, d \in {Aims(c, n, b), Counts(c, n)}
  PROVE  /\ Formed(d) /\ Quiet(d) /\ d.tcount # 0 /\ d.fifo = c.fifo /\ d.pos = c.pos /\ d.size = c.size /\ d.phase = c.phase
         /\ d.feed = c.feed /\ (d.target <=> c.target) /\ (d.timer <=> c.timer) /\ d.queued = c.queued /\ (d.irq <=> c.irq)
         /\ d.intr = c.intr /\ (d.dmaActive <=> c.dmaActive)
<1>1. c \in ChipStates /\ n \in Length /\ n # 0
  BY Sizes DEF Formed, Fits, Length
<1>2. /\ d \in ChipStates /\ d.tcount = n /\ d.fifo = c.fifo /\ d.pos = c.pos /\ d.size = c.size /\ d.phase = c.phase
      /\ d.feed = c.feed /\ (d.target <=> c.target) /\ (d.timer <=> c.timer) /\ d.queued = c.queued /\ (d.irq <=> c.irq)
      /\ d.intr = c.intr /\ (d.dmaActive <=> c.dmaActive)
      /\ d.buf = c.buf /\ d.expect = c.expect /\ (d.owed <=> c.owed) /\ d.chunk = c.chunk /\ d.counter = c.counter
      /\ (d.tcZero <=> c.tcZero)
  <2>1. CASE d = Aims(c, n, b)
    <3>1. d \in ChipStates
      BY <1>1, <2>1 DEF ChipStates, Aims
    <3> QED
      BY <1>1, <2>1, <3>1 DEF ChipStates, Aims
  <2>2. CASE d = Counts(c, n)
    <3>1. d \in ChipStates
      BY <1>1, <2>2 DEF ChipStates, Counts
    <3>2. /\ d.tcount = n /\ d.fifo = c.fifo /\ d.pos = c.pos /\ d.size = c.size /\ d.phase = c.phase
          /\ d.feed = c.feed /\ d.queued = c.queued /\ d.intr = c.intr
          /\ d.buf = c.buf /\ d.expect = c.expect /\ d.chunk = c.chunk /\ d.counter = c.counter
      BY <1>1, <2>2 DEF ChipStates, Counts
    <3>3. /\ (d.target <=> c.target) /\ (d.timer <=> c.timer) /\ (d.irq <=> c.irq) /\ (d.dmaActive <=> c.dmaActive)
          /\ (d.owed <=> c.owed) /\ (d.tcZero <=> c.tcZero)
      BY <1>1, <2>2 DEF ChipStates, Counts
    <3> QED
      BY <3>1, <3>2, <3>3
  <2> QED
    BY <2>1, <2>2
<1> QED
  BY <1>1, <1>2 DEF Formed, Fits, Linked, Writing, Ascending, Quiet, Excused

\* Whatever the free software does.
LEMMA GuestKeeps ==
  ASSUME Base, GuestSteps
  PROVE  Base' /\ driver' = "free" /\ driver = "free"
<1>1. /\ Guest /\ driver = "free" /\ driver' = driver /\ task' = task /\ work' \in 0..MaxWork
      /\ driver' \in Drivers /\ task' \in Seq(CdbBytes)
  <2>1. Guest
    BY DEF GuestSteps, GuestCommands, GuestFeeds, GuestReadsFifo, GuestAcknowledges, GuestTakes, GuestGives, GuestResets
  <2> QED
    BY <2>1, Sizes DEF Guest, Base, Types
<1>2. Formed(chip) /\ Quiet(chip) /\ chip.pos \in Nat
  BY DEF Base, Types, Formed, Fits, ChipStates, Length
<1> SUFFICES Formed(chip') /\ Quiet(chip') /\ Fresh(chip', got') /\ got' \in Seq(1..MaxData)
  BY <1>1 DEF Base, Types
<1>3. CASE GuestCommands
  <2>1. PICK n \in 1..MaxData, b \in BOOLEAN, o \in Order :
          \E c \in Command([chip EXCEPT !.tcount = n, !.dest = b], o) : Becomes(c)
    BY <1>3 DEF GuestCommands
  <2> DEFINE e == Aims(chip, n, b)
  <2>2. PICK c \in Command(e, o) : Becomes(c)
    BY <2>1 DEF Aims
  <2>3. Formed(e) /\ Quiet(e) /\ e.tcount # 0 /\ e.fifo = chip.fifo /\ e.pos = chip.pos
    BY <1>2, <2>1, CountSet
  <2> HIDE DEF e
  <2>4. Formed(c) /\ Quiet(c) /\ Brings(e, c)
    BY <2>2, <2>3, CommandOutcome
  <2>5. Brings(chip, c)
    BY <2>3, <2>4 DEF Brings
  <2> QED
    BY <2>2, <2>4, <2>5, BecomesKeeps
<1>4. CASE GuestFeeds
  <2>1. PICK b \in CdbBytes : \E c \in WriteFifo(chip, b) : Becomes(c)
    BY <1>4 DEF GuestFeeds
  <2>2. PICK c \in WriteFifo(chip, b) : Becomes(c)
    BY <2>1
  <2>3. Formed(c) /\ Quiet(c) /\ Brings(chip, c)
    BY <1>2, <2>2, FifoOutcome
  <2> QED
    BY <2>2, <2>3, BecomesKeeps
<1>5. CASE GuestReadsFifo
  BY <1>5, ReadFifoKeeps DEF GuestReadsFifo
<1>6. CASE GuestAcknowledges
  <2>1. Becomes(ReadInterrupt(chip))
    BY <1>6 DEF GuestAcknowledges
  <2>2. Formed(ReadInterrupt(chip)) /\ Quiet(ReadInterrupt(chip)) /\ Brings(chip, ReadInterrupt(chip))
    BY <1>2, ClearOutcome
  <2> QED
    BY <2>1, <2>2, BecomesKeeps
<1>7. CASE GuestTakes
  <2> DEFINE one == Take16(chip)
  <2>1. PICK d \in {Take8(chip), one, Take16(one)} : PortRead(d)
    BY <1>7 DEF GuestTakes, Take32
  <2>2. chip.dmaActive \/ ~InChunk(chip)
    BY <1>2, <2>1 DEF PortRead, Drq, InChunk, Formed, Linked
  <2>3. Formed(one) /\ Quiet(one) /\ one.fifo = chip.fifo /\ one.pos >= chip.pos /\ (one.dmaActive \/ ~InChunk(one))
    BY <1>2, <2>2, TakeOutcome
  <2>4. Formed(d) /\ Quiet(d) /\ d.fifo = chip.fifo /\ d.pos >= chip.pos
    <3>1. CASE d \in {Take8(chip), Take16(chip)}
      BY <1>2, <2>2, <3>1, TakeOutcome
    <3>2. CASE d = Take16(one)
      <4> HIDE DEF one
      <4>1. Formed(d) /\ Quiet(d) /\ d.fifo = one.fifo /\ d.pos >= one.pos
        BY <2>3, <3>2, TakeOutcome
      <4>2. d.pos \in Nat /\ one.pos \in Nat
        BY <2>3, <4>1 DEF Formed, Fits, ChipStates, Length
      <4> QED
        BY <1>2, <2>3, <4>1, <4>2
    <3> QED
      BY <2>1, <3>1, <3>2
  <2> QED
    BY <2>1, <2>4, PortReadKeeps
<1>8. CASE GuestGives
  <2>1. PICK b \in CdbBytes : \E c \in PortWrite(chip, b) : Becomes(c)
    BY <1>8 DEF GuestGives
  <2>2. PICK c \in PortWrite(chip, b) : Becomes(c)
    BY <2>1
  <2>3. Drq(chip)
    BY <1>8 DEF GuestGives
  <2>4. Formed(c) /\ Quiet(c) /\ Brings(chip, c)
    BY <1>2, <2>2, <2>3, PortOutcome
  <2> QED
    BY <2>2, <2>4, BecomesKeeps
<1>9. CASE GuestResets
  <2> DEFINE r == ResetChip(chip)
             e == [r EXCEPT !.intr = {}, !.irq = FALSE]
             d == Tell(e)
  <2>1. Becomes(d)
    BY <1>9 DEF GuestResets
  <2>2. Formed(r) /\ ~r.owed /\ r.pos = 0 /\ r \in ChipStates
    <3>1. chip \in ChipStates
      BY <1>2 DEF Formed, Fits
    <3> QED
      BY <3>1, ResetOutcome DEF Formed, Fits
  <2> HIDE DEF r
  <2>3. e \in ChipStates /\ Alike(r, e) /\ ~e.owed
    BY ZenonT(60), <2>2 DEF ChipStates, Alike
  <2> HIDE DEF e
  <2>4. Formed(e) /\ Quiet(e) /\ e.pos = 0
    BY <2>2, <2>3, AlikeKeeps DEF Formed, Quiet, Alike
  <2>5. Formed(d) /\ Quiet(d) /\ Alike(e, d)
    BY <2>4, TellKeeps
  <2> HIDE DEF d
  <2>6. Brings(chip, d)
    BY <2>4, <2>5 DEF Brings, Alike
  <2> QED
    BY <2>1, <2>5, <2>6, BecomesKeeps
<1> QED
  BY <1>3, <1>4, <1>5, <1>6, <1>7, <1>8, <1>9 DEF GuestSteps

\* A selection that times out hands its command on.
LEMMA ExpiresKeeps ==
  ASSUME Base, Expires
  PROVE  /\ Base'
         /\ chip.queued = NoOrder => /\ chip'.irq /\ chip'.intr = chip.intr \cup {"disconnected"} /\ ~chip'.timer
                                     /\ chip'.fifo = chip.fifo /\ chip'.pos = chip.pos
         /\ Told(chip') /\ chip'.queued = NoOrder /\ got' = IF chip'.pos = 0 THEN << >> ELSE got
<1>1. PICK c \in TimeOut(chip) : Becomes(c)
  BY DEF Expires
<1>2. Formed(chip) /\ Quiet(chip) /\ chip.timer
  BY DEF Expires, Base, Types
<1>3. /\ Formed(c) /\ Quiet(c) /\ Brings(chip, c) /\ Told(c) /\ c.queued = NoOrder
      /\ chip.queued = NoOrder => /\ c.irq /\ c.intr = chip.intr \cup {"disconnected"} /\ ~c.timer
                                  /\ c.fifo = chip.fifo /\ c.pos = chip.pos
  BY <1>1, <1>2, TimeOutOutcome
<1>4. Formed(chip') /\ Quiet(chip') /\ Fresh(chip', got') /\ got' \in Seq(1..MaxData)
  BY <1>1, <1>3, BecomesKeeps
<1>5. chip' = c /\ got' = IF c.pos = 0 THEN << >> ELSE got
  BY <1>1 DEF Becomes
<1>6. Base'
  BY <1>4 DEF Expires, Base, Types
<1> QED
  BY <1>3, <1>5, <1>6

-----------------------------------------------------------------------------
(* The steps of the Manager                                                *)

LEMMA NothingOfIt ==
  ASSUME NEW c, NEW g, Fresh(c, g), c.pos = 0
  PROVE  g = << >>
<1>1. g \in Seq(1..MaxData) /\ \A i \in 1..Len(g) : g[i] <= 0
  BY DEF Fresh
<1>2. ASSUME Len(g) # 0 PROVE FALSE
  <2>1. 1 \in 1..Len(g)
    BY <1>1, <1>2
  <2>2. g[1] \in 1..MaxData
    BY <1>1, <2>1, ElementOfSeq
  <2>3. g[1] <= 0
    BY <1>1, <2>1
  <2> QED
    BY <2>2, <2>3, Sizes
<1> QED
  BY <1>1, <1>2

LEMMA BecomesSame ==
  ASSUME Base, NEW d, d.pos = chip.pos, Becomes(d)
  PROVE  chip' = d /\ got' = got
  BY NothingOfIt DEF Becomes, Base

LEMMA AnsweredBetween ==
  ASSUME NEW c, NEW d, Answered(c, d), NEW g, g = << >>
  PROVE  Between(d, g)
<1>1. Len(g) = 0 /\ Len(d.fifo) = 0 /\ d.pos = 0
  BY DEF Answered
<1>2. d.pos <= d.size
  BY DEF Answered, Formed, Fits
<1> QED
  BY <1>1, <1>2 DEF Answered, Between

\* A write sends the driver nothing.
LEMMA WritesBetween ==
  ASSUME NEW c, NEW g, Between(c, g), c.phase = "dataOut", NEW d, Moved(c, d), d.pos = c.pos
  PROVE  Between(d, g)
<1>1. d.pos = 0 /\ d.size = 0 /\ g = << >> /\ Len(g) = 0 /\ d.target /\ ~d.feed.on /\ d.phase \in {"dataOut", "status"}
  BY DEF Between, Moved
<1> QED
  BY <1>1 DEF Between

\* A selection that is under way, or has come to its end.
LEMMA Selecting ==
  ASSUME Base, NEW d, Formed(d), Quiet(d), Told(d), Brings(chip, d), d.queued = NoOrder, Becomes(d),
         driver' = "selecting", task' \in Seq(CdbBytes), work' = work, \A i \in 1..Len(got) : got[i] = i,
         \/ (d.timer \/ d.feed.on) /\ ~d.irq /\ d.intr = {} /\ d.pos = chip.pos
         \/ d.irq /\ ~d.timer /\ d.pos = 0 /\ Between(d, << >>)
  PROVE  IInv'
<1>1. Formed(chip') /\ Quiet(chip') /\ Fresh(chip', got') /\ got' \in Seq(1..MaxData)
  BY BecomesKeeps
<1>2. chip' = d
  BY DEF Becomes
<1>3. \A i \in 1..Len(got') : got'[i] = i
  BY DEF Becomes
<1>4. d.irq => Between(d, got') /\ ~d.timer
  BY DEF Becomes
<1>5. Managed'
  BY <1>2, <1>3, <1>4 DEF Managed, Told
<1>6. Types'
  BY <1>1 DEF Types, Drivers, Base
<1> QED
  BY <1>1, <1>5, <1>6 DEF IInv

LEMMA ManagerSelectsKeeps ==
  ASSUME IInv, ManagerSelects
  PROVE  IInv'
<1>1. PICK op \in {Read, Write}, atn \in BOOLEAN, dest \in BOOLEAN : SelectsFor(op, atn, dest)
  BY DEF ManagerSelects
<1> DEFINE g == [chip EXCEPT !.fifo = << >>]
           e == Aims(g, 1, dest)
           o == [cmd |-> IF atn THEN "selectAtn" ELSE "select", dma |-> TRUE]
<1>2. Base /\ Formed(chip) /\ Quiet(chip) /\ chip \in ChipStates /\ chip.pos \in Nat
  BY DEF IInv, Base, Types, Formed, Fits, ChipStates, Length
<1>3. /\ ~chip.irq /\ chip.intr = {} /\ chip.queued = NoOrder /\ ~chip.timer /\ \A i \in 1..Len(got) : got[i] = i
  BY <1>1 DEF IInv, Managed, SelectsFor, Manager
<1>4. /\ Formed(g) /\ Quiet(g) /\ g.fifo = << >> /\ g.pos = chip.pos
      /\ (g.irq <=> chip.irq) /\ g.intr = chip.intr /\ g.queued = chip.queued /\ (g.timer <=> chip.timer)
  <2>1. Formed(g) /\ Quiet(g) /\ g.fifo = << >> /\ g.pos = chip.pos
    BY <1>2, FlushOutcome
  <2> QED
    BY <1>2, <2>1 DEF ChipStates
<1>5. PICK d \in Command(e, o) : Becomes(d)
  <2>1. e = [chip EXCEPT !.fifo = << >>, !.dest = dest, !.tcount = 1]
    BY <1>2 DEF ChipStates, Aims
  <2> QED
    BY <1>1, <2>1 DEF SelectsFor
<1> HIDE DEF g
<1>6. /\ Formed(e) /\ Quiet(e) /\ e.tcount # 0 /\ e.pos = chip.pos /\ ~e.timer /\ e.queued = NoOrder /\ ~e.irq /\ e.intr = {}
  <2>1. 1 \in 1..MaxData
    BY Sizes
  <2> QED
    BY <1>1, <1>3, <1>4, <2>1, CountSet
<1>7. o \in Order /\ o.cmd \in Selects /\ o.dma
  BY DEF Order, Commands, Selects
<1> HIDE DEF e, o
<1>8. d \in Run(e, o)
  BY <1>5, <1>6 DEF Command
<1>9. /\ Formed(d) /\ Quiet(d) /\ Brings(e, d) /\ Told(d) /\ d.queued = NoOrder
      /\ \E f : Formed(f) /\ Alike(e, f) /\ (f.irq <=> e.irq) /\ f.intr = e.intr /\ d \in Execute(f, o)
  <2>1. o.cmd \in Stacking
    BY <1>7 DEF Stacking
  <2> QED
    BY <1>6, <1>7, <1>8, <2>1, RunOutcome
<1>10. PICK f : Formed(f) /\ Alike(e, f) /\ (f.irq <=> e.irq) /\ f.intr = e.intr /\ d \in Execute(f, o)
  BY <1>9
<1>11. d \in BeginSelect(f, o.cmd = "selectAtn", o.dma)
  BY <1>7, <1>10 DEF Execute, Initiator, Selects
<1>12. \/ (d.timer \/ d.feed.on) /\ ~d.irq /\ d.intr = {} /\ d.pos = chip.pos
       \/ d.irq /\ ~d.timer /\ d.pos = 0 /\ Between(d, << >>)
  <2> DEFINE withAtn == o.cmd = "selectAtn"
             dma == o.dma
  <2>1. withAtn \in BOOLEAN /\ dma \in BOOLEAN /\ d \in BeginSelect(f, withAtn, dma)
    BY <1>7, <1>11 DEF Order
  <2>2. Fits(f) /\ Linked(f) /\ f.queued = NoOrder /\ ~f.irq /\ f.intr = {} /\ f.pos = chip.pos
    BY <1>6, <1>10 DEF Formed, Alike
  <2> HIDE DEF withAtn, dma
  <2>3. \/ d.timer /\ (d.irq <=> f.irq) /\ d.intr = f.intr /\ d.pos = f.pos
        \/ Feeding(f, d)
        \/ Answered(f, d)
    BY <2>1, <2>2, SelectOutcome
  <2>4. CASE Answered(f, d)
    <3>1. Between(d, << >>)
      BY <2>4, AnsweredBetween
    <3> QED
      BY <2>4, <3>1 DEF Answered, Formed, Linked
  <2> QED
    BY <2>2, <2>3, <2>4 DEF Feeding
<1>13. task' \in Seq(CdbBytes) /\ driver' = "selecting" /\ work' = work
  <2> DEFINE first == IF atn THEN << 0 >> ELSE << >>
             rest == [i \in 1..CdbLength - 1 |-> 0]
             byte == << op >>
  <2>1. first \in Seq(CdbBytes) /\ byte \in Seq(CdbBytes)
    <3>1. 0 \in CdbBytes /\ op \in CdbBytes
      BY <1>1 DEF CdbBytes
    <3>2. << 0 >> \in Seq(CdbBytes) /\ << >> \in Seq(CdbBytes) /\ byte \in Seq(CdbBytes)
      BY <3>1
    <3> QED
      BY <3>2
  <2>2. rest \in Seq(CdbBytes)
    <3>1. CdbLength - 1 \in Nat
      BY Sizes
    <3> QED
      BY <3>1 DEF CdbBytes
  <2>3. task' = first \o byte \o rest /\ driver' = "selecting" /\ work' = work
    BY <1>1 DEF SelectsFor, Manager, ManagerSelects
  <2> HIDE DEF first, rest, byte
  <2> QED
    BY <2>1, <2>2, <2>3
<1>14. Brings(chip, d)
  <2>1. CASE d.pos = 0
    BY <2>1 DEF Brings
  <2>2. CASE d.pos # 0
    <3>1. e.fifo = << >> /\ Len(e.fifo) = 0
      BY <1>1, <1>3, <1>4, CountSet, Sizes DEF e
    <3> QED
      BY <1>6, <1>9, <2>2, <3>1 DEF Brings
  <2> QED
    BY <2>1, <2>2
<1> QED
  BY <1>2, <1>3, <1>5, <1>9, <1>12, <1>13, <1>14, Selecting

LEMMA ManagerFeedsKeeps ==
  ASSUME IInv, ManagerFeeds, work' = work
  PROVE  IInv'
<1>1. Base /\ Formed(chip) /\ Quiet(chip)
  BY DEF IInv, Base, Types
<1>2. /\ ~chip.irq /\ chip.intr = {} /\ chip.queued = NoOrder /\ chip.feed.on /\ \A i \in 1..Len(got) : got[i] = i
  BY DEF IInv, Managed, ManagerFeeds
<1> DEFINE b == Head(task)
<1>3. task # << >> /\ task \in Seq(CdbBytes) /\ b \in CdbBytes /\ Tail(task) \in Seq(CdbBytes)
  BY DEF IInv, Types, ManagerFeeds
<1>4. PICK d \in WriteFifo(chip, b) \cup PortWrite(chip, b) : Becomes(d)
  BY DEF ManagerFeeds
<1> HIDE DEF b
<1>5. Formed(d) /\ Quiet(d) /\ Told(d) /\ Brings(chip, d) /\ (Feeding(chip, d) \/ Answered(chip, d))
  BY <1>1, <1>2, <1>3, <1>4, FifoOutcome, PortOutcome
<1>6. d.queued = NoOrder
  BY <1>2, <1>5 DEF Feeding, Answered
<1>7. \/ (d.timer \/ d.feed.on) /\ ~d.irq /\ d.intr = {} /\ d.pos = chip.pos
      \/ d.irq /\ ~d.timer /\ d.pos = 0 /\ Between(d, << >>)
  <2>1. CASE Answered(chip, d)
    <3>1. Between(d, << >>)
      BY <2>1, AnsweredBetween
    <3> QED
      BY <2>1, <3>1 DEF Answered, Formed, Linked
  <2> QED
    BY <1>2, <1>5, <2>1 DEF Feeding
<1>8. driver' = "selecting" /\ task' \in Seq(CdbBytes)
  BY <1>3 DEF ManagerFeeds
<1> QED
  BY <1>1, <1>2, <1>4, <1>5, <1>6, <1>7, <1>8, Selecting

LEMMA ManagerAcknowledgesKeeps ==
  ASSUME IInv, ManagerAcknowledges, work' = work
  PROVE  IInv'
<1> DEFINE d == ReadInterrupt(chip)
<1>1. Base /\ Formed(chip) /\ Quiet(chip)
  BY DEF IInv, Base, Types
<1>2. Formed(d) /\ Quiet(d) /\ Told(d) /\ Alike(chip, d) /\ Brings(chip, d) /\ ~d.irq /\ d.intr = {}
  BY <1>1, ClearOutcome
<1>3. Becomes(d)
  BY DEF ManagerAcknowledges
<1> HIDE DEF d
<1>4. Formed(chip') /\ Quiet(chip') /\ Fresh(chip', got') /\ got' \in Seq(1..MaxData)
  BY <1>1, <1>2, <1>3, BecomesKeeps
<1>5. chip' = d /\ got' = got
  BY <1>1, <1>2, <1>3, BecomesSame DEF Alike
<1>6. /\ chip.irq /\ driver \in {"selecting", "moving", "ending"} /\ task' = task
      /\ driver' = IF "disconnected" \in chip.intr THEN "idle" ELSE IF driver = "ending" THEN "status" ELSE "dispatch"
  BY DEF ManagerAcknowledges
<1>7. chip.queued = NoOrder /\ ~chip.timer /\ \A i \in 1..Len(got) : got[i] = i
  BY <1>6 DEF IInv, Managed
<1>8. /\ driver' = "dispatch" => Between(chip, got)
      /\ driver' = "status" => chip.pos = chip.size /\ Len(got) = chip.size /\ NoData(chip)
  BY <1>6 DEF IInv, Managed
<1>9. /\ Between(chip, got) => Between(d, got)
      /\ NoData(chip) => NoData(d)
  BY <1>2 DEF Alike, Between, NoData
<1>10. d.queued = NoOrder /\ ~d.timer /\ d.pos = chip.pos /\ d.size = chip.size
  BY <1>2, <1>7 DEF Alike
<1>11. driver' \in {"idle", "status", "dispatch"}
  BY <1>6
<1>12. Managed'
  BY <1>2, <1>5, <1>7, <1>8, <1>9, <1>10, <1>11 DEF Managed, Told
<1>13. Types'
  BY <1>4, <1>6, <1>11 DEF Types, Drivers, IInv
<1> QED
  BY <1>4, <1>12, <1>13 DEF IInv

\* One more step of the data phase, or the first one behind it.
LEMMA Underway ==
  ASSUME Base, NEW d, NEW h, Formed(d), Quiet(d), Told(d), Fresh(d, h), chip' = d, got' = h,
         d.queued = NoOrder, ~d.timer, Between(d, h), "disconnected" \notin d.intr, ~d.irq => d.intr = {},
         \A i \in 1..Len(h) : h[i] = i, driver' = "moving" \/ (driver' = "dispatch" /\ ~d.irq), task' = task, work' = work
  PROVE  IInv'
<1>1. driver' \in Drivers /\ driver' \in {"moving", "dispatch"}
  BY DEF Drivers
<1>2. Types'
  BY <1>1 DEF Types, Base, Fresh
<1>3. Managed'
  BY <1>1 DEF Managed, Told
<1> QED
  BY <1>2, <1>3 DEF IInv

LEMMA ManagerTransfersKeeps ==
  ASSUME IInv, ManagerTransfers, work' = work
  PROVE  IInv'
<1>1. PICK n \in 1..MaxData, dma \in BOOLEAN :
        /\ \/ chip.phase = "dataIn" /\ chip.fifo = << >>
           \/ chip.phase = "dataOut" /\ dma = (chip.fifo = << >>)
        /\ \E c \in Command(Counts(chip, n), [cmd |-> "transfer", dma |-> dma]) : Becomes(c)
  BY DEF ManagerTransfers, Counts
<1> DEFINE e == Counts(chip, n)
           o == [cmd |-> "transfer", dma |-> dma]
<1>2. PICK d \in Command(e, o) : Becomes(d)
  BY <1>1
<1>3. Base /\ Formed(chip) /\ Quiet(chip) /\ Fresh(chip, got) /\ chip.pos \in Nat
  BY DEF IInv, Base, Types, Formed, Fits, ChipStates, Length
<1>4. /\ ~chip.irq /\ chip.intr = {} /\ chip.queued = NoOrder /\ ~chip.timer /\ (\A i \in 1..Len(got) : got[i] = i)
      /\ Between(chip, got) /\ driver' = "moving" /\ task' = task
  BY DEF IInv, Managed, ManagerTransfers, Manager
<1>5. /\ Formed(e) /\ Quiet(e) /\ e.tcount # 0 /\ e.pos = chip.pos /\ e.size = chip.size /\ e.phase = chip.phase
      /\ e.fifo = chip.fifo /\ e.feed = chip.feed /\ (e.target <=> chip.target)
      /\ ~e.timer /\ e.queued = NoOrder /\ ~e.irq /\ e.intr = {}
  <2>1. TRUE \in BOOLEAN
    OBVIOUS
  <2> QED
    BY <1>1, <1>3, <1>4, <2>1, CountSet
<1> HIDE DEF e
<1>6. o \in Order /\ o.cmd = "transfer" /\ o.dma = dma
  BY <1>1 DEF Order, Commands
<1> HIDE DEF o
<1>7. d \in Run(e, o)
  BY <1>2, <1>5 DEF Command
<1>8. PICK f : Formed(f) /\ Alike(e, f) /\ (f.irq <=> e.irq) /\ f.intr = e.intr /\ d \in Execute(f, o)
  BY <1>5, <1>6, <1>7, RunOutcome DEF Stacking, Initiator
<1>9. f.target /\ f.queued = NoOrder /\ f.phase = chip.phase /\ f.fifo = chip.fifo /\ f.pos = chip.pos /\ f.size = chip.size
      /\ ~f.irq /\ f.intr = {} /\ ~f.timer /\ f.tcount # 0 /\ f.feed = chip.feed /\ f.phase # "command"
  BY <1>1, <1>4, <1>5, <1>8 DEF Alike, Between
<1>10. d \in Transfer(f, dma)
  BY <1>6, <1>8, <1>9 DEF Execute, Selects
<1>11. /\ Formed(d) /\ Quiet(d) /\ Told(d) /\ d.queued = NoOrder /\ Moved(f, d) /\ Brings(f, d)
       /\ IF f.phase = "dataIn"
          THEN \/ d.fifo = f.fifo /\ d.pos = f.pos /\ (d.dmaActive => dma)
               \/ /\ ~d.dmaActive /\ f.pos < f.size /\ d.pos = f.pos + 1 /\ d.irq
                  /\ d.fifo = IF Len(f.fifo) < Fifo THEN Append(f.fifo, DataByte + f.pos + 1) ELSE f.fifo
          ELSE d.pos = f.pos
  BY <1>1, <1>8, <1>9, <1>10, TransferOutcome
<1>12. Brings(chip, d) /\ Moved(chip, d)
  BY <1>4, <1>9, <1>11, <1>5, <1>8 DEF Brings, Moved, Between
<1>13. Fresh(d, got') /\ chip' = d
  BY <1>2, <1>3, <1>11, <1>12, BecomesKeeps DEF Becomes
<1>14. Between(d, got) /\ got' = got
  <2>1. CASE chip.phase = "dataOut"
    <3>1. d.pos = chip.pos
      BY <1>9, <1>11, <2>1
    <3> QED
      BY <1>2, <1>3, <1>4, <1>12, <2>1, <3>1, WritesBetween, BecomesSame
  <2>2. CASE chip.phase = "dataIn"
    <3>1. chip.fifo = << >> /\ Len(chip.fifo) = 0 /\ Len(got) \in Nat /\ Len(got) = chip.pos
      <4>1. chip.fifo = << >> /\ Len(got) \in Nat
        BY <1>1, <1>3, <2>2 DEF Fresh
      <4> QED
        BY <1>4, <2>2, <4>1 DEF Between
    <3>2. CASE d.fifo = f.fifo /\ d.pos = f.pos
      <4>1. d.fifo = << >> /\ Len(d.fifo) = 0 /\ d.pos = chip.pos
        BY <1>9, <3>1, <3>2
      <4>2. got' = got
        BY <1>2, <1>3, <4>1, BecomesSame
      <4>3. d.target /\ ~d.feed.on /\ d.phase \in {"dataIn", "status"} /\ (d.phase = "status" => d.pos = d.size)
        BY <1>4, <1>12, <2>2 DEF Moved, Between
      <4> QED
        BY <3>1, <4>1, <4>2, <4>3 DEF Between
    <3>3. CASE /\ ~d.dmaActive /\ f.pos < f.size /\ d.pos = f.pos + 1 /\ d.irq
               /\ d.fifo = IF Len(f.fifo) < Fifo THEN Append(f.fifo, DataByte + f.pos + 1) ELSE f.fifo
      <4> DEFINE b == DataByte + chip.pos + 1
      <4>1. d.fifo = Append(<< >>, b)
        <5>1. Len(f.fifo) < Fifo
          BY <1>9, <3>1, Sizes
        <5>2. d.fifo = Append(f.fifo, DataByte + f.pos + 1)
          BY <3>3, <5>1
        <5> QED
          BY <1>9, <3>1, <5>2
      <4> HIDE DEF b
      <4>2. Len(d.fifo) = 1 /\ d.fifo[1] = b /\ d.fifo # << >>
        BY <4>1
      <4>3. got' = got
        BY <1>2, <1>3, <1>9, <3>3 DEF Becomes
      <4>4. d.target /\ ~d.feed.on /\ d.phase = "dataIn"
        BY <1>4, <1>12, <2>2, <4>2 DEF Moved, Between
      <4>5. \A i \in 1..Len(d.fifo) : d.fifo[i] = DataByte + Len(got) + i
        BY <3>1, <4>2 DEF b
      <4> QED
        BY <1>9, <3>1, <3>3, <4>2, <4>3, <4>4, <4>5 DEF Between
    <3> QED
      BY <1>9, <1>11, <2>2, <3>2, <3>3
  <2> QED
    BY <1>1, <2>1, <2>2
<1>15. ~d.timer /\ "disconnected" \notin d.intr /\ (~d.irq => d.intr = {})
  BY <1>4, <1>12 DEF Moved
<1> HIDE DEF e, o
<1> QED
  BY <1>3, <1>4, <1>11, <1>13, <1>14, <1>15, Underway

LEMMA ManagerMovesKeeps ==
  ASSUME IInv, ManagerMoves, work' = work
  PROVE  IInv'
<1>1. Base /\ Formed(chip) /\ Quiet(chip) /\ Fresh(chip, got) /\ chip.pos \in Nat /\ Len(got) \in Nat
  BY DEF IInv, Base, Types, Formed, Fits, ChipStates, Length
<1>2. /\ ~chip.irq /\ chip.intr = {} /\ chip.queued = NoOrder /\ ~chip.timer /\ (\A i \in 1..Len(got) : got[i] = i)
      /\ Between(chip, got) /\ driver' = "moving" /\ task' = task /\ Told(chip) /\ chip.told /\ ~chip.feed.on
  BY DEF IInv, Managed, ManagerMoves, Told, Between
<1>3. ASSUME NEW d, Moved(chip, d)
      PROVE  /\ ~d.timer /\ "disconnected" \notin d.intr /\ (~d.irq => d.intr = {}) /\ d.queued = NoOrder
             /\ d.target /\ ~d.feed.on /\ d.size = chip.size
  BY <1>2, <1>3 DEF Moved, Between
<1>4. CASE chip.phase = "dataIn" /\ (PortRead(Take8(chip)) \/ PortRead(Take16(chip)))
  <2>1. PICK d \in {Take8(chip), Take16(chip)} : PortRead(d)
    BY <1>4
  <2>2. chip.dmaActive /\ chip.fifo = << >> /\ Len(chip.fifo) = 0
    <3>1. chip.dmaActive
      BY <1>1, <1>2, <2>1 DEF PortRead, Drq, Formed, Linked
    <3>2. chip.fifo = << >>
      BY <1>2, <1>4, <3>1 DEF Between
    <3> QED
      BY <3>1, <3>2
  <2>3. Formed(d) /\ Quiet(d) /\ Told(d) /\ Moved(chip, d) /\ d.fifo = chip.fifo /\ d.pos >= chip.pos
    BY <1>1, <2>1, <2>2, TakeOutcome
  <2>4. /\ Fresh(chip', got') /\ chip' = d /\ Len(got') = Len(got) + d.pos - chip.pos
        /\ \A i \in 1..Len(got) : got'[i] = got[i]
        /\ \A i \in Len(got) + 1..Len(got') : got'[i] = chip.pos + (i - Len(got))
    BY <1>1, <2>1, <2>3, PortReadKeeps
  <2>5. d.pos \in Nat
    BY <2>3 DEF Formed, Fits, ChipStates, Length
  <2>6. Len(got) = chip.pos /\ Len(got') = d.pos
    <3>1. Len(got) + Len(chip.fifo) = chip.pos
      BY <1>2, <1>4 DEF Between
    <3>2. Len(got) = chip.pos
      BY <1>1, <2>2, <3>1
    <3> QED
      BY <1>1, <2>4, <2>5, <3>2
  <2>7. \A i \in 1..Len(got') : got'[i] = i
    <3> SUFFICES ASSUME NEW i \in 1..Len(got') PROVE got'[i] = i
      OBVIOUS
    <3>1. CASE i <= Len(got)
      <4>1. i \in 1..Len(got)
        BY <1>1, <2>5, <2>6, <3>1
      <4> QED
        BY <1>2, <2>4, <4>1
    <3>2. CASE ~(i <= Len(got))
      <4>1. i \in Len(got) + 1..Len(got')
        BY <1>1, <2>5, <2>6, <3>2
      <4>2. got'[i] = chip.pos + (i - Len(got)) /\ i \in Nat
        BY <2>4, <2>5, <2>6, <4>1
      <4> QED
        BY <1>1, <2>6, <4>2
    <3> QED
      BY <3>1, <3>2
  <2>8. Between(d, got')
    <3>1. d.phase \in {"dataIn", "status"} /\ (d.phase = "status" => d.pos = d.size) /\ d.fifo = << >> /\ Len(d.fifo) = 0
      BY <1>4, <2>2, <2>3 DEF Moved
    <3>2. d.target /\ ~d.feed.on
      BY <1>3, <2>3
    <3> QED
      BY <2>5, <2>6, <3>1, <3>2 DEF Between
  <2>9. ~d.timer /\ "disconnected" \notin d.intr /\ (~d.irq => d.intr = {}) /\ d.queued = NoOrder
    BY <1>3, <2>3
  <2> QED
    BY <1>1, <1>2, <2>3, <2>4, <2>7, <2>8, <2>9, Underway
<1>5. CASE Drq(chip) /\ chip.phase = "dataOut" /\ \E c \in PortWrite(chip, 0) : Becomes(c)
  <2>1. PICK d \in PortWrite(chip, 0) : Becomes(d)
    BY <1>5
  <2>2. 0 \in CdbBytes
    BY DEF CdbBytes
  <2>3. Formed(d) /\ Quiet(d) /\ Told(d) /\ Brings(chip, d) /\ Moved(chip, d) /\ d.pos = chip.pos
    BY <1>1, <1>2, <1>5, <2>1, <2>2, PortOutcome
  <2>4. Between(d, got) /\ got' = got /\ chip' = d
    BY <1>1, <1>2, <1>5, <2>1, <2>3, WritesBetween, BecomesSame
  <2>5. Fresh(d, got')
    BY <1>1, <2>1, <2>3, <2>4, BecomesKeeps
  <2>6. ~d.timer /\ "disconnected" \notin d.intr /\ (~d.irq => d.intr = {}) /\ d.queued = NoOrder
    BY <1>3, <2>3
  <2> QED
    BY <1>1, <1>2, <2>3, <2>4, <2>5, <2>6, Underway
<1> QED
  BY <1>4, <1>5 DEF ManagerMoves

\* A byte leaves the FIFO by its register.
LEMMA PoppedByte ==
  ASSUME Base, chip.fifo # << >>, Told(chip), ReadFifo, NEW b, b = chip.fifo[1]
  PROVE  /\ chip' = [chip EXCEPT !.fifo = Tail(chip.fifo)] /\ Told(chip') /\ b \in Bytes
         /\ chip'.fifo = Tail(chip.fifo) /\ Formed(chip') /\ Quiet(chip') /\ Fresh(chip', got')
         /\ got' = IF b > DataByte THEN Append(got, b - DataByte) ELSE got
         /\ Len(chip'.fifo) = Len(chip.fifo) - 1 /\ Len(chip.fifo) \in Nat /\ Len(chip.fifo) # 0
         /\ \A i \in 1..Len(chip'.fifo) : i + 1 \in 1..Len(chip.fifo) /\ chip'.fifo[i] = chip.fifo[i + 1]
<1>1. Formed(chip) /\ Quiet(chip) /\ chip \in ChipStates /\ chip.fifo \in Seq(Bytes)
  BY DEF Base, Types, Formed, Fits, ChipStates
<1>2. chip' = Pop(chip) /\ PopByte(chip) = b /\ got' = IF b > DataByte THEN Append(got, b - DataByte) ELSE got
  BY <1>1 DEF ReadFifo, PopByte
<1>3. chip'.fifo = Tail(chip.fifo) /\ chip' = [chip EXCEPT !.fifo = chip'.fifo] /\ Told(chip')
  BY <1>1, <1>2, PopOutcome
<1>4. Formed(chip') /\ Quiet(chip') /\ Fresh(chip', got')
  BY ReadFifoKeeps
<1>5. /\ Len(chip'.fifo) = Len(chip.fifo) - 1 /\ Len(chip.fifo) \in Nat /\ Len(chip.fifo) # 0
      /\ \A i \in 1..Len(chip'.fifo) : i + 1 \in 1..Len(chip.fifo) /\ chip'.fifo[i] = chip.fifo[i + 1]
  BY <1>1, <1>3
<1>6. b \in Bytes
  <2>1. 1 \in 1..Len(chip.fifo)
    BY <1>5
  <2> QED
    BY <1>1, <2>1, ElementOfSeq
<1> QED
  BY <1>2, <1>3, <1>4, <1>5, <1>6

LEMMA ManagerPollsKeeps ==
  ASSUME IInv, ManagerPolls, work' = work
  PROVE  IInv'
<1>1. Base /\ Formed(chip) /\ Quiet(chip) /\ Fresh(chip, got) /\ chip.pos \in Nat /\ Len(got) \in Nat /\ chip \in ChipStates
  BY DEF IInv, Base, Types, Formed, Fits, ChipStates, Length
<1>2. /\ ~chip.irq /\ chip.intr = {} /\ chip.queued = NoOrder /\ ~chip.timer /\ (\A i \in 1..Len(got) : got[i] = i)
      /\ Between(chip, got) /\ driver' = "dispatch" /\ task' = task /\ Told(chip) /\ ~chip.feed.on
  BY DEF IInv, Managed, ManagerPolls, Told, Between
<1>3. CASE chip.phase = "dataIn" /\ chip.fifo # << >> /\ ReadFifo
  <2> DEFINE b == chip.fifo[1]
             x == b - DataByte
  <2>1. /\ chip' = [chip EXCEPT !.fifo = Tail(chip.fifo)] /\ Told(chip') /\ b \in Bytes
        /\ chip'.fifo = Tail(chip.fifo) /\ Formed(chip') /\ Quiet(chip') /\ Fresh(chip', got')
        /\ got' = IF b > DataByte THEN Append(got, b - DataByte) ELSE got
        /\ Len(chip'.fifo) = Len(chip.fifo) - 1 /\ Len(chip.fifo) \in Nat /\ Len(chip.fifo) # 0
        /\ \A i \in 1..Len(chip'.fifo) : i + 1 \in 1..Len(chip.fifo) /\ chip'.fifo[i] = chip.fifo[i + 1]
    BY <1>1, <1>2, <1>3, PoppedByte
  <2>2. b = DataByte + Len(got) + 1 /\ Len(got) + Len(chip.fifo) = chip.pos /\ ~chip.dmaActive
    <3>1. 1 \in 1..Len(chip.fifo)
      BY <2>1
    <3> QED
      BY <1>2, <1>3, <3>1 DEF Between
  <2> HIDE DEF b
  <2>3. b > DataByte /\ x = Len(got) + 1
    BY <1>1, <2>2 DEF DataByte
  <2> HIDE DEF x
  <2>4. got' = Append(got, x)
    BY <2>1, <2>3 DEF x
  <2>5. got \in Seq(1..MaxData) /\ got' \in Seq(1..MaxData)
    BY <1>1, <2>1 DEF Fresh
  <2>6. Len(got') = Len(got) + 1 /\ got'[Len(got) + 1] = x /\ \A i \in 1..Len(got) : got'[i] = got[i]
    BY <2>4, <2>5
  <2>7. \A i \in 1..Len(got') : got'[i] = i
    <3> SUFFICES ASSUME NEW i \in 1..Len(got') PROVE got'[i] = i
      OBVIOUS
    <3>1. i \in 1..Len(got) \/ i = Len(got) + 1
      BY <1>1, <2>6
    <3> QED
      BY <1>2, <2>3, <2>6, <3>1
  <2>8. /\ chip'.phase = "dataIn" /\ (chip'.target <=> chip.target) /\ chip'.feed = chip.feed /\ chip'.pos = chip.pos
        /\ (chip'.dmaActive <=> chip.dmaActive) /\ (chip'.irq <=> chip.irq) /\ chip'.intr = chip.intr
        /\ chip'.queued = chip.queued /\ (chip'.timer <=> chip.timer)
    BY <1>1, <1>3, <2>1 DEF ChipStates
  <2>9. Between(chip', got')
    <3>1. chip'.target /\ ~chip'.feed.on /\ ~chip'.dmaActive
      BY <1>2, <2>2, <2>8 DEF Between
    <3>2. Len(got') + Len(chip'.fifo) = chip'.pos
      <4> DEFINE n == Len(got)
                 m == Len(chip.fifo)
      <4>1. Len(got') = n + 1 /\ n \in Nat
        BY <1>1, <2>6
      <4>2. Len(chip'.fifo) = m - 1 /\ m \in Nat
        BY <2>1
      <4>3. n + m = chip'.pos
        BY <2>2, <2>8
      <4> HIDE DEF n, m
      <4> QED
        BY <4>1, <4>2, <4>3
    <3>3. \A i \in 1..Len(chip'.fifo) : chip'.fifo[i] = DataByte + Len(got') + i
      <4> SUFFICES ASSUME NEW i \in 1..Len(chip'.fifo) PROVE chip'.fifo[i] = DataByte + Len(got') + i
        OBVIOUS
      <4>1. chip'.fifo[i] = DataByte + Len(got) + (i + 1) /\ i \in Nat
        BY <1>2, <1>3, <2>1 DEF Between
      <4> QED
        BY <1>1, <2>6, <4>1 DEF DataByte
    <3> QED
      BY <2>8, <3>1, <3>2, <3>3 DEF Between
  <2> QED
    BY <1>1, <1>2, <2>1, <2>7, <2>8, <2>9, Underway
<1>4. CASE chip.phase = "dataOut" /\ \E c \in WriteFifo(chip, 0) : Becomes(c)
  <2>1. PICK d \in WriteFifo(chip, 0) : Becomes(d)
    BY <1>4
  <2>2. 0 \in CdbBytes
    BY DEF CdbBytes
  <2>3. Formed(d) /\ Quiet(d) /\ Told(d) /\ Brings(chip, d) /\ Moved(chip, d) /\ d.pos = chip.pos /\ (d.irq <=> chip.irq)
    BY <1>1, <1>2, <2>1, <2>2, FifoOutcome
  <2>4. Between(d, got) /\ got' = got /\ chip' = d
    BY <1>1, <1>2, <1>4, <2>1, <2>3, WritesBetween, BecomesSame
  <2>5. Fresh(d, got')
    BY <1>1, <2>1, <2>3, <2>4, BecomesKeeps
  <2>6. ~d.timer /\ ~d.irq /\ d.intr = {} /\ "disconnected" \notin d.intr /\ d.queued = NoOrder
    BY <1>2, <2>3 DEF Moved
  <2> QED
    BY <1>1, <1>2, <2>3, <2>4, <2>5, <2>6, Underway
<1> QED
  BY <1>3, <1>4 DEF ManagerPolls

LEMMA ManagerSeesCountKeeps ==
  ASSUME IInv, ManagerSeesCount, work' = work
  PROVE  IInv'
<1>1. Base /\ Formed(chip) /\ Quiet(chip) /\ Fresh(chip, got)
  BY DEF IInv, Base, Types
<1>2. /\ ~chip.irq /\ chip.intr = {} /\ chip.queued = NoOrder /\ ~chip.timer /\ (\A i \in 1..Len(got) : got[i] = i)
      /\ Between(chip, got) /\ driver' = "dispatch" /\ task' = task /\ Told(chip) /\ chip' = chip /\ got' = got
  BY DEF IInv, Managed, ManagerSeesCount, Manager, Told
<1> QED
  BY <1>1, <1>2, Underway

\* The data is all there; the rest of the request moves status and message.
LEMMA Behind ==
  ASSUME Base, NEW d, NEW h, Formed(d), Quiet(d), Told(d), Fresh(d, h), chip' = d, got' = h,
         d.queued = NoOrder, ~d.timer, d.pos = d.size, Len(h) = d.size, NoData(d), ~d.irq => d.intr = {},
         \A i \in 1..Len(h) : h[i] = i, (driver' = "ending" /\ d.irq) \/ (driver' = "status" /\ ~d.irq), task' = task, work' = work
  PROVE  IInv'
<1>1. driver' \in Drivers /\ driver' \in {"ending", "status"}
  BY DEF Drivers
<1>2. Types'
  BY <1>1 DEF Types, Base, Fresh
<1>3. Managed'
  BY <1>1 DEF Managed, Told
<1> QED
  BY <1>2, <1>3 DEF IInv

LEMMA ManagerCompletesKeeps ==
  ASSUME IInv, ManagerCompletes, work' = work
  PROVE  IInv'
<1> DEFINE o == [cmd |-> "complete", dma |-> FALSE]
<1>1. PICK d \in Command(chip, o) : Becomes(d)
  BY DEF ManagerCompletes
<1>2. Base /\ Formed(chip) /\ Quiet(chip) /\ Fresh(chip, got) /\ chip.pos \in Nat
  BY DEF IInv, Base, Types, Formed, Fits, ChipStates, Length
<1>3. /\ ~chip.irq /\ chip.intr = {} /\ chip.queued = NoOrder /\ ~chip.timer /\ (\A i \in 1..Len(got) : got[i] = i)
      /\ Between(chip, got) /\ driver' = "ending" /\ task' = task /\ chip.phase = "status"
  BY DEF IInv, Managed, ManagerCompletes, Manager
<1>4. o \in Order /\ o.cmd = "complete" /\ ~o.dma
  BY DEF Order, Commands
<1> HIDE DEF o
<1>5. d \in Run(chip, o)
  BY <1>1, <1>3 DEF Command
<1>6. PICK f : Formed(f) /\ Alike(chip, f) /\ (f.irq <=> chip.irq) /\ f.intr = chip.intr /\ d \in Execute(f, o)
  BY <1>2, <1>3, <1>4, <1>5, RunOutcome
<1>7. f.target /\ f.queued = NoOrder /\ f.pos = chip.pos /\ f.size = chip.size
  BY <1>3, <1>6 DEF Alike, Between
<1>8. d = Completed(f)
  BY <1>4, <1>6, <1>7 DEF Execute, Selects, Completed
<1>9. /\ Formed(d) /\ Quiet(d) /\ Told(d) /\ Brings(f, d) /\ NoData(d) /\ d.pos = f.pos /\ d.size = f.size /\ d.irq
      /\ d.queued = f.queued /\ ~d.timer
  BY <1>6, <1>7, <1>8, CompleteOutcome
<1>10. chip' = d /\ got' = got
  BY <1>1, <1>2, <1>7, <1>9, BecomesSame
<1>11. Fresh(d, got)
  <2>1. Brings(chip, d)
    BY <1>6, <1>7, <1>9 DEF Brings, Alike
  <2> QED
    BY <1>1, <1>2, <1>9, <1>10, <2>1, BecomesKeeps
<1>12. d.pos = d.size /\ Len(got) = d.size
  BY <1>3, <1>7, <1>9 DEF Between
<1> QED
  BY <1>2, <1>3, <1>7, <1>9, <1>10, <1>11, <1>12, Behind

LEMMA ManagerAcceptsKeeps ==
  ASSUME IInv, ManagerAccepts, work' = work
  PROVE  IInv'
<1>1. Base /\ Formed(chip) /\ Quiet(chip) /\ Fresh(chip, got) /\ chip.pos \in Nat /\ chip \in ChipStates
  BY DEF IInv, Base, Types, Formed, Fits, ChipStates, Length
<1>2. /\ ~chip.irq /\ chip.intr = {} /\ chip.queued = NoOrder /\ ~chip.timer /\ (\A i \in 1..Len(got) : got[i] = i)
      /\ chip.pos = chip.size /\ Len(got) = chip.size /\ NoData(chip) /\ task' = task /\ Told(chip)
  BY DEF IInv, Managed, ManagerAccepts, Told
<1>3. CASE chip.fifo # << >>
  <2> DEFINE b == chip.fifo[1]
  <2>1. driver' = "status" /\ ReadFifo
    BY <1>3 DEF ManagerAccepts
  <2>2. /\ chip' = [chip EXCEPT !.fifo = Tail(chip.fifo)] /\ Told(chip') /\ b \in Bytes
        /\ Formed(chip') /\ Quiet(chip') /\ Fresh(chip', got')
        /\ got' = IF b > DataByte THEN Append(got, b - DataByte) ELSE got
        /\ Len(chip.fifo) \in Nat /\ Len(chip.fifo) # 0
        /\ \A i \in 1..Len(chip'.fifo) : i + 1 \in 1..Len(chip.fifo) /\ chip'.fifo[i] = chip.fifo[i + 1]
    BY <1>1, <1>2, <1>3, <2>1, PoppedByte
  <2>3. got' = got
    <3>1. 1 \in 1..Len(chip.fifo)
      BY <2>2
    <3>2. b <= DataByte /\ b \in Nat
      BY <1>2, <2>2, <3>1, ByteFacts DEF NoData
    <3> HIDE DEF b
    <3> QED
      BY <2>2, <3>2 DEF DataByte
  <2>4. NoData(chip')
    BY <1>2, <2>2 DEF NoData
  <2>5. /\ (chip'.irq <=> chip.irq) /\ chip'.intr = chip.intr /\ chip'.queued = chip.queued /\ (chip'.timer <=> chip.timer)
        /\ chip'.pos = chip.pos /\ chip'.size = chip.size
    BY <1>1, <2>2 DEF ChipStates
  <2> QED
    BY <1>1, <1>2, <2>1, <2>2, <2>3, <2>4, <2>5, Behind
<1>4. CASE chip.fifo = << >>
  <2> DEFINE o == [cmd |-> "accept", dma |-> FALSE]
  <2>1. PICK d \in Command(chip, o) : Becomes(d)
    BY <1>4 DEF ManagerAccepts
  <2>2. driver' = "ending"
    BY <1>4 DEF ManagerAccepts
  <2>3. o \in Order /\ o.cmd = "accept" /\ ~o.dma /\ o.cmd \in Stacking
    BY DEF Order, Commands, Stacking, Initiator
  <2> HIDE DEF o
  <2>4. d \in Run(chip, o)
    BY <1>2, <2>1 DEF Command
  <2>5. /\ Formed(d) /\ Quiet(d) /\ Brings(chip, d) /\ Told(d) /\ d.queued = NoOrder
        /\ \E f : Formed(f) /\ Alike(chip, f) /\ (f.irq <=> chip.irq) /\ f.intr = chip.intr /\ d \in Execute(f, o)
    BY <1>1, <1>2, <2>3, <2>4, RunOutcome
  <2>6. PICK f : Formed(f) /\ Alike(chip, f) /\ (f.irq <=> chip.irq) /\ f.intr = chip.intr /\ d \in Execute(f, o)
    BY <2>5
  <2>7. d.irq /\ ~d.timer /\ d.fifo = << >> /\ d.pos = chip.pos /\ d.size = chip.size
    <3>1. CASE ~f.target
      <4>1. d = Raise(f, {"illegal"})
        BY <2>3, <2>6, <3>1 DEF Execute, Initiator
      <4>2. f \in ChipStates /\ {"illegal"} \in SUBSET Bits
        BY <2>6 DEF Formed, Fits, Bits
      <4>3. Alike(f, d) /\ d.irq
        BY <4>1, <4>2, RaiseFacts
      <4> QED
        BY <1>2, <1>4, <2>6, <4>3 DEF Alike
    <3>2. CASE f.target
      <4>1. d = Accepted(f)
        BY <2>3, <2>6, <3>2 DEF Execute, Selects, Accepted
      <4>2. d.fifo = f.fifo /\ d.pos = f.pos /\ d.size = f.size /\ d.irq /\ ~d.timer
        BY <2>6, <3>2, <4>1, AcceptOutcome
      <4> QED
        BY <1>4, <2>6, <4>2 DEF Alike
    <3> QED
      BY <3>1, <3>2
  <2>8. chip' = d /\ got' = got
    BY <1>1, <2>1, <2>7, BecomesSame
  <2>9. Fresh(d, got)
    BY <1>1, <2>1, <2>5, <2>8, BecomesKeeps
  <2>10. NoData(d) /\ Len(got) = d.size /\ d.pos = d.size
    <3>1. Len(d.fifo) = 0
      BY <2>7
    <3> QED
      BY <1>2, <2>7, <3>1 DEF NoData
  <2> QED
    BY <1>1, <1>2, <2>2, <2>5, <2>7, <2>8, <2>9, <2>10, Behind
<1> QED
  BY <1>3, <1>4

LEMMA StepKeeps ==
  ASSUME IInv, [Next]_vars
  PROVE  IInv'
<1>1. CASE GuestSteps
  <2>1. Base' /\ driver' = "free"
    BY <1>1, GuestKeeps DEF IInv, Base
  <2> QED
    BY <2>1 DEF IInv, Base, Managed
<1>2. CASE ManagerSelects
  BY <1>2, ManagerSelectsKeeps
<1>3. CASE ManagerSteps
  <2>1. work' = work
    BY <1>3 DEF ManagerSteps
  <2>2. \/ ManagerFeeds \/ ManagerAcknowledges \/ ManagerTransfers \/ ManagerMoves
        \/ ManagerPolls \/ ManagerSeesCount \/ ManagerCompletes \/ ManagerAccepts
    BY <1>3 DEF ManagerSteps
  <2> QED
    BY <2>1, <2>2, ManagerFeedsKeeps, ManagerAcknowledgesKeeps, ManagerTransfersKeeps, ManagerMovesKeeps,
       ManagerPollsKeeps, ManagerSeesCountKeeps, ManagerCompletesKeeps, ManagerAcceptsKeeps
<1>4. CASE Expires
  <2>1. Base /\ chip.timer /\ driver' = driver
    BY <1>4 DEF IInv, Base, Expires
  <2>2. /\ Base'
        /\ chip.queued = NoOrder => /\ chip'.irq /\ chip'.intr = chip.intr \cup {"disconnected"} /\ ~chip'.timer
                                    /\ chip'.fifo = chip.fifo /\ chip'.pos = chip.pos
        /\ Told(chip') /\ chip'.queued = NoOrder /\ got' = IF chip'.pos = 0 THEN << >> ELSE got
    BY <1>4, <2>1, ExpiresKeeps
  <2>3. CASE driver = "free"
    BY <2>1, <2>2, <2>3 DEF IInv, Base, Managed
  <2>4. CASE driver # "free"
    <3>1. driver = "selecting" /\ chip.queued = NoOrder /\ \A i \in 1..Len(got) : got[i] = i
      BY <2>1, <2>4 DEF IInv, Managed
    <3>2. chip'.irq /\ "disconnected" \in chip'.intr /\ ~chip'.timer
      BY <2>2, <3>1
    <3>3. \A i \in 1..Len(got') : got'[i] = i
      BY <2>2, <3>1
    <3>4. Managed'
      BY <2>1, <2>2, <3>1, <3>2, <3>3 DEF Managed, Told
    <3> QED
      BY <2>2, <3>4 DEF IInv, Base
  <2> QED
    BY <2>3, <2>4
<1>5. CASE UNCHANGED vars
  BY <1>5 DEF vars, IInv, Types, Managed
<1> QED
  BY <1>1, <1>2, <1>3, <1>4, <1>5 DEF Next

-----------------------------------------------------------------------------
(* The theorems                                                            *)

LEMMA InitHolds ==
  ASSUME Init
  PROVE  IInv
<1>1. PICK m \in BOOLEAN : chip = [Reset EXCEPT !.mute = m]
  BY DEF Init
<1>2. 0 \in Length /\ {} \in SUBSET Bits /\ << >> \in Seq(Bytes) /\ NoFeed \in Feeds
  BY Sizes, NoFeedFacts DEF Length
<1>3. /\ chip \in ChipStates /\ chip.fifo = << >> /\ chip.pos = 0 /\ chip.size = 0 /\ ~chip.dmaActive /\ chip.feed = NoFeed
      /\ ~chip.timer /\ chip.queued = NoOrder /\ ~chip.target /\ ~chip.owed /\ ~chip.told /\ ~chip.irq /\ chip.intr = {}
  <2> HIDE DEF NoFeed, NoOrder
  <2>1. chip \in ChipStates
    BY <1>1, <1>2 DEF ChipStates, Reset, Phases
  <2>2. /\ chip.fifo = << >> /\ chip.pos = 0 /\ chip.size = 0 /\ chip.feed = NoFeed /\ chip.queued = NoOrder /\ chip.intr = {}
    BY <1>1 DEF Reset
  <2>3. ~chip.dmaActive /\ ~chip.timer /\ ~chip.target /\ ~chip.owed /\ ~chip.told /\ ~chip.irq
    BY <1>1 DEF Reset
  <2> QED
    BY <2>1, <2>2, <2>3
<1>4. Len(chip.fifo) = 0 /\ ~chip.feed.on /\ ~chip.feed.dma
  BY <1>3, NoFeedFacts
<1>5. Formed(chip) /\ Quiet(chip)
  BY <1>3, <1>4, Sizes DEF Formed, Fits, Linked, Writing, Ascending, Quiet
<1>6. got = << >> /\ Len(got) = 0 /\ got \in Seq(1..MaxData) /\ task \in Seq(CdbBytes) /\ work \in 0..MaxWork
      /\ driver \in {"free", "idle"} /\ driver \in Drivers
  BY Sizes DEF Init, Drivers
<1>7. Fresh(chip, got)
  BY <1>6 DEF Fresh
<1>8. ~Drq(chip)
  BY <1>3, <1>4 DEF Drq
<1>9. Managed
  BY <1>3, <1>4, <1>6, <1>8 DEF Managed
<1> QED
  BY <1>5, <1>6, <1>7, <1>9 DEF IInv, Types

\* The FIFO as a function on a bounded domain.
LEMMA FifoAsFunction ==
  ASSUME NEW s \in Seq(Bytes), Len(s) <= Fifo
  PROVE  s \in UNION {[1..n -> Bytes] : n \in 0..Fifo}
<1>1. Len(s) \in 0..Fifo /\ s \in [1..Len(s) -> Bytes]
  BY Sizes
<1> QED
  BY <1>1

LEMMA TypesFollow ==
  ASSUME IInv
  PROVE  ScsiTypeOK
<1>1. /\ chip \in ChipStates /\ Len(chip.fifo) <= Fifo /\ driver \in Drivers /\ task \in Seq(CdbBytes)
      /\ got \in Seq(1..MaxData) /\ work \in 0..MaxWork
  BY DEF IInv, Types, Formed, Fits
<1> DEFINE Fifos == UNION {[1..n -> Bytes] : n \in 0..Fifo}
<1>2. chip.fifo \in Fifos
  <2>1. chip.fifo \in Seq(Bytes)
    BY <1>1 DEF ChipStates
  <2> QED
    BY <1>1, <2>1, FifoAsFunction
<1> HIDE DEF Fifos
<1>3. chip \in [ fifo : Fifos, tcount : Length, counter : Length, tcZero : BOOLEAN, dest : BOOLEAN, mute : BOOLEAN,
                 phase : Phases, intr : SUBSET Bits, irq : BOOLEAN, dmaActive : BOOLEAN, feed : Feeds,
                 cdb : Seq(Bytes), timer : BOOLEAN, queued : Order \cup {NoOrder}, target : BOOLEAN,
                 size : Length, pos : Length, chunk : Length, buf : Length, expect : Length, told : BOOLEAN, owed : BOOLEAN ]
  BY <1>1, <1>2 DEF ChipStates
<1> QED
  BY <1>1, <1>3 DEF ScsiTypeOK, Fifos, Length, Phases, Bits, Feeds, Drivers

LEMMA StrandedFollows ==
  ASSUME IInv
  PROVE  NothingStranded
<1>1. Formed(chip) /\ Quiet(chip) /\ chip \in ChipStates
  BY DEF IInv, Types, Formed, Fits
<1>2. chip.pos \in Nat /\ chip.size \in Nat /\ chip.pos <= chip.size
  BY <1>1 DEF Formed, Fits, ChipStates, Length
<1>3. NeverSilent
  <2>1. chip.pos = chip.size => Left(chip) = 0
    BY <1>2 DEF Left
  <2>2. chip.pos < chip.size => Left(chip) > 0
    BY <1>2 DEF Left
  <2>3. chip.feed.dma => chip.feed.on
    BY <1>1 DEF Formed, Linked
  <2>4. chip.dmaActive /\ chip.phase = "dataIn" /\ chip.pos < chip.size /\ chip.chunk # 0 /\ ~chip.feed.on => Drq(chip)
    BY <2>2, <2>3 DEF Drq
  <2>5. chip.dmaActive /\ chip.phase = "dataOut" /\ chip.counter # 0 /\ ~chip.feed.on => Drq(chip)
    BY <2>3 DEF Drq
  <2> QED
    BY <1>1, <2>1, <2>4, <2>5 DEF NeverSilent, Quiet, Excused
<1>4. chip.queued # NoOrder => chip.timer
  BY <1>1 DEF Formed, Linked
<1>5. driver # "free" => chip.told = Drq(chip)
  <2>1. driver # "free" => (chip.told <=> Drq(chip))
    BY DEF IInv, Managed
  <2>2. chip.told \in BOOLEAN /\ Drq(chip) \in BOOLEAN
    BY <1>1, DrqIsALevel DEF ChipStates
  <2> QED
    BY <2>1, <2>2
<1> QED
  BY <1>3, <1>4, <1>5 DEF NothingStranded

LEMMA WholeFollows ==
  ASSUME IInv
  PROVE  ReadsWhole
<1>1. \A i, j \in 1..Len(got) : i # j => got[i] # got[j]
  BY DEF IInv, Fresh
<1>2. \A i \in 1..Len(got) : \A j \in 1..i - 1 : j \in 1..Len(got) /\ i # j
  <2>1. Len(got) \in Nat
    BY DEF IInv, Types
  <2> QED
    BY <2>1
<1>3. driver # "free" => \A i \in 1..Len(got) : got[i] = i
  BY DEF IInv, Managed
<1>4. driver \in {"ending", "status"} => Len(got) = chip.size
  BY DEF IInv, Managed
<1> QED
  BY <1>1, <1>2, <1>3, <1>4 DEF ReadsWhole

LEMMA Invariance == Spec => []IInv
  BY InitHolds, StepKeeps, PTL DEF Spec

\* The chip's members stay in their ranges, whatever software does: no FIFO
\* beyond its depth, no position beyond the data phase (ncr53c96.hpp).
THEOREM ScsiTypeCorrect == Spec => []ScsiTypeOK
  BY Invariance, TypesFollow, PTL

\* An interrupt that a command owes can always still come, a stacked command
\* waits only while its selection runs, and the Manager sees the chip's own DRQ
\* (raise, finishDataIfDone, resetChip and the calls of onDrq).
THEOREM NothingStrands == Spec => []NothingStranded
  BY Invariance, StrandedFollows, PTL

\* No byte of a data phase reaches the driver twice, by the port or the FIFO,
\* and the Manager has every byte, in order, when the status phase begins
\* (transferData, dma8Read, dma16Read and fifoPop).
THEOREM ReadsAreWhole == Spec => []ReadsWhole
  BY Invariance, WholeFollows, PTL
================================================================================
