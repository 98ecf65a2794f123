---------------------------- MODULE SccIop_proofs ----------------------------
(***************************************************************************)
(* Proofs about SccIop, for any mailbox, chunk and frames:                 *)
(*                                                                         *)
(*   IopTypeCorrect     Spec => []IopTypeOK                                *)
(*   NothingIsForgotten Spec => []NothingForgotten                         *)
(*   FramesAreWhole     Spec => []FrameIsWhole                             *)
(*                                                                         *)
(* What the mailbox owes follows from the types, from a held processor     *)
(* being at its start, and from a frame under way being a received one.    *)
(* FrameIsWhole is not inductive: it takes where each channel stands in    *)
(* the frame (Progress, and Waiting before the first is started), that a   *)
(* request is never older than the room it asks to fill (RoomAsked), that  *)
(* the transmitter is armed until the last byte has left, and that nothing *)
(* is left behind between two frames (Empty).                              *)
(***************************************************************************)
EXTENDS SccIop, SequenceTheorems, TLAPS

ChStates == {c \in [on : BOOLEAN, chain : BOOLEAN, req : BOOLEAN, map : 0..(2 * Chunk + 1), left : 0..Chunk] :
               c.map + c.left <= 2 * Chunk + 1}
IoStates == [run : BOOLEAN, int0 : BOOLEAN, hw : BOOLEAN,
             mask : SUBSET Interrupts, flags : SUBSET Interrupts, irq : BOOLEAN,
             ch : [Channels -> ChStates],
             bytes : Seq(Nat), feed : BOOLEAN, armed : BOOLEAN, ext : BOOLEAN, tx : BOOLEAN,
             enabled : SUBSET {"master", "ext", "tx"}]
MailStates == [state : {"idle", "new", "received", "complete"}, n : Lengths \cup {0}]
Pcs == Booting \cup {"idle", "scan", "chain", "start", "arm", "serve", "complete", "raise"}
CpuStates == [pc : Pcs, job : Boxes \cup {0}, armed : BOOLEAN]

Types == /\ io \in IoStates /\ Len(io.bytes) <= 2 /\ wire \in Seq(Nat)
         /\ mail \in [Boxes -> MailStates] /\ cpu \in CpuStates
         /\ host \in {"ready", "kick", "collect"} /\ oss \in BOOLEAN
         /\ posts \in 0..MaxPosts /\ stops \in 0..MaxStops

\* A held processor is at its start, and what it serves is a frame it received.
Held == /\ io.run \/ cpu.pc = "boot"
        /\ cpu.pc \in Booting \cup {"raise"} => cpu.job = 0
        /\ cpu.pc \in {"chain", "start", "arm", "complete"} => cpu.job # 0
        /\ \A b \in Boxes : mail[b].state # "idle" => mail[b].n \in Lengths
        /\ cpu.job # 0 => mail[cpu.job].state = "received"

RoomAsked(p) == \A i \in Channels : p.ch[i].req => TxEmpty(p)

Drained(p) == p.ch[1].left = 0 /\ p.ch[2].left = 0
Empty(p) == p.bytes = << >> /\ Drained(p) /\ ~p.armed /\ ~p.ext

Length == mail[cpu.job].n
Rest(n) == IF n > Chunk THEN n - Chunk ELSE 0

\* The second channel is set up and the first is not yet started.
Waiting(p) == /\ wire = << >> /\ p.bytes = << >> /\ ~p.ext
              /\ (p.armed <=> cpu.pc = "start" /\ cpu.armed)
              /\ p.ch[1].left = 0 /\ ~p.ch[2].on
              /\ (p.ch[2].chain <=> Length > Chunk)
              /\ p.ch[2].map = Chunk + 1 /\ p.ch[2].left = Rest(Length)

\* Bytes that left memory, counted from the frame's first.
Counted(w, b) == /\ \A k \in 1..Len(w) : w[k] = k
                 /\ \A k \in 1..Len(b) : b[k] = Len(w) + k

Moved(p) == Len(wire) + Len(p.bytes)

Progress(p) ==
  /\ Counted(wire, p.bytes)
  /\ Moved(p) + p.ch[1].left + p.ch[2].left = Length
  /\ p.ch[1].left # 0 => /\ ~p.ch[2].on /\ p.ch[1].on /\ p.ch[1].map = Moved(p) + 1
                         /\ (p.ch[2].chain <=> p.ch[2].left # 0)
                         /\ p.ch[2].left # 0 => p.ch[2].map = Moved(p) + p.ch[1].left + 1
  /\ p.ch[1].left = 0 /\ p.ch[2].left # 0 => p.ch[2].on /\ p.ch[2].map = Moved(p) + 1
  /\ p.ext \/ cpu.pc = "complete" => Drained(p) /\ p.bytes = << >> /\ ~p.armed
  /\ cpu.pc = "complete" => ~p.ext
  /\ cpu.pc = "arm" => ~p.armed /\ ~p.ext

Preparing == cpu.pc = "start" \/ (cpu.pc = "arm" /\ cpu.armed)
UnderWay == cpu.job # 0 /\ (cpu.pc \in {"idle", "scan", "serve", "complete"} \/ (cpu.pc = "arm" /\ ~cpu.armed))

Whole ==
  /\ RoomAsked(io)
  /\ cpu.pc \in {"bootscc", "bootirq"} => Drained(io)
  /\ cpu.pc \notin {"boot", "bootscc"} /\ cpu.job = 0 => Empty(io)
  /\ cpu.pc = "chain" => Empty(io) /\ wire = << >>
  /\ Preparing => Waiting(io)
  /\ UnderWay => Progress(io)

IInv == Types /\ Held /\ NothingForgotten /\ Whole

\* The transmitter's two bytes.
LEMMA ShortSeq ==
  ASSUME NEW s \in Seq(Nat)
  PROVE  /\ Len(s) \in Nat /\ (s = << >> <=> Len(s) = 0)
         /\ s # << >> /\ Len(s) < 2 => Len(s) = 1 /\ Tail(s) = << >>
         /\ s # << >> /\ Len(s) <= 2 /\ ~(Len(s) < 2) => Len(s) = 2 /\ Tail(s) # << >>
         /\ s # << >> /\ Len(s) <= 2 => Len(Tail(s)) <= 2
         /\ s # << >> => Tail(s) \in Seq(Nat)
         /\ \A b \in Nat : Len(s) = 1 => << Head(s), b >> = Append(s, b) /\ Head(s) \in Nat
<1>1. Len(s) \in Nat /\ (s = << >> <=> Len(s) = 0)
  BY EmptySeq, LenProperties
<1>2. s # << >> => Tail(s) \in Seq(Nat) /\ Len(Tail(s)) = Len(s) - 1
  BY HeadTailProperties
<1>3. ASSUME NEW n \in Nat, n # 0
      PROVE  (n < 2 => n = 1) /\ (n <= 2 /\ ~(n < 2) => n = 2) /\ (n <= 2 => n - 1 <= 2) /\ (n = 1 => n - 1 = 0)
             /\ (n = 2 => n - 1 # 0)
  BY <1>3
<1>4. s # << >> => (Tail(s) = << >> <=> Len(Tail(s)) = 0)
  BY <1>2, EmptySeq, LenProperties
<1>5. ASSUME NEW b \in Nat, Len(s) = 1
      PROVE  << Head(s), b >> = Append(s, b) /\ Head(s) \in Nat
  <2>1. Head(s) = s[1] /\ s[1] \in Nat
    BY SMTT(60), <1>5, ElementOfSeq
  <2>2. << Head(s), b >> \in Seq(Nat) /\ Len(<< Head(s), b >>) = 2
    BY <2>1
  <2>3. Append(s, b) \in Seq(Nat) /\ Len(Append(s, b)) = 2 /\ Append(s, b)[1] = s[1] /\ Append(s, b)[2] = b
    <3>1. 1 \in 1..Len(s) /\ Len(s) + 1 = 2
      BY <1>5
    <3> QED
      BY <3>1
  <2>4. \A k \in 1..2 : << Head(s), b >>[k] = Append(s, b)[k]
    BY <2>1, <2>3
  <2> QED
    BY <2>1, <2>2, <2>3, <2>4, SeqEqual
<1> QED
  BY <1>1, <1>2, <1>3, <1>4, <1>5

-----------------------------------------------------------------------------
(* The controller's registers: what an operation changes of its three parts *)

Current(p) == p.run => p.irq = Interrupting(p)
SameLatches(q, p) == q.run = p.run /\ q.int0 = p.int0 /\ q.mask = p.mask /\ q.flags = p.flags /\ q.irq = p.irq
SameLine(q, p) == q.ch = p.ch /\ q.bytes = p.bytes /\ q.armed = p.armed /\ q.ext = p.ext
SameCounts(q, p) == \A i \in Channels : /\ q.ch[i].on = p.ch[i].on /\ q.ch[i].chain = p.ch[i].chain
                                       /\ q.ch[i].map = p.ch[i].map /\ q.ch[i].left = p.ch[i].left

\* Setting and clearing an interrupt recompute the processor's interrupt input.
LEMMA Latching ==
  ASSUME NEW p \in IoStates, NEW f \in Interrupts
  PROVE  /\ LET q == SetInterrupt(p, f)
            IN /\ q \in IoStates /\ SameLine(q, p) /\ q.run = p.run /\ q.int0 = p.int0
               /\ q.flags = p.flags \cup {f} /\ q.mask = p.mask /\ Current(q)
         /\ LET q == ClearInterrupt(p, f)
            IN /\ q \in IoStates /\ SameLine(q, p) /\ q.run = p.run /\ q.int0 = p.int0
               /\ q.flags = p.flags \ {f} /\ q.mask = p.mask /\ Current(q)
         /\ LET q == UpdateCpuIrq(p)
            IN /\ q \in IoStates /\ SameLine(q, p) /\ q.run = p.run /\ q.int0 = p.int0
               /\ q.flags = p.flags /\ q.mask = p.mask /\ Current(q)
<1>1. ASSUME NEW r \in IoStates
      PROVE  LET q == UpdateCpuIrq(r)
             IN /\ q \in IoStates /\ SameLine(q, r) /\ q.run = r.run /\ q.int0 = r.int0
                /\ q.flags = r.flags /\ q.mask = r.mask /\ Current(q)
  <2>1. Interrupting(r) \in BOOLEAN
    BY DEF Interrupting
  <2>2. /\ UpdateCpuIrq(r) \in IoStates /\ UpdateCpuIrq(r).irq = Interrupting(r)
        /\ UpdateCpuIrq(r).flags = r.flags /\ UpdateCpuIrq(r).mask = r.mask
        /\ UpdateCpuIrq(r).run = r.run /\ UpdateCpuIrq(r).int0 = r.int0
        /\ SameLine(UpdateCpuIrq(r), r)
    BY <2>1 DEF UpdateCpuIrq, IoStates, SameLine
  <2> QED
    BY <2>2 DEF Current, Interrupting
<1> DEFINE set == [p EXCEPT !.flags = p.flags \cup {f}]
           less == [p EXCEPT !.flags = p.flags \ {f}]
<1>2. /\ set \in IoStates /\ SameLine(set, p) /\ set.run = p.run /\ set.int0 = p.int0
      /\ set.flags = p.flags \cup {f} /\ set.mask = p.mask
  BY DEF IoStates, SameLine
<1>3. /\ less \in IoStates /\ SameLine(less, p) /\ less.run = p.run /\ less.int0 = p.int0
      /\ less.flags = p.flags \ {f} /\ less.mask = p.mask
  BY DEF IoStates, SameLine
<1>4. SetInterrupt(p, f) = UpdateCpuIrq(set) /\ ClearInterrupt(p, f) = UpdateCpuIrq(less)
  BY DEF SetInterrupt, ClearInterrupt
<1> HIDE DEF set, less
<1> QED
  BY <1>1, <1>2, <1>3, <1>4 DEF SameLine

LEMMA PeripheralKeeps ==
  ASSUME NEW p \in IoStates, NEW level \in BOOLEAN
  PROVE  LET q == SetPeripheral(p, level)
         IN /\ q \in IoStates /\ SameLine(q, p) /\ q.run = p.run /\ q.int0 = p.int0
            /\ ("host" \in q.flags <=> "host" \in p.flags) /\ Current(q)
<1> DEFINE less == [p EXCEPT !.hw = level]
<1>1. /\ less \in IoStates /\ SameLine(less, p) /\ less.run = p.run /\ less.int0 = p.int0
      /\ less.flags = p.flags
  BY DEF IoStates, SameLine
<1>2. SetPeripheral(p, level) = IF level THEN SetInterrupt(less, "peripheral") ELSE ClearInterrupt(less, "peripheral")
  BY DEF SetPeripheral
<1>3. "peripheral" \in Interrupts
  BY DEF Interrupts
<1> HIDE DEF less
<1> QED
  BY <1>1, <1>2, <1>3, Latching DEF SameLine

\* The host's write starts or holds the processor, and acknowledges only if it says so.
LEMMA StatusKeeps ==
  ASSUME NEW p \in IoStates, NEW run \in BOOLEAN, NEW ack \in BOOLEAN, NEW kick \in BOOLEAN, Current(p)
  PROVE  LET q == WriteStatus(p, run, ack, kick)
         IN /\ q \in IoStates /\ SameLine(q, p) /\ q.run = run /\ q.int0 = (p.int0 /\ ~ack)
            /\ p.flags \subseteq q.flags /\ (kick /\ run => "host" \in q.flags) /\ Current(q)
<1> DEFINE q == [p EXCEPT !.int0 = p.int0 /\ ~ack, !.run = run]
           r == IF run /\ ~p.run THEN UpdateCpuIrq(q) ELSE q
<1>1. /\ q \in IoStates /\ SameLine(q, p) /\ q.run = run /\ q.int0 = (p.int0 /\ ~ack)
      /\ q.flags = p.flags /\ q.mask = p.mask /\ q.irq = p.irq
  <2>1. (p.int0 /\ ~ack) \in BOOLEAN
    OBVIOUS
  <2> QED
    BY <2>1 DEF IoStates, SameLine
<1>2. WriteStatus(p, run, ack, kick) = IF kick /\ run THEN SetInterrupt(r, "host") ELSE r
  BY DEF WriteStatus
<1> HIDE DEF q
<1>3. "host" \in Interrupts
  BY DEF Interrupts
<1>4. /\ r \in IoStates /\ SameLine(r, p) /\ r.run = run /\ r.int0 = (p.int0 /\ ~ack)
      /\ r.flags = p.flags /\ Current(r)
  <2>1. CASE run /\ ~p.run
    BY <1>1, <1>3, <2>1, Latching DEF SameLine
  <2>2. CASE ~(run /\ ~p.run)
    BY <1>1, <2>2 DEF Current, Interrupting
  <2> QED
    BY <2>1, <2>2
<1> HIDE DEF r
<1>5. CASE kick /\ run
  <2>1. /\ SetInterrupt(r, "host") \in IoStates /\ SameLine(SetInterrupt(r, "host"), r)
        /\ SetInterrupt(r, "host").run = r.run /\ SetInterrupt(r, "host").int0 = r.int0
        /\ SetInterrupt(r, "host").flags = r.flags \cup {"host"} /\ Current(SetInterrupt(r, "host"))
    BY <1>3, <1>4, Latching
  <2> QED
    BY <1>2, <1>4, <1>5, <2>1 DEF SameLine
<1>6. CASE ~(kick /\ run)
  BY <1>2, <1>4, <1>6
<1> QED
  BY <1>5, <1>6

-----------------------------------------------------------------------------
(* The channels and the transmitter                                        *)

LEMMA Channelled ==
  ASSUME NEW p \in IoStates
  PROVE  \A i \in Channels : p.ch[i] \in ChStates
BY DEF IoStates

\* A request is for the room there is.
LEMMA RequestsAsk ==
  ASSUME NEW p \in IoStates
  PROVE  LET q == Requests(p)
         IN /\ q \in IoStates /\ SameLatches(q, p) /\ SameCounts(q, p)
            /\ q.bytes = p.bytes /\ q.armed = p.armed /\ q.ext = p.ext
            /\ \A i \in Channels : q.ch[i].req = (p.ch[i].on /\ TxEmpty(p))
            /\ RoomAsked(q)
<1> DEFINE asked == [i \in Channels |-> [p.ch[i] EXCEPT !.req = p.ch[i].on /\ TxEmpty(p)]]
<1>1. ASSUME NEW i \in Channels
      PROVE  /\ asked[i] \in ChStates
             /\ asked[i].on = p.ch[i].on /\ asked[i].chain = p.ch[i].chain
             /\ asked[i].map = p.ch[i].map /\ asked[i].left = p.ch[i].left
             /\ asked[i].req = (p.ch[i].on /\ TxEmpty(p))
  <2>1. p.ch[i] \in ChStates /\ (p.ch[i].on /\ TxEmpty(p)) \in BOOLEAN
    BY Channelled DEF TxEmpty
  <2> QED
    BY <2>1 DEF ChStates
<1>2. asked \in [Channels -> ChStates]
  BY <1>1
<1> HIDE DEF asked
<1>3. Requests(p) = [p EXCEPT !.ch = asked]
  BY DEF Requests, asked
<1>4. /\ Requests(p) \in IoStates /\ SameLatches(Requests(p), p) /\ Requests(p).ch = asked
      /\ Requests(p).bytes = p.bytes /\ Requests(p).armed = p.armed /\ Requests(p).ext = p.ext
  BY <1>2, <1>3 DEF IoStates, SameLatches
<1> QED
  BY <1>1, <1>4 DEF SameCounts, RoomAsked, TxEmpty

LEMMA ByteJoins ==
  ASSUME NEW p \in IoStates, NEW b \in Nat, TxEmpty(p)
  PROVE  LET q == TxByte(p, b)
         IN /\ q \in IoStates /\ SameLatches(q, p) /\ SameCounts(q, p)
            /\ q.bytes = Append(p.bytes, b) /\ q.armed = p.armed /\ q.ext = p.ext
            /\ Len(q.bytes) <= 2
            /\ RoomAsked(p) => RoomAsked(q)
<1>0. p.bytes \in Seq(Nat) /\ Len(p.bytes) < 2
  BY DEF IoStates, TxEmpty
<1>1. CASE p.bytes = << >>
  <2> DEFINE q == [p EXCEPT !.bytes = << b >>, !.feed = TRUE]
  <2>1. TxByte(p, b) = q
    BY <1>1 DEF TxByte
  <2>2. << b >> \in Seq(Nat) /\ << b >> = Append(p.bytes, b) /\ Len(<< b >>) = 1
    BY <1>1
  <2>3. /\ q \in IoStates /\ SameLatches(q, p) /\ q.ch = p.ch /\ q.bytes = << b >>
        /\ q.armed = p.armed /\ q.ext = p.ext
    BY <2>2 DEF IoStates, SameLatches
  <2> HIDE DEF q
  <2> QED
    BY <2>1, <2>2, <2>3 DEF SameCounts, RoomAsked, TxEmpty
<1>2. CASE p.bytes # << >>
  <2> DEFINE q == [p EXCEPT !.bytes = << Head(p.bytes), b >>]
  <2>1. TxByte(p, b) = Requests(q)
    BY <1>2 DEF TxByte
  <2>2. /\ << Head(p.bytes), b >> \in Seq(Nat) /\ << Head(p.bytes), b >> = Append(p.bytes, b)
        /\ Len(<< Head(p.bytes), b >>) = 2
    <3>1. Len(p.bytes) = 1
      BY <1>0, <1>2, ShortSeq
    <3>2. << Head(p.bytes), b >> = Append(p.bytes, b) /\ Head(p.bytes) \in Nat
      BY <1>0, <3>1, ShortSeq
    <3> QED
      BY <3>2
  <2>3. /\ q \in IoStates /\ SameLatches(q, p) /\ q.ch = p.ch /\ q.bytes = << Head(p.bytes), b >>
        /\ q.armed = p.armed /\ q.ext = p.ext
    BY <2>2 DEF IoStates, SameLatches
  <2> HIDE DEF q
  <2>4. /\ Requests(q) \in IoStates /\ SameLatches(Requests(q), q) /\ SameCounts(Requests(q), q)
        /\ Requests(q).bytes = q.bytes /\ Requests(q).armed = q.armed /\ Requests(q).ext = q.ext
        /\ RoomAsked(Requests(q))
    BY <2>3, RequestsAsk
  <2> QED
    BY <2>1, <2>2, <2>3, <2>4 DEF SameCounts, SameLatches
<1> QED
  BY <1>1, <1>2

LEMMA FeedKeeps ==
  ASSUME NEW p \in IoStates
  PROVE  LET q == Fed(p) IN q \in IoStates /\ SameLatches(q, p) /\ SameLine(q, p)
<1>1. (p.tx \/ "tx" \in p.enabled) \in BOOLEAN
  BY DEF IoStates
<1> QED
  BY <1>1 DEF Fed, IoStates, SameLatches, SameLine

\* The byte on the wire has left; when it was the last an armed transmitter reports the end.
LEMMA ShiftMoves ==
  ASSUME NEW p \in IoStates, p.bytes # << >>, Len(p.bytes) <= 2
  PROVE  LET q == Shifted(p)
         IN /\ q \in IoStates /\ SameLatches(q, p) /\ SameCounts(q, p)
            /\ q.bytes = Tail(p.bytes)
            /\ q.armed => p.armed
            /\ q.ext => p.ext \/ (p.armed /\ q.bytes = << >> /\ ~q.armed)
            /\ RoomAsked(p) => RoomAsked(q)
            /\ q.bytes = << >> => ~q.armed
<1>0. p.bytes \in Seq(Nat)
  BY DEF IoStates
<1>1. CASE ~TxEmpty(p)
  <2> DEFINE q == [p EXCEPT !.bytes = Tail(p.bytes), !.feed = TRUE]
  <2>1. Shifted(p) = Requests(q)
    BY <1>1 DEF Shifted
  <2>2. Tail(p.bytes) \in Seq(Nat) /\ Tail(p.bytes) # << >>
    BY <1>0, <1>1, ShortSeq DEF TxEmpty
  <2>3. /\ q \in IoStates /\ SameLatches(q, p) /\ q.ch = p.ch /\ q.bytes = Tail(p.bytes)
        /\ q.armed = p.armed /\ q.ext = p.ext
    BY <2>2 DEF IoStates, SameLatches
  <2> HIDE DEF q
  <2>4. /\ Requests(q) \in IoStates /\ SameLatches(Requests(q), q) /\ SameCounts(Requests(q), q)
        /\ Requests(q).bytes = q.bytes /\ Requests(q).armed = q.armed /\ Requests(q).ext = q.ext
        /\ RoomAsked(Requests(q))
    BY <2>3, RequestsAsk
  <2> QED
    BY <2>1, <2>2, <2>3, <2>4 DEF SameCounts, SameLatches
<1>2. CASE TxEmpty(p)
  <2> DEFINE ext == p.ext \/ (p.armed /\ "ext" \in p.enabled)
             q == [p EXCEPT !.bytes = << >>, !.armed = FALSE, !.ext = ext]
  <2>1. Shifted(p) = q
    BY <1>2 DEF Shifted
  <2>2. Tail(p.bytes) = << >> /\ ext \in BOOLEAN /\ << >> \in Seq(Nat)
    <3>2. Tail(p.bytes) = << >>
      BY <1>0, <1>2, ShortSeq DEF TxEmpty
    <3>3. ext \in BOOLEAN
      BY DEF IoStates
    <3> QED
      BY <3>2, <3>3, EmptySeq
  <2> HIDE DEF ext
  <2>3. /\ q \in IoStates /\ SameLatches(q, p) /\ q.ch = p.ch /\ q.bytes = << >>
        /\ q.armed = FALSE /\ q.ext = ext
    BY <2>2 DEF IoStates, SameLatches
  <2> HIDE DEF q
  <2>4. RoomAsked(q)
    BY <2>3 DEF RoomAsked, TxEmpty
  <2>5. ext => p.ext \/ p.armed
    BY DEF ext
  <2> QED
    BY <2>1, <2>2, <2>3, <2>4, <2>5 DEF SameCounts, SameLatches
<1> QED
  BY <1>1, <1>2

LEMMA ResetEmpties ==
  ASSUME NEW p \in IoStates, NEW enabled \in SUBSET {"master", "ext", "tx"}
  PROVE  LET q == ResetScc(p, enabled)
         IN /\ q \in IoStates /\ SameLatches(q, p) /\ q.ch = p.ch
            /\ q.bytes = << >> /\ ~q.armed /\ ~q.ext /\ RoomAsked(q)
<1>1. ResetScc(p, enabled) = [p EXCEPT !.bytes = << >>, !.feed = FALSE, !.armed = FALSE, !.ext = FALSE, !.tx = FALSE, !.enabled = enabled]
  BY DEF ResetScc
<1>2. /\ ResetScc(p, enabled) \in IoStates /\ SameLatches(ResetScc(p, enabled), p) /\ ResetScc(p, enabled).ch = p.ch
      /\ ResetScc(p, enabled).bytes = << >> /\ ResetScc(p, enabled).armed = FALSE /\ ResetScc(p, enabled).ext = FALSE
  <2>1. << >> \in Seq(Nat)
    BY EmptySeq
  <2> QED
    BY <1>1, <2>1 DEF IoStates, SameLatches
<1> QED
  BY <1>2 DEF RoomAsked, TxEmpty

LEMMA ProgramSets ==
  ASSUME NEW p \in IoStates, NEW i \in Channels, NEW on \in BOOLEAN, NEW chain \in BOOLEAN,
         NEW map \in Nat, NEW left \in 0..Chunk, map + left <= 2 * Chunk + 1
  PROVE  LET q == Program(p, i, on, chain, map, left)
         IN /\ q \in IoStates /\ SameLatches(q, p) /\ RoomAsked(q)
            /\ q.bytes = p.bytes /\ q.armed = p.armed /\ q.ext = p.ext
            /\ (q.ch[i].on <=> on) /\ (q.ch[i].chain <=> chain) /\ q.ch[i].map = map /\ q.ch[i].left = left
<1> DEFINE c == [on |-> on, chain |-> chain, req |-> p.ch[i].req, map |-> map, left |-> left]
           chs == [p.ch EXCEPT ![i] = c]
           q == [p EXCEPT !.ch = chs]
<1>1. c \in ChStates
  <2>1. map \in 0..(2 * Chunk + 1)
    BY IopAssumption
  <2>2. p.ch[i].req \in BOOLEAN
    BY Channelled DEF ChStates
  <2> QED
    BY <2>1, <2>2 DEF ChStates
<1>2. chs \in [Channels -> ChStates] /\ chs[i] = c
  <2> HIDE DEF c
  <2> QED
    BY <1>1 DEF IoStates
<1>3. Program(p, i, on, chain, map, left) = Requests(q)
  BY DEF Program
<1>4. c.on = on /\ c.chain = chain /\ c.map = map /\ c.left = left
  OBVIOUS
<1> HIDE DEF c, chs
<1>5. /\ q \in IoStates /\ SameLatches(q, p) /\ q.ch = chs
      /\ q.bytes = p.bytes /\ q.armed = p.armed /\ q.ext = p.ext
  BY <1>2 DEF IoStates, SameLatches
<1> HIDE DEF q
<1> QED
  BY <1>2, <1>3, <1>4, <1>5, RequestsAsk DEF SameCounts, SameLatches

\* Programming one channel leaves the other's counts.
LEMMA ProgramSpares ==
  ASSUME NEW p \in IoStates, NEW i \in Channels, NEW on, NEW chain, NEW map, NEW left,
         Program(p, i, on, chain, map, left) \in IoStates,
         NEW j \in Channels, j # i
  PROVE  LET q == Program(p, i, on, chain, map, left)
         IN /\ q.ch[j].on = p.ch[j].on /\ q.ch[j].chain = p.ch[j].chain
            /\ q.ch[j].map = p.ch[j].map /\ q.ch[j].left = p.ch[j].left
<1> DEFINE c == [on |-> on, chain |-> chain, req |-> p.ch[i].req, map |-> map, left |-> left]
           chs == [p.ch EXCEPT ![i] = c]
           r == [p EXCEPT !.ch = chs]
           asked == [k \in Channels |-> [r.ch[k] EXCEPT !.req = r.ch[k].on /\ TxEmpty(r)]]
<1>1. Program(p, i, on, chain, map, left) = [r EXCEPT !.ch = asked]
  BY DEF Program, Requests
<1>2. chs[j] = p.ch[j] /\ p.ch[j] \in ChStates
  <2> HIDE DEF c
  <2> QED
    BY DEF IoStates
<1> HIDE DEF chs
<1>3. r.ch = chs /\ [r EXCEPT !.ch = asked].ch = asked
  <2> HIDE DEF asked
  <2> QED
    BY DEF IoStates
<1> HIDE DEF r
<1>4. asked[j] = [p.ch[j] EXCEPT !.req = r.ch[j].on /\ TxEmpty(r)]
  BY <1>2, <1>3
<1> HIDE DEF asked
<1>5. /\ asked[j].on = p.ch[j].on /\ asked[j].chain = p.ch[j].chain
      /\ asked[j].map = p.ch[j].map /\ asked[j].left = p.ch[j].left
  BY <1>2, <1>4 DEF ChStates
<1> QED
  BY <1>1, <1>3, <1>5

\* A channel whose count has run out stops, and starts the one chained to it.
LEMMA FinishChains ==
  ASSUME NEW p \in IoStates, NEW i \in Channels
  PROVE  LET q == Finished(p, i)
             j == 3 - i
         IN /\ q \in IoStates /\ q.run = p.run /\ q.int0 = p.int0
            /\ q.mask = p.mask /\ p.flags \subseteq q.flags /\ Current(q)
            /\ q.bytes = p.bytes /\ q.armed = p.armed /\ q.ext = p.ext
            /\ RoomAsked(p) => RoomAsked(q)
            /\ \A k \in Channels : /\ q.ch[k].chain = p.ch[k].chain /\ q.ch[k].map = p.ch[k].map
                                   /\ q.ch[k].left = p.ch[k].left
            /\ ~q.ch[i].on
            /\ q.ch[j].on = (p.ch[j].on \/ p.ch[j].chain)
<1> DEFINE j == 3 - i
           ci == [p.ch[i] EXCEPT !.on = FALSE]
           cj == [p.ch[j] EXCEPT !.on = p.ch[j].on \/ p.ch[j].chain]
           chs == [p.ch EXCEPT ![i] = ci, ![j] = cj]
           q == [p EXCEPT !.ch = chs]
<1>1. j \in Channels /\ j # i /\ Channels = {i, j}
  BY DEF Channels
<1>2. p.ch[i] \in ChStates /\ p.ch[j] \in ChStates
  BY <1>1, Channelled
<1>3. /\ ci \in ChStates /\ ~ci.on /\ ci.chain = p.ch[i].chain /\ ci.map = p.ch[i].map
      /\ ci.left = p.ch[i].left /\ ci.req = p.ch[i].req
  BY <1>2 DEF ChStates
<1>4. /\ cj \in ChStates /\ cj.on = (p.ch[j].on \/ p.ch[j].chain) /\ cj.chain = p.ch[j].chain
      /\ cj.map = p.ch[j].map /\ cj.left = p.ch[j].left /\ cj.req = p.ch[j].req
  <2>1. (p.ch[j].on \/ p.ch[j].chain) \in BOOLEAN
    BY <1>2 DEF ChStates
  <2> QED
    BY <1>2, <2>1 DEF ChStates
<1>5. SetInterrupt(q, DmaFlag(i)) = Finished(p, i)
  <2>1. q = [p EXCEPT !.ch[i].on = FALSE, !.ch[3 - i].on = @ \/ p.ch[3 - i].chain]
    BY <1>1, <1>2 DEF IoStates
  <2> QED
    BY <2>1 DEF Finished
<1> HIDE DEF j, ci, cj
<1>6. chs \in [Channels -> ChStates] /\ chs[i] = ci /\ chs[j] = cj
  BY <1>1, <1>3, <1>4 DEF IoStates
<1> HIDE DEF chs
<1>7. /\ q \in IoStates /\ SameLatches(q, p) /\ q.ch = chs
      /\ q.bytes = p.bytes /\ q.armed = p.armed /\ q.ext = p.ext
  BY <1>6 DEF IoStates, SameLatches
<1> HIDE DEF q
<1>8. RoomAsked(p) => RoomAsked(q)
  BY <1>1, <1>3, <1>4, <1>6, <1>7 DEF RoomAsked, TxEmpty
<1>9. DmaFlag(i) \in Interrupts
  BY DEF DmaFlag, Interrupts
<1>10. /\ Finished(p, i) \in IoStates /\ SameLine(Finished(p, i), q)
       /\ Finished(p, i).run = q.run /\ Finished(p, i).int0 = q.int0
       /\ Finished(p, i).flags = q.flags \cup {DmaFlag(i)}
       /\ Finished(p, i).mask = q.mask /\ Current(Finished(p, i))
  <2>1. LET s == SetInterrupt(q, DmaFlag(i))
        IN /\ s \in IoStates /\ SameLine(s, q) /\ s.run = q.run /\ s.int0 = q.int0
           /\ s.flags = q.flags \cup {DmaFlag(i)} /\ s.mask = q.mask /\ Current(s)
    BY <1>7, <1>9, Latching
  <2> QED
    BY <1>5, <2>1
<1> QED
  BY <1>1, <1>3, <1>4, <1>6, <1>7, <1>8, <1>10 DEF SameLine, SameLatches, RoomAsked, TxEmpty, j

\* One beat of one channel: it moves its next byte, or nothing.
LEMMA BeatMoves ==
  ASSUME NEW p \in IoStates, Len(p.bytes) <= 2, RoomAsked(p), NEW i \in Channels
  PROVE  LET q == BeatOf(p, i)
             j == 3 - i
         IN /\ q \in IoStates /\ Len(q.bytes) <= 2 /\ RoomAsked(q)
            /\ q.run = p.run /\ q.int0 = p.int0 /\ p.flags \subseteq q.flags
            /\ Current(p) => Current(q)
            /\ q.armed = p.armed /\ q.ext = p.ext
            /\ ~CanMove(p, i) => q = p
            /\ CanMove(p, i) =>
                 /\ q.bytes = Append(p.bytes, p.ch[i].map)
                 /\ q.ch[i].map = p.ch[i].map + 1 /\ q.ch[i].left = p.ch[i].left - 1
                 /\ q.ch[j].chain = p.ch[j].chain /\ q.ch[j].map = p.ch[j].map /\ q.ch[j].left = p.ch[j].left
                 /\ q.ch[i].left # 0 => q.ch[i].on /\ q.ch[j].on = p.ch[j].on
                 /\ q.ch[i].left = 0 => q.ch[j].on = (p.ch[j].on \/ p.ch[j].chain)
<1>1. CASE ~CanMove(p, i)
  BY <1>1 DEF BeatOf
<1>2. CASE CanMove(p, i)
  <2> DEFINE q == TxByte(p, p.ch[i].map)
             c == [q.ch[i] EXCEPT !.map = q.ch[i].map + 1, !.left = q.ch[i].left - 1]
             chs == [q.ch EXCEPT ![i] = c]
             r == [q EXCEPT !.ch = chs]
             j == 3 - i
  <2>0. j \in Channels /\ j # i /\ Channels = {i, j}
    BY DEF Channels
  <2>1. TxEmpty(p) /\ p.ch[i] \in ChStates /\ p.ch[i].on /\ p.ch[i].left # 0
    BY <1>2, Channelled DEF CanMove, RoomAsked
  <2>2. p.ch[i].map \in Nat
    BY <2>1, IopAssumption DEF ChStates
  <2>3. /\ q \in IoStates /\ SameLatches(q, p) /\ SameCounts(q, p)
        /\ q.bytes = Append(p.bytes, p.ch[i].map) /\ q.armed = p.armed /\ q.ext = p.ext
        /\ Len(q.bytes) <= 2 /\ RoomAsked(q)
    BY <2>1, <2>2, ByteJoins
  <2> HIDE DEF q
  <2>4. q.ch[i] \in ChStates /\ q.ch[i].on = p.ch[i].on /\ q.ch[i].map = p.ch[i].map /\ q.ch[i].left = p.ch[i].left
    BY <2>3, Channelled DEF SameCounts
  <2>5. /\ c \in ChStates /\ c.on = p.ch[i].on /\ c.map = p.ch[i].map + 1 /\ c.left = p.ch[i].left - 1
        /\ c.req = q.ch[i].req
    <3>1. q.ch[i].map + 1 \in 0..(2 * Chunk + 1) /\ q.ch[i].left - 1 \in 0..Chunk
      BY <2>1, <2>4, IopAssumption DEF ChStates
    <3>2. /\ c.on = p.ch[i].on /\ c.map = p.ch[i].map + 1 /\ c.left = p.ch[i].left - 1
          /\ c.req = q.ch[i].req
          /\ c \in [on : BOOLEAN, chain : BOOLEAN, req : BOOLEAN, map : 0..(2 * Chunk + 1), left : 0..Chunk]
      BY <2>4, <3>1 DEF ChStates
    <3>3. c.map + c.left <= 2 * Chunk + 1
      BY <2>1, <2>4, <3>2, IopAssumption DEF ChStates
    <3> QED
      BY <3>2, <3>3 DEF ChStates
  <2>6. BeatOf(p, i) = IF r.ch[i].left = 0 THEN Finished(r, i) ELSE r
    <3>1. r = [q EXCEPT !.ch[i].map = @ + 1, !.ch[i].left = @ - 1]
      BY <2>3 DEF IoStates
    <3>2. BeatOf(p, i) = LET u == [q EXCEPT !.ch[i].map = @ + 1, !.ch[i].left = @ - 1]
                         IN IF u.ch[i].left = 0 THEN Finished(u, i) ELSE u
      BY <1>2 DEF BeatOf, q
    <3> HIDE DEF r
    <3> QED
      BY <3>1, <3>2
  <2> HIDE DEF c, j
  <2>7. chs \in [Channels -> ChStates] /\ chs[i] = c /\ chs[j] = q.ch[j]
    BY <2>0, <2>3, <2>5 DEF IoStates
  <2> HIDE DEF chs
  <2>8. /\ r \in IoStates /\ SameLatches(r, q) /\ r.ch = chs
        /\ r.bytes = q.bytes /\ r.armed = q.armed /\ r.ext = q.ext
    BY <2>3, <2>7 DEF IoStates, SameLatches
  <2> HIDE DEF r
  <2>9. RoomAsked(r)
    BY <2>0, <2>3, <2>5, <2>7, <2>8 DEF RoomAsked, TxEmpty
  <2>10. Current(p) => Current(r)
    BY <2>3, <2>8 DEF Current, SameLatches, Interrupting
  <2>11. /\ r.ch[i].on = p.ch[i].on /\ r.ch[i].map = p.ch[i].map + 1 /\ r.ch[i].left = p.ch[i].left - 1
         /\ r.ch[j].on = p.ch[j].on /\ r.ch[j].chain = p.ch[j].chain
         /\ r.ch[j].map = p.ch[j].map /\ r.ch[j].left = p.ch[j].left
    BY <2>0, <2>3, <2>5, <2>7, <2>8 DEF SameCounts
  <2>12. /\ r.run = p.run /\ r.int0 = p.int0 /\ r.flags = p.flags /\ r.armed = p.armed /\ r.ext = p.ext
         /\ r.bytes = Append(p.bytes, p.ch[i].map) /\ Len(r.bytes) <= 2
    BY <2>3, <2>8 DEF SameLatches
  <2>13. CASE r.ch[i].left # 0
    BY <1>2, <2>1, <2>6, <2>8, <2>9, <2>10, <2>11, <2>12, <2>13 DEF j
  <2>14. CASE r.ch[i].left = 0
    <3> DEFINE s == Finished(r, i)
    <3>1. BeatOf(p, i) = s
      BY <2>6, <2>14
    <3>2. /\ s \in IoStates /\ s.run = r.run /\ s.int0 = r.int0
          /\ r.flags \subseteq s.flags /\ Current(s)
          /\ s.bytes = r.bytes /\ s.armed = r.armed /\ s.ext = r.ext
          /\ RoomAsked(s)
          /\ \A k \in Channels : s.ch[k].chain = r.ch[k].chain /\ s.ch[k].map = r.ch[k].map /\ s.ch[k].left = r.ch[k].left
          /\ s.ch[j].on = (r.ch[j].on \/ r.ch[j].chain)
      BY <2>8, <2>9, FinishChains DEF j
    <3> HIDE DEF s
    <3> QED
      BY <1>2, <2>0, <2>11, <2>12, <2>14, <3>1, <3>2 DEF j
  <2> QED
    BY <2>13, <2>14
<1> QED
  BY <1>1, <1>2

-----------------------------------------------------------------------------
(* The bytes of a frame                                                    *)

LEMMA CountedJoin ==
  ASSUME NEW w \in Seq(Nat), NEW b \in Seq(Nat), Counted(w, b)
  PROVE  Counted(w, Append(b, Len(w) + Len(b) + 1))
<1> DEFINE c == Append(b, Len(w) + Len(b) + 1)
<1>1. Len(w) \in Nat /\ Len(b) \in Nat /\ Len(c) = Len(b) + 1
  OBVIOUS
<1>2. ASSUME NEW k \in 1..Len(c)
      PROVE  c[k] = Len(w) + k
  <2>1. CASE k = Len(b) + 1
    BY <1>1, <2>1
  <2>2. CASE k # Len(b) + 1
    <3>1. k \in 1..Len(b)
      BY <1>1, <2>2
    <3>2. c[k] = b[k]
      BY <3>1
    <3> QED
      BY <3>1, <3>2 DEF Counted
  <2> QED
    BY <2>1, <2>2
<1> QED
  BY <1>2 DEF Counted

LEMMA CountedShift ==
  ASSUME NEW w \in Seq(Nat), NEW b \in Seq(Nat), b # << >>, Counted(w, b)
  PROVE  /\ Counted(Append(w, Head(b)), Tail(b))
         /\ Append(w, Head(b)) \in Seq(Nat) /\ Tail(b) \in Seq(Nat)
         /\ Len(Append(w, Head(b))) + Len(Tail(b)) = Len(w) + Len(b)
<1> DEFINE v == Append(w, Head(b))
           c == Tail(b)
<1>1. /\ Len(w) \in Nat /\ Len(b) \in Nat /\ Len(b) > 0 /\ Head(b) \in Nat /\ Head(b) = b[1]
      /\ Len(v) = Len(w) + 1 /\ Len(c) = Len(b) - 1 /\ v \in Seq(Nat) /\ c \in Seq(Nat)
  OBVIOUS
<1>2. Head(b) = Len(w) + 1
  BY <1>1 DEF Counted
<1>3. ASSUME NEW k \in 1..Len(v)
      PROVE  v[k] = k
  <2>1. CASE k = Len(w) + 1
    BY <1>1, <1>2, <2>1
  <2>2. CASE k # Len(w) + 1
    <3>1. k \in 1..Len(w)
      BY <1>1, <2>2
    <3>2. v[k] = w[k]
      BY <3>1
    <3> QED
      BY <3>1, <3>2 DEF Counted
  <2> QED
    BY <2>1, <2>2
<1>4. ASSUME NEW k \in 1..Len(c)
      PROVE  c[k] = Len(v) + k
  <2>1. k + 1 \in 1..Len(b) /\ c[k] = b[k + 1]
    BY <1>1
  <2>2. b[k + 1] = Len(w) + (k + 1)
    BY <2>1 DEF Counted
  <2> QED
    BY <1>1, <2>1, <2>2
<1> QED
  BY <1>1, <1>3, <1>4 DEF Counted

LEMMA CountedWhole ==
  ASSUME NEW w \in Seq(Nat), NEW b \in Seq(Nat), Counted(w, b)
  PROVE  w \o b = [k \in 1..(Len(w) + Len(b)) |-> k]
<1> DEFINE f == [k \in 1..(Len(w) + Len(b)) |-> k]
<1>1. Len(w) \in Nat /\ Len(b) \in Nat /\ w \o b \in Seq(Nat) /\ Len(w \o b) = Len(w) + Len(b)
  OBVIOUS
<1>2. ASSUME NEW k \in 1..(Len(w) + Len(b))
      PROVE  (w \o b)[k] = k
  <2>1. CASE k <= Len(w)
    BY <1>1, <2>1 DEF Counted
  <2>2. CASE k > Len(w)
    <3>1. k - Len(w) \in 1..Len(b) /\ (w \o b)[k] = b[k - Len(w)]
      BY <1>1, <2>2
    <3>2. b[k - Len(w)] = Len(w) + (k - Len(w))
      BY <3>1 DEF Counted
    <3> QED
      BY <1>1, <3>1, <3>2
  <2> QED
    BY <1>1, <2>1, <2>2
<1>3. w \o b \in [1..(Len(w) + Len(b)) -> Nat]
  BY <1>1, LenProperties
<1> QED
  BY <1>2, <1>3

LEMMA RestBounds ==
  ASSUME Types, Held
  PROVE  /\ cpu.job # 0 => /\ cpu.job \in Boxes /\ Length \in Lengths
                           /\ Length \in Nat /\ Length > 0 /\ Length <= 2 * Chunk
         /\ \A n \in Lengths \cup {0} : /\ n \in 0..(2 * Chunk) /\ Rest(n) \in 0..Chunk
                                        /\ (n > Chunk <=> Rest(n) # 0) /\ (n \in Lengths => n > 0)
<1>1. \A n \in Lengths \cup {0} : n \in 0..(2 * Chunk) /\ (n \in Lengths => n > 0)
  BY IopAssumption
<1>2. Chunk \in Nat
  BY IopAssumption
<1>3. \A n \in Lengths \cup {0} : Rest(n) \in 0..Chunk /\ (n > Chunk <=> Rest(n) # 0)
  BY <1>1, <1>2 DEF Rest
<1>4. cpu.job # 0 => cpu.job \in Boxes /\ Length \in Lengths
  BY DEF Types, Held, CpuStates, Length
<1>5. \A n \in Lengths : n \in Nat /\ n > 0 /\ n <= 2 * Chunk
  BY <1>1, <1>2
<1> QED
  BY <1>1, <1>3, <1>4, <1>5

\* Where nothing is left to move, nothing moves.
LEMMA NothingMoves ==
  ASSUME NEW p \in IoStates, Drained(p) \/ Waiting(p), NEW i \in Channels
  PROVE  ~CanMove(p, i)
BY DEF Drained, Waiting, CanMove, Channels

LEMMA MoveOne ==
  ASSUME NEW m \in Nat, NEW a \in Nat, NEW b \in Nat, a # 0
  PROVE  /\ (m + 1) + (a - 1) + b = m + a + b
         /\ (m + 1) + b + (a - 1) = m + b + a
         /\ (m + 1) + (a - 1) + 1 = m + a + 1
         /\ a - 1 = 0 => m + a + 1 = (m + 1) + 1
OBVIOUS

LEMMA BeatProgresses ==
  ASSUME NEW p \in IoStates, Len(p.bytes) <= 2, RoomAsked(p), NEW i \in Channels,
         wire \in Seq(Nat), Progress(p), Length \in Nat
  PROVE  Progress(BeatOf(p, i))
<1> DEFINE q == BeatOf(p, i)
           j == 3 - i
<1>1. CASE ~CanMove(p, i)
  BY <1>1, BeatMoves
<1>2. CASE CanMove(p, i)
  <2>0. p.ch[1] \in ChStates /\ p.ch[2] \in ChStates /\ 1 \in Channels /\ 2 \in Channels
    BY Channelled DEF Channels
  <2>1. /\ p.ch[1].left \in Nat /\ p.ch[2].left \in Nat /\ p.ch[1].map \in Nat /\ p.ch[2].map \in Nat
    BY SMTT(60), <2>0, IopAssumption DEF ChStates
  <2>2. /\ q.armed = p.armed /\ q.ext = p.ext
        /\ q.bytes = Append(p.bytes, p.ch[i].map)
        /\ q.ch[i].map = p.ch[i].map + 1 /\ q.ch[i].left = p.ch[i].left - 1
        /\ q.ch[j].chain = p.ch[j].chain /\ q.ch[j].map = p.ch[j].map /\ q.ch[j].left = p.ch[j].left
        /\ q.ch[i].left # 0 => q.ch[i].on /\ q.ch[j].on = p.ch[j].on
        /\ q.ch[i].left = 0 => q.ch[j].on = (p.ch[j].on \/ p.ch[j].chain)
    BY <1>2, BeatMoves
  <2>3. p.ch[i].on /\ p.ch[i].left # 0
    BY <1>2 DEF CanMove
  <2> HIDE DEF q
  <2>4. p.bytes \in Seq(Nat)
    BY DEF IoStates
  <2>5. p.ch[i].map = Moved(p) + 1
    BY <2>1, <2>3 DEF Progress, Channels
  <2>6. Counted(wire, q.bytes)
    BY <2>2, <2>4, <2>5, CountedJoin DEF Progress, Moved
  <2>7. Moved(q) = Moved(p) + 1 /\ Moved(p) \in Nat
    BY <2>2, <2>4 DEF Moved
  <2>8. ~Drained(p)
    BY <2>3 DEF Drained, Channels
  <2>9. ~p.ext /\ cpu.pc # "complete"
    BY <2>8 DEF Progress
  <2> HIDE DEF j
  <2>10. /\ Moved(p) + p.ch[1].left + p.ch[2].left = Length
         /\ p.ch[1].left # 0 => /\ ~p.ch[2].on /\ p.ch[1].on /\ p.ch[1].map = Moved(p) + 1
                                /\ (p.ch[2].chain <=> p.ch[2].left # 0)
                                /\ p.ch[2].left # 0 => p.ch[2].map = Moved(p) + p.ch[1].left + 1
         /\ cpu.pc = "arm" => ~q.armed /\ ~q.ext
    BY <2>2 DEF Progress
  <2>11. CASE i = 1
    <3>1. ~p.ch[2].on /\ (p.ch[2].chain <=> p.ch[2].left # 0) /\ p.ch[1].left # 0
      BY <2>3, <2>10, <2>11
    <3>2. /\ q.ch[1].map = p.ch[1].map + 1 /\ q.ch[1].left = p.ch[1].left - 1
          /\ q.ch[2].chain = p.ch[2].chain /\ q.ch[2].map = p.ch[2].map /\ q.ch[2].left = p.ch[2].left
          /\ q.ch[1].left # 0 => q.ch[1].on /\ q.ch[2].on = p.ch[2].on
          /\ q.ch[1].left = 0 => q.ch[2].on = (p.ch[2].on \/ p.ch[2].chain)
      <4>1. j = 2
        BY <2>11 DEF j
      <4> QED
        BY <2>2, <2>11, <4>1
    <3> DEFINE m == Moved(p)
               a == p.ch[1].left
               b == p.ch[2].left
    <3>0. /\ (m + 1) + (a - 1) + b = m + a + b /\ (m + 1) + (a - 1) + 1 = m + a + 1
          /\ a - 1 = 0 => m + a + 1 = (m + 1) + 1
      BY ZenonT(60), <2>1, <2>7, <3>1, MoveOne
    <3>3. Moved(q) + q.ch[1].left + q.ch[2].left = Length
      BY <2>7, <2>10, <3>0, <3>2
    <3>4. q.ch[1].left # 0 => /\ ~q.ch[2].on /\ q.ch[1].on /\ q.ch[1].map = Moved(q) + 1
                              /\ (q.ch[2].chain <=> q.ch[2].left # 0)
                              /\ q.ch[2].left # 0 => q.ch[2].map = Moved(q) + q.ch[1].left + 1
      BY <2>7, <2>10, <3>0, <3>1, <3>2
    <3>5. q.ch[1].left = 0 /\ q.ch[2].left # 0 => q.ch[2].on /\ q.ch[2].map = Moved(q) + 1
      BY <2>7, <2>10, <3>0, <3>1, <3>2
    <3>6. Progress(q)
      BY <2>2, <2>6, <2>9, <2>10, <3>3, <3>4, <3>5 DEF Progress
    <3> QED
      BY <3>6 DEF q
  <2>12. CASE i = 2
    <3>1. p.ch[1].left = 0
      BY <2>3, <2>10, <2>12
    <3>2. /\ q.ch[2].map = p.ch[2].map + 1 /\ q.ch[2].left = p.ch[2].left - 1
          /\ q.ch[1].left = p.ch[1].left
          /\ q.ch[2].left # 0 => q.ch[2].on
      <4>1. j = 1
        BY <2>12 DEF j
      <4> QED
        BY <2>2, <2>12, <4>1
    <3>3. Moved(q) + q.ch[1].left + q.ch[2].left = Length
      BY SMTT(60), <2>1, <2>7, <2>10, <3>1, <3>2
    <3>4. q.ch[2].left # 0 => q.ch[2].on /\ q.ch[2].map = Moved(q) + 1
      BY <2>1, <2>5, <2>7, <2>12, <3>2
    <3>5. Progress(q)
      BY <2>2, <2>6, <2>9, <2>10, <3>1, <3>2, <3>3, <3>4 DEF Progress
    <3> QED
      BY <3>5 DEF q
  <2> QED
    BY <2>11, <2>12 DEF Channels
<1> QED
  BY <1>1, <1>2

-----------------------------------------------------------------------------
(* The devices                                                             *)

LEMMA BeatSafe ==
  ASSUME IInv, Beat
  PROVE  IInv'
<1> DEFINE mid == BeatOf(io, 1)
<1>0. /\ Types /\ Held /\ NothingForgotten /\ Whole /\ io \in IoStates /\ Len(io.bytes) <= 2 /\ RoomAsked(io)
      /\ wire \in Seq(Nat) /\ 1 \in Channels /\ 2 \in Channels
      /\ UNCHANGED << mail, cpu, host, oss, wire, posts, stops >>
  BY DEF IInv, Types, Whole, Channels, Beat
<1>1. Current(io) /\ oss = io.int0
  BY <1>0 DEF NothingForgotten, Current
<1>2. /\ mid \in IoStates /\ Len(mid.bytes) <= 2 /\ RoomAsked(mid)
      /\ mid.run = io.run /\ mid.int0 = io.int0 /\ io.flags \subseteq mid.flags /\ Current(mid)
      /\ ~CanMove(io, 1) => mid = io
  BY <1>0, <1>1, BeatMoves
<1>3. UnderWay => Progress(mid)
  <2> SUFFICES ASSUME UnderWay PROVE Progress(mid)
    OBVIOUS
  <2>1. Length \in Nat /\ Progress(io)
    BY <1>0, RestBounds, IopAssumption DEF UnderWay, Whole
  <2> QED
    BY <1>0, <2>1, BeatProgresses
<1>4. io' = BeatOf(mid, 2) /\ io' # io
  BY DEF Beat
<1> HIDE DEF mid
<1>5. /\ io' \in IoStates /\ Len(io'.bytes) <= 2 /\ RoomAsked(io')
      /\ io'.run = io.run /\ io'.int0 = io.int0 /\ io.flags \subseteq io'.flags /\ Current(io')
      /\ ~CanMove(mid, 2) => io' = mid
  BY <1>0, <1>2, <1>4, BeatMoves
<1>6. CanMove(io, 1) \/ CanMove(io, 2)
  BY <1>2, <1>4, <1>5
<1>7. ~Drained(io) /\ ~Waiting(io)
  BY <1>0, <1>6, NothingMoves
<1>8. UnderWay => Progress(io')
  <2> SUFFICES ASSUME UnderWay PROVE Progress(io')
    OBVIOUS
  <2>1. Length \in Nat
    BY <1>0, RestBounds, IopAssumption DEF UnderWay
  <2> QED
    BY <1>0, <1>2, <1>3, <1>4, <2>1, BeatProgresses
<1>9. Types'
  BY <1>0, <1>5 DEF Types
<1>10. Held'
  BY <1>0, <1>5 DEF Held
<1>11. NothingForgotten'
  BY <1>0, <1>5 DEF NothingForgotten, Current, Interrupting
<1>12. Whole'
  <2>1. UNCHANGED << Preparing, UnderWay >>
    BY <1>0 DEF Preparing, UnderWay
  <2>2. Progress(io') => Progress(io)'
    BY <1>0 DEF Progress, Moved, Length, Drained, Counted
  <2> QED
    BY <1>0, <1>5, <1>7, <1>8, <2>1, <2>2 DEF Whole, Empty, RoomAsked, TxEmpty
<1> QED
  BY <1>9, <1>10, <1>11, <1>12 DEF IInv

LEMMA TickKeeps ==
  ASSUME IInv, NEW feeds \in BOOLEAN, NEW shifts \in BOOLEAN, Tick(feeds, shifts)
  PROVE  /\ io' \in IoStates /\ Len(io'.bytes) <= 2 /\ RoomAsked(io')
         /\ io'.run = io.run /\ io'.int0 = io.int0 /\ ("host" \in io'.flags <=> "host" \in io.flags)
         /\ Current(io') /\ SameCounts(io', io)
         /\ ~shifts => io'.bytes = io.bytes /\ io'.armed = io.armed /\ io'.ext = io.ext
         /\ shifts => /\ io'.bytes = Tail(io.bytes)
                      /\ io'.armed => io.armed
                      /\ io'.ext => io.ext \/ (io.armed /\ io'.bytes = << >>)
                      /\ io'.bytes = << >> => ~io'.armed
<1> DEFINE p == IF feeds THEN Fed(io) ELSE io
           q == IF shifts THEN Shifted(p) ELSE p
           r == SetPeripheral(q, SccIrq(q))
<1>0. io \in IoStates /\ Len(io.bytes) <= 2 /\ RoomAsked(io) /\ io.bytes \in Seq(Nat)
  BY DEF IInv, Types, Whole, IoStates
<1>1. io' = Requests(r) /\ (shifts => io.bytes # << >>)
  BY DEF Tick
<1>2. p \in IoStates /\ SameLatches(p, io) /\ SameLine(p, io)
  BY <1>0, FeedKeeps DEF SameLatches, SameLine
<1> HIDE DEF p
<1>3. /\ q \in IoStates /\ SameLatches(q, io) /\ SameCounts(q, io) /\ Len(q.bytes) <= 2
      /\ ~shifts => q.bytes = io.bytes /\ q.armed = io.armed /\ q.ext = io.ext
      /\ shifts => /\ q.bytes = Tail(io.bytes)
                   /\ q.armed => io.armed
                   /\ q.ext => io.ext \/ (io.armed /\ q.bytes = << >>)
                   /\ q.bytes = << >> => ~q.armed
  <2>1. CASE shifts
    <3>1. p.bytes = io.bytes /\ p.bytes # << >> /\ Len(p.bytes) <= 2 /\ p.armed = io.armed /\ p.ext = io.ext /\ p.ch = io.ch
      BY <1>0, <1>1, <1>2, <2>1 DEF SameLine
    <3>2. Len(Tail(io.bytes)) <= 2
      BY <1>0, <3>1, ShortSeq
    <3>3. /\ Shifted(p) \in IoStates /\ SameLatches(Shifted(p), p) /\ SameCounts(Shifted(p), p)
          /\ Shifted(p).bytes = Tail(p.bytes)
          /\ Shifted(p).armed => p.armed
          /\ Shifted(p).ext => p.ext \/ (p.armed /\ Shifted(p).bytes = << >>)
          /\ Shifted(p).bytes = << >> => ~Shifted(p).armed
      BY <1>2, <3>1, ShiftMoves
    <3>4. q = Shifted(p)
      BY <2>1
    <3> HIDE DEF q
    <3> QED
      BY <1>2, <2>1, <3>1, <3>2, <3>3, <3>4 DEF SameLatches, SameCounts
  <2>2. CASE ~shifts
    BY <1>0, <1>2, <2>2 DEF SameLatches, SameLine, SameCounts
  <2> QED
    BY <2>1, <2>2
<1> HIDE DEF q
<1>4. SccIrq(q) \in BOOLEAN
  BY <1>3 DEF SccIrq, IoStates
<1>5. /\ r \in IoStates /\ SameLine(r, q) /\ r.run = q.run /\ r.int0 = q.int0
      /\ ("host" \in r.flags <=> "host" \in q.flags) /\ Current(r)
  BY <1>3, <1>4, PeripheralKeeps
<1> HIDE DEF r
<1>6. /\ io' \in IoStates /\ SameLatches(io', r) /\ SameCounts(io', r)
      /\ io'.bytes = r.bytes /\ io'.armed = r.armed /\ io'.ext = r.ext /\ RoomAsked(io')
  BY <1>1, <1>5, RequestsAsk
<1>7. Current(io')
  BY <1>5, <1>6 DEF Current, SameLatches, Interrupting
<1> QED
  BY <1>3, <1>5, <1>6, <1>7 DEF SameLine, SameLatches, SameCounts

LEMMA TickSafe ==
  ASSUME IInv, NEW feeds \in BOOLEAN, NEW shifts \in BOOLEAN, Tick(feeds, shifts)
  PROVE  IInv'
<1>0. /\ Types /\ Held /\ NothingForgotten /\ Whole /\ io \in IoStates /\ Len(io.bytes) <= 2
      /\ wire \in Seq(Nat) /\ io.bytes \in Seq(Nat) /\ 1 \in Channels /\ 2 \in Channels
  BY DEF IInv, Types, Channels, IoStates
<1>1. /\ UNCHANGED << mail, cpu, host, posts, stops >> /\ oss' = io'.int0
      /\ wire' = IF shifts THEN Append(wire, Head(io.bytes)) ELSE wire
      /\ shifts => io.bytes # << >> /\ Settled
  BY DEF Tick
<1>2. /\ io' \in IoStates /\ Len(io'.bytes) <= 2 /\ RoomAsked(io')
      /\ io'.run = io.run /\ io'.int0 = io.int0 /\ ("host" \in io'.flags <=> "host" \in io.flags)
      /\ Current(io') /\ SameCounts(io', io)
      /\ ~shifts => io'.bytes = io.bytes /\ io'.armed = io.armed /\ io'.ext = io.ext
      /\ shifts => /\ io'.bytes = Tail(io.bytes)
                   /\ io'.armed => io.armed
                   /\ io'.ext => io.ext \/ (io.armed /\ io'.bytes = << >>)
                   /\ io'.bytes = << >> => ~io'.armed
  BY TickKeeps
<1>3. Types'
  <2>1. oss' \in BOOLEAN
    BY <1>1, <1>2 DEF IoStates
  <2>2. wire' \in Seq(Nat)
    BY <1>0, <1>1
  <2> QED
    BY <1>0, <1>1, <1>2, <2>1, <2>2 DEF Types
<1>4. Held'
  BY <1>0, <1>1, <1>2 DEF Held
<1>5. NothingForgotten'
  BY <1>0, <1>1, <1>2 DEF NothingForgotten, Current, Interrupting
<1>6. UNCHANGED << Preparing, UnderWay, Length >>
  BY <1>1 DEF Preparing, UnderWay, Length
<1>7. Whole'
  <2>1. CASE ~shifts
    <3>1. wire' = wire /\ io'.bytes = io.bytes /\ io'.armed = io.armed /\ io'.ext = io.ext
      BY <1>1, <1>2, <2>1
    <3>2. /\ Waiting(io) => Waiting(io)'
          /\ Empty(io) => Empty(io)'
          /\ Drained(io) => Drained(io)'
      BY <1>0, <1>1, <1>2, <1>6, <3>1 DEF Waiting, Empty, Drained, SameCounts
    <3>3. Progress(io) => Progress(io)'
      BY ZenonT(60), <1>0, <1>1, <1>2, <1>6, <3>1 DEF Progress, Drained, Moved, Counted, SameCounts
    <3> QED
      BY <1>0, <1>1, <1>2, <1>6, <3>1, <3>2, <3>3 DEF Whole, RoomAsked, TxEmpty
  <2>2. CASE shifts
    <3>1. io.bytes # << >> /\ ~Empty(io) /\ ~Waiting(io)
      BY <1>1, <2>2 DEF Empty, Waiting
    <3>2. Drained(io) => Drained(io)'
      BY <1>0, <1>2 DEF Drained, SameCounts
    <3>3. ASSUME UnderWay
          PROVE  Progress(io)'
      <4>0. Progress(io)
        BY <1>0, <3>3 DEF Whole
      <4>1. ~io.ext /\ cpu.pc # "complete"
        BY <3>1, <4>0 DEF Progress
      <4>2. wire' = Append(wire, Head(io.bytes)) /\ io'.bytes = Tail(io.bytes)
        BY <1>1, <1>2, <2>2
      <4>3. Counted(wire', io'.bytes) /\ Moved(io)' = Moved(io)
        BY ZenonT(60), <1>0, <3>1, <4>0, <4>2, CountedShift DEF Progress, Moved
      <4>4. io'.ext => Drained(io) /\ io'.bytes = << >> /\ ~io'.armed
        <5>1. SUFFICES ASSUME io'.ext PROVE Drained(io) /\ io'.bytes = << >> /\ ~io'.armed
          OBVIOUS
        <5>2. io'.bytes = << >> /\ ~io'.armed
          BY <1>2, <2>2, <4>1, <5>1
        <5>3. TxEmpty(io)
          <6>1. Tail(io.bytes) = << >>
            BY <4>2, <5>2
          <6> QED
            BY <1>0, <3>1, <6>1, ShortSeq DEF TxEmpty
        <5>4. \A i \in Channels : io.ch[i].req = io.ch[i].on
          <6>1. Requests(io) = io
            BY <1>1, <2>2 DEF Settled
          <6>2. \A i \in Channels : io.ch[i].req = (io.ch[i].on /\ TxEmpty(io))
            BY <1>0, <6>1, RequestsAsk
          <6>3. \A i \in Channels : io.ch[i].on \in BOOLEAN /\ io.ch[i].req \in BOOLEAN
            BY <1>0, Channelled DEF ChStates
          <6> QED
            BY <5>3, <6>2, <6>3
        <5>5. \A i \in Channels : io.ch[i].on => io.ch[i].left = 0
          BY <1>1, <2>2, <5>4 DEF Settled, CanMove
        <5>6. Drained(io)
          BY <1>0, <4>0, <5>5 DEF Drained, Progress
        <5> QED
          BY <5>2, <5>6
      <4>5. cpu.pc = "arm" => ~io'.armed /\ ~io'.ext
        BY <1>2, <2>2, <4>0 DEF Progress
      <4> QED
        BY <1>0, <1>1, <1>2, <1>6, <3>2, <4>0, <4>1, <4>3, <4>4, <4>5 DEF Progress, SameCounts
    <3> QED
      BY <1>0, <1>1, <1>2, <1>6, <3>1, <3>2, <3>3 DEF Whole, RoomAsked, TxEmpty
  <2> QED
    BY <2>1, <2>2
<1> QED
  BY <1>3, <1>4, <1>5, <1>7 DEF IInv

-----------------------------------------------------------------------------
(* The firmware                                                            *)

\* What the firmware's steps have in common: the processor runs, and only its place moves.
LEMMA FirmwareFacts ==
  ASSUME IInv
  PROVE  /\ Types /\ Held /\ NothingForgotten /\ Whole /\ io \in IoStates /\ Len(io.bytes) <= 2
         /\ cpu \in CpuStates /\ Current(io) /\ oss = io.int0 /\ RoomAsked(io)
         /\ \A pc \in Pcs : [cpu EXCEPT !.pc = pc] \in CpuStates
         /\ \A pc \in Pcs : /\ [cpu EXCEPT !.pc = pc].pc = pc /\ [cpu EXCEPT !.pc = pc].job = cpu.job
                            /\ [cpu EXCEPT !.pc = pc].armed = cpu.armed
BY DEF IInv, Types, CpuStates, NothingForgotten, Current, Whole

LEMMA BootSafe ==
  ASSUME IInv, BootDma \/ BootScc \/ BootIrq
  PROVE  IInv'
<1>0. /\ Types /\ Held /\ NothingForgotten /\ Whole /\ io \in IoStates /\ Len(io.bytes) <= 2
      /\ cpu \in CpuStates /\ Current(io) /\ oss = io.int0 /\ RoomAsked(io)
  BY FirmwareFacts
<1>1. io.run /\ cpu.pc \in Booting /\ cpu.job = 0 /\ 1 \in Channels /\ 2 \in Channels
  BY <1>0 DEF BootDma, BootScc, BootIrq, Runs, Booting, Held, Channels
<1>2. UNCHANGED << mail, oss, wire, host, posts, stops >>
  BY DEF BootDma, BootScc, BootIrq, Quiet
<1>3. cpu' \in CpuStates /\ cpu'.job = 0 /\ cpu'.pc \in {"bootscc", "bootirq", "scan"}
  BY <1>0, <1>1 DEF BootDma, BootScc, BootIrq, Goto, CpuStates, Pcs, Booting
<1>4. /\ io' \in IoStates /\ Len(io'.bytes) <= 2 /\ RoomAsked(io') /\ io'.run = io.run /\ io'.int0 = io.int0
      /\ Current(io') /\ Drained(io')
      /\ cpu'.pc # "bootscc" => Empty(io')
  <2>1. CASE BootDma
    <3> DEFINE no == FALSE
               p == Program(io, 1, no, no, 0, 0)
               q == Program(p, 2, no, no, 0, 0)
    <3>0. no \in BOOLEAN
      OBVIOUS
    <3>1. 0 \in Nat /\ 0 \in 0..Chunk /\ 0 + 0 <= 2 * Chunk + 1
      BY IopAssumption
    <3>2. /\ p \in IoStates /\ SameLatches(p, io) /\ p.bytes = io.bytes /\ p.ch[1].left = 0
      <4> HIDE DEF no
      <4> QED
        BY <1>0, <1>1, <3>0, <3>1, ProgramSets
    <3> HIDE DEF p
    <3>3. /\ q \in IoStates /\ SameLatches(q, p) /\ q.bytes = p.bytes /\ q.ch[2].left = 0
          /\ q.ch[1].left = 0 /\ RoomAsked(q)
      <4> HIDE DEF no
      <4>1. 1 # 2
        OBVIOUS
      <4>2. q \in IoStates /\ SameLatches(q, p) /\ q.bytes = p.bytes /\ q.ch[2].left = 0 /\ RoomAsked(q)
        BY <1>1, <3>0, <3>1, <3>2, ProgramSets
      <4>3. q.ch[1].left = p.ch[1].left
        BY <1>1, <3>2, <4>1, <4>2, ProgramSpares
      <4> QED
        BY <3>2, <4>2, <4>3
    <3>4. io' = q /\ cpu'.pc = "bootscc"
      BY <1>0, <2>1 DEF BootDma, p, Goto, CpuStates
    <3> HIDE DEF q
    <3> QED
      BY <1>0, <3>2, <3>3, <3>4 DEF SameLatches, Current, Interrupting, Drained
  <2>2. CASE BootScc
    <3>1. io' = ResetScc(io, {"master", "ext", "tx"}) /\ cpu.pc = "bootscc"
      BY <2>2 DEF BootScc, Runs
    <3>2. /\ io' \in IoStates /\ SameLatches(io', io) /\ io'.ch = io.ch
          /\ io'.bytes = << >> /\ ~io'.armed /\ ~io'.ext /\ RoomAsked(io')
      BY <1>0, <3>1, ResetEmpties
    <3>3. Drained(io)
      BY <1>0, <3>1 DEF Whole
    <3> QED
      BY <1>0, <3>2, <3>3 DEF SameLatches, Current, Interrupting, Drained, Empty
  <2>3. CASE BootIrq
    <3> DEFINE p == [io EXCEPT !.flags = {}, !.mask = Interrupts]
    <3>1. p \in IoStates /\ SameLine(p, io) /\ p.run = io.run /\ p.int0 = io.int0
      BY <1>0 DEF IoStates, SameLine
    <3>2. io' = UpdateCpuIrq(p) /\ cpu.pc = "bootirq"
      BY <2>3 DEF BootIrq, Runs
    <3> HIDE DEF p
    <3>3. /\ io' \in IoStates /\ SameLine(io', p) /\ io'.run = p.run /\ io'.int0 = p.int0 /\ Current(io')
      BY <3>1, <3>2, Latching DEF Interrupts
    <3>4. Empty(io)
      BY <1>0, <1>1, <3>2 DEF Whole
    <3> QED
      BY <1>0, <3>1, <3>3, <3>4 DEF SameLine, Drained, Empty, RoomAsked, TxEmpty
  <2> QED
    BY <2>1, <2>2, <2>3
<1>5. cpu'.pc = "scan" \/ cpu'.pc \in Booting
  BY <1>3 DEF Booting
<1>6. Types'
  BY <1>0, <1>2, <1>3, <1>4 DEF Types
<1>7. Held'
  BY <1>0, <1>1, <1>2, <1>3, <1>4 DEF Held
<1>8. NothingForgotten'
  <2>1. cpu.pc # "raise"
    BY <1>1 DEF Booting
  <2> QED
    BY <1>0, <1>1, <1>2, <1>4, <1>5, <2>1 DEF NothingForgotten, Current, Interrupting
<1>9. Whole'
  <2>1. ~Preparing' /\ ~UnderWay' /\ cpu'.pc # "chain"
    BY <1>3 DEF Preparing, UnderWay
  <2> QED
    BY <1>3, <1>4, <2>1 DEF Whole, RoomAsked, TxEmpty, Drained, Empty
<1> QED
  BY <1>6, <1>7, <1>8, <1>9 DEF IInv

LEMMA TakeSafe ==
  ASSUME IInv, NEW f \in Interrupts, Take(f)
  PROVE  IInv'
<1>0. /\ Types /\ Held /\ NothingForgotten /\ Whole /\ io \in IoStates /\ Len(io.bytes) <= 2
      /\ cpu \in CpuStates /\ Current(io) /\ oss = io.int0 /\ RoomAsked(io)
  BY FirmwareFacts
<1>1. io.run /\ cpu.pc = "idle" /\ io' = ClearInterrupt(io, f) /\ UNCHANGED << mail, oss, wire, host, posts, stops >>
  BY DEF Take, Runs, Quiet
<1>2. /\ cpu' \in CpuStates /\ cpu'.job = cpu.job /\ cpu'.armed = cpu.armed
      /\ cpu'.pc \in {"scan", "serve", "idle"} /\ (f = "host" => cpu'.pc = "scan")
  <2> DEFINE pc == CASE f = "host" -> "scan" [] f = "peripheral" -> "serve" [] OTHER -> "idle"
  <2>1. pc \in {"scan", "serve", "idle"} /\ (f = "host" => pc = "scan")
    OBVIOUS
  <2>2. cpu' = [cpu EXCEPT !.pc = pc]
    BY DEF Take, Goto
  <2>3. pc \in Pcs
    BY <2>1 DEF Pcs
  <2> HIDE DEF pc
  <2> QED
    BY <1>0, <2>1, <2>2, <2>3, FirmwareFacts
<1>3. /\ io' \in IoStates /\ SameLine(io', io) /\ io'.run = io.run /\ io'.int0 = io.int0
      /\ io'.flags = io.flags \ {f} /\ io'.mask = io.mask /\ Current(io')
  BY <1>0, <1>1, Latching
<1>4. Types'
  BY <1>0, <1>1, <1>2, <1>3 DEF Types, SameLine
<1>5. Held'
  BY <1>0, <1>1, <1>2, <1>3 DEF Held, Booting
<1>6. NothingForgotten'
  BY <1>0, <1>1, <1>2, <1>3 DEF NothingForgotten, Current, Interrupting, Booting
<1>7. Whole'
  <2>1. UNCHANGED << wire, Length >> /\ ~Preparing' /\ UnderWay' = UnderWay
    BY <1>1, <1>2 DEF Preparing, UnderWay, Length
  <2>2. Progress(io) => Progress(io)'
    BY <1>1, <1>2, <1>3, <2>1 DEF Progress, Moved, Drained, SameLine
  <2> QED
    BY <1>0, <1>1, <1>2, <1>3, <2>1, <2>2 DEF Whole, RoomAsked, TxEmpty, Drained, Empty, SameLine
<1> QED
  BY <1>4, <1>5, <1>6, <1>7 DEF IInv

LEMMA ScanSafe ==
  ASSUME IInv, Scan
  PROVE  IInv'
<1>0. /\ Types /\ Held /\ NothingForgotten /\ Whole /\ io \in IoStates /\ Len(io.bytes) <= 2
      /\ cpu \in CpuStates /\ Current(io) /\ oss = io.int0 /\ RoomAsked(io)
  BY FirmwareFacts
<1>1. io.run /\ cpu.pc = "scan" /\ UNCHANGED << io, oss, host, posts, stops >>
  BY DEF Scan, Runs, Quiet
<1>2. ASSUME cpu.job = 0, NEW b \in Boxes, mail[b].state = "new",
             mail' = [mail EXCEPT ![b].state = "received"],
             NEW first \in BOOLEAN, cpu' = [pc |-> "chain", job |-> b, armed |-> first],
             wire' = << >>
      PROVE  IInv'
  <2>1. mail[b] \in MailStates /\ mail[b].n \in Lengths /\ b # 0
    BY <1>0, <1>2, IopAssumption DEF Types, Held
  <2>2. /\ mail' \in [Boxes -> MailStates] /\ mail'[b].state = "received" /\ mail'[b].n = mail[b].n
        /\ \A c \in Boxes \ {b} : mail'[c] = mail[c]
    BY <1>0, <1>2, <2>1 DEF Types, MailStates
  <2>3. cpu' \in CpuStates /\ cpu'.pc = "chain" /\ cpu'.job = b
    BY <1>2 DEF CpuStates, Pcs
  <2>4. Types'
    BY <1>0, <1>1, <1>2, <2>2, <2>3 DEF Types
  <2>5. Held'
    BY <1>0, <1>1, <1>2, <2>1, <2>2, <2>3 DEF Held, Booting
  <2>6. NothingForgotten'
    BY <1>0, <1>1, <2>1, <2>2, <2>3 DEF NothingForgotten, Interrupting, Booting
  <2>7. Whole'
    <3>1. ~Preparing' /\ ~UnderWay'
      BY <2>3 DEF Preparing, UnderWay
    <3>2. Empty(io)
      BY <1>0, <1>1, <1>2 DEF Whole
    <3> QED
      BY <1>0, <1>1, <1>2, <2>1, <2>3, <3>1, <3>2 DEF Whole, RoomAsked, TxEmpty, Empty, Drained
  <2> QED
    BY <2>4, <2>5, <2>6, <2>7 DEF IInv
<1>3. ASSUME ~(cpu.job = 0 /\ \E b \in Boxes : mail[b].state = "new"), Goto("idle"), UNCHANGED << mail, wire >>
      PROVE  IInv'
  <2>1. cpu' \in CpuStates /\ cpu'.pc = "idle" /\ cpu'.job = cpu.job /\ cpu'.armed = cpu.armed
    BY <1>0, <1>3, FirmwareFacts DEF Goto, Pcs
  <2>2. Types'
    BY <1>0, <1>1, <1>3, <2>1 DEF Types
  <2>3. Held'
    BY <1>0, <1>1, <1>3, <2>1 DEF Held, Booting
  <2>4. NothingForgotten'
    BY <1>0, <1>1, <1>3, <2>1 DEF NothingForgotten, Interrupting, Booting
  <2>5. Whole'
    <3>1. ~Preparing' /\ UnderWay' = UnderWay /\ UNCHANGED Length
      BY <1>1, <1>3, <2>1 DEF Preparing, UnderWay, Length
    <3>2. Progress(io) => Progress(io)'
      BY <1>1, <1>3, <2>1, <3>1 DEF Progress, Moved, Drained
    <3> QED
      BY <1>0, <1>1, <1>3, <2>1, <3>1, <3>2 DEF Whole, RoomAsked, TxEmpty, Empty, Drained
  <2> QED
    BY <2>2, <2>3, <2>4, <2>5 DEF IInv
<1> QED
  BY <1>2, <1>3 DEF Scan

LEMMA ChainSafe ==
  ASSUME IInv, Chain
  PROVE  IInv'
<1>0. /\ Types /\ Held /\ NothingForgotten /\ Whole /\ io \in IoStates /\ Len(io.bytes) <= 2
      /\ cpu \in CpuStates /\ Current(io) /\ oss = io.int0 /\ RoomAsked(io)
  BY FirmwareFacts
<1>1. io.run /\ cpu.pc = "chain" /\ UNCHANGED << mail, oss, wire, host, posts, stops >>
  BY DEF Chain, Runs, Quiet
<1>2. /\ cpu' \in CpuStates /\ cpu'.pc = (IF cpu.armed THEN "arm" ELSE "start") /\ cpu'.job = cpu.job
      /\ cpu'.armed = cpu.armed
  BY <1>0, FirmwareFacts DEF Chain, Goto, Pcs
<1>3. cpu.job # 0 /\ Empty(io) /\ wire = << >>
  BY <1>0, <1>1 DEF Held, Whole
<1>4. Length \in Lengths /\ Rest(Length) \in 0..Chunk /\ Chunk + 1 \in Nat /\ (Length > Chunk) \in BOOLEAN
      /\ Chunk + 1 + Rest(Length) <= 2 * Chunk + 1
  BY <1>0, <1>3, RestBounds, IopAssumption
<1>5. io' = Program(io, 2, FALSE, Length > Chunk, Chunk + 1, Rest(Length))
  BY DEF Chain, Length, Rest
<1>6. 1 \in Channels /\ 2 \in Channels /\ 1 # 2 /\ FALSE \in BOOLEAN
  BY DEF Channels
<1>7. /\ io' \in IoStates /\ SameLatches(io', io) /\ RoomAsked(io')
      /\ io'.bytes = io.bytes /\ io'.armed = io.armed /\ io'.ext = io.ext
      /\ ~io'.ch[2].on /\ (io'.ch[2].chain <=> Length > Chunk) /\ io'.ch[2].map = Chunk + 1
      /\ io'.ch[2].left = Rest(Length)
      /\ io'.ch[1].left = io.ch[1].left
  <2> DEFINE no == FALSE
             more == Length > Chunk
             next == Chunk + 1
             rest == Rest(Length)
             q == Program(io, 2, no, more, next, rest)
  <2>0. no \in BOOLEAN /\ more \in BOOLEAN /\ next \in Nat /\ rest \in 0..Chunk /\ next + rest <= 2 * Chunk + 1
    BY <1>4
  <2>3. io' = q
    BY <1>5
  <2>4. ~no /\ (more <=> Length > Chunk) /\ next = Chunk + 1 /\ rest = Rest(Length)
    OBVIOUS
  <2> HIDE DEF no, more, next, rest
  <2>1. /\ q \in IoStates /\ SameLatches(q, io) /\ RoomAsked(q)
        /\ q.bytes = io.bytes /\ q.armed = io.armed /\ q.ext = io.ext
        /\ (q.ch[2].on <=> no) /\ (q.ch[2].chain <=> more) /\ q.ch[2].map = next
        /\ q.ch[2].left = rest
    BY <1>0, <1>6, <2>0, ProgramSets
  <2>2. q.ch[1].left = io.ch[1].left
    BY <1>0, <1>6, <2>1, ProgramSpares
  <2> HIDE DEF q
  <2> QED
    BY <2>1, <2>2, <2>3, <2>4
<1>8. Types'
  BY <1>0, <1>1, <1>2, <1>7 DEF Types
<1>9. Held'
  BY <1>0, <1>1, <1>2, <1>3, <1>7 DEF Held, Booting, SameLatches
<1>10. NothingForgotten'
  BY <1>0, <1>1, <1>2, <1>3, <1>7 DEF NothingForgotten, Current, Interrupting, Booting, SameLatches
<1>11. Whole'
  <2>1. UNCHANGED Length /\ ~UnderWay'
    BY <1>1, <1>2 DEF Length, UnderWay
  <2>2. Waiting(io)'
    BY <1>1, <1>2, <1>3, <1>7, <2>1 DEF Waiting, Empty, Drained
  <2> QED
    BY <1>2, <1>3, <1>7, <2>1, <2>2 DEF Whole, RoomAsked, TxEmpty
<1> QED
  BY <1>8, <1>9, <1>10, <1>11 DEF IInv

LEMMA StartSafe ==
  ASSUME IInv, Start
  PROVE  IInv'
<1> DEFINE n1 == IF Length > Chunk THEN Chunk ELSE Length
<1>0. /\ Types /\ Held /\ NothingForgotten /\ Whole /\ io \in IoStates /\ Len(io.bytes) <= 2
      /\ cpu \in CpuStates /\ Current(io) /\ oss = io.int0 /\ RoomAsked(io)
  BY FirmwareFacts
<1>1. io.run /\ cpu.pc = "start" /\ UNCHANGED << mail, oss, wire, host, posts, stops >>
  BY DEF Start, Runs, Quiet
<1>2. /\ cpu' \in CpuStates /\ cpu'.pc = (IF cpu.armed THEN "idle" ELSE "arm") /\ cpu'.job = cpu.job
      /\ cpu'.armed = cpu.armed
  BY <1>0, FirmwareFacts DEF Start, Goto, Pcs
<1>3. cpu.job # 0 /\ Waiting(io)
  BY <1>0, <1>1 DEF Held, Whole, Preparing
<1>4. /\ Length \in Nat /\ Length > 0 /\ Length <= 2 * Chunk /\ Chunk \in Nat /\ Chunk > 0
      /\ Rest(Length) = (IF Length > Chunk THEN Length - Chunk ELSE 0)
  BY <1>0, <1>3, RestBounds, IopAssumption DEF Rest
<1>5. n1 \in 0..Chunk /\ 1 + n1 <= 2 * Chunk + 1 /\ n1 + Rest(Length) = Length /\ n1 # 0
  BY <1>4
<1>6. io' = Program(io, 1, TRUE, Length > Chunk, 1, n1)
  BY DEF Start, Length
<1>7. 2 \in Channels /\ 1 \in Channels /\ 1 # 2 /\ TRUE \in BOOLEAN /\ 1 \in Nat /\ (Length > Chunk) \in BOOLEAN
  BY DEF Channels
<1>8. /\ io' \in IoStates /\ SameLatches(io', io) /\ RoomAsked(io')
      /\ io'.bytes = io.bytes /\ io'.armed = io.armed /\ io'.ext = io.ext
      /\ io'.ch[1].on /\ io'.ch[1].map = 1 /\ io'.ch[1].left = n1
      /\ io'.ch[2].on = io.ch[2].on /\ io'.ch[2].chain = io.ch[2].chain
      /\ io'.ch[2].map = io.ch[2].map /\ io'.ch[2].left = io.ch[2].left
  <2> DEFINE yes == TRUE
             more == Length > Chunk
             first == 1
             q == Program(io, 1, yes, more, first, n1)
  <2> HIDE DEF n1
  <2>0. /\ yes \in BOOLEAN /\ more \in BOOLEAN /\ first \in Nat /\ n1 \in 0..Chunk /\ first + n1 <= 2 * Chunk + 1
    BY <1>5, <1>7
  <2>4. first = 1 /\ yes
    OBVIOUS
  <2>3. io' = q
    BY <1>6
  <2> HIDE DEF yes, more, first
  <2>1. /\ q \in IoStates /\ SameLatches(q, io) /\ RoomAsked(q)
        /\ q.bytes = io.bytes /\ q.armed = io.armed /\ q.ext = io.ext
        /\ (q.ch[1].on <=> yes) /\ q.ch[1].map = first /\ q.ch[1].left = n1
    BY <1>0, <1>7, <2>0, ProgramSets
  <2>2. /\ q.ch[2].on = io.ch[2].on /\ q.ch[2].chain = io.ch[2].chain
        /\ q.ch[2].map = io.ch[2].map /\ q.ch[2].left = io.ch[2].left
    BY <1>0, <1>7, <2>1, ProgramSpares
  <2> HIDE DEF q
  <2> QED
    BY <2>1, <2>2, <2>3, <2>4
<1>9. Types'
  BY <1>0, <1>1, <1>2, <1>8 DEF Types
<1>10. Held'
  BY <1>0, <1>1, <1>2, <1>3, <1>8 DEF Held, Booting, SameLatches
<1>11. NothingForgotten'
  BY <1>0, <1>1, <1>2, <1>3, <1>8 DEF NothingForgotten, Current, Interrupting, Booting, SameLatches
<1>12. Whole'
  <2>1. UNCHANGED Length /\ ~Preparing'
    BY <1>1, <1>2 DEF Length, Preparing
  <2>2. /\ wire' = << >> /\ io'.bytes = << >> /\ ~io'.ext /\ (io'.armed <=> cpu.armed)
        /\ io'.ch[2].on = io.ch[2].on /\ ~io.ch[2].on /\ (io'.ch[2].chain <=> Length > Chunk)
        /\ io'.ch[2].map = Chunk + 1 /\ io'.ch[2].left = Rest(Length)
    BY <1>1, <1>3, <1>8 DEF Waiting
  <2>3. Moved(io)' = 0 /\ Counted(wire', io'.bytes)
    BY <2>2 DEF Moved, Counted
  <2>4. Length' = Length
    BY <2>1
  <2>5. io'.ch[1].left + io'.ch[2].left = Length /\ io'.ch[1].left # 0
    BY <1>5, <1>8, <2>2
  <2>6. Moved(io)' + io'.ch[1].left + io'.ch[2].left = Length
    BY <1>4, <1>5, <1>8, <2>2, <2>3
  <2>7. /\ (io'.ch[2].chain <=> io'.ch[2].left # 0)
        /\ io'.ch[2].left # 0 => io'.ch[2].map = Moved(io)' + io'.ch[1].left + 1
    BY <1>4, <1>8, <2>2, <2>3
  <2>8. io'.ch[1].map = Moved(io)' + 1 /\ io'.ch[1].on /\ ~io'.ch[2].on
    BY <1>8, <2>2, <2>3
  <2>9. Progress(io)'
    BY <1>2, <2>2, <2>3, <2>4, <2>5, <2>6, <2>7, <2>8 DEF Progress
  <2> QED
    BY <1>2, <1>3, <1>8, <2>1, <2>9 DEF Whole, RoomAsked, TxEmpty
<1> QED
  BY <1>9, <1>10, <1>11, <1>12 DEF IInv

LEMMA ArmSafe ==
  ASSUME IInv, Arm
  PROVE  IInv'
<1>0. /\ Types /\ Held /\ NothingForgotten /\ Whole /\ io \in IoStates /\ Len(io.bytes) <= 2
      /\ cpu \in CpuStates /\ Current(io) /\ oss = io.int0 /\ RoomAsked(io)
  BY FirmwareFacts
<1>1. /\ io.run /\ cpu.pc = "arm" /\ UNCHANGED << mail, oss, wire, host, posts, stops >>
      /\ io' = [io EXCEPT !.armed = TRUE]
  BY DEF Arm, Runs, Quiet
<1>2. /\ cpu' \in CpuStates /\ cpu'.pc = (IF cpu.armed THEN "start" ELSE "idle") /\ cpu'.job = cpu.job
      /\ cpu'.armed = cpu.armed
  BY ZenonT(60), <1>0, FirmwareFacts DEF Arm, Goto, Pcs
<1>3. /\ io' \in IoStates /\ SameLatches(io', io) /\ io'.ch = io.ch /\ io'.bytes = io.bytes
      /\ io'.ext = io.ext /\ io'.armed = TRUE
  BY <1>0, <1>1 DEF IoStates, SameLatches
<1>4. cpu.job # 0 /\ UNCHANGED Length
  BY <1>0, <1>1, <1>2 DEF Held, Length
<1>5. Types'
  BY <1>0, <1>1, <1>2, <1>3 DEF Types
<1>6. Held'
  BY <1>0, <1>1, <1>2, <1>3, <1>4 DEF Held, Booting, SameLatches
<1>7. NothingForgotten'
  BY <1>0, <1>1, <1>2, <1>3, <1>4 DEF NothingForgotten, Current, Interrupting, Booting, SameLatches
<1>8. Whole'
  <2>1. CASE cpu.armed
    <3>1. Preparing /\ cpu'.pc = "start" /\ ~UnderWay'
      BY <1>1, <1>2, <2>1 DEF Preparing, UnderWay
    <3>2. Waiting(io)'
      BY <1>0, <1>1, <1>2, <1>3, <1>4, <2>1, <3>1 DEF Whole, Waiting
    <3> QED
      BY <1>0, <1>2, <1>3, <1>4, <3>1, <3>2 DEF Whole, RoomAsked, TxEmpty
  <2>2. CASE ~cpu.armed
    <3>1. UnderWay /\ cpu'.pc = "idle" /\ ~Preparing'
      BY <1>1, <1>2, <1>4, <2>2 DEF Preparing, UnderWay
    <3>2. Progress(io) /\ ~io.ext
      BY <1>0, <1>1, <3>1 DEF Whole, Progress
    <3>3. Progress(io)'
      BY <1>1, <1>2, <1>3, <1>4, <3>1, <3>2 DEF Progress, Moved, Drained
    <3> QED
      BY <1>0, <1>2, <1>3, <1>4, <3>1, <3>3 DEF Whole, RoomAsked, TxEmpty
  <2> QED
    BY <2>1, <2>2
<1> QED
  BY <1>5, <1>6, <1>7, <1>8 DEF IInv

LEMMA ServeSafe ==
  ASSUME IInv, Serve
  PROVE  IInv'
<1>0. /\ Types /\ Held /\ NothingForgotten /\ Whole /\ io \in IoStates /\ Len(io.bytes) <= 2
      /\ cpu \in CpuStates /\ Current(io) /\ oss = io.int0 /\ RoomAsked(io)
  BY FirmwareFacts
<1>1. io.run /\ cpu.pc = "serve" /\ UNCHANGED << mail, oss, wire, host, posts, stops >>
  BY DEF Serve, Runs, Quiet
<1>2. /\ cpu' \in CpuStates /\ cpu'.job = cpu.job /\ cpu'.armed = cpu.armed
      /\ cpu'.pc \in {"idle", "complete"}
      /\ cpu'.pc = "complete" => io.ext /\ cpu.job # 0 /\ ~io'.ext
      /\ io'.ext => io.ext
      /\ io' \in IoStates /\ SameLatches(io', io) /\ io'.ch = io.ch /\ io'.bytes = io.bytes /\ io'.armed = io.armed
  <2>1. CASE io.tx
    <3>1. cpu' \in CpuStates /\ cpu'.job = cpu.job /\ cpu'.armed = cpu.armed /\ cpu'.pc = "idle"
      <4>1. cpu' = [cpu EXCEPT !.pc = "idle"] /\ "idle" \in Pcs
        BY <2>1 DEF Serve, Goto, Pcs
      <4> QED
        BY <4>1, FirmwareFacts
    <3>2. io' = [io EXCEPT !.tx = FALSE]
      BY <2>1 DEF Serve
    <3> QED
      BY <1>0, <3>1, <3>2 DEF IoStates, SameLatches
  <2>2. CASE ~io.tx
    <3>1. /\ cpu' \in CpuStates /\ cpu'.job = cpu.job /\ cpu'.armed = cpu.armed
          /\ cpu'.pc = (IF io.ext /\ cpu.job # 0 THEN "complete" ELSE "idle")
      <4> DEFINE pc == IF io.ext /\ cpu.job # 0 THEN "complete" ELSE "idle"
      <4>1. cpu' = [cpu EXCEPT !.pc = pc] /\ pc \in Pcs
        BY <2>2 DEF Serve, Goto, Pcs
      <4> HIDE DEF pc
      <4>2. cpu' \in CpuStates /\ cpu'.job = cpu.job /\ cpu'.armed = cpu.armed /\ cpu'.pc = pc
        BY <4>1, FirmwareFacts
      <4> QED
        BY <4>2 DEF pc
    <3>2. io' = [io EXCEPT !.ext = FALSE]
      BY <2>2 DEF Serve
    <3>3. io' \in IoStates /\ SameLatches(io', io) /\ io'.ch = io.ch /\ io'.bytes = io.bytes /\ io'.armed = io.armed /\ io'.ext = FALSE
      BY <1>0, <3>2 DEF IoStates, SameLatches
    <3> QED
      BY <3>1, <3>3
  <2> QED
    BY <2>1, <2>2
<1>3. Types'
  BY <1>0, <1>1, <1>2 DEF Types
<1>4. Held'
  BY <1>0, <1>1, <1>2 DEF Held, Booting, SameLatches
<1>5. NothingForgotten'
  BY <1>0, <1>1, <1>2 DEF NothingForgotten, Current, Interrupting, Booting, SameLatches
<1>6. Whole'
  <2>1. UNCHANGED << wire, Length >> /\ ~Preparing' /\ UnderWay' = UnderWay
    BY <1>1, <1>2 DEF Preparing, UnderWay, Length
  <2>2. Progress(io) => Progress(io)'
    BY <1>1, <1>2, <2>1 DEF Progress, Moved, Drained
  <2> QED
    BY <1>0, <1>1, <1>2, <2>1, <2>2 DEF Whole, RoomAsked, TxEmpty, Drained, Empty
<1> QED
  BY <1>3, <1>4, <1>5, <1>6 DEF IInv

LEMMA CompleteSafe ==
  ASSUME IInv, Complete
  PROVE  IInv'
<1>0. /\ Types /\ Held /\ NothingForgotten /\ Whole /\ io \in IoStates /\ Len(io.bytes) <= 2
      /\ cpu \in CpuStates /\ Current(io) /\ oss = io.int0 /\ RoomAsked(io)
  BY FirmwareFacts
<1>1. io.run /\ cpu.pc = "complete" /\ UNCHANGED << io, oss, wire, host, posts, stops >>
  BY DEF Complete, Runs, Quiet
<1>2. cpu' \in CpuStates /\ cpu'.pc = "raise" /\ cpu'.job = 0
  BY <1>0 DEF Complete, CpuStates, Pcs
<1>3. cpu.job \in Boxes
  BY <1>0, <1>1 DEF Held, CpuStates
<1>4. /\ mail' \in [Boxes -> MailStates] /\ mail'[cpu.job].state = "complete" /\ mail'[cpu.job].n = mail[cpu.job].n
      /\ \A c \in Boxes \ {cpu.job} : mail'[c] = mail[c]
  BY <1>0, <1>3 DEF Complete, Types, MailStates
<1>5. Types'
  BY <1>0, <1>1, <1>2, <1>4 DEF Types
<1>6. Held'
  BY <1>0, <1>1, <1>2, <1>3, <1>4 DEF Held, Booting
<1>7. NothingForgotten'
  BY <1>0, <1>1, <1>2, <1>3, <1>4 DEF NothingForgotten, Interrupting, Booting
<1>8. Whole'
  <2>1. Empty(io)
    BY <1>0, <1>1, <1>3, IopAssumption DEF Whole, UnderWay, Progress, Empty
  <2>2. ~Preparing' /\ ~UnderWay'
    BY <1>2 DEF Preparing, UnderWay
  <2> QED
    BY <1>0, <1>1, <1>2, <2>1, <2>2 DEF Whole, RoomAsked, TxEmpty, Drained, Empty
<1> QED
  BY <1>5, <1>6, <1>7, <1>8 DEF IInv

LEMMA RaiseSafe ==
  ASSUME IInv, Raise
  PROVE  IInv'
<1>0. /\ Types /\ Held /\ NothingForgotten /\ Whole /\ io \in IoStates /\ Len(io.bytes) <= 2
      /\ cpu \in CpuStates /\ Current(io) /\ oss = io.int0 /\ RoomAsked(io)
  BY FirmwareFacts
<1>1. /\ io.run /\ cpu.pc = "raise" /\ UNCHANGED << mail, wire, host, posts, stops >> /\ oss' = TRUE
      /\ io' = [io EXCEPT !.int0 = TRUE]
  BY DEF Raise, Runs, Quiet
<1>2. cpu' \in CpuStates /\ cpu'.pc = "scan" /\ cpu'.job = cpu.job
  BY <1>0, FirmwareFacts DEF Raise, Goto, Pcs
<1>3. /\ io' \in IoStates /\ SameLine(io', io) /\ io'.run = io.run /\ io'.int0 = TRUE /\ io'.irq = io.irq
      /\ io'.mask = io.mask /\ io'.flags = io.flags
  BY <1>0, <1>1 DEF IoStates, SameLine
<1>4. Types'
  BY <1>0, <1>1, <1>2, <1>3 DEF Types, SameLine
<1>5. Held'
  BY <1>0, <1>1, <1>2, <1>3 DEF Held, Booting
<1>6. NothingForgotten'
  BY <1>0, <1>1, <1>2, <1>3 DEF NothingForgotten, Current, Interrupting
<1>7. Whole'
  <2>1. ~Preparing' /\ ~UnderWay' /\ cpu'.job = 0 /\ Empty(io)
    BY <1>0, <1>1, <1>2 DEF Preparing, UnderWay, Held, Whole, Booting
  <2> QED
    BY <1>0, <1>1, <1>2, <1>3, <2>1 DEF Whole, RoomAsked, TxEmpty, Drained, Empty, SameLine
<1> QED
  BY <1>4, <1>5, <1>6, <1>7 DEF IInv

-----------------------------------------------------------------------------
(* The host                                                                *)

\* The host leaves the channels alone, and the processor too unless it stops it.
LEMMA WholeKept ==
  ASSUME IInv, SameLine(io', io), UNCHANGED << cpu, wire >>, cpu.job # 0 => mail'[cpu.job] = mail[cpu.job]
  PROVE  Whole'
<1>1. /\ (Preparing' <=> Preparing) /\ (UnderWay' <=> UnderWay)
  BY DEF Preparing, UnderWay
<1>2. cpu.job # 0 => Length' = Length
  BY DEF Length
<1>3. UnderWay /\ Progress(io) => Progress(io)'
  BY <1>2 DEF UnderWay, Progress, Moved, Drained, SameLine
<1>4. Preparing /\ Waiting(io) => Waiting(io)'
  BY <1>2 DEF IInv, Held, Preparing, Waiting, SameLine
<1> QED
  BY <1>1, <1>3, <1>4 DEF IInv, Whole, RoomAsked, TxEmpty, Drained, Empty, SameLine

LEMMA PostSafe ==
  ASSUME IInv, NEW b \in Boxes, NEW n \in Lengths, Post(b, n)
  PROVE  IInv'
<1>0. /\ Types /\ Held /\ NothingForgotten /\ Whole /\ io \in IoStates
      /\ cpu \in CpuStates /\ Current(io) /\ oss = io.int0
  BY FirmwareFacts
<1>1. /\ io.run /\ mail[b].state = "idle" /\ host' = "kick" /\ posts < MaxPosts /\ posts' = posts + 1
      /\ mail' = [mail EXCEPT ![b] = [state |-> "new", n |-> n]]
      /\ UNCHANGED << io, cpu, wire, oss, stops >>
  BY DEF Post, Alone
<1>2. /\ mail' \in [Boxes -> MailStates] /\ mail'[b].state = "new" /\ mail'[b].n = n
      /\ \A c \in Boxes \ {b} : mail'[c] = mail[c]
  BY <1>0, <1>1 DEF Types, MailStates
<1>3. cpu.job # 0 => cpu.job \in Boxes \ {b}
  BY <1>0, <1>1 DEF Held, CpuStates
<1>4. Types'
  BY <1>0, <1>1, <1>2, IopAssumption DEF Types
<1>5. Held'
  BY <1>0, <1>1, <1>2, <1>3 DEF Held
<1>6. NothingForgotten'
  <2>1. ((\E c \in Boxes : mail[c].state = "complete") => io.int0 \/ host = "collect" \/ cpu.pc = "raise")'
    <3>1. \A c \in Boxes : mail'[c].state = "complete" => mail[c].state = "complete"
      BY <1>2
    <3>2. host # "collect"
      BY DEF Post
    <3> QED
      BY <1>0, <1>1, <3>1, <3>2 DEF NothingForgotten
  <2>2. (io.run => io.irq = Interrupting(io))' /\ oss' = io'.int0
    BY <1>0, <1>1 DEF Current, Interrupting
  <2> QED
    BY <1>1, <2>1, <2>2 DEF NothingForgotten
<1>7. Whole'
  BY <1>1, <1>2, <1>3, WholeKept DEF SameLine
<1> QED
  BY <1>4, <1>5, <1>6, <1>7 DEF IInv

LEMMA DriverSafe ==
  ASSUME IInv, Driver
  PROVE  IInv'
<1>0. /\ Types /\ Held /\ NothingForgotten /\ Whole /\ io \in IoStates
      /\ cpu \in CpuStates /\ Current(io) /\ oss = io.int0 /\ io.run \in BOOLEAN
  BY FirmwareFacts DEF IoStates
<1>1. UNCHANGED << cpu, wire, posts, stops >>
  BY DEF Driver, Kick, Acknowledge, Collect, Release, Alone
<1>2. CASE Kick
  <2>1. /\ io' \in IoStates /\ SameLine(io', io) /\ io'.run = TRUE /\ io'.int0 = io.int0
        /\ io.flags \subseteq io'.flags /\ "host" \in io'.flags /\ Current(io')
    BY <1>0, <1>2, StatusKeeps DEF Kick, IoStates
  <2>2. host' = "ready" /\ oss' = io'.int0 /\ mail' = mail /\ host = "kick"
    BY <1>2 DEF Kick
  <2>3. Types'
    BY <1>0, <1>1, <2>1, <2>2 DEF Types, SameLine, IoStates
  <2>4. Held'
    BY <1>0, <1>1, <2>1, <2>2 DEF Held
  <2>5. NothingForgotten'
    BY <1>0, <1>1, <2>1, <2>2 DEF NothingForgotten, Current, Interrupting
  <2>6. Whole'
    BY <1>1, <2>1, <2>2, WholeKept
  <2> QED
    BY <2>3, <2>4, <2>5, <2>6 DEF IInv
<1>3. CASE Acknowledge
  <2>1. /\ io' \in IoStates /\ SameLine(io', io) /\ io'.run = io.run /\ io'.int0 = FALSE
        /\ io.flags \subseteq io'.flags /\ Current(io')
    <3> DEFINE q == WriteStatus(io, io.run, TRUE, FALSE)
    <3>1. TRUE \in BOOLEAN /\ FALSE \in BOOLEAN
      OBVIOUS
    <3>2. /\ q \in IoStates /\ SameLine(q, io) /\ q.run = io.run /\ q.int0 = (io.int0 /\ ~TRUE)
          /\ io.flags \subseteq q.flags /\ Current(q)
      BY <1>0, <3>1, StatusKeeps
    <3>3. io' = q
      BY <1>3 DEF Acknowledge
    <3> HIDE DEF q
    <3>4. q.int0 \in BOOLEAN /\ ~q.int0
      BY <3>2 DEF IoStates
    <3> QED
      BY <3>2, <3>3, <3>4
  <2>2. host' = "collect" /\ oss' = io'.int0 /\ mail' = mail /\ host = "ready"
    BY <1>3 DEF Acknowledge
  <2>3. Types'
    BY <1>0, <1>1, <2>1, <2>2 DEF Types, SameLine, IoStates
  <2>4. Held'
    BY <1>0, <1>1, <2>1, <2>2 DEF Held
  <2>5. NothingForgotten'
    BY <1>0, <1>1, <2>1, <2>2 DEF NothingForgotten, Current, Interrupting
  <2>6. Whole'
    BY <1>1, <2>1, <2>2, WholeKept
  <2> QED
    BY <2>3, <2>4, <2>5, <2>6 DEF IInv
<1>4. CASE Collect
  <2>1. /\ host' = "ready" /\ UNCHANGED << io, oss >> /\ host = "collect"
        /\ mail' = [b \in Boxes |-> IF mail[b].state = "complete" THEN NoFrame ELSE mail[b]]
    BY <1>4 DEF Collect
  <2>2. /\ mail' \in [Boxes -> MailStates]
        /\ \A b \in Boxes : /\ mail[b].state = "complete" => mail'[b].state = "idle"
                            /\ mail[b].state # "complete" => mail'[b] = mail[b]
    <3>1. NoFrame \in MailStates /\ NoFrame.state = "idle"
      BY DEF NoFrame, MailStates
    <3> QED
      BY <1>0, <2>1, <3>1 DEF Types
  <2>3. cpu.job # 0 => cpu.job \in Boxes /\ mail'[cpu.job] = mail[cpu.job]
    BY <1>0, <2>2 DEF Held, CpuStates
  <2>4. Types'
    BY <1>0, <1>1, <2>1, <2>2 DEF Types
  <2>5. Held'
    BY <1>0, <1>1, <2>1, <2>2, <2>3 DEF Held
  <2>6. NothingForgotten'
    BY <1>0, <1>1, <2>1, <2>2 DEF NothingForgotten, Interrupting
  <2>7. Whole'
    BY <1>1, <2>1, <2>3, WholeKept DEF SameLine
  <2> QED
    BY <2>4, <2>5, <2>6, <2>7 DEF IInv
<1>5. CASE Release
  <2>1. /\ io' \in IoStates /\ SameLine(io', io) /\ io'.run = TRUE /\ io'.int0 = io.int0
        /\ io.flags \subseteq io'.flags /\ Current(io')
    BY <1>0, <1>5, StatusKeeps DEF Release, IoStates
  <2>2. oss' = io'.int0 /\ UNCHANGED << mail, host >> /\ ~io.run
    BY <1>5 DEF Release
  <2>3. Types'
    BY <1>0, <1>1, <2>1, <2>2 DEF Types, SameLine, IoStates
  <2>4. Held'
    BY <1>0, <1>1, <2>1, <2>2 DEF Held
  <2>5. NothingForgotten'
    BY <1>0, <1>1, <2>1, <2>2 DEF NothingForgotten, Current, Interrupting, Held, Booting
  <2>6. Whole'
    BY <1>1, <2>1, <2>2, WholeKept
  <2> QED
    BY <2>3, <2>4, <2>5, <2>6 DEF IInv
<1> QED
  BY <1>2, <1>3, <1>4, <1>5 DEF Driver

\* The mailbox is cleared and the processor back at its start.
LEMMA ClearSafe ==
  ASSUME IInv, Clear, io' \in IoStates, Len(io'.bytes) <= 2, RoomAsked(io'), ~io'.run,
         oss' = io'.int0, host' \in {"ready", "kick", "collect"}, UNCHANGED << wire, posts >>
  PROVE  IInv'
<1>0. Types
  BY DEF IInv
<1>1. /\ mail' \in [Boxes -> MailStates] /\ (\A b \in Boxes : mail'[b].state = "idle")
      /\ cpu' \in CpuStates /\ cpu'.pc = "boot" /\ cpu'.job = 0 /\ stops' \in 0..MaxStops
  <2>1. NoFrame \in MailStates /\ NoFrame.state = "idle"
    BY DEF NoFrame, MailStates
  <2>2. stops' \in 0..MaxStops
    BY <1>0, IopAssumption DEF Clear, Types
  <2>3. cpu' \in CpuStates /\ cpu'.pc = "boot" /\ cpu'.job = 0
    BY DEF Clear, Stopped, CpuStates, Pcs, Booting
  <2> QED
    BY <2>1, <2>2, <2>3 DEF Clear
<1>2. oss' \in BOOLEAN
  BY DEF IoStates
<1>3. Types'
  BY <1>0, <1>1, <1>2 DEF Types
<1>4. Held' /\ NothingForgotten'
  BY <1>1 DEF Held, NothingForgotten, Booting
<1>5. Whole'
  BY <1>1 DEF Whole, Preparing, UnderWay, RoomAsked, TxEmpty
<1> QED
  BY <1>3, <1>4, <1>5 DEF IInv

LEMMA BlankButIrq ==
  ASSUME NEW p, NEW c, NEW irq \in BOOLEAN,
         NEW q, q = [p EXCEPT !.irq = irq],
         p = [run |-> FALSE, int0 |-> FALSE, hw |-> FALSE, mask |-> {}, flags |-> {}, irq |-> FALSE,
              ch |-> c, bytes |-> << >>, feed |-> FALSE, armed |-> FALSE, ext |-> FALSE, tx |-> FALSE, enabled |-> {}]
  PROVE  q = [run |-> FALSE, int0 |-> FALSE, hw |-> FALSE, mask |-> {}, flags |-> {}, irq |-> irq,
              ch |-> c, bytes |-> << >>, feed |-> FALSE, armed |-> FALSE, ext |-> FALSE, tx |-> FALSE, enabled |-> {}]
OBVIOUS

LEMMA BlankTyped ==
  ASSUME NEW irq \in BOOLEAN
  PROVE  LET q == [Blank EXCEPT !.irq = irq]
         IN q \in IoStates /\ q.bytes = << >> /\ ~q.run /\ q.int0 = FALSE /\ RoomAsked(q) /\ Drained(q)
<1>1. Off \in ChStates /\ Off.left = 0
  BY IopAssumption DEF Off, ChStates
<1>2. [i \in Channels |-> Off] \in [Channels -> ChStates] /\ 1 \in Channels /\ 2 \in Channels
  BY <1>1 DEF Channels
<1>3. << >> \in Seq(Nat)
  OBVIOUS
<1> DEFINE chs == [i \in Channels |-> Off]
           q == [Blank EXCEPT !.irq = irq]
<1>4. chs[1].left = 0 /\ chs[2].left = 0
  BY <1>1, <1>2
<1> HIDE DEF chs
<1>5. Blank = [run |-> FALSE, int0 |-> FALSE, hw |-> FALSE, mask |-> {}, flags |-> {}, irq |-> FALSE,
               ch |-> chs, bytes |-> << >>, feed |-> FALSE, armed |-> FALSE, ext |-> FALSE, tx |-> FALSE, enabled |-> {}]
  BY DEF Blank, chs
<1>6. chs \in [Channels -> ChStates]
  BY <1>2 DEF chs
<1>7. q = [run |-> FALSE, int0 |-> FALSE, hw |-> FALSE, mask |-> {}, flags |-> {}, irq |-> irq,
           ch |-> chs, bytes |-> << >>, feed |-> FALSE, armed |-> FALSE, ext |-> FALSE, tx |-> FALSE, enabled |-> {}]
  BY <1>5, BlankButIrq
<1>8. q \in IoStates
  BY <1>3, <1>6, <1>7 DEF IoStates
<1>9. q.bytes = << >> /\ q.run = FALSE /\ q.int0 = FALSE /\ q.ch = chs
  BY <1>7
<1> HIDE DEF q
<1> QED
  BY <1>4, <1>8, <1>9 DEF RoomAsked, TxEmpty, Drained, q

LEMMA StopSafe ==
  ASSUME IInv, Stop \/ ResetMachine
  PROVE  IInv'
<1>0. io \in IoStates /\ Current(io) /\ RoomAsked(io) /\ io.irq \in BOOLEAN /\ Len(io.bytes) <= 2
  BY FirmwareFacts DEF IoStates
<1>1. CASE Stop
  <2>1. io' \in IoStates /\ SameLine(io', io) /\ io'.run = FALSE
    BY <1>0, <1>1, StatusKeeps DEF Stop
  <2>2. Len(io'.bytes) <= 2 /\ RoomAsked(io')
    BY <1>0, <2>1 DEF SameLine, RoomAsked, TxEmpty
  <2> QED
    BY <1>1, <2>1, <2>2, ClearSafe DEF Stop
<1>2. CASE ResetMachine
  <2>1. io' \in IoStates /\ io'.bytes = << >> /\ ~io'.run /\ io'.int0 = FALSE /\ RoomAsked(io')
    BY <1>0, <1>2, BlankTyped DEF ResetMachine
  <2>2. Len(io'.bytes) <= 2
    BY <2>1
  <2>3. Clear /\ oss' = io'.int0 /\ host' \in {"ready", "kick", "collect"} /\ UNCHANGED << wire, posts >>
    BY <1>2, <2>1 DEF ResetMachine
  <2> QED
    BY <2>1, <2>2, <2>3, ClearSafe
<1> QED
  BY <1>1, <1>2

-----------------------------------------------------------------------------
(* The theorems                                                            *)

LEMMA InitIInv == Init => IInv
<1> SUFFICES ASSUME Init PROVE IInv
  OBVIOUS
<1>1. io = [Blank EXCEPT !.irq = FALSE]
  <2>1. [Blank EXCEPT !.irq = FALSE] = Blank
    <3>1. FALSE \in BOOLEAN
      OBVIOUS
    <3> QED
      BY ZenonT(60), <3>1, BlankButIrq DEF Blank
  <2> QED
    BY <2>1 DEF Init
<1>2. io \in IoStates /\ io.bytes = << >> /\ ~io.run /\ io.int0 = FALSE /\ RoomAsked(io)
  BY <1>1, BlankTyped
<1>3. NoFrame \in MailStates /\ NoFrame.state = "idle"
  BY DEF NoFrame, MailStates
<1>4. cpu \in CpuStates /\ cpu.pc = "boot" /\ cpu.job = 0
  BY DEF Init, Stopped, CpuStates, Pcs, Booting
<1>5. oss \in BOOLEAN
  BY Zenon DEF Init
<1>6. << >> \in Seq(Nat) /\ 0 \in 0..MaxPosts /\ 0 \in 0..MaxStops
  BY IopAssumption
<1>7. Types
  BY <1>2, <1>3, <1>4, <1>5, <1>6 DEF Init, Types
<1>8. Held /\ NothingForgotten
  BY <1>2, <1>3, <1>4 DEF Init, Held, NothingForgotten, Booting
<1>9. Whole
  BY <1>2, <1>4 DEF Whole, Preparing, UnderWay
<1> QED
  BY <1>7, <1>8, <1>9 DEF IInv

LEMMA NextIInv ==
  ASSUME IInv, [Next]_vars
  PROVE  IInv'
<1>1. CASE Next
  <2>1. CASE Firmware
    BY <2>1, BootSafe, TakeSafe, ScanSafe, ChainSafe, StartSafe, ArmSafe, ServeSafe, CompleteSafe, RaiseSafe
    DEF Firmware
  <2> QED
    BY <1>1, <2>1, BeatSafe, TickSafe, PostSafe, DriverSafe, StopSafe DEF Next
<1>2. CASE UNCHANGED vars
  <2>1. Types' /\ Held' /\ NothingForgotten'
    BY <1>2 DEF vars, IInv, Types, Held, NothingForgotten, Interrupting
  <2>2. Whole'
    BY <1>2, WholeKept DEF vars, SameLine
  <2> QED
    BY <2>1, <2>2 DEF IInv
<1> QED
  BY <1>1, <1>2

LEMMA AlwaysIInv == Spec => []IInv
BY InitIInv, NextIInv, PTL DEF Spec

\* Every register, latch, channel and the mailbox keep their types: no beat takes a
\* count below zero, and the transmitter never holds more than its two bytes.
THEOREM IopTypeCorrect == Spec => []IopTypeOK
<1>1. IInv => IopTypeOK
  <2> SUFFICES ASSUME IInv PROVE IopTypeOK
    OBVIOUS
  <2>1. io.ch \in [Channels -> [on : BOOLEAN, chain : BOOLEAN, req : BOOLEAN, map : 0..(2 * Chunk + 1), left : 0..Chunk]]
    BY DEF IInv, Types, IoStates, ChStates
  <2> QED
    BY <2>1 DEF IInv, Types, IoStates, MailStates, CpuStates, Pcs, IopTypeOK
<1> QED
  BY <1>1, AlwaysIInv, PTL

\* No frame and no answer waits without somebody who knows of it.
THEOREM NothingIsForgotten == Spec => []NothingForgotten
<1>1. IInv => NothingForgotten
  BY DEF IInv
<1> QED
  BY <1>1, AlwaysIInv, PTL

\* What goes out of the transmitter is the frame from its first byte, in order and
\* without a byte lost between the two channels, and its end is reported at its last.
THEOREM FramesAreWhole == Spec => []FrameIsWhole
<1>1. IInv => FrameIsWhole
  <2> SUFFICES ASSUME IInv, io.run, cpu.job # 0
               PROVE  /\ wire \o io.bytes = [k \in 1..(Len(wire) + Len(io.bytes)) |-> k]
                      /\ io.ext \/ cpu.pc = "complete" => Len(wire) = mail[cpu.job].n
    BY DEF FrameIsWhole
  <2>1. /\ wire \in Seq(Nat) /\ io.bytes \in Seq(Nat) /\ cpu \in CpuStates
        /\ io.ch[1].left \in Nat /\ io.ch[2].left \in Nat
    <3>1. io.ch[1] \in ChStates /\ io.ch[2] \in ChStates
      BY DEF IInv, Types, IoStates, Channels
    <3> QED
      BY <3>1, IopAssumption DEF IInv, Types, IoStates, ChStates
  <2>2. UnderWay \/ Preparing \/ cpu.pc = "chain"
    BY <2>1 DEF IInv, Held, CpuStates, Pcs, Booting, UnderWay, Preparing
  <2>3. CASE UnderWay
    <3>1. Progress(io)
      BY <2>3 DEF IInv, Whole
    <3>2. wire \o io.bytes = [k \in 1..(Len(wire) + Len(io.bytes)) |-> k]
      BY <2>1, <3>1, CountedWhole DEF Progress
    <3>3. ASSUME io.ext \/ cpu.pc = "complete"
          PROVE  Len(wire) = Length
      <4>1. Drained(io) /\ io.bytes = << >> /\ Moved(io) + io.ch[1].left + io.ch[2].left = Length
        BY <3>1, <3>3 DEF Progress
      <4>2. Moved(io) + 0 + 0 = Length /\ Moved(io) = Len(wire) + Len(<< >>)
        BY <4>1 DEF Drained, Moved
      <4>3. Len(wire) \in Nat /\ Len(<< >>) = 0
        BY <2>1
      <4> QED
        BY <4>2, <4>3
    <3> QED
      BY <3>2, <3>3 DEF Length
  <2>4. CASE Preparing \/ cpu.pc = "chain"
    <3>1. wire = << >> /\ io.bytes = << >> /\ ~io.ext /\ cpu.pc # "complete"
      BY <2>4 DEF IInv, Whole, Preparing, Waiting, Empty
    <3>2. Counted(<< >>, << >>)
      BY DEF Counted
    <3> QED
      BY <2>1, <3>1, <3>2, CountedWhole
  <2> QED
    BY <2>2, <2>3, <2>4
<1> QED
  BY <1>1, AlwaysIInv, PTL
=============================================================================
