------------------------------- MODULE SccIop -------------------------------
(***************************************************************************)
(* The SCC I/O processor of the IIfx: the interface controller of          *)
(* iifx/iop.cpp with its host status register, interrupt latches and two   *)
(* byte-DMA channels, the transmitter of quadra/scc.hpp behind it, and the *)
(* board of iifx.cpp that joins them and tells the OSS.                    *)
(*                                                                         *)
(* The host's driver posts frames in the mailbox and collects the answers; *)
(* the firmware the host downloads runs between any two steps of the       *)
(* others, one register access at a time.  Both are external, and written  *)
(* as those two registers sets call for: acknowledge, then look.  A frame  *)
(* goes out by a pair of chained DMA channels and is answered when the     *)
(* transmitter reports its end.                                            *)
(*                                                                         *)
(* Of a byte only its place in the frame is kept.  Cycles are left out: a  *)
(* tick ends the delays it ends.  The host bypass, the timer, GPIO and     *)
(* receive DMA (nothing ever arrives) are left out.                        *)
(***************************************************************************)
EXTENDS Integers, Sequences, FiniteSets

CONSTANTS
  Boxes,      \* mailbox channels in use
  Chunk,      \* bytes the first DMA channel is given
  Lengths,    \* lengths of frames
  MaxPosts,   \* bound: frames posted
  MaxStops    \* bound: times the host stops or resets the processor

ASSUME IopAssumption == /\ IsFiniteSet(Boxes) /\ 0 \notin Boxes /\ Chunk \in Nat \ {0}
                        /\ Lengths \subseteq 1..(2 * Chunk) /\ MaxPosts \in Nat /\ MaxStops \in Nat

Channels == {1, 2}
Interrupts == {"dma1", "dma2", "peripheral", "host"}

VARIABLES
  io,     \* the interface controller and the transmitter
  mail,   \* the mailbox: state and length of each channel's frame
  cpu,    \* the firmware: where it is, and the channel it serves (0: none)
  host,   \* the driver: where it is
  oss,    \* the level last delivered to the OSS
  wire,   \* history: the bytes of this frame that went out
  posts,  \* bound: frames posted
  stops   \* bound: stops and resets

vars == << io, mail, cpu, host, oss, wire, posts, stops >>

-----------------------------------------------------------------------------
(* The interrupt latches                                                   *)

Interrupting(p) == p.mask \cap p.flags # {}
UpdateCpuIrq(p) == [p EXCEPT !.irq = Interrupting(p)]
SetInterrupt(p, f) == UpdateCpuIrq([p EXCEPT !.flags = @ \cup {f}])
ClearInterrupt(p, f) == UpdateCpuIrq([p EXCEPT !.flags = @ \ {f}])

\* Mutant: only a line that rises sets the flag.
SetPeripheralOnEdge(p, level) ==
  LET q == [p EXCEPT !.hw = level]
  IN IF ~level THEN ClearInterrupt(q, "peripheral")
     ELSE IF p.hw THEN q ELSE SetInterrupt(q, "peripheral")

\* setPeripheralInterrupt
SetPeripheral(p, level) ==
  LET q == [p EXCEPT !.hw = level]
  IN IF level THEN SetInterrupt(q, "peripheral") ELSE ClearInterrupt(q, "peripheral")

\* Mutant: any write of the status register acknowledges the interrupt.
WriteStatusClears(p, run, ack, kick) ==
  LET q == [p EXCEPT !.int0 = FALSE, !.run = run]
      r == IF run /\ ~p.run THEN UpdateCpuIrq(q) ELSE q
  IN IF kick /\ run THEN SetInterrupt(r, "host") ELSE r

\* writeStatus: a write without Run holds the processor in reset, one with it lets it go.
WriteStatus(p, run, ack, kick) ==
  LET q == [p EXCEPT !.int0 = @ /\ ~ack, !.run = run]
      r == IF run /\ ~p.run THEN UpdateCpuIrq(q) ELSE q
  IN IF kick /\ run THEN SetInterrupt(r, "host") ELSE r

-----------------------------------------------------------------------------
(* The transmitter: the byte on the wire, then the one in the buffer       *)

TxEmpty(p) == Len(p.bytes) < 2
SccIrq(p) == "master" \in p.enabled /\ (p.ext \/ p.tx)

\* updateSccDmaRequests
Requests(p) ==
  [p EXCEPT !.ch = [i \in Channels |-> [p.ch[i] EXCEPT !.req = p.ch[i].on /\ TxEmpty(p)]]]

TxByteQuietly(p, b) ==    \* Mutant: the board is not told that the buffer is full.
  IF p.bytes = << >> THEN [p EXCEPT !.bytes = << b >>, !.feed = TRUE]
  ELSE [p EXCEPT !.bytes = << Head(@), b >>]

\* txByte: a byte for a full buffer replaces the one there.
TxByte(p, b) ==
  IF p.bytes = << >> THEN [p EXCEPT !.bytes = << b >>, !.feed = TRUE]
  ELSE LET q == [p EXCEPT !.bytes = << Head(@), b >>]
       IN IF TxEmpty(p) THEN Requests(q) ELSE q

\* tickChan: the buffer-empty interrupt, and the end of a byte.
Fed(p) == [p EXCEPT !.feed = FALSE, !.tx = @ \/ "tx" \in p.enabled]

Shifted(p) ==
  IF ~TxEmpty(p) THEN Requests([p EXCEPT !.bytes = Tail(@), !.feed = TRUE])
  ELSE [p EXCEPT !.bytes = << >>, !.armed = FALSE, !.ext = @ \/ (p.armed /\ "ext" \in p.enabled)]

ResetScc(p, enabled) ==
  [p EXCEPT !.bytes = << >>, !.feed = FALSE, !.armed = FALSE, !.ext = FALSE, !.tx = FALSE, !.enabled = enabled]

-----------------------------------------------------------------------------
(* The DMA channels                                                        *)

Off == [on |-> FALSE, chain |-> FALSE, req |-> FALSE, map |-> 0, left |-> 0]

\* dmaWrite: a channel is programmed, and the board computes the requests.
Program(p, i, on, chain, map, left) ==
  Requests([p EXCEPT !.ch[i] = [on |-> on, chain |-> chain, req |-> p.ch[i].req, map |-> map, left |-> left]])

DmaFlag(i) == IF i = 1 THEN "dma1" ELSE "dma2"

\* The channel's count has run out.
Finished(p, i) ==
  SetInterrupt([p EXCEPT !.ch[i].on = FALSE, !.ch[3 - i].on = @ \/ p.ch[3 - i].chain], DmaFlag(i))

CanMovePastZero(p, i) == p.ch[i].on /\ p.ch[i].req    \* Mutant: the count is not looked at.
CanMove(p, i) == p.ch[i].on /\ p.ch[i].req /\ p.ch[i].left # 0

\* dmaBeat, channel i.
BeatOf(p, i) ==
  IF ~CanMove(p, i) THEN p
  ELSE LET q == TxByte(p, p.ch[i].map)
           r == [q EXCEPT !.ch[i].map = @ + 1, !.ch[i].left = @ - 1]
       IN IF r.ch[i].left = 0 THEN Finished(r, i) ELSE r

Beat ==
  /\ io' = BeatOf(BeatOf(io, 1), 2)
  /\ io' # io
  /\ UNCHANGED << mail, cpu, host, oss, wire, posts, stops >>

\* In the time a byte takes the board ticks and the channels move what they can
\* (57 beats), and the firmware arms the transmitter.
Settled == Requests(io) = io /\ \A i \in Channels : ~CanMove(io, i)
Prompt == ~(cpu.pc = "arm" /\ Len(io.bytes) = 1 /\ \A i \in Channels : io.ch[i].left = 0)

\* tickDevices, from the transmitter's tick to the next tick's requests.
Tick(feeds, shifts) ==
  /\ feeds => io.feed
  /\ shifts => io.bytes # << >> /\ (io.feed => feeds) /\ Settled /\ Prompt
  /\ LET p == IF feeds THEN Fed(io) ELSE io
         q == IF shifts THEN Shifted(p) ELSE p
     IN io' = Requests(SetPeripheral(q, SccIrq(q)))
  /\ oss' = io'.int0
  /\ wire' = IF shifts THEN Append(wire, Head(io.bytes)) ELSE wire
  /\ UNCHANGED << mail, cpu, host, posts, stops >>

-----------------------------------------------------------------------------
(* The firmware                                                            *)

Runs(pc) == io.run /\ cpu.pc = pc
Goto(pc) == cpu' = [cpu EXCEPT !.pc = pc]
Quiet == UNCHANGED << host, posts, stops >>

\* It stops the channels, resets the transmitter, clears the latches and looks
\* at the mailbox.
BootDma ==
  /\ Runs("boot")
  /\ io' = Program(Program(io, 1, FALSE, FALSE, 0, 0), 2, FALSE, FALSE, 0, 0)
  /\ Goto("bootscc") /\ Quiet /\ UNCHANGED << mail, oss, wire >>

BootScc ==
  /\ Runs("bootscc")
  /\ io' = ResetScc(io, {"master", "ext", "tx"})
  /\ Goto("bootirq") /\ Quiet /\ UNCHANGED << mail, oss, wire >>

BootIrq ==
  /\ Runs("bootirq")
  /\ io' = UpdateCpuIrq([io EXCEPT !.flags = {}, !.mask = Interrupts])
  /\ Goto("scan") /\ Quiet /\ UNCHANGED << mail, oss, wire >>

\* An interrupt: it reads a flag, acknowledges it, and serves what it stands for.
Take(f) ==
  /\ Runs("idle") /\ io.irq
  /\ f \in io.flags \cap io.mask
  /\ io' = ClearInterrupt(io, f)
  /\ Goto(CASE f = "host" -> "scan" [] f = "peripheral" -> "serve" [] OTHER -> "idle")
  /\ Quiet /\ UNCHANGED << mail, oss, wire >>

\* The mailbox is left for later while a frame is under way.
Scan ==
  /\ Runs("scan")
  /\ IF cpu.job = 0 /\ \E b \in Boxes : mail[b].state = "new"
     THEN \E b \in Boxes :
            /\ mail[b].state = "new"
            /\ mail' = [mail EXCEPT ![b].state = "received"]
            /\ \E first \in BOOLEAN : cpu' = [pc |-> "chain", job |-> b, armed |-> first]
            /\ wire' = << >>
     ELSE Goto("idle") /\ UNCHANGED << mail, wire >>
  /\ Quiet /\ UNCHANGED << io, oss >>

\* What is beyond the first chunk waits on the second channel; each chains the other.
Chain ==
  /\ Runs("chain")
  /\ LET n == mail[cpu.job].n
     IN io' = Program(io, 2, FALSE, n > Chunk, Chunk + 1, IF n > Chunk THEN n - Chunk ELSE 0)
  /\ Goto(IF cpu.armed THEN "arm" ELSE "start")
  /\ Quiet /\ UNCHANGED << mail, oss, wire >>

Start ==
  /\ Runs("start")
  /\ LET n == mail[cpu.job].n
     IN io' = Program(io, 1, TRUE, n > Chunk, 1, IF n > Chunk THEN Chunk ELSE n)
  /\ Goto(IF cpu.armed THEN "idle" ELSE "arm")
  /\ Quiet /\ UNCHANGED << mail, oss, wire >>

\* WR0 $C0: resets the underrun latch, before the first byte or after it.
Arm ==
  /\ Runs("arm")
  /\ io' = [io EXCEPT !.armed = TRUE]
  /\ Goto(IF cpu.armed THEN "start" ELSE "idle")
  /\ Quiet /\ UNCHANGED << mail, oss, wire >>

\* RR3, and the reset of one source.
Serve ==
  /\ Runs("serve")
  /\ IF io.tx THEN io' = [io EXCEPT !.tx = FALSE] /\ Goto("idle")
     ELSE io' = [io EXCEPT !.ext = FALSE] /\ Goto(IF io.ext /\ cpu.job # 0 THEN "complete" ELSE "idle")
  /\ Quiet /\ UNCHANGED << mail, oss, wire >>

Complete ==
  /\ Runs("complete")
  /\ mail' = [mail EXCEPT ![cpu.job].state = "complete"]
  /\ cpu' = [cpu EXCEPT !.pc = "raise", !.job = 0]
  /\ Quiet /\ UNCHANGED << io, oss, wire >>

\* $F035: the interrupt to the host.  Then it looks for the next frame.
Raise ==
  /\ Runs("raise")
  /\ io' = [io EXCEPT !.int0 = TRUE]
  /\ oss' = TRUE
  /\ Goto("scan") /\ Quiet /\ UNCHANGED << mail, wire >>

Firmware == \/ BootDma \/ BootScc \/ BootIrq
            \/ \E f \in Interrupts : Take(f)
            \/ Scan \/ Chain \/ Start \/ Arm \/ Serve \/ Complete \/ Raise

-----------------------------------------------------------------------------
(* The host                                                                *)

NoFrame == [state |-> "idle", n |-> 0]
Alone == UNCHANGED << cpu, wire >>

\* A frame into a free channel of the mailbox, and the interrupt to the processor.
Post(b, n) ==
  /\ host = "ready" /\ io.run /\ posts < MaxPosts
  /\ mail[b].state = "idle"
  /\ mail' = [mail EXCEPT ![b] = [state |-> "new", n |-> n]]
  /\ host' = "kick"
  /\ posts' = posts + 1
  /\ Alone /\ UNCHANGED << io, oss, stops >>

Kick ==
  /\ host = "kick"
  /\ io' = WriteStatus(io, TRUE, FALSE, TRUE)
  /\ oss' = io'.int0
  /\ host' = "ready"
  /\ Alone /\ UNCHANGED << mail, posts, stops >>

\* Its interrupt handler acknowledges, then collects every answer.
Acknowledge ==
  /\ host = "ready" /\ oss
  /\ io' = WriteStatus(io, io.run, TRUE, FALSE)
  /\ oss' = io'.int0
  /\ host' = "collect"
  /\ Alone /\ UNCHANGED << mail, posts, stops >>

Collect ==
  /\ host = "collect"
  /\ mail' = [b \in Boxes |-> IF mail[b].state = "complete" THEN NoFrame ELSE mail[b]]
  /\ host' = "ready"
  /\ Alone /\ UNCHANGED << io, oss, posts, stops >>

\* The driver stops the processor and clears the mailbox, or the machine is reset.
Stopped == [pc |-> "boot", job |-> 0, armed |-> FALSE]
Clear == /\ mail' = [b \in Boxes |-> NoFrame]
         /\ cpu' = Stopped
         /\ stops < MaxStops /\ stops' = stops + 1

Stop ==
  /\ host = "ready" /\ io.run
  /\ io' = WriteStatus(io, FALSE, FALSE, FALSE)
  /\ oss' = io'.int0
  /\ Clear /\ UNCHANGED << host, wire, posts >>

Blank == [run |-> FALSE, int0 |-> FALSE, hw |-> FALSE, mask |-> {}, flags |-> {}, irq |-> FALSE,
          ch |-> [i \in Channels |-> Off],
          bytes |-> << >>, feed |-> FALSE, armed |-> FALSE, ext |-> FALSE, tx |-> FALSE, enabled |-> {}]

\* IifxIop::reset leaves the processor's interrupt input alone.
ResetMachine ==
  /\ io' = [Blank EXCEPT !.irq = io.irq]
  /\ oss' = FALSE
  /\ host' = "ready"
  /\ Clear /\ UNCHANGED << wire, posts >>

Release ==
  /\ host = "ready" /\ ~io.run
  /\ io' = WriteStatus(io, TRUE, FALSE, FALSE)
  /\ oss' = io'.int0
  /\ Alone /\ UNCHANGED << mail, host, posts, stops >>

Driver == Kick \/ Acknowledge \/ Collect \/ Release

-----------------------------------------------------------------------------
Init == /\ io = Blank /\ mail = [b \in Boxes |-> NoFrame] /\ cpu = Stopped
        /\ host = "ready" /\ oss = FALSE /\ wire = << >> /\ posts = 0 /\ stops = 0

Next == \/ Beat \/ \E feeds, shifts \in BOOLEAN : Tick(feeds, shifts)
        \/ Firmware
        \/ \E b \in Boxes, n \in Lengths : Post(b, n)
        \/ Driver \/ Stop \/ ResetMachine

\* Time passes for the devices, the firmware and the host; a byte ends.
Fairness ==
  /\ WF_vars(Beat) /\ WF_vars(Firmware) /\ WF_vars(Driver)
  /\ WF_vars(Tick(FALSE, FALSE)) /\ WF_vars(Tick(TRUE, FALSE)) /\ WF_vars(Tick(FALSE, TRUE))

Spec == Init /\ [][Next]_vars /\ Fairness

-----------------------------------------------------------------------------
(* Properties                                                              *)

Booting == {"boot", "bootscc", "bootirq"}

IopTypeOK ==
  /\ {io.run, io.int0, io.hw, io.irq, io.feed, io.armed, io.ext, io.tx} \subseteq BOOLEAN
  /\ io.mask \subseteq Interrupts /\ io.flags \subseteq Interrupts /\ io.enabled \subseteq {"master", "ext", "tx"}
  /\ io.ch \in [Channels -> [on : BOOLEAN, chain : BOOLEAN, req : BOOLEAN,
                             map : 0..(2 * Chunk + 1), left : 0..Chunk]]
  /\ Len(io.bytes) <= 2
  /\ mail \in [Boxes -> [state : {"idle", "new", "received", "complete"}, n : Lengths \cup {0}]]
  /\ cpu.pc \in Booting \cup {"idle", "scan", "chain", "start", "arm", "serve", "complete", "raise"}
  /\ cpu.job \in Boxes \cup {0} /\ cpu.armed \in BOOLEAN
  /\ host \in {"ready", "kick", "collect"} /\ oss \in BOOLEAN
  /\ posts \in 0..MaxPosts /\ stops \in 0..MaxStops

\* No frame and no answer waits without somebody who knows of it: a frame has the
\* host's flag, a scan or a frame whose end leads to a scan before it, an answer the
\* interrupt, told to the OSS (iop.cpp's writeStatus and latches, iifx.cpp:588).
NothingForgotten ==
  /\ oss = io.int0
  /\ io.run => io.irq = Interrupting(io)
  /\ (\E b \in Boxes : mail[b].state = "new") /\ io.run /\ host # "kick"
       => "host" \in io.flags \/ cpu.job # 0 \/ cpu.pc \in Booting \cup {"scan", "raise"}
  /\ (\E b \in Boxes : mail[b].state = "complete") => io.int0 \/ host = "collect" \/ cpu.pc = "raise"

\* What goes out is the frame from its first byte, in order: no burst of DMA overruns
\* the holding register, no chunk is repeated.  The end is reported at its last byte
\* (scc.hpp's onDmaRequestChange, iop.cpp's chained channels).
FrameIsWhole ==
  io.run /\ cpu.job # 0 =>
    /\ wire \o io.bytes = [k \in 1..(Len(wire) + Len(io.bytes)) |-> k]
    /\ io.ext \/ cpu.pc = "complete" => Len(wire) = mail[cpu.job].n

\* Every frame posted is answered, unless the processor is stopped.
FramesAreAnswered == \A b \in Boxes : mail[b].state = "new" ~> mail[b].state \in {"complete", "idle"}
=============================================================================
