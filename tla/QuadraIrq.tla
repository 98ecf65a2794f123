------------------------------ MODULE QuadraIrq ------------------------------
(***************************************************************************)
(* Interrupts of the Quadra: the video controller's vertical blank and     *)
(* cursor line (dafb.hpp), the sound FIFO (easc.hpp), the pseudo-VIA that  *)
(* latches their rising edges (pseudovia.hpp), VIA 1's 60 Hz tick, the     *)
(* priority encoder and the cadence of tickDevices (quadra.cpp).           *)
(*                                                                         *)
(* A device drives a level; the pseudo-VIA keeps a flag set on a rising    *)
(* edge only, and keeps the last level it was told.  An interrupt is lost  *)
(* when a level stays up with its flag cleared, so it matters in which     *)
(* order the guest acknowledges, and that every change of a line is told.  *)
(*                                                                         *)
(* The guest acknowledges the pseudo-VIA first, then the device; its slot  *)
(* handler goes on until port A is quiet; its sound handler reads the      *)
(* status and fills at most half a FIFO if there is room.  One sound       *)
(* channel is used, the other is masked.  SCSI's two lines are levels and  *)
(* are in QuadraScsi; VIA 1's other sources are in Adb.                    *)
(***************************************************************************)
EXTENDS Naturals, FiniteSets

CONSTANTS
  Ring,           \* kFifo: the sound FIFO holds one byte less
  SlicesPerFrame, \* kSlicesPerFrame
  StepsPerSlice,  \* bound: handler steps the processor makes in a slice, at least
  Song,           \* bound: samples of a song
  ResetsAnytime   \* may a reset come while a device asserts its line?

ASSUME CadenceAssumption == /\ Ring \in Nat /\ Ring >= 4 /\ SlicesPerFrame \in Nat /\ SlicesPerFrame >= 2
                           /\ StepsPerSlice \in Nat \ {0} /\ Song \in Nat \ {0}
ASSUME ResetsAssumption == ResetsAnytime \in BOOLEAN

Flags == {"slot", "asc"}       \* IFR bits 1 and 4 of the pseudo-VIA
Beams == {"vbl", "cursor"}     \* DAFB sources
Events == {"room", "dry"}      \* EASC status bits of the channel
Half == Ring \div 2

VARIABLES
  via2,   \* the pseudo-VIA: latch, enables, the levels last told, its output
  via1,   \* VIA 1: CA1's level, its flag, whether the guest enabled it
  dafb,   \* the video controller, with the machine's dafbIrq_
  easc,   \* the sound chip's channel
  slice,  \* sliceInFrame_
  ipl,    \* the processor's interrupt level
  main,   \* the guest outside its handlers, and the samples still to play
  level2, \* its level-2 handler, and the bytes it may still push
  level1, \* is its level-1 handler running?
  owed,   \* history: room has come up that the guest has not been told of
  ran     \* handler steps since the last slice

vars == << via2, via1, dafb, easc, slice, ipl, main, level2, level1, owed, ran >>
devices == << via2, dafb, easc >>

-----------------------------------------------------------------------------
(* The devices' lines                                                      *)

EdgeUntold(v, flag, level) ==    \* Mutant: the falling edge is not recorded.
  IF level /\ flag \notin v.told THEN [v EXCEPT !.ifr = @ \cup {flag}, !.told = @ \cup {flag}] ELSE v

\* PseudoVia::edge and update
Edge(v, flag, level) ==
  LET latched == IF level /\ flag \notin v.told THEN v.ifr \cup {flag} ELSE v.ifr
  IN [v EXCEPT !.ifr = latched, !.told = IF level THEN @ \cup {flag} ELSE @ \ {flag}]

Asserted(v) == v.ifr \cap v.ier # {}

\* Dafb::irqAsserted and updateIrq, with the machine's onIrq
BeamUp(d) == d.pending \cap d.mask # {}
TellSlot(d, v) == Edge(v, "slot", BeamUp(d))

\* Easc::updateLine
Pending(e) == e.fifoMode /\ e.enabled /\ e.latched # {}
TellAsc(e, v) == IF Pending(e) = e.line THEN v ELSE Edge(v, "asc", Pending(e))
Lined(e) == [e EXCEPT !.line = Pending(e)]

Room(e) == e.level <= Half

\* Easc::liveStatus
Status(e) == e.latched \cup (IF Room(e) THEN {"room"} ELSE {}) \cup (IF e.level = 0 THEN {"dry"} ELSE {})

\* Easc::pullSample and crossings
Crossed(old, new) == (IF ~Room(old) /\ Room(new) THEN {"room"} ELSE {})
                     \cup (IF old.level > 0 /\ new.level = 0 THEN {"dry"} ELSE {})
Pulled(e) == LET less == [e EXCEPT !.level = IF @ > 0 THEN @ - 1 ELSE 0]
             IN [less EXCEPT !.latched = @ \cup Crossed(e, less)]

\* QuadraMachine::updateIpl
Level(v2, v1) == IF Asserted(v2) THEN 2 ELSE IF v1.flag /\ v1.enabled THEN 1 ELSE 0

\* Room that the guest can be called back for, and has not been told of.
Owes(e, o) == e.fifoMode /\ o

-----------------------------------------------------------------------------
(* Time                                                                    *)

Handling == level2.pc # "none" \/ level1
InSlice == ran < StepsPerSlice
Step == ran' = IF InSlice THEN ran + 1 ELSE ran
Arrive == ran' \in (IF Handling THEN {ran} ELSE ran..StepsPerSlice)    \* anywhere in the slice

\* setCA1, with the polarity the System programs
Ca1(v, level) == [v EXCEPT !.ca1 = level, !.flag = @ \/ (level /\ ~v.ca1)]

\* tickDevices for one slice: a sample, the tick line, the frame's edge.  The
\* second vblank() of some frames changes nothing, as it follows the first at once.
Slice(pulled, beams) ==
  LET sounded == TellAsc(pulled, via2)
      edge == slice = SlicesPerFrame - 1
      blank == [dafb EXCEPT !.pending = IF edge THEN @ \cup beams ELSE @]
      lined == [blank EXCEPT !.irq = IF edge THEN BeamUp(blank) ELSE @]
      slotted == IF edge THEN TellSlot(blank, sounded) ELSE sounded
      ticked == IF slice = 0 THEN Ca1(via1, TRUE) ELSE IF slice = 1 THEN Ca1(via1, FALSE) ELSE via1
  IN /\ easc' = Lined(pulled)
     /\ via2' = slotted
     /\ dafb' = lined
     /\ via1' = ticked
     /\ slice' = (slice + 1) % SlicesPerFrame
     /\ ipl' = Level(slotted, ticked)
     /\ owed' = (owed \/ (~Room(easc) /\ Room(pulled)))

Tick == /\ Handling \/ ipl # 0 => ~InSlice
        /\ Slice(Pulled(easc), Beams)
        /\ ran' = 0
        /\ UNCHANGED << main, level2, level1 >>

-----------------------------------------------------------------------------
(* The guest's handlers                                                    *)

CanTake == ipl # 0 /\ level2.pc = "none" /\ (ipl = 1 => ~level1)

\* The dispatcher reads the flags and picks an enabled one.
TakeLevel2(flag) ==
  /\ CanTake /\ ipl = 2
  /\ flag \in via2.ifr \cap via2.ier
  /\ level2' = [pc |-> flag, left |-> 0]
  /\ Arrive
  /\ UNCHANGED << via2, via1, dafb, easc, slice, ipl, main, level1, owed >>

Acknowledged(v, flag) == [v EXCEPT !.ifr = @ \ {flag}]

\* It writes the flag back to the IFR.
Acknowledge ==
  /\ level2.pc \in Flags
  /\ via2' = Acknowledged(via2, level2.pc)
  /\ ipl' = Level(via2', via1)
  /\ level2' = [level2 EXCEPT !.pc = IF @ = "slot" THEN "portA" ELSE "status"]
  /\ Step
  /\ UNCHANGED << via1, dafb, easc, slice, main, level1, owed >>

\* Port A says whether video still interrupts.
ReadPortA ==
  /\ level2.pc = "portA"
  /\ level2' = [level2 EXCEPT !.pc = IF dafb.irq THEN "beam" ELSE "none"]
  /\ Step
  /\ UNCHANGED << devices, via1, slice, ipl, main, level1, owed >>

ClearedByWriteOnly(d, beam) == d    \* Mutant: reading a clear register is no acknowledgement.

\* Dafb::read of a clear register
Cleared(d, beam) == LET less == [d EXCEPT !.pending = @ \ {beam}] IN [less EXCEPT !.irq = BeamUp(less)]

ClearBeam(beam) ==
  /\ level2.pc = "beam"
  /\ beam \in dafb.pending \cap dafb.mask
  /\ dafb' = Cleared(dafb, beam)
  /\ via2' = TellSlot(dafb', via2)
  /\ ipl' = Level(via2', via1)
  /\ level2' = [level2 EXCEPT !.pc = "portA"]
  /\ Step
  /\ UNCHANGED << via1, easc, slice, main, level1, owed >>

\* Easc::read of the status
Told(e) == [e EXCEPT !.latched = {}]
ReadStatus ==
  LET told == Told(easc)
      room == "room" \in Status(easc)
  IN /\ level2.pc = "status"
     /\ easc' = Lined(told)
     /\ via2' = TellAsc(told, via2)
     /\ ipl' = Level(via2', via1)
     /\ level2' = IF room /\ main.song > 0 THEN [pc |-> "fill", left |-> Half] ELSE [pc |-> "none", left |-> 0]
     /\ owed' = (owed /\ ~room)
     /\ Step
     /\ UNCHANGED << via1, dafb, slice, main, level1 >>

PushedQuietly(e) == [e EXCEPT !.level = IF @ < Ring - 1 THEN @ + 1 ELSE @]    \* Mutant: a push announces no room.
PushedOver(e) == [e EXCEPT !.level = @ + 1, !.latched = @ \cup {"room"}]    \* Mutant: a full FIFO takes one more.

\* Easc::push, and the room a push leaves
Pushed(e) == LET more == [e EXCEPT !.level = IF @ < Ring - 1 THEN @ + 1 ELSE @]
             IN [more EXCEPT !.latched = IF Room(more) THEN @ \cup {"room"} ELSE @]

PushSample ==
  LET pushed == Pushed(easc)
  IN /\ level2.pc = "fill" /\ level2.left > 0 /\ main.song > 0
     /\ easc' = Lined(pushed)
     /\ via2' = TellAsc(pushed, via2)
     /\ ipl' = Level(via2', via1)
     /\ main' = [main EXCEPT !.song = @ - 1]
     /\ level2' = [level2 EXCEPT !.left = @ - 1]
     /\ owed' = (owed \/ pushed.level <= Half)
     /\ Step
     /\ UNCHANGED << via1, dafb, slice, level1 >>

EndFill ==
  /\ level2.pc = "fill" /\ (level2.left = 0 \/ main.song = 0)
  /\ level2' = [pc |-> "none", left |-> 0]
  /\ Step
  /\ UNCHANGED << devices, via1, slice, ipl, main, level1, owed >>

TakeLevel1 ==
  /\ CanTake /\ ipl = 1
  /\ level1' = TRUE
  /\ Arrive
  /\ UNCHANGED << devices, via1, slice, ipl, main, level2, owed >>

\* It clears the tick's flag (and returns).
ServeTick ==
  /\ level1 /\ level2.pc = "none" /\ ipl # 2
  /\ via1' = [via1 EXCEPT !.flag = FALSE]
  /\ ipl' = Level(via2, via1')
  /\ level1' = FALSE
  /\ Step
  /\ UNCHANGED << devices, slice, main, level2, owed >>

-----------------------------------------------------------------------------
(* The guest outside its handlers; it runs when no interrupt is accepted.  *)

AtMain == ~Handling /\ ipl = 0

Enable ==    \* the System opens the pseudo-VIA's and VIA 1's enables
  /\ AtMain /\ main.pc = "boot"
  /\ via2' = [via2 EXCEPT !.ier = Flags]
  /\ via1' = [via1 EXCEPT !.enabled = TRUE]
  /\ ipl' = Level(via2', via1')
  /\ main' = [main EXCEPT !.pc = "idle"]
  /\ UNCHANGED << dafb, easc, slice, level2, level1, owed, ran >>

\* Dafb::write of the interrupt mask
Masked(d, mask) == LET less == [d EXCEPT !.mask = mask, !.pending = @ \cap mask]
                   IN [less EXCEPT !.irq = BeamUp(less)]

SetMask(mask) ==
  /\ AtMain /\ main.pc # "boot"
  /\ mask # dafb.mask
  /\ dafb' = Masked(dafb, mask)
  /\ via2' = TellSlot(dafb', via2)
  /\ ipl' = Level(via2', via1)
  /\ UNCHANGED << via1, easc, slice, main, level2, level1, owed, ran >>

\* A sound chip write of the guest's main program.
WriteEasc(e, pc, o) ==
  /\ easc' = Lined(e)
  /\ via2' = TellAsc(e, via2)
  /\ ipl' = Level(via2', via1)
  /\ main' = [main EXCEPT !.pc = pc]
  /\ owed' = o
  /\ UNCHANGED << via1, dafb, slice, level2, level1, ran >>

ClearFifo ==    \* $803: empties the FIFO and announces nothing
  AtMain /\ main.pc = "idle" /\ WriteEasc([easc EXCEPT !.level = 0], "cleared", owed)

EnterFifoMode ==    \* $801
  /\ AtMain /\ main.pc = "cleared"
  /\ WriteEasc([easc EXCEPT !.fifoMode = TRUE, !.latched = IF Room(easc) THEN @ \cup {"room"} ELSE @], "mode", Room(easc))

\* $F29: enabling looks at what is already latched.
EnableCallback ==
  /\ AtMain /\ main.pc = "mode"
  /\ \E samples \in 1..Song :
       /\ easc' = Lined([easc EXCEPT !.enabled = TRUE])
       /\ via2' = TellAsc([easc EXCEPT !.enabled = TRUE], via2)
       /\ ipl' = Level(via2', via1)
       /\ main' = [pc |-> "playing", song |-> samples]
       /\ UNCHANGED << via1, dafb, slice, level2, level1, owed, ran >>

DisableCallback ==
  AtMain /\ main.pc = "playing" /\ main.song = 0 /\ WriteEasc([easc EXCEPT !.enabled = FALSE], "ended", owed)

LeaveFifoMode ==
  AtMain /\ main.pc = "ended" /\ WriteEasc([easc EXCEPT !.fifoMode = FALSE], "idle", FALSE)

\* PseudoVia::reset and Easc::reset, the latter without a word to the former.
ResetVia2(v) == [v EXCEPT !.ifr = {}, !.ier = {}]
ResetEasc(e) == [e EXCEPT !.level = 0, !.fifoMode = FALSE, !.enabled = FALSE, !.latched = {}, !.line = FALSE]

\* The RESET instruction leaves video alone; a machine reset clears it silently,
\* and the machine's dafbIrq_ with it unchanged.
Reset(whole) ==
  /\ ResetsAnytime \/ (~easc.line /\ ~dafb.irq)
  /\ main.pc # "boot"
  /\ via2' = ResetVia2(via2)
  /\ via1' = [via1 EXCEPT !.flag = FALSE, !.enabled = FALSE, !.ca1 = FALSE]
  /\ easc' = ResetEasc(easc)
  /\ dafb' = IF whole THEN [dafb EXCEPT !.mask = {}, !.pending = {}] ELSE dafb
  /\ ipl' = 0
  /\ main' = [pc |-> "boot", song |-> 0]
  /\ level2' = [pc |-> "none", left |-> 0]
  /\ level1' = FALSE
  /\ owed' = FALSE
  /\ ran' = 0
  /\ UNCHANGED slice

-----------------------------------------------------------------------------
Init ==
  /\ via2 = [ifr |-> {}, ier |-> {}, told |-> {}]
  /\ via1 = [ca1 |-> FALSE, flag |-> FALSE, enabled |-> FALSE]
  /\ dafb = [mask |-> {}, pending |-> {}, irq |-> FALSE]
  /\ easc = [level |-> 0, fifoMode |-> FALSE, enabled |-> FALSE, latched |-> {}, line |-> FALSE]
  /\ slice = 0
  /\ ipl = 0
  /\ main = [pc |-> "boot", song |-> 0]
  /\ level2 = [pc |-> "none", left |-> 0]
  /\ level1 = FALSE
  /\ owed = FALSE
  /\ ran = 0

Handlers == \/ \E flag \in Flags : TakeLevel2(flag)
            \/ Acknowledge \/ ReadPortA \/ \E beam \in Beams : ClearBeam(beam)
            \/ ReadStatus \/ PushSample \/ EndFill
            \/ TakeLevel1 \/ ServeTick

Program == Enable \/ ClearFifo \/ EnterFifoMode \/ EnableCallback \/ DisableCallback \/ LeaveFifoMode

Next == \/ Tick \/ Handlers \/ Program
        \/ \E mask \in SUBSET Beams : SetMask(mask)
        \/ \E whole \in BOOLEAN : Reset(whole)

\* Time passes and the processor runs.
Fairness == WF_vars(Tick) /\ WF_vars(Handlers)

Spec == Init /\ [][Next]_vars /\ Fairness

-----------------------------------------------------------------------------
(* Properties                                                              *)

IrqTypeOK ==
  /\ via2 \in [ifr : SUBSET Flags, ier : SUBSET Flags, told : SUBSET Flags]
  /\ via1 \in [ca1 : BOOLEAN, flag : BOOLEAN, enabled : BOOLEAN]
  /\ dafb \in [mask : SUBSET Beams, pending : SUBSET Beams, irq : BOOLEAN]
  /\ easc \in [level : 0..(Ring - 1), fifoMode : BOOLEAN, enabled : BOOLEAN, latched : SUBSET Events, line : BOOLEAN]
  /\ slice \in 0..(SlicesPerFrame - 1)
  /\ ipl \in 0..2
  /\ main \in [pc : {"boot", "idle", "cleared", "mode", "playing", "ended"}, song : 0..Song]
  /\ level2 \in [pc : {"none", "portA", "beam", "status", "fill"} \cup Flags, left : 0..Half]
  /\ level1 \in BOOLEAN /\ owed \in BOOLEAN /\ ran \in 0..StepsPerSlice

\* A device that asserts its line has its flag set in the pseudo-VIA, or the guest
\* is between acknowledging the flag and serving the device: no edge is lost to a
\* level that stays up (pseudovia.hpp's edge, and every place that moves a line).
\* While a callback is enabled, room the guest has not read of asserts the line
\* (easc.hpp: mode changes, pushes, drain crossings and enabling all announce it).
NothingForgotten ==
  /\ dafb.irq => "slot" \in via2.ifr \/ level2.pc \in {"portA", "beam"}
  /\ easc.line => "asc" \in via2.ifr \/ level2.pc = "status"
  /\ easc.fifoMode /\ easc.enabled /\ owed => easc.line

\* A rising edge of the sound chip's line sets its flag (pseudovia.hpp:81, "a rising
\* edge sets the IFR bit").  It does not hold with ResetsAnytime: Easc::reset drops
\* the line without telling the pseudo-VIA (easc.hpp:46).
EdgeSetsFlag == [][~easc.line /\ easc.line' => "asc" \in via2'.ifr]_vars

\* Every asserted line is served, every tick is taken, and a song is played to its
\* end unless the machine is reset: no callback the guest waits for fails to come.
InterruptsAreServed ==
  /\ dafb.irq /\ main.pc # "boot" ~> ~dafb.irq \/ main.pc = "boot"
  /\ easc.line ~> ~easc.line
  /\ via1.flag /\ via1.enabled ~> ~via1.flag
  /\ main.song > 0 ~> main.song = 0
=============================================================================
