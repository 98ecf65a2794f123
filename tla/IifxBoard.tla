----------------------------- MODULE IifxBoard -----------------------------
(***************************************************************************)
(* The heart of the Macintosh IIfx (core/src/machine/iifx/iifx.cpp and     *)
(* oss.hpp): the 68030 runs ahead of the devices, which catch up in        *)
(* batches; the OSS turns their request lines into the processor's         *)
(* interrupt level; once a second the machine may run a Toolbox trap of    *)
(* its own on the guest's processor, from inside the devices' tick.        *)
(*                                                                         *)
(* The machine is sequential.  What interleaves are its nested calls: an   *)
(* I/O access in the middle of an instruction flushes the banked cycles,   *)
(* the flush ticks the devices, and the tick may call stepInstruction()    *)
(* again for an injected trap.  mode says where the innermost              *)
(* stepInstruction() is and stack where the suspended tick returns to.     *)
(*                                                                         *)
(* The devices are their request lines.  What a tick or an access does to  *)
(* a line, whether a tick crosses a frame and whether a trap is injected   *)
(* are choices: the phase counters and the guest's state decide in code.   *)
(***************************************************************************)
EXTENDS Integers, Sequences

CONSTANTS
  Polled,       \* lines updateIpl() samples: Slot9, Via1, Scsi, Sound
  Wired,        \* lines whose device calls the OSS itself: SccIop, IsmIop
  Clock,        \* the 60 Hz pulse input
  Quiet,        \* polled lines that an access may move unannounced: Scsi, Sound
  Priorities,   \* priorities the guest programs
  Batch,        \* kTickBatchCycles
  Cycles        \* lengths of instructions

Lines == Polled \cup Wired
Sources == Lines \cup {Clock}
Levels == 0..7

ASSUME LinesAssumption == /\ Polled \cap Wired = {} /\ Clock \notin Lines /\ Quiet \subseteq Polled
ASSUME CyclesAssumption == Batch \in Nat \ {0} /\ Cycles \subseteq Nat \ {0}
ASSUME PrioritiesAssumption == Priorities \subseteq Levels

VARIABLES
  lines,      \* the request lines the devices assert
  oss,        \* the OSS
  ipl,        \* the interrupt level the processor samples
  pending,    \* pendingTickCycles_
  touched,    \* deviceTouched_
  batching,   \* tickBatching_
  mode,       \* "ready", in an instruction ("exec") or its access ("flushed"), "toggle"
  stack,      \* what an injected trap returns to: a suspended tick or the host
  frame,      \* the frame runFrame() waits for is complete
  injected    \* history: a trap has been injected during this frame

vars == << lines, oss, ipl, pending, touched, batching, mode, stack, frame, injected >>

-----------------------------------------------------------------------------
(* The OSS                                                                 *)

Pending(o) == o.level \cup o.latch

\* The highest priority of the sources in active, 0 when there are none.
HighestOf(prio, active) == CHOOSE p \in Levels :
  /\ p # 0 => \E s \in active : prio[s] = p
  /\ \A s \in active : prio[s] <= p

Highest(o) == HighestOf(o.prio, Pending(o))

\* ipl(): the level is recomputed only after a change.
Sample(o) == IF o.dirty THEN [o EXCEPT !.cached = Highest(o), !.dirty = FALSE] ELSE o

\* setLevel, for every line at once.
SetLevels(o, level) == [o EXCEPT !.level = level, !.dirty = @ \/ level # o.level]

\* updateIpl(): sample the polled lines, then tell the processor.
Polling(o, ls) == Sample(SetLevels(o, (o.level \ Polled) \cup (ls \cap Polled)))

\* Mutant: the cached level survives a register write.
ChangedQuietly(o) == o

\* changed()
Changed(o) == [o EXCEPT !.dirty = TRUE]

\* The processor sees o, once updateIpl() has run with the lines ls.
Update(o, ls) == oss' = Polling(o, ls) /\ ipl' = Polling(o, ls).cached

\* A wired device whose line moves calls setLevel, and changed() updateIpl().
Wire(o, ls) == SetLevels(o, (o.level \ Wired) \cup (ls \cap Wired))

-----------------------------------------------------------------------------
(* Device time                                                             *)

\* The end of tickDevices: the 60 Hz pulse, perhaps, and the interrupt level.
TickEnds(o, ls) ==
  \/ frame' = frame /\ Update(o, ls)
  \/ frame' = TRUE /\ Update(Changed([o EXCEPT !.latch = @ \cup {Clock}]), ls)

\* tickDevices: the devices move their lines.  A second may have passed and a
\* trap be injected, one at a time: then the processor runs on from here and
\* the tick ends later.  left is what remains banked.
\* Mutant: hardDiskMountInFlight_ does not keep traps from nesting.
TickNested(return, left) == \E ls \in SUBSET Lines :
  /\ lines' = ls /\ pending' = left
  /\ \/ TickEnds(Wire(oss, ls), ls) /\ mode' = return /\ UNCHANGED << stack, injected >>
     \/ /\ stack' = << return >> \o stack /\ mode' = "ready" /\ injected' = TRUE
        /\ oss' = Sample(Wire(oss, ls)) /\ ipl' = oss'.cached /\ UNCHANGED frame

Tick(return, left) == \E ls \in SUBSET Lines :
  /\ lines' = ls /\ pending' = left
  /\ \/ TickEnds(Wire(oss, ls), ls) /\ mode' = return /\ UNCHANGED << stack, injected >>
     \/ /\ stack = << >> /\ stack' = << return >> /\ mode' = "ready" /\ injected' = TRUE
        /\ oss' = Sample(Wire(oss, ls)) /\ ipl' = oss'.cached /\ UNCHANGED frame

\* The injected trap has returned: the suspended tick ends.
TrapReturns == /\ stack # << >> /\ mode = "ready" /\ Head(stack) # "host"
               /\ mode' = Head(stack) /\ stack' = << >>
               /\ TickEnds(oss, lines)
               /\ UNCHANGED << lines, pending, touched, batching, injected >>

\* Between frames the front end has a trap of its own run: Gestalt, FlushVol.
HostTrap == /\ frame /\ mode = "ready" /\ stack = << >>
            /\ stack' = << "host" >> /\ injected' = TRUE
            /\ UNCHANGED << lines, oss, ipl, pending, touched, batching, mode, frame >>

HostReturns == /\ stack = << "host" >> /\ mode = "ready" /\ stack' = << >>
               /\ UNCHANGED << lines, oss, ipl, pending, touched, batching, mode, frame, injected >>

-----------------------------------------------------------------------------
(* stepInstruction                                                         *)

\* runFrame leaves its loop when the frame is complete; an injected trap's
\* loop does not look at frames.
MayStep == mode = "ready" /\ (frame => stack # << >>)

Fetch == /\ MayStep /\ mode' = "exec"
         /\ UNCHANGED << lines, oss, ipl, pending, touched, batching, stack, frame, injected >>

\* Mutant: the bank is flushed only when it is full.
FlushesFull(banked) == banked >= Batch

\* Mutant: a full bank waits for one more instruction.
FlushesLate(banked) == touched \/ banked > Batch

Flushes(banked) == touched \/ banked >= Batch

\* The instruction retires after n cycles.
Retire == \E n \in Cycles :
  /\ mode = "exec"
  /\ UNCHANGED batching
  /\ IF ~batching THEN Tick("ready", pending) /\ UNCHANGED touched
     ELSE IF Flushes(pending + n) THEN touched' = FALSE /\ Tick("ready", 0)
     ELSE /\ pending' = pending + n /\ mode' = "ready"
          /\ UNCHANGED << lines, oss, ipl, touched, stack, frame, injected >>

\* A driver entry point served in C++ in place of an instruction.
Hle == /\ MayStep
       /\ UNCHANGED << touched, batching >>
       /\ Tick("ready", 0)

\* An instruction reaches I/O space: the devices catch up first ...
Access == /\ mode = "exec"
          /\ UNCHANGED << touched, batching >>
          /\ IF pending > 0 THEN Tick("flushed", 0)
             ELSE mode' = "flushed" /\ UNCHANGED << lines, oss, ipl, pending, stack, frame, injected >>

\* ... and then the register is read or written, which is Effect.
Register(Effect) == /\ mode = "flushed" /\ mode' = "exec" /\ touched' = TRUE
                    /\ Effect
                    /\ UNCHANGED << pending, batching, stack, frame, injected >>

Moved(l) == {lines \cup {l}, lines \ {l}}

\* The VIA, whose select calls updateIpl().
ViaAccess == Register(\E l \in Polled : \E ls \in Moved(l) : lines' = ls /\ Update(oss, ls))

\* An IOP or, for Scsi, the DMA controller: they report a line that has moved.
WiredAccess == Register(\E l \in Wired \cup Quiet : \E ls \in Moved(l) :
  /\ lines' = ls
  /\ IF ls = lines THEN UNCHANGED << oss, ipl >> ELSE Update(Wire(oss, ls), ls))

\* The sound chip or the bare 5380: nobody is told.
QuietAccess == Register(/\ \E l \in Quiet : lines' \in Moved(l)
                        /\ UNCHANGED << oss, ipl >>)

OssPriority == Register(\E s \in Sources, p \in Priorities :
  Update(Changed([oss EXCEPT !.prio[s] = p]), lines) /\ UNCHANGED lines)

OssAcknowledge == Register(/\ Update(Changed([oss EXCEPT !.latch = {}]), lines)
                           /\ UNCHANGED lines)

\* The video card is not in I/O space: no flush, but an updateIpl().  (Slot9 and
\* Via1 behave alike: Polled \ Quiet is either.)
SlotAccess == \E l \in Polled \ Quiet : \E ls \in Moved(l) :
  /\ mode = "exec"
  /\ lines' = ls /\ Update(oss, ls)
  /\ UNCHANGED << pending, touched, batching, mode, stack, frame, injected >>

\* runFrame returns to the front end and is called again.
RunFrame == /\ frame /\ mode = "ready" /\ stack = << >>
            /\ frame' = FALSE /\ injected' = FALSE
            /\ UNCHANGED << lines, oss, ipl, pending, touched, batching, mode, stack >>

\* setTickBatching: the flush, and then the switch.
SetTickBatching == /\ mode = "ready" /\ stack = << >>
                   /\ UNCHANGED << touched, batching >>
                   /\ IF pending > 0 THEN Tick("toggle", 0)
                      ELSE mode' = "toggle" /\ UNCHANGED << lines, oss, ipl, pending, stack, frame, injected >>

Toggle == /\ mode = "toggle" /\ mode' = "ready" /\ batching' = ~batching
          /\ UNCHANGED << lines, oss, ipl, pending, touched, stack, frame, injected >>

Silent == Update(Changed([oss EXCEPT !.prio = [s \in Sources |-> 0], !.level = {}, !.latch = {}]), {})

\* The front end resets the machine.
Reset == /\ mode = "ready" /\ stack = << >>
         /\ lines' = {} /\ pending' = 0 /\ touched' = FALSE /\ Silent
         /\ UNCHANGED << batching, mode, stack, frame, injected >>

\* The guest's RESET instruction resets the devices and leaves the bank.
ResetInstruction == /\ mode = "exec" /\ lines' = {} /\ Silent
                    /\ UNCHANGED << pending, touched, batching, mode, stack, frame, injected >>

Init == /\ lines = {} /\ ipl = 0
        /\ oss = [prio |-> [s \in Sources |-> 0], level |-> {}, latch |-> {},
                  dirty |-> FALSE, cached |-> 0]
        /\ pending = 0 /\ touched = FALSE /\ batching = TRUE
        /\ mode = "ready" /\ stack = << >> /\ frame = FALSE /\ injected = FALSE

Next == \/ Fetch \/ Retire \/ Hle \/ Access \/ ViaAccess \/ WiredAccess \/ QuietAccess
        \/ OssPriority \/ OssAcknowledge \/ SlotAccess \/ TrapReturns \/ RunFrame
        \/ SetTickBatching \/ Toggle \/ Reset \/ ResetInstruction \/ HostTrap \/ HostReturns

Spec == Init /\ [][Next]_vars

-----------------------------------------------------------------------------
(* Correctness                                                             *)

OssStates == [prio : [Sources -> Levels], level : SUBSET Lines, latch : SUBSET {Clock},
              dirty : BOOLEAN, cached : Levels]

BoardTypeOK ==
  /\ lines \subseteq Lines /\ ipl \in Levels
  /\ oss \in OssStates
  /\ pending \in Nat /\ touched \in BOOLEAN /\ batching \in BOOLEAN
  /\ mode \in {"ready", "exec", "flushed", "toggle"}
  /\ stack \in {<< >>} \cup {<< r >> : r \in {"ready", "flushed", "toggle", "host"}}
  /\ frame \in BOOLEAN /\ injected \in BOOLEAN

\* The level the processor has between instructions.
Truth == Highest([oss EXCEPT !.level = lines])

\* Between instructions the processor's level is what the lines, the latched
\* clock and the programmed priorities call for, even after accesses that told
\* nobody (iifx.hpp:62-65: the effect of an access "is propagated as soon as it
\* retires").
IplHonest == mode = "ready" /\ stack = << >> => ipl = Truth

\* The bank never holds a full batch: no request waits longer than that plus one
\* instruction (iifx.hpp:61-68, iifx.cpp:1202-1206).
BankBounded == pending < Batch

\* "Device time must be current for the register read" (iifx.cpp:3290): no cycle is
\* banked when an access reads or writes its register.  A trap in the access's own
\* flush banks some, so no run checks it.
AccessIsCurrent == mode = "flushed" => pending = 0

\* A frame ends with nothing banked (iifx.cpp:1203-1206, 3229-3231), unless a
\* trap was injected in it: what the trap's instructions bank inside the tick
\* that completes the frame stays.
FrameIsExact == batching /\ mode = "ready" /\ stack = << >> /\ frame /\ ~injected => pending = 0
=============================================================================
