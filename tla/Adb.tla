--------------------------------- MODULE Adb ---------------------------------
(***************************************************************************)
(* The Apple Desktop Bus of the Classic and the Quadra: the transceiver    *)
(* with its keyboard and mouse (adb.hpp), the shift register of VIA 1      *)
(* (via.cpp) and the pump between them in the two machines, which clocks a *)
(* byte some time after a state change, and wakes an idle guest once a     *)
(* frame while input waits.                                                *)
(*                                                                         *)
(* The guest is the ROM's ADB Manager: it sends a command in state 0, then *)
(* reads two bytes in states 1 and 2, either at once or after a dip into   *)
(* idle; a byte with /INT low means "nothing".  Woken at idle it reads     *)
(* without a command what the last Talk is answered again, then polls both *)
(* devices.  It answers a byte before it starts a command of its own.      *)
(* While the machine boots it may also ignore the bus for a while.         *)
(*                                                                         *)
(* A byte is a key's transition, a motion, device data or nothing ($FF).   *)
(* The mouse has one axis and no button; addresses do not move.            *)
(***************************************************************************)
EXTENDS Integers, Sequences, FiniteSets

CONSTANTS
  KeyQueue,   \* kKbdQ: transitions waiting, and one
  MaxDelta,   \* the largest motion of one report (63)
  WakeLimit,  \* wakes without a poll before stale input is dropped (32)
  NumKeys,    \* keys
  MaxTyped,   \* bound: transitions the host injects
  Motions,    \* motions the host injects at once
  MaxMotion,  \* bound: motion waiting
  MaxAsked    \* bound: commands of the guest other than polls

ASSUME AdbAssumption == /\ KeyQueue \in Nat \ {0, 1} /\ MaxDelta \in Nat \ {0} /\ WakeLimit \in Nat \ {0, 1}
                        /\ NumKeys \in Nat /\ MaxTyped \in Nat /\ Motions \subseteq Int
                        /\ MaxMotion \in Nat /\ MaxAsked \in Nat

Keys == 1..NumKeys
Devices == {"kbd", "mouse"}
Commands == [op : {"talk", "listen", "flush"}, dev : Devices, reg : {"zero", "info"}]
Talk(dev) == [op |-> "talk", dev |-> dev, reg |-> "zero"]
Polls == {Talk(dev) : dev \in Devices}
NoCommand == [op |-> "flush", dev |-> "kbd", reg |-> "zero"]    \* cmd_ = 0

Nothing == [kind |-> "none", n |-> 0, down |-> FALSE]
Info == [kind |-> "info", n |-> 0, down |-> FALSE]
Motion(n) == [kind |-> "motion", n |-> n, down |-> FALSE]
Transition(k, down) == [kind |-> "key", n |-> k, down |-> down]
IsKey(b) == b.kind = "key"

Transitions == [kind : {"key"}, n : Keys, down : BOOLEAN]
Bytes == [kind : {"key", "motion", "info", "none"}, n : Int, down : BOOLEAN]

VARIABLES
  adb,    \* the transceiver: unread is buf_ from idx_ on, moved says mousePending_
  pump,   \* the machine's adbPending_: "none", "in" or "out"
  sr,     \* VIA 1: shift register
  flag,   \* VIA 1: shift register interrupt
  streak, \* adbWakeStreak_
  polled, \* has the count of polls changed since the last frame?
  guest,  \* the ADB Manager: where it is, its first byte, the devices it is to poll
  due,    \* history: transitions the guest has not read
  motionDue, \* history: motion the guest has not read
  idle,   \* history: wakes since the guest did anything
  typed,  \* bound: transitions injected
  asked   \* bound: commands other than polls

adbVars == << adb, pump, sr, flag, streak, polled, guest, due, motionDue, idle, typed, asked >>
host == << due, motionDue, typed, asked >>

-----------------------------------------------------------------------------
(* The transceiver                                                         *)

ResponsePending(a) == a.unread # << >>
HasPendingEvent(a) == a.moved \/ a.queue # << >>
WakeWorthPoking(a) == (a.unread = << >> \/ a.staged) /\ (HasPendingEvent(a) \/ ResponsePending(a))

Emit(a, b1, b2) == [a EXCEPT !.unread = << b1, b2 >>]

Front(s, n) == SubSeq(s, 1, n)
Rest(s, n) == SubSeq(s, n + 1, Len(s))

\* talkKeyboard: up to two transitions leave the queue.
TalkKeyboard(a, reg) ==
  IF reg = "info" THEN Emit(a, Info, Info)
  ELSE IF a.queue = << >> THEN a
  ELSE LET second == IF Len(a.queue) > 1 THEN a.queue[2] ELSE Nothing
       IN [Emit(a, a.queue[1], second) EXCEPT !.queue = Rest(@, IF Len(@) > 1 THEN 2 ELSE 1)]

Clamped(n) == IF n > MaxDelta THEN MaxDelta ELSE IF n < -MaxDelta THEN -MaxDelta ELSE n

\* talkMouse: no answer while transitions wait; a large motion goes in pieces.
TalkMouse(a, reg) ==
  IF reg = "info" THEN Emit(a, Info, Info)
  ELSE IF a.queue # << >> \/ ~a.moved THEN a
  ELSE LET d == Clamped(a.motion)
       IN [Emit(a, Motion(d), Nothing) EXCEPT !.motion = @ - d, !.moved = (a.motion # d)]

Answer(a) == IF a.cmd.dev = "kbd" THEN TalkKeyboard(a, a.cmd.reg) ELSE TalkMouse(a, a.cmd.reg)

\* runCommand
RunCommand(a, c) ==
  LET b == [a EXCEPT !.cmd = c, !.unread = << >>, !.int = TRUE, !.staged = FALSE, !.listening = (c.op = "listen")]
  IN IF c.op = "talk" THEN Answer(b) ELSE b

\* cpuShiftOut.  Data of a Listen other than to register 3 go nowhere.
ShiftOut(a, value) == IF a.state = 0 THEN RunCommand(a, value) ELSE a

\* cpuShiftIn
ShiftIn(a) == IF a.state \in {1, 2} /\ ResponsePending(a) THEN [a EXCEPT !.unread = Tail(@)]
              ELSE IF ResponsePending(a) THEN a ELSE [a EXCEPT !.int = FALSE]
ShiftedIn(a) == IF a.state \in {1, 2} /\ ResponsePending(a) THEN Head(a.unread) ELSE Nothing

ReStageOver(a) ==    \* Mutant: an unread response is staged over.
  IF a.cmd.op # "talk" THEN a
  ELSE LET b == Answer([a EXCEPT !.unread = << >>]) IN [b EXCEPT !.staged = (b.unread # << >>)]

\* reStageLastTalk
ReStage(a) ==
  IF ResponsePending(a) \/ a.cmd.op # "talk" THEN a
  ELSE LET b == Answer(a) IN [b EXCEPT !.staged = (b.unread # << >>)]

\* flushStaleInput
Flush(a) == [a EXCEPT !.moved = FALSE, !.motion = 0, !.queue = << >>,
                      !.unread = IF a.staged THEN << >> ELSE @, !.staged = FALSE]

QueuedAlways(q, t) == Append(q, t)    \* Mutant: the queue has no end.
Queued(q, t) == IF Len(q) < KeyQueue - 1 THEN Append(q, t) ELSE q

\* reset: the keys that are held are queued again in the order of their codes, as many as fit.
Queues == UNION {[1..n -> Transitions] : n \in 0..(KeyQueue - 1)}
Requeues(keys, q) ==
  /\ \A i \in 1..Len(q) : q[i].n \in keys /\ q[i].down
  /\ \A i, j \in 1..Len(q) : i < j => q[i].n < q[j].n
  /\ \A k \in keys : (\E i \in 1..Len(q) : q[i].n = k)
                     \/ (Len(q) = KeyQueue - 1 /\ \A i \in 1..Len(q) : q[i].n < k)

ResetAdb(a, q) ==
  [state |-> 3, cmd |-> NoCommand, unread |-> << >>, int |-> TRUE, listening |-> FALSE, staged |-> FALSE,
   held |-> a.held, queue |-> q, motion |-> 0, moved |-> FALSE]

-----------------------------------------------------------------------------
(* The pump of the machine (outB, srArmed, adbMaybeClock, tickDevices)     *)

SetState(a, st) == [a EXCEPT !.state = st, !.int = TRUE]

PumpedWhenArmed(a, st) ==    \* Mutant: entering a data state clocks nothing by itself.
  IF st = 3 /\ ResponsePending(a) THEN "in"
  ELSE IF st = 3 \/ pump = "in" THEN "none" ELSE pump

\* What a state change does to the shift under way.
Pumped(a, st) ==
  IF st \in {1, 2} /\ ~a.listening THEN "in"
  ELSE IF st = 3 /\ ResponsePending(a) THEN "in"
  ELSE IF st = 3 \/ pump = "in" THEN "none" ELSE pump

\* The guest moves to state st.
Enter(st) == adb' = SetState(adb, st) /\ pump' = Pumped(adb, st)

\* It moves to state st and writes a byte, which arms an output shift.
EnterAndWrite(st, value) == adb' = SetState(adb, st) /\ sr' = value /\ pump' = "out"

\* tickDevices: the shift under way ends, and says so.
Complete ==
  /\ pump # "none"
  /\ pump' = "none"
  /\ flag' = TRUE
  /\ IF pump = "in"
     THEN adb' = ShiftIn(adb) /\ sr' = ShiftedIn(adb) /\ UNCHANGED polled
     ELSE /\ adb' = ShiftOut(adb, sr)
          /\ polled' = (polled \/ (adb.state = 0 /\ sr \in Polls))
          /\ UNCHANGED sr
  /\ UNCHANGED << streak, guest, host, idle >>

\* adbIdleWake
Worth == pump = "none" /\ adb.state = 3 /\ WakeWorthPoking(adb)
Streak == IF polled THEN 0 ELSE streak

Wake ==
  /\ Worth /\ Streak < WakeLimit
  /\ adb' = ReStage(adb)
  /\ polled' = (adb.unread = << >> /\ adb.cmd \in Polls)
  /\ sr' = Nothing
  /\ flag' = TRUE
  /\ streak' = Streak + 1
  /\ idle' = IF idle > WakeLimit + 1 THEN idle ELSE idle + 1
  /\ UNCHANGED << pump, guest, host >>

FlushStale ==
  /\ Worth /\ Streak >= WakeLimit
  /\ adb' = Flush(adb)
  /\ polled' = FALSE
  /\ streak' = 0
  /\ idle' = 0
  /\ due' = IF guest.pc = "spin" THEN << >> ELSE due
  /\ motionDue' = IF guest.pc = "spin" THEN 0 ELSE motionDue
  /\ UNCHANGED << pump, sr, flag, guest, typed, asked >>

NoWake ==
  /\ ~Worth
  /\ polled' = FALSE
  /\ streak' = 0
  /\ idle' = 0
  /\ UNCHANGED << adb, pump, sr, flag, guest, host >>

\* An attentive guest needs fewer frames than the limit to answer and to poll.
Attentive == guest.pc = "spin" \/ streak < WakeLimit - 1 \/ (~flag /\ guest.sweep = {})
Frame == Attentive /\ (Wake \/ FlushStale \/ NoWake)

-----------------------------------------------------------------------------
(* The host                                                                *)

InjectKey(k) ==
  LET t == Transition(k, k \notin adb.held)
  IN /\ typed < MaxTyped
     /\ adb' = [adb EXCEPT !.held = IF t.down THEN @ \cup {k} ELSE @ \ {k}, !.queue = Queued(@, t)]
     /\ due' = IF adb'.queue = adb.queue THEN due ELSE Append(due, t)
     /\ typed' = typed + 1
     /\ UNCHANGED << pump, sr, flag, streak, polled, guest, motionDue, idle, asked >>

InjectMouse(n) ==
  /\ adb.motion + n \in -MaxMotion..MaxMotion
  /\ adb' = [adb EXCEPT !.motion = @ + n, !.moved = TRUE]
  /\ motionDue' = motionDue + n
  /\ UNCHANGED << pump, sr, flag, streak, polled, guest, due, idle, typed, asked >>

\* A reset of the machine, after which the guest boots.
MachineReset ==
  /\ \E q \in Queues : Requeues(adb.held, q) /\ adb' = ResetAdb(adb, q)
  /\ pump' = "none"
  /\ flag' = FALSE
  /\ guest' = [pc |-> "spin", first |-> Nothing, sweep |-> {}]
  /\ due' = adb'.queue
  /\ motionDue' = 0
  /\ UNCHANGED << sr, streak, polled, idle, typed, asked >>

-----------------------------------------------------------------------------
(* The guest                                                               *)

Goto(pc) == guest' = [guest EXCEPT !.pc = pc]
Act == idle' = 0 /\ UNCHANGED << streak, polled, typed, asked >>

\* State 0, and the command into the shift register.
Send(c) ==
  /\ guest.pc = "idle" /\ ~flag
  /\ EnterAndWrite(0, c)
  /\ guest' = [guest EXCEPT !.pc = "command", !.sweep = IF c \in Polls THEN @ \ {c.dev} ELSE @]
  /\ idle' = 0
  /\ UNCHANGED << flag, streak, polled, due, motionDue, typed >>

Poll(dev) == dev \in guest.sweep /\ Send(Talk(dev)) /\ UNCHANGED asked
Ask(c) == c \notin Polls /\ asked < MaxAsked /\ Send(c) /\ asked' = asked + 1

\* The guest decides to poll everyone.
Sweep ==
  /\ guest.pc = "idle" /\ ~flag /\ guest.sweep = {}
  /\ guest' = [guest EXCEPT !.sweep = Devices] /\ Act
  /\ UNCHANGED << adb, pump, sr, flag, due, motionDue >>

\* The command is out: read at once, dip into idle first, or send data.
ReadAtOnce ==
  /\ guest.pc = "command" /\ flag /\ adb.cmd.op = "talk"
  /\ Enter(1) /\ flag' = FALSE /\ Goto("first") /\ Act
  /\ UNCHANGED << sr, due, motionDue >>

Dip ==
  /\ guest.pc = "command" /\ flag /\ adb.cmd.op = "talk"
  /\ Enter(3) /\ flag' = FALSE /\ Goto("dip") /\ Act
  /\ UNCHANGED << sr, due, motionDue >>

ReadAfterDip ==
  /\ guest.pc = "dip" /\ flag
  /\ Enter(1) /\ flag' = FALSE /\ Goto("first") /\ Act
  /\ UNCHANGED << sr, due, motionDue >>

GiveUpDip ==
  /\ guest.pc = "dip" /\ ~flag /\ pump = "none"
  /\ Goto("idle") /\ Act
  /\ UNCHANGED << adb, pump, sr, flag, due, motionDue >>

SendData(pc, st, next) ==
  /\ guest.pc = pc /\ flag
  /\ EnterAndWrite(st, Nothing) /\ flag' = FALSE /\ Goto(next) /\ Act
  /\ UNCHANGED << due, motionDue >>

Listen == adb.cmd.op = "listen" /\ SendData("command", 1, "data1")

\* Nothing follows a flush or the data of a Listen.
End ==
  /\ guest.pc = "data2" \/ (guest.pc = "command" /\ adb.cmd.op = "flush")
  /\ flag
  /\ Enter(3) /\ flag' = FALSE /\ Goto("idle") /\ Act
  /\ UNCHANGED << sr, due, motionDue >>

\* Woken at idle.
TakeWake ==
  /\ guest.pc = "idle" /\ flag
  /\ flag' = FALSE
  /\ IF adb.listening
     THEN UNCHANGED << adb, pump >> /\ guest' = [guest EXCEPT !.sweep = Devices]
     ELSE Enter(1) /\ guest' = [guest EXCEPT !.pc = "first", !.sweep = Devices]
  /\ Act
  /\ UNCHANGED << sr, due, motionDue >>

\* The first byte; with /INT low there is nothing, and the guest polls everyone.
ReadFirst ==
  /\ guest.pc = "first" /\ flag
  /\ flag' = FALSE
  /\ IF adb.int
     THEN Enter(2) /\ guest' = [guest EXCEPT !.pc = "second", !.first = sr]
     ELSE Enter(3) /\ Goto("idle")
  /\ Act
  /\ UNCHANGED << sr, due, motionDue >>

\* What a response, of at most two bytes, says.
Key(b) == IF IsKey(b) THEN << b >> ELSE << >>
Move(b) == IF b.kind = "motion" THEN b.n ELSE 0
KeysIn(s) == (IF Len(s) > 0 THEN Key(s[1]) ELSE << >>) \o (IF Len(s) > 1 THEN Key(s[2]) ELSE << >>)
MotionIn(s) == (IF Len(s) > 0 THEN Move(s[1]) ELSE 0) + (IF Len(s) > 1 THEN Move(s[2]) ELSE 0)

ReadSecond ==
  LET report == << guest.first, sr >>
  IN /\ guest.pc = "second" /\ flag
     /\ flag' = FALSE
     /\ Enter(3)
     /\ guest' = [guest EXCEPT !.pc = "idle", !.first = Nothing]
     /\ due' = Rest(due, Len(KeysIn(report)))
     /\ motionDue' = motionDue - MotionIn(report)
     /\ Act
     /\ UNCHANGED sr

\* The boot waits for the bus to be idle; when the guest is back it polls everyone.
EndSpin ==
  /\ guest.pc = "spin"
  /\ guest' = [guest EXCEPT !.pc = "idle", !.sweep = Devices] /\ Act
  /\ UNCHANGED << adb, pump, sr, flag, due, motionDue >>

-----------------------------------------------------------------------------
AdbInit ==
  /\ adb = ResetAdb([held |-> {}], << >>)
  /\ pump = "none"
  /\ sr = Nothing
  /\ flag = FALSE
  /\ streak = 0
  /\ polled = FALSE
  /\ guest = [pc |-> "spin", first |-> Nothing, sweep |-> {}]
  /\ due = << >>
  /\ motionDue = 0
  /\ idle = 0
  /\ typed = 0 /\ asked = 0

Answers == \/ ReadAtOnce \/ Dip \/ ReadAfterDip \/ GiveUpDip
           \/ Listen \/ SendData("data1", 2, "data2") \/ End
           \/ TakeWake \/ ReadFirst \/ ReadSecond

AdbNext == \/ Complete \/ Frame
        \/ \E k \in Keys : InjectKey(k)
        \/ \E n \in Motions : InjectMouse(n)
        \/ MachineReset
        \/ \E dev \in Devices : Poll(dev)
        \/ Sweep \/ \E c \in Commands : Ask(c)
        \/ Answers \/ EndSpin

\* Time passes and the guest answers what the transceiver sends.  Its polls are
\* strongly fair: a wake takes them away, once a frame, and they take far less.
AdbFairness == WF_adbVars(Complete) /\ WF_adbVars(Frame) /\ WF_adbVars(Answers)
            /\ \A dev \in Devices : SF_adbVars(Poll(dev))

AdbSpec == AdbInit /\ [][AdbNext]_adbVars /\ AdbFairness

-----------------------------------------------------------------------------
(* Properties                                                              *)

Queue == {q \in Seq(Transitions) : Len(q) < KeyQueue}
Response == {s \in Seq(Bytes) : Len(s) <= 2}

AdbTypeOK ==
  /\ adb \in [state : 0..3, cmd : Commands, unread : Response, int : BOOLEAN, listening : BOOLEAN,
             staged : BOOLEAN, held : SUBSET Keys, queue : Queue,
             motion : -MaxMotion..MaxMotion, moved : BOOLEAN]
  /\ pump \in {"none", "in", "out"} /\ flag \in BOOLEAN /\ polled \in BOOLEAN
  /\ sr \in Bytes \cup Commands
  /\ streak \in 0..WakeLimit /\ idle \in 0..(WakeLimit + 2) /\ typed \in 0..MaxTyped /\ asked \in 0..MaxAsked
  /\ guest \in [pc : {"idle", "command", "dip", "first", "second", "data1", "data2", "spin"},
               first : Bytes, sweep : SUBSET Devices]
  /\ due \in Seq(Transitions) /\ motionDue \in Int

\* What is on its way to the guest: the byte it holds, the one in the shift
\* register, and the transceiver's.
InFlight ==
  (IF guest.pc = "second" THEN << guest.first >> ELSE << >>)
    \o (IF flag /\ guest.pc \in {"first", "second"} THEN << sr >> ELSE << >>)
    \o adb.unread

\* Every transition the queue took is, until the guest has read it, on its way or
\* queued, in the order it was typed and once; and so is all motion.  Wakes, dips,
\* empty answers and commands lose, repeat or swap nothing (adb.hpp's romResponsePending,
\* reStageLastTalk and talkMouse), unless the machine is reset or ignores the bus.
InputIsConserved ==
  /\ Len(InFlight) <= 2
  /\ KeysIn(InFlight) \o adb.queue = due
  /\ MotionIn(InFlight) + adb.motion = motionDue

\* A guest that answers is never left waiting for a byte, and gets every transition.
InputArrives ==
  /\ guest.pc \in {"command", "dip", "first", "second", "data1", "data2"} ~> guest.pc \in {"idle", "spin"}
  /\ due # << >> /\ guest.pc # "spin" ~> due = << >> \/ guest.pc = "spin"

\* Input that the guest never comes back to poll is dropped after the limit, so that
\* the bus falls idle (adb.hpp's flushStaleInput): no longer series of wakes.  It does
\* not hold: the wake's own reStageLastTalk counts as a poll and resets the streak.
StaleInputIsDropped == idle <= WakeLimit + 1
=============================================================================
