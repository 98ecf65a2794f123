-------------------------- MODULE IifxBoard_proofs --------------------------
(***************************************************************************)
(* Proofs about IifxBoard, for any request lines, any programmed           *)
(* priorities, any batch and any lengths of instructions:                  *)
(*                                                                         *)
(*   BoardTypeCorrect     Spec => []BoardTypeOK                            *)
(*   InterruptsAreHonest  Spec => []IplHonest                              *)
(*   BankIsBounded        Spec => []BankBounded                            *)
(*   FramesAreExact       Spec => []FrameIsExact                           *)
(*                                                                         *)
(* IplHonest is not inductive: it speaks of the moments between            *)
(* instructions.  Settled adds that the processor's level is always the    *)
(* one the OSS computes from what it has been told, WiredFresh that it     *)
(* has been told of every line whose device reports, and Excused that a    *)
(* line it does not know of is either due to an access whose instruction   *)
(* has not retired (touched) or to a tick that an injected trap suspends.  *)
(***************************************************************************)
EXTENDS IifxBoard, TLAPS

Settled == ~oss.dirty /\ oss.cached = Highest(oss) /\ ipl = oss.cached

WiredFresh == oss.level \cap Wired = lines \cap Wired

Suspended == stack # << >> /\ stack # << "host" >>

Excused == oss.level = lines \/ Suspended \/ (touched /\ mode \in {"exec", "flushed"})

\* A trap in progress was injected during this frame.
TrapNoted == stack # << >> => injected

\* How FrameIsExact is carried through the steps of an instruction.
FrameFlushed == frame /\ ~injected =>
  /\ mode = "exec" => pending = 0 /\ touched
  /\ mode \in {"flushed", "toggle"} => pending = 0

IInv == /\ BoardTypeOK /\ BankBounded
        /\ Settled /\ WiredFresh /\ Excused
        /\ TrapNoted /\ FrameIsExact /\ FrameFlushed

-----------------------------------------------------------------------------
(* The OSS                                                                 *)

\* There is a highest priority, and it is a level.
LEMMA HighestIsLevel ==
  ASSUME NEW o \in OssStates
  PROVE  Highest(o) \in Levels
<1> DEFINE R(p) == \E s \in Pending(o) : o.prio[s] = p
           Top(p) == /\ p # 0 => R(p)
                     /\ \A s \in Pending(o) : o.prio[s] <= p
<1>1. \A s \in Pending(o) : o.prio[s] \in Levels
  BY DEF Pending, OssStates, Sources
<1>2. ASSUME NEW p \in Levels, p # 0, ~R(p), \A s \in Pending(o) : o.prio[s] <= p
      PROVE  \A s \in Pending(o) : o.prio[s] <= p - 1
  BY <1>1, <1>2 DEF Levels
<1>3. \A s \in Pending(o) : o.prio[s] <= 7
  BY <1>1 DEF Levels
<1> HIDE DEF R
<1>4. \E p \in Levels : Top(p)
  <2>1. \A p \in Levels : (\A s \in Pending(o) : o.prio[s] <= p) =>
          Top(p) \/ (p # 0 /\ \A s \in Pending(o) : o.prio[s] <= p - 1)
    BY <1>2 DEF Levels
  <2> DEFINE Bounded(p) == \A s \in Pending(o) : o.prio[s] <= p
             Found == \E p \in Levels : Top(p)
  <2>2. \A p \in Levels : Bounded(p) => Found \/ (p # 0 /\ Bounded(p - 1))
    BY <2>1
  <2>3. Bounded(7)
    BY <1>3
  <2> HIDE DEF Bounded, Found
  <2>4. Found
    BY <2>2, <2>3 DEF Levels
  <2> QED
    BY <2>4 DEF Found
<1> USE DEF R
<1> QED
  BY <1>4 DEF Highest, HighestOf

\* An OSS whose level, if believed, is right.
Believable(o) == o \in OssStates /\ (~o.dirty => o.cached = Highest(o))

\* ipl() believes the cache only when it is right.
LEMMA SampleIsRight ==
  ASSUME NEW o, Believable(o)
  PROVE  /\ Sample(o) \in OssStates /\ ~Sample(o).dirty
         /\ Sample(o).cached = Highest(Sample(o))
         /\ Sample(o).level = o.level
<1>1. o \in OssStates /\ Highest(o) \in Levels
  BY HighestIsLevel DEF Believable
<1>2. CASE o.dirty
  BY <1>1, <1>2 DEF Sample, OssStates, Highest, Pending
<1>3. CASE ~o.dirty
  BY <1>1, <1>3 DEF Sample, Believable
<1> QED
  BY <1>2, <1>3

LEMMA SetLevelsBelievable ==
  ASSUME NEW o, Believable(o), NEW level \in SUBSET Lines
  PROVE  Believable(SetLevels(o, level)) /\ SetLevels(o, level).level = level
<1>1. o \in OssStates
  BY DEF Believable
<1>2. CASE level = o.level
  BY <1>1, <1>2 DEF SetLevels, Believable, OssStates, Highest, Pending
<1>3. CASE level # o.level
  BY <1>1, <1>3 DEF SetLevels, Believable, OssStates
<1> QED
  BY <1>2, <1>3

LEMMA WireBelievable ==
  ASSUME NEW o, Believable(o), NEW ls \in SUBSET Lines
  PROVE  /\ Believable(Wire(o, ls))
         /\ Wire(o, ls).level = (o.level \ Wired) \cup (ls \cap Wired)
<1>1. (o.level \ Wired) \cup (ls \cap Wired) \in SUBSET Lines
  BY DEF Believable, OssStates, Lines
<1> QED
  BY <1>1, SetLevelsBelievable DEF Wire

LEMMA ChangedBelievable ==
  ASSUME NEW o \in OssStates
  PROVE  Believable(Changed(o)) /\ Changed(o).level = o.level
BY DEF Changed, Believable, OssStates

\* After updateIpl() the processor's level is right and every polled line known.
LEMMA UpdateSettles ==
  ASSUME NEW o, Believable(o), NEW ls \in SUBSET Lines, Update(o, ls)
  PROVE  /\ oss' \in OssStates /\ ipl' \in Levels /\ Settled'
         /\ oss'.level = (o.level \ Polled) \cup (ls \cap Polled)
<1> DEFINE level == (o.level \ Polled) \cup (ls \cap Polled)
<1>1. level \in SUBSET Lines
  BY DEF Believable, OssStates, Lines
<1>2. Believable(SetLevels(o, level)) /\ SetLevels(o, level).level = level
  BY <1>1, SetLevelsBelievable
<1>3. oss' = Sample(SetLevels(o, level)) /\ ipl' = oss'.cached
  BY DEF Update, Polling
<1> HIDE DEF level
<1>4. oss' \in OssStates /\ ~oss'.dirty /\ oss'.cached = Highest(oss') /\ oss'.level = level
  BY <1>2, <1>3, SampleIsRight
<1>5. ipl' \in Levels
  BY <1>3, <1>4 DEF OssStates
<1> QED
  BY <1>3, <1>4, <1>5 DEF Settled, level

\* With every wired line known, updateIpl() leaves nothing unknown.
LEMMA UpdateRefreshes ==
  ASSUME NEW o, Believable(o), NEW ls \in SUBSET Lines, Update(o, ls),
         o.level \cap Wired = ls \cap Wired
  PROVE  oss' \in OssStates /\ ipl' \in Levels /\ Settled' /\ oss'.level = ls
<1>1. (o.level \ Polled) \cup (ls \cap Polled) = ls
  BY LinesAssumption DEF Believable, OssStates, Lines
<1> QED
  BY <1>1, UpdateSettles

-----------------------------------------------------------------------------
(* Device time                                                             *)

LEMMA TickEndsSettles ==
  ASSUME NEW o, Believable(o), NEW ls \in SUBSET Lines, TickEnds(o, ls),
         o.level \cap Wired = ls \cap Wired, frame \in BOOLEAN
  PROVE  oss' \in OssStates /\ ipl' \in Levels /\ Settled' /\ oss'.level = ls /\ frame' \in BOOLEAN
<1>1. CASE frame' = frame /\ Update(o, ls)
  BY <1>1, UpdateRefreshes
<1>2. CASE frame' = TRUE /\ Update(Changed([o EXCEPT !.latch = @ \cup {Clock}]), ls)
  <2> DEFINE pulsed == [o EXCEPT !.latch = @ \cup {Clock}]
  <2>1. pulsed \in OssStates /\ pulsed.level = o.level
    BY DEF Believable, OssStates
  <2> HIDE DEF pulsed
  <2>2. Believable(Changed(pulsed)) /\ Changed(pulsed).level = o.level
    BY <2>1, ChangedBelievable
  <2>3. Update(Changed(pulsed), ls)
    BY <1>2 DEF pulsed
  <2> QED
    BY <2>2, <2>3, <1>2, UpdateRefreshes
<1> QED
  BY <1>1, <1>2 DEF TickEnds

LEMMA IInvBelievable ==
  ASSUME IInv
  PROVE  Believable(oss)
BY DEF IInv, BoardTypeOK, Settled, Believable

\* A tick either ends with the processor told of every line, or leaves the
\* processor to an injected trap.
LEMMA TickOutcome ==
  ASSUME IInv, NEW return, NEW left, Tick(return, left)
  PROVE  /\ oss' \in OssStates /\ ipl' \in Levels /\ lines' \in SUBSET Lines /\ frame' \in BOOLEAN
         /\ Settled' /\ WiredFresh' /\ pending' = left
         /\ \/ stack' = stack /\ injected' = injected /\ mode' = return /\ oss'.level = lines'
            \/ /\ stack = << >> /\ stack' = << return >> /\ injected' = TRUE
               /\ mode' = "ready" /\ frame' = frame
<1>1. PICK ls \in SUBSET Lines :
        /\ lines' = ls /\ pending' = left
        /\ \/ TickEnds(Wire(oss, ls), ls) /\ mode' = return /\ UNCHANGED << stack, injected >>
           \/ /\ stack = << >> /\ stack' = << return >> /\ mode' = "ready" /\ injected' = TRUE
              /\ oss' = Sample(Wire(oss, ls)) /\ ipl' = oss'.cached /\ UNCHANGED frame
  BY DEF Tick
<1>2. /\ Believable(Wire(oss, ls))
      /\ Wire(oss, ls).level = (oss.level \ Wired) \cup (ls \cap Wired)
  BY IInvBelievable, WireBelievable
<1>3. Wire(oss, ls).level \cap Wired = ls \cap Wired
  BY <1>2
<1>4. frame \in BOOLEAN
  BY DEF IInv, BoardTypeOK
<1>5. CASE TickEnds(Wire(oss, ls), ls) /\ mode' = return /\ UNCHANGED << stack, injected >>
  <2>1. oss' \in OssStates /\ ipl' \in Levels /\ Settled' /\ oss'.level = ls /\ frame' \in BOOLEAN
    BY <1>2, <1>3, <1>4, <1>5, TickEndsSettles
  <2> QED
    BY <1>1, <1>5, <2>1 DEF WiredFresh
<1>6. CASE /\ stack = << >> /\ stack' = << return >> /\ mode' = "ready" /\ injected' = TRUE
           /\ oss' = Sample(Wire(oss, ls)) /\ ipl' = oss'.cached /\ UNCHANGED frame
  <2>1. /\ oss' \in OssStates /\ ~oss'.dirty /\ oss'.cached = Highest(oss')
        /\ oss'.level = Wire(oss, ls).level
    BY <1>2, <1>6, SampleIsRight
  <2>2. ipl' \in Levels
    BY <1>6, <2>1 DEF OssStates
  <2> QED
    BY <1>1, <1>3, <1>4, <1>6, <2>1, <2>2 DEF WiredFresh, Settled
<1> QED
  BY <1>1, <1>5, <1>6

\* A tick keeps the invariant when it leaves the bank empty, or is the tick of
\* an instruction with batching off.
LEMMA TickKeeps ==
  ASSUME IInv, NEW return \in {"ready", "flushed", "toggle"}, NEW left \in Nat, left < Batch,
         batching \/ return # "ready" => left = 0,
         Tick(return, left), batching' = batching, touched' \in BOOLEAN
  PROVE  IInv'
<1>1. /\ oss' \in OssStates /\ ipl' \in Levels /\ lines' \in SUBSET Lines /\ frame' \in BOOLEAN
      /\ Settled' /\ WiredFresh' /\ pending' = left
      /\ \/ stack' = stack /\ injected' = injected /\ mode' = return /\ oss'.level = lines'
         \/ /\ stack = << >> /\ stack' = << return >> /\ injected' = TRUE
            /\ mode' = "ready" /\ frame' = frame
  BY TickOutcome
<1>2. BoardTypeOK'
  BY <1>1 DEF IInv, BoardTypeOK
<1>3. BankBounded'
  BY <1>1 DEF BankBounded
<1>4. CASE stack' = stack /\ injected' = injected /\ mode' = return /\ oss'.level = lines'
  BY <1>1, <1>2, <1>3, <1>4
  DEF IInv, Excused, TrapNoted, FrameIsExact, FrameFlushed
<1>5. CASE /\ stack = << >> /\ stack' = << return >> /\ injected' = TRUE
           /\ mode' = "ready" /\ frame' = frame
  <2>1. Suspended'
    BY <1>5 DEF Suspended
  <2> QED
    BY <1>1, <1>2, <1>3, <1>5, <2>1
    DEF IInv, Excused, TrapNoted, FrameIsExact, FrameFlushed
<1> QED
  BY <1>1, <1>4, <1>5

-----------------------------------------------------------------------------
(* The actions                                                             *)

LEMMA InitIInv == Init => IInv
<1> SUFFICES ASSUME Init PROVE IInv
  OBVIOUS
<1>1. oss \in OssStates
  BY DEF Init, OssStates, Levels
<1>2. Highest(oss) = 0
  <2>1. Pending(oss) = {}
    BY DEF Init, Pending
  <2>2. Highest(oss) = CHOOSE p \in Levels : p # 0 => FALSE
    BY <2>1 DEF Highest, HighestOf
  <2> QED
    BY <2>2 DEF Levels
<1>3. BoardTypeOK
  <2>1. stack \in {<< >>} \cup {<< r >> : r \in {"ready", "flushed", "toggle", "host"}}
    <3>1. stack = << >>
      BY DEF Init
    <3> QED
      BY <3>1, Zenon
  <2>2. ipl \in Levels
    BY DEF Init, Levels
  <2> QED
    BY <1>1, <2>1, <2>2 DEF Init, BoardTypeOK
<1>4. BankBounded
  BY CyclesAssumption DEF Init, BankBounded
<1>5. Settled /\ WiredFresh /\ Excused
  BY <1>2 DEF Init, Settled, WiredFresh, Excused
<1> QED
  BY <1>3, <1>4, <1>5 DEF Init, IInv, TrapNoted, FrameIsExact, FrameFlushed

LEMMA TrapReturnsKeeps ==
  ASSUME IInv, TrapReturns
  PROVE  IInv'
<1>1. oss' \in OssStates /\ ipl' \in Levels /\ Settled' /\ oss'.level = lines /\ frame' \in BOOLEAN
  BY IInvBelievable, TickEndsSettles DEF IInv, BoardTypeOK, WiredFresh, TrapReturns
<1>2. /\ stack # << >> /\ Head(stack) # "host" /\ mode' = Head(stack) /\ stack' = << >>
      /\ UNCHANGED << lines, pending, touched, batching, injected >>
  BY DEF TrapReturns
<1>3. mode' \in {"ready", "flushed", "toggle"}
  BY <1>2 DEF IInv, BoardTypeOK
<1>4. BoardTypeOK'
  BY <1>1, <1>2, <1>3 DEF IInv, BoardTypeOK
<1>5. injected' = TRUE
  BY <1>2 DEF IInv, BoardTypeOK, TrapNoted
<1> QED
  BY <1>1, <1>2, <1>4, <1>5
  DEF IInv, BankBounded, WiredFresh, Excused, TrapNoted, FrameIsExact, FrameFlushed

LEMMA RetireKeeps ==
  ASSUME IInv, Retire
  PROVE  IInv'
<1>1. PICK n \in Cycles :
        /\ mode = "exec"
        /\ UNCHANGED batching
        /\ IF ~batching THEN Tick("ready", pending) /\ UNCHANGED touched
           ELSE IF Flushes(pending + n) THEN touched' = FALSE /\ Tick("ready", 0)
           ELSE /\ pending' = pending + n /\ mode' = "ready"
                /\ UNCHANGED << lines, oss, ipl, touched, stack, frame, injected >>
  BY DEF Retire
<1>2. /\ n \in Nat /\ pending \in Nat /\ pending < Batch /\ 0 < Batch
      /\ touched \in BOOLEAN /\ batching \in BOOLEAN
  BY CyclesAssumption DEF IInv, BoardTypeOK, BankBounded
<1>3. CASE ~batching
  BY <1>1, <1>2, <1>3, TickKeeps
<1>4. CASE batching /\ Flushes(pending + n)
  BY <1>1, <1>2, <1>4, TickKeeps
<1>5. CASE batching /\ ~Flushes(pending + n)
  <2>1. ~touched /\ pending + n \in Nat /\ pending + n < Batch
    BY <1>2, <1>5, CyclesAssumption DEF Flushes
  <2>2. /\ pending' = pending + n /\ mode' = "ready" /\ mode = "exec" /\ batching' = batching
        /\ UNCHANGED << lines, oss, ipl, touched, stack, frame, injected >>
    BY <1>1, <1>5
  <2>3. BoardTypeOK' /\ BankBounded'
    BY <2>1, <2>2 DEF IInv, BoardTypeOK, BankBounded
  <2>4. Settled' /\ WiredFresh' /\ Excused' /\ TrapNoted'
    BY <2>1, <2>2 DEF IInv, Settled, WiredFresh, Excused, Suspended, TrapNoted
  <2>5. FrameIsExact' /\ FrameFlushed'
    BY <2>1, <2>2 DEF IInv, FrameIsExact, FrameFlushed
  <2> QED
    BY <2>3, <2>4, <2>5 DEF IInv
<1> QED
  BY <1>2, <1>3, <1>4, <1>5

LEMMA AccessKeeps ==
  ASSUME IInv, Access
  PROVE  IInv'
<1>1. 0 < Batch /\ 0 \in Nat /\ touched \in BOOLEAN /\ pending \in Nat
  BY CyclesAssumption DEF IInv, BoardTypeOK
<1>2. CASE pending > 0
  BY <1>1, <1>2, TickKeeps DEF Access
<1>3. CASE ~(pending > 0)
  <2>1. /\ pending = 0 /\ mode = "exec" /\ mode' = "flushed"
        /\ UNCHANGED << lines, oss, ipl, pending, touched, batching, stack, frame, injected >>
    BY <1>1, <1>3 DEF Access
  <2>2. BoardTypeOK' /\ BankBounded' /\ Settled' /\ WiredFresh'
    BY <2>1 DEF IInv, BoardTypeOK, BankBounded, Settled, WiredFresh
  <2> QED
    BY <2>1, <2>2
    DEF IInv, Excused, Suspended, TrapNoted, FrameIsExact, FrameFlushed
<1> QED
  BY <1>2, <1>3

LEMMA SetTickBatchingKeeps ==
  ASSUME IInv, SetTickBatching
  PROVE  IInv'
<1>1. 0 < Batch /\ 0 \in Nat /\ touched \in BOOLEAN /\ pending \in Nat
  BY CyclesAssumption DEF IInv, BoardTypeOK
<1>2. CASE pending > 0
  BY <1>1, <1>2, TickKeeps DEF SetTickBatching
<1>3. CASE ~(pending > 0)
  <2>1. /\ pending = 0 /\ mode = "ready" /\ mode' = "toggle"
        /\ UNCHANGED << lines, oss, ipl, pending, touched, batching, stack, frame, injected >>
    BY <1>1, <1>3 DEF SetTickBatching
  <2>2. BoardTypeOK' /\ BankBounded' /\ Settled' /\ WiredFresh'
    BY <2>1 DEF IInv, BoardTypeOK, BankBounded, Settled, WiredFresh
  <2> QED
    BY <2>1, <2>2
    DEF IInv, Excused, Suspended, TrapNoted, FrameIsExact, FrameFlushed
<1> QED
  BY <1>2, <1>3

\* What a register access may do: the OSS stays consistent and knows every wired
\* line.
OssSound == /\ oss \in OssStates /\ ipl \in Levels /\ lines \in SUBSET Lines
            /\ Settled /\ WiredFresh

LEMMA RegisterKeeps ==
  ASSUME IInv, NEW Effect \in BOOLEAN, Register(Effect), OssSound'
  PROVE  IInv'
<1>1. /\ mode = "flushed" /\ mode' = "exec" /\ touched' = TRUE
      /\ UNCHANGED << pending, batching, stack, frame, injected >>
  BY DEF Register
<1>2. BoardTypeOK' /\ BankBounded' /\ Settled' /\ WiredFresh'
  BY <1>1 DEF IInv, BoardTypeOK, BankBounded, OssSound
<1>3. Excused' /\ TrapNoted' /\ FrameIsExact' /\ FrameFlushed'
  BY <1>1 DEF IInv, Excused, TrapNoted, FrameIsExact, FrameFlushed
<1> QED
  BY <1>2, <1>3 DEF IInv

\* One line moves.
LEMMA MovedLines ==
  ASSUME IInv, NEW l \in Lines, NEW ls \in Moved(l)
  PROVE  /\ ls \in SUBSET Lines
         /\ l \in Polled => oss.level \cap Wired = ls \cap Wired
BY LinesAssumption DEF IInv, BoardTypeOK, WiredFresh, Moved

LEMMA UpdateSound ==
  ASSUME NEW o, Believable(o), NEW ls \in SUBSET Lines, Update(o, ls), lines' = ls,
         o.level \cap Wired = ls \cap Wired
  PROVE  OssSound' /\ oss'.level = lines'
<1>1. oss' \in OssStates /\ ipl' \in Levels /\ Settled' /\ oss'.level = ls
  BY UpdateRefreshes
<1> QED
  BY <1>1 DEF OssSound, WiredFresh

LEMMA ViaAccessKeeps ==
  ASSUME IInv, ViaAccess
  PROVE  IInv'
<1>1. PICK l \in Polled : \E ls \in Moved(l) : lines' = ls /\ Update(oss, ls)
  BY DEF ViaAccess, Register
<1>2. OssSound'
  BY <1>1, IInvBelievable, MovedLines, UpdateSound DEF Lines
<1> QED
  BY <1>2, RegisterKeeps DEF ViaAccess

LEMMA WiredAccessKeeps ==
  ASSUME IInv, WiredAccess
  PROVE  IInv'
<1>0. PICK l \in Wired \cup Quiet : \E ls \in Moved(l) :
        /\ lines' = ls
        /\ IF ls = lines THEN UNCHANGED << oss, ipl >> ELSE Update(Wire(oss, ls), ls)
  BY DEF WiredAccess, Register
<1>1. PICK ls \in Moved(l) :
        /\ lines' = ls
        /\ IF ls = lines THEN UNCHANGED << oss, ipl >> ELSE Update(Wire(oss, ls), ls)
  BY <1>0
<1>2. l \in Lines /\ ls \in SUBSET Lines
  BY MovedLines, LinesAssumption DEF Lines
<1>3. OssSound'
  <2>1. CASE ls = lines
    BY <1>1, <2>1 DEF IInv, BoardTypeOK, OssSound, Settled, WiredFresh
  <2>2. CASE ls # lines
    <3>1. Believable(Wire(oss, ls)) /\ Wire(oss, ls).level \cap Wired = ls \cap Wired
      BY <1>2, IInvBelievable, WireBelievable
    <3> QED
      BY <1>1, <1>2, <2>2, <3>1, UpdateSound
  <2> QED
    BY <2>1, <2>2
<1> QED
  BY <1>3, RegisterKeeps DEF WiredAccess

LEMMA QuietAccessKeeps ==
  ASSUME IInv, QuietAccess
  PROVE  IInv'
<1>1. PICK l \in Quiet : lines' \in Moved(l)
  BY DEF QuietAccess, Register
<1>2. oss' = oss /\ ipl' = ipl
  BY DEF QuietAccess, Register
<1>3. l \in Polled /\ l \in Lines
  BY LinesAssumption DEF Lines
<1>4. lines' \in SUBSET Lines /\ oss.level \cap Wired = lines' \cap Wired
  BY <1>1, <1>3, MovedLines
<1>5. OssSound'
  BY <1>2, <1>4 DEF IInv, BoardTypeOK, OssSound, Settled, WiredFresh
<1> QED
  BY <1>5, RegisterKeeps DEF QuietAccess

\* A write to a register of the OSS, which leaves its level inputs alone.
LEMMA OssWriteSound ==
  ASSUME IInv, NEW o \in OssStates, o.level = oss.level, Update(Changed(o), lines), UNCHANGED lines
  PROVE  OssSound'
<1>1. Believable(Changed(o)) /\ Changed(o).level = oss.level
  BY ChangedBelievable
<1>2. lines \in SUBSET Lines /\ oss.level \cap Wired = lines \cap Wired
  BY DEF IInv, BoardTypeOK, WiredFresh
<1> QED
  BY <1>1, <1>2, UpdateSound

LEMMA OssPriorityKeeps ==
  ASSUME IInv, OssPriority
  PROVE  IInv'
<1>1. PICK s \in Sources, p \in Priorities :
        Update(Changed([oss EXCEPT !.prio[s] = p]), lines) /\ UNCHANGED lines
  BY DEF OssPriority, Register
<1>2. [oss EXCEPT !.prio[s] = p] \in OssStates /\ [oss EXCEPT !.prio[s] = p].level = oss.level
  BY PrioritiesAssumption DEF IInv, BoardTypeOK, OssStates
<1>3. OssSound'
  BY <1>1, <1>2, OssWriteSound
<1> QED
  BY <1>3, RegisterKeeps DEF OssPriority

LEMMA OssAcknowledgeKeeps ==
  ASSUME IInv, OssAcknowledge
  PROVE  IInv'
<1>1. Update(Changed([oss EXCEPT !.latch = {}]), lines) /\ UNCHANGED lines
  BY DEF OssAcknowledge, Register
<1>2. [oss EXCEPT !.latch = {}] \in OssStates /\ [oss EXCEPT !.latch = {}].level = oss.level
  BY DEF IInv, BoardTypeOK, OssStates
<1>3. OssSound'
  BY <1>1, <1>2, OssWriteSound
<1> QED
  BY <1>3, RegisterKeeps DEF OssAcknowledge

LEMMA SlotAccessKeeps ==
  ASSUME IInv, SlotAccess
  PROVE  IInv'
<1>1. PICK l \in Polled \ Quiet : \E ls \in Moved(l) :
        /\ mode = "exec" /\ lines' = ls /\ Update(oss, ls)
        /\ UNCHANGED << pending, touched, batching, mode, stack, frame, injected >>
  BY DEF SlotAccess
<1>2. OssSound' /\ oss'.level = lines'
  BY <1>1, IInvBelievable, MovedLines, UpdateSound DEF Lines
<1> QED
  BY <1>1, <1>2 DEF IInv, BoardTypeOK, OssSound, BankBounded, Excused, TrapNoted,
    FrameIsExact, FrameFlushed

\* After a reset of the devices no line is asserted and the OSS knows it.
LEMMA SilentSound ==
  ASSUME IInv, Silent, lines' = {}
  PROVE  OssSound' /\ oss'.level = lines'
<1> DEFINE o == [oss EXCEPT !.prio = [s \in Sources |-> 0], !.level = {}, !.latch = {}]
<1>0. [s \in Sources |-> 0] \in [Sources -> Levels]
  BY DEF Levels
<1>1. o \in OssStates /\ o.level = {}
  BY <1>0 DEF IInv, BoardTypeOK, OssStates
<1> HIDE DEF o
<1>2. Believable(Changed(o)) /\ Changed(o).level = {}
  BY <1>1, ChangedBelievable
<1>3. Update(Changed(o), {})
  BY DEF Silent, o
<1> QED
  BY <1>2, <1>3, UpdateSound

LEMMA ResetKeeps ==
  ASSUME IInv, Reset
  PROVE  IInv'
<1>1. OssSound' /\ oss'.level = lines'
  BY SilentSound DEF Reset
<1>2. 0 < Batch
  BY CyclesAssumption
<1> QED
  BY <1>1, <1>2 DEF Reset, IInv, BoardTypeOK, OssSound, BankBounded, Excused, TrapNoted,
    FrameIsExact, FrameFlushed

LEMMA ResetInstructionKeeps ==
  ASSUME IInv, ResetInstruction
  PROVE  IInv'
<1>1. OssSound' /\ oss'.level = lines'
  BY SilentSound DEF ResetInstruction
<1> QED
  BY <1>1 DEF ResetInstruction, IInv, BoardTypeOK, OssSound, BankBounded, Excused, TrapNoted,
    FrameIsExact, FrameFlushed

\* Steps that touch neither the devices nor the bank.
LEMMA QuietStepsKeep ==
  ASSUME IInv, Fetch \/ Toggle \/ RunFrame \/ HostTrap \/ HostReturns
  PROVE  IInv'
<1>1. UNCHANGED << lines, oss, ipl, pending, touched >>
  BY DEF Fetch, Toggle, RunFrame, HostTrap, HostReturns
<1>2. BankBounded' /\ Settled' /\ WiredFresh'
  BY <1>1 DEF IInv, BankBounded, Settled, WiredFresh
<1>3. CASE Fetch
  BY <1>2, <1>3 DEF Fetch, MayStep, IInv, BoardTypeOK, Excused, Suspended, TrapNoted,
    FrameIsExact, FrameFlushed
<1>4. CASE Toggle
  BY <1>2, <1>4 DEF Toggle, IInv, BoardTypeOK, Excused, Suspended, TrapNoted,
    FrameIsExact, FrameFlushed
<1>5. CASE RunFrame
  BY <1>2, <1>5 DEF RunFrame, IInv, BoardTypeOK, Excused, Suspended, TrapNoted,
    FrameIsExact, FrameFlushed
<1>6. CASE HostTrap
  <2>1. stack' \in {<< >>} \cup {<< r >> : r \in {"ready", "flushed", "toggle", "host"}}
    BY <1>6 DEF HostTrap
  <2> QED
    BY <1>2, <1>6, <2>1 DEF HostTrap, IInv, BoardTypeOK, Excused, Suspended, TrapNoted,
      FrameIsExact, FrameFlushed
<1>7. CASE HostReturns
  <2>1. stack' \in {<< >>} \cup {<< r >> : r \in {"ready", "flushed", "toggle", "host"}}
    BY <1>7 DEF HostReturns
  <2>2. injected = TRUE
    BY <1>7 DEF HostReturns, IInv, BoardTypeOK, TrapNoted
  <2> QED
    BY <1>2, <1>7, <2>1, <2>2 DEF HostReturns, IInv, BoardTypeOK, Excused, Suspended, TrapNoted,
      FrameIsExact, FrameFlushed
<1> QED
  BY <1>3, <1>4, <1>5, <1>6, <1>7

LEMMA HleKeeps ==
  ASSUME IInv, Hle
  PROVE  IInv'
<1>1. 0 < Batch /\ 0 \in Nat /\ touched \in BOOLEAN
  BY CyclesAssumption DEF IInv, BoardTypeOK
<1> QED
  BY <1>1, TickKeeps DEF Hle

LEMMA StutterKeeps ==
  ASSUME IInv, UNCHANGED vars
  PROVE  IInv'
BY DEF vars, IInv, BoardTypeOK, BankBounded, Settled, WiredFresh, Excused, Suspended, TrapNoted,
  FrameIsExact, FrameFlushed

-----------------------------------------------------------------------------
(* The theorems                                                            *)

\* The inductive invariant: in every reachable state the interrupt level is the
\* OSS's, what the OSS does not know is excused, and the bank is accounted for.
THEOREM AlwaysConsistent == Spec => []IInv
<1>1. IInv /\ [Next]_vars => IInv'
  BY StutterKeeps, QuietStepsKeep, RetireKeeps, HleKeeps, AccessKeeps, ViaAccessKeeps,
    WiredAccessKeeps, QuietAccessKeeps, OssPriorityKeeps, OssAcknowledgeKeeps, SlotAccessKeeps,
    TrapReturnsKeeps, SetTickBatchingKeeps, ResetKeeps, ResetInstructionKeeps DEF Next
<1> QED
  BY <1>1, InitIInv, PTL DEF Spec

\* The board's state keeps its types: one injected trap at a time, and a level
\* the processor has.
THEOREM BoardTypeCorrect == Spec => []BoardTypeOK
<1>1. IInv => BoardTypeOK
  BY DEF IInv
<1> QED
  BY <1>1, AlwaysConsistent, PTL

\* Between instructions the processor's interrupt level is the one the request
\* lines call for, even after accesses that told nobody.
THEOREM InterruptsAreHonest == Spec => []IplHonest
<1>1. IInv => IplHonest
  <2> SUFFICES ASSUME IInv, mode = "ready", stack = << >>
               PROVE  ipl = Truth
    BY DEF IplHonest
  <2>1. oss.level = lines /\ oss \in OssStates /\ ipl = Highest(oss)
    BY DEF IInv, BoardTypeOK, Excused, Suspended, Settled
  <2>2. [oss EXCEPT !.level = lines] = oss
    BY <2>1 DEF OssStates
  <2> QED
    BY <2>1, <2>2 DEF Truth
<1> QED
  BY <1>1, AlwaysConsistent, PTL

\* The bank never holds a full batch, whatever the lengths of the instructions.
THEOREM BankIsBounded == Spec => []BankBounded
<1>1. IInv => BankBounded
  BY DEF IInv
<1> QED
  BY <1>1, AlwaysConsistent, PTL

\* A frame without an injected trap ends with nothing banked.
THEOREM FramesAreExact == Spec => []FrameIsExact
<1>1. IInv => FrameIsExact
  BY DEF IInv
<1> QED
  BY <1>1, AlwaysConsistent, PTL
=============================================================================
