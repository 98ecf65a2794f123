--------------------------- MODULE QuadraIo_proofs ---------------------------
(***************************************************************************)
(* Proofs about QuadraIrq, for any FIFO, cadence, song and pace of the     *)
(* guest:                                                                  *)
(*                                                                         *)
(*   IrqTypeCorrect     Spec => []IrqTypeOK                                *)
(*   NothingIsForgotten Spec => []NothingForgotten, for a machine reset    *)
(*                      only while no device asserts its line              *)
(*   EdgesSetFlags      Spec => EdgeSetsFlag, likewise                     *)
(*                                                                         *)
(* NothingForgotten alone is not inductive.  LinesTold adds that a line is *)
(* what its device computes and what the pseudo-VIA was last told, so that *)
(* a line that is up cannot rise again without an edge, and RoomLatched    *)
(* that room the guest does not know of is in the status it will read.     *)
(*                                                                         *)
(* And about Adb, for any queue, limit of the wakes, keys and motions:     *)
(*                                                                         *)
(*   AdbTypeCorrect          AdbSpec => []AdbTypeOK                        *)
(*   InputIsAlwaysConserved  AdbSpec => []InputIsConserved                 *)
(*                                                                         *)
(* InputIsConserved is not inductive.  Placed says, for each step of the   *)
(* guest, which shift is under way, what the register holds and how much   *)
(* of the response is unread: two bytes or none until the guest reads, one *)
(* after its first byte.  Noticed ties the streak of wakes to the guest's  *)
(* place, so that the limit that drops stale input is reached only while   *)
(* the guest ignores the bus.                                              *)
(***************************************************************************)
EXTENDS QuadraIrq, Adb, SequenceTheorems, TLAPS

-----------------------------------------------------------------------------
(* QuadraIrq: the lines and the flags                                      *)


LinesTold == /\ dafb.irq = BeamUp(dafb) /\ (dafb.irq <=> "slot" \in via2.told)
             /\ easc.line = Pending(easc) /\ (easc.line <=> "asc" \in via2.told)

RoomLatched == easc.fifoMode /\ owed => "room" \in easc.latched

SlotKnown == dafb.irq => "slot" \in via2.ifr \/ level2.pc \in {"portA", "beam"}
AscKnown == easc.line => "asc" \in via2.ifr \/ level2.pc = "status"

Remembered == LinesTold /\ RoomLatched /\ SlotKnown /\ AscKnown

IInv == IrqTypeOK /\ (~ResetsAnytime => Remembered)

Via2States == [ifr : SUBSET Flags, ier : SUBSET Flags, told : SUBSET Flags]
Via1States == [ca1 : BOOLEAN, flag : BOOLEAN, enabled : BOOLEAN]
DafbStates == [mask : SUBSET Beams, pending : SUBSET Beams, irq : BOOLEAN]
EascStates == [level : 0..(Ring - 1), fifoMode : BOOLEAN, enabled : BOOLEAN, latched : SUBSET Events, line : BOOLEAN]
MainStates == [pc : {"boot", "idle", "cleared", "mode", "playing", "ended"}, song : 0..Song]
Level2States == [pc : {"none", "portA", "beam", "status", "fill"} \cup Flags, left : 0..Half]

LEMMA HalfIsNat == Half \in Nat
BY CadenceAssumption DEF Half

-----------------------------------------------------------------------------
(* The pseudo-VIA and the devices' lines                                   *)

\* What edge() records of the line it is told of, and leaves of the others.
LEMMA EdgeTells ==
  ASSUME NEW v \in Via2States, NEW bit \in Flags, NEW level \in BOOLEAN
  PROVE  /\ Edge(v, bit, level) \in Via2States
         /\ v.ifr \subseteq Edge(v, bit, level).ifr
         /\ bit \in Edge(v, bit, level).told <=> level
         /\ \A other \in Flags \ {bit} : other \in Edge(v, bit, level).told <=> other \in v.told
         /\ level /\ bit \notin v.told => bit \in Edge(v, bit, level).ifr
<1> DEFINE latched == IF level /\ bit \notin v.told THEN v.ifr \cup {bit} ELSE v.ifr
           told == IF level THEN v.told \cup {bit} ELSE v.told \ {bit}
<1>1. latched \in SUBSET Flags /\ told \in SUBSET Flags
  BY DEF Via2States
<1>2. Edge(v, bit, level) = [v EXCEPT !.ifr = latched, !.told = told]
  BY DEF Edge
<1>3. /\ Edge(v, bit, level).ifr = latched /\ Edge(v, bit, level).told = told
      /\ Edge(v, bit, level) \in Via2States
  BY <1>1, <1>2 DEF Via2States
<1> QED
  BY <1>3

\* Telling the pseudo-VIA of video's line as it now is.
LEMMA SlotTold ==
  ASSUME NEW v \in Via2States, NEW d \in DafbStates
  PROVE  /\ TellSlot(d, v) \in Via2States
         /\ v.ifr \subseteq TellSlot(d, v).ifr
         /\ "slot" \in TellSlot(d, v).told <=> BeamUp(d)
         /\ "asc" \in TellSlot(d, v).told <=> "asc" \in v.told
         /\ BeamUp(d) /\ "slot" \notin v.told => "slot" \in TellSlot(d, v).ifr
<1>1. BeamUp(d) \in BOOLEAN /\ "slot" \in Flags /\ "asc" \in Flags \ {"slot"}
  BY DEF BeamUp, Flags
<1> QED
  BY <1>1, EdgeTells DEF TellSlot

LEMMA AscTyped ==
  ASSUME NEW v \in Via2States, NEW e \in EascStates
  PROVE  TellAsc(e, v) \in Via2States /\ Lined(e) \in EascStates /\ Pending(e) \in BOOLEAN
<1>1. Pending(e) \in BOOLEAN /\ "asc" \in Flags
  BY DEF Pending, EascStates, Flags
<1>2. Lined(e) \in EascStates
  BY <1>1 DEF Lined, EascStates
<1> QED
  BY <1>1, <1>2, EdgeTells DEF TellAsc

\* The sound chip tells of its line when it moves, and the line is what it then was.
LEMMA AscTold ==
  ASSUME NEW v \in Via2States, NEW e \in EascStates, e.line <=> "asc" \in v.told
  PROVE  /\ TellAsc(e, v) \in Via2States /\ Lined(e) \in EascStates
         /\ v.ifr \subseteq TellAsc(e, v).ifr
         /\ "asc" \in TellAsc(e, v).told <=> Pending(e)
         /\ "slot" \in TellAsc(e, v).told <=> "slot" \in v.told
         /\ Pending(e) /\ ~e.line => "asc" \in TellAsc(e, v).ifr
         /\ Lined(e).line = Pending(e) /\ Pending(Lined(e)) = Pending(e)
         /\ Lined(e).fifoMode = e.fifoMode /\ Lined(e).latched = e.latched
<1>1. Pending(e) \in BOOLEAN /\ e.line \in BOOLEAN
  BY DEF Pending, EascStates
<1>2. /\ Lined(e) \in EascStates /\ Lined(e).line = Pending(e) /\ Lined(e).fifoMode = e.fifoMode
      /\ Lined(e).latched = e.latched /\ Lined(e).enabled = e.enabled
  BY <1>1 DEF Lined, EascStates
<1>3. Pending(Lined(e)) = Pending(e)
  BY <1>2 DEF Pending
<1>4. CASE Pending(e) = e.line
  BY <1>1, <1>2, <1>3, <1>4 DEF TellAsc
<1>5. CASE Pending(e) # e.line
  <2>1. "asc" \in Flags /\ "slot" \in Flags \ {"asc"}
    BY DEF Flags
  <2>2. TellAsc(e, v) = Edge(v, "asc", Pending(e))
    BY <1>5 DEF TellAsc
  <2> QED
    BY <1>1, <1>2, <1>3, <1>5, <2>1, <2>2, EdgeTells
<1> QED
  BY <1>4, <1>5

\* A sample leaves the FIFO; room that comes up is latched, nothing is unlatched.
LEMMA PullLatches ==
  ASSUME NEW e \in EascStates
  PROVE  /\ Pulled(e) \in EascStates
         /\ Pulled(e).line = e.line /\ Pulled(e).fifoMode = e.fifoMode
         /\ e.latched \subseteq Pulled(e).latched
         /\ ~Room(e) /\ Room(Pulled(e)) => "room" \in Pulled(e).latched
<1> DEFINE low == IF e.level > 0 THEN e.level - 1 ELSE 0
           less == [e EXCEPT !.level = low]
           up == e.latched \cup Crossed(e, less)
<1>1. low \in 0..(Ring - 1)
  BY CadenceAssumption DEF EascStates
<1>2. less \in EascStates /\ less.level = low
  BY <1>1 DEF EascStates
<1>3. Crossed(e, less) \subseteq Events
  BY DEF Crossed, Events
<1> HIDE DEF low
<1>4. Pulled(e) = [less EXCEPT !.latched = up]
  BY DEF Pulled, low
<1>5. /\ Pulled(e) \in EascStates /\ Pulled(e).latched = up /\ Pulled(e).level = low
      /\ Pulled(e).line = e.line /\ Pulled(e).fifoMode = e.fifoMode
  BY <1>1, <1>2, <1>3, <1>4 DEF EascStates
<1>6. ~Room(e) /\ Room(Pulled(e)) => "room" \in Crossed(e, less)
  BY <1>2, <1>5 DEF Room, Crossed
<1> QED
  BY <1>5, <1>6

\* A pushed sample leaves the FIFO within its length, and announces the room it leaves.
LEMMA PushLatches ==
  ASSUME NEW e \in EascStates
  PROVE  /\ Pushed(e) \in EascStates
         /\ Pushed(e).line = e.line /\ Pushed(e).fifoMode = e.fifoMode
         /\ e.latched \subseteq Pushed(e).latched
         /\ Pushed(e).level <= Half => "room" \in Pushed(e).latched
<1> DEFINE high == IF e.level < Ring - 1 THEN e.level + 1 ELSE e.level
           more == [e EXCEPT !.level = high]
           up == IF Room(more) THEN e.latched \cup {"room"} ELSE e.latched
<1>1. high \in 0..(Ring - 1)
  BY CadenceAssumption DEF EascStates
<1>2. more \in EascStates /\ more.level = high /\ more.latched = e.latched
  BY <1>1 DEF EascStates
<1>3. up \in SUBSET Events
  BY DEF EascStates, Events
<1> HIDE DEF high
<1>4. Pushed(e) = [more EXCEPT !.latched = up]
  BY <1>2 DEF Pushed, high
<1>5. /\ Pushed(e) \in EascStates /\ Pushed(e).latched = up /\ Pushed(e).level = high
      /\ Pushed(e).line = e.line /\ Pushed(e).fifoMode = e.fifoMode
  BY <1>1, <1>2, <1>3, <1>4 DEF EascStates
<1> QED
  BY <1>2, <1>5 DEF Room

LEMMA LevelIsLevel ==
  ASSUME NEW v2, NEW v1
  PROVE  Level(v2, v1) \in 0..2
BY DEF Level

\* The types, with the names the lemmas above use.
LEMMA Typed ==
  IrqTypeOK <=> /\ via2 \in Via2States /\ via1 \in Via1States /\ dafb \in DafbStates /\ easc \in EascStates
                /\ slice \in 0..(SlicesPerFrame - 1) /\ ipl \in 0..2 /\ main \in MainStates
                /\ level2 \in Level2States /\ level1 \in BOOLEAN /\ owed \in BOOLEAN /\ ran \in 0..StepsPerSlice
BY DEF IrqTypeOK, Via2States, Via1States, DafbStates, EascStates, MainStates, Level2States

-----------------------------------------------------------------------------
(* Time                                                                    *)

LEMMA TickTyped ==
  ASSUME IrqTypeOK, Tick
  PROVE  IrqTypeOK'
<1> DEFINE sounded == TellAsc(Pulled(easc), via2)
           edge == slice = SlicesPerFrame - 1
           blank == [dafb EXCEPT !.pending = IF edge THEN @ \cup Beams ELSE @]
           ticked == IF slice = 0 THEN Ca1(via1, TRUE) ELSE IF slice = 1 THEN Ca1(via1, FALSE) ELSE via1
<1>1. sounded \in Via2States /\ Lined(Pulled(easc)) \in EascStates
  BY PullLatches, AscTyped, Typed
<1>2. blank \in DafbStates
  BY Typed DEF DafbStates
<1>3. TellSlot(blank, sounded) \in Via2States
  BY <1>1, <1>2, SlotTold
<1>4. ticked \in Via1States
  BY Typed DEF Ca1, Via1States
<1>5. [blank EXCEPT !.irq = IF edge THEN BeamUp(blank) ELSE @] \in DafbStates
  <2>1. BeamUp(blank) \in BOOLEAN
    BY DEF BeamUp
  <2> HIDE DEF blank
  <2> QED
    BY <1>2, <2>1 DEF DafbStates
<1> HIDE DEF sounded, blank, ticked
<1>6. /\ easc' = Lined(Pulled(easc)) /\ via2' = IF edge THEN TellSlot(blank, sounded) ELSE sounded
      /\ dafb' = [blank EXCEPT !.irq = IF edge THEN BeamUp(blank) ELSE @]
      /\ via1' = ticked /\ slice' = (slice + 1) % SlicesPerFrame /\ ipl' = Level(via2', ticked)
      /\ owed' = (owed \/ (~Room(easc) /\ Room(Pulled(easc)))) /\ ran' = 0
      /\ UNCHANGED << main, level2, level1 >>
  BY DEF Tick, Slice, sounded, blank, ticked
<1>7. slice' \in 0..(SlicesPerFrame - 1)
  BY <1>6, Typed, CadenceAssumption
<1>8. ipl' \in 0..2
  BY <1>6, LevelIsLevel
<1>9. owed' \in BOOLEAN /\ ran' \in 0..StepsPerSlice
  BY <1>6, CadenceAssumption, Typed DEF Room
<1> QED
  BY <1>1, <1>3, <1>4, <1>5, <1>6, <1>7, <1>8, <1>9, Typed DEF IrqTypeOK, Via2States, Via1States, DafbStates, EascStates, MainStates, Level2States

LEMMA TickRemembers ==
  ASSUME IrqTypeOK, Remembered, Tick
  PROVE  Remembered'
<1> DEFINE sounded == TellAsc(Pulled(easc), via2)
           edge == slice = SlicesPerFrame - 1
           blank == [dafb EXCEPT !.pending = IF edge THEN @ \cup Beams ELSE @]
<1>1. /\ via2 \in Via2States /\ dafb \in DafbStates /\ easc \in EascStates
      /\ easc.line <=> "asc" \in via2.told
      /\ owed \in BOOLEAN
  BY Typed DEF Remembered, LinesTold
<1>2. /\ Pulled(easc) \in EascStates /\ Pulled(easc).line = easc.line
      /\ Pulled(easc).fifoMode = easc.fifoMode /\ easc.latched \subseteq Pulled(easc).latched
      /\ ~Room(easc) /\ Room(Pulled(easc)) => "room" \in Pulled(easc).latched
  BY <1>1, PullLatches
<1>3. /\ sounded \in Via2States /\ via2.ifr \subseteq sounded.ifr
      /\ "asc" \in sounded.told <=> Pending(Pulled(easc))
      /\ "slot" \in sounded.told <=> "slot" \in via2.told
      /\ Pending(Pulled(easc)) /\ ~easc.line => "asc" \in sounded.ifr
      /\ Lined(Pulled(easc)).line = Pending(Pulled(easc)) /\ Pending(Lined(Pulled(easc))) = Pending(Pulled(easc))
      /\ Lined(Pulled(easc)).fifoMode = easc.fifoMode /\ Lined(Pulled(easc)).latched = Pulled(easc).latched
  BY <1>1, <1>2, AscTold
<1>4. blank \in DafbStates /\ blank.irq = dafb.irq /\ (~edge => blank = dafb)
  BY <1>1 DEF DafbStates
<1> HIDE DEF sounded, blank
<1>5. /\ easc' = Lined(Pulled(easc)) /\ via2' = IF edge THEN TellSlot(blank, sounded) ELSE sounded
      /\ dafb' = [blank EXCEPT !.irq = IF edge THEN BeamUp(blank) ELSE @]
      /\ owed' = (owed \/ (~Room(easc) /\ Room(Pulled(easc))))
      /\ level2' = level2
  BY DEF Tick, Slice, sounded, blank
<1>6. /\ sounded.ifr \subseteq via2'.ifr
      /\ "asc" \in via2'.told <=> "asc" \in sounded.told
      /\ dafb'.irq = BeamUp(dafb') /\ (dafb'.irq <=> "slot" \in via2'.told)
      /\ dafb'.irq /\ ~dafb.irq => "slot" \in via2'.ifr
  <2>1. dafb.irq = BeamUp(dafb) /\ (dafb.irq <=> "slot" \in via2.told)
    BY DEF Remembered, LinesTold
  <2>2. CASE edge
    <3>1. dafb' = [blank EXCEPT !.irq = BeamUp(blank)] /\ via2' = TellSlot(blank, sounded)
      BY <1>5, <2>2
    <3>2. dafb'.irq = BeamUp(blank) /\ dafb'.pending = blank.pending /\ dafb'.mask = blank.mask
      BY <1>4, <3>1 DEF DafbStates
    <3>3. BeamUp(dafb') = BeamUp(blank)
      BY <3>2 DEF BeamUp
    <3> QED
      BY <1>3, <1>4, <2>1, <3>1, <3>2, <3>3, SlotTold
  <2>3. CASE ~edge
    <3>1. dafb' = dafb /\ via2' = sounded
      <4>1. dafb' = [dafb EXCEPT !.irq = dafb.irq]
        BY <1>4, <1>5, <2>3
      <4> QED
        BY <1>1, <1>5, <2>3, <4>1 DEF DafbStates
    <3> QED
      BY <1>3, <2>1, <3>1 DEF BeamUp
  <2> QED
    BY <2>2, <2>3
<1>7. LinesTold'
  BY <1>3, <1>5, <1>6 DEF LinesTold
<1>8. RoomLatched'
  BY <1>1, <1>2, <1>3, <1>5 DEF Remembered, RoomLatched
<1>9. SlotKnown' /\ AscKnown'
  BY <1>3, <1>5, <1>6 DEF Remembered, SlotKnown, AscKnown
<1> QED
  BY <1>7, <1>8, <1>9 DEF Remembered

-----------------------------------------------------------------------------
(* The guest's handlers                                                    *)

LEMMA StepTyped ==
  ASSUME IrqTypeOK, Step \/ Arrive
  PROVE  ran' \in 0..StepsPerSlice
BY Typed, CadenceAssumption DEF Step, Arrive, InSlice

LEMMA HandlersTyped ==
  ASSUME IrqTypeOK, Handlers
  PROVE  IrqTypeOK'
<1> USE DEF Via1States, MainStates, Level2States
<1>0. Half \in Nat
  BY HalfIsNat
<1>1. ASSUME NEW bit \in Flags, TakeLevel2(bit)
      PROVE  IrqTypeOK'
  BY <1>0, <1>1, StepTyped, Typed DEF TakeLevel2, IrqTypeOK
<1>2. CASE Acknowledge
  <2>1. via2' \in Via2States
    BY <1>2, Typed DEF Acknowledge, Acknowledged, Via2States
  <2>2. level2' \in Level2States
    BY <1>2, Typed DEF Acknowledge
  <2>3. ipl' \in 0..2 /\ ran' \in 0..StepsPerSlice
    BY <1>2, LevelIsLevel, StepTyped DEF Acknowledge
  <2> QED
    BY <1>2, <2>1, <2>2, <2>3, Typed DEF Acknowledge, IrqTypeOK, Via2States, Level2States
<1>3. CASE ReadPortA
  BY <1>3, StepTyped, Typed DEF ReadPortA, devices, IrqTypeOK
<1>4. ASSUME NEW beam \in Beams, ClearBeam(beam)
      PROVE  IrqTypeOK'
  <2>1. Cleared(dafb, beam) \in DafbStates
    BY Typed DEF Cleared, BeamUp, DafbStates
  <2>2. dafb' \in DafbStates /\ via2' \in Via2States /\ ipl' \in 0..2
    BY <1>4, <2>1, SlotTold, LevelIsLevel, Typed DEF ClearBeam
  <2>3. level2' \in Level2States /\ ran' \in 0..StepsPerSlice
    BY <1>4, StepTyped, Typed DEF ClearBeam
  <2> QED
    BY <1>4, <2>2, <2>3, Typed DEF ClearBeam, IrqTypeOK, Via2States, DafbStates, Level2States
<1>5. CASE ReadStatus
  <2>1. Told(easc) \in EascStates
    BY Typed DEF Told, EascStates
  <2>2. easc' \in EascStates /\ via2' \in Via2States /\ ipl' \in 0..2
    BY <1>5, <2>1, AscTyped, LevelIsLevel, Typed DEF ReadStatus
  <2>3. level2' \in Level2States /\ ran' \in 0..StepsPerSlice /\ owed' \in BOOLEAN
    BY <1>0, <1>5, StepTyped, Typed DEF ReadStatus
  <2> QED
    BY <1>5, <2>2, <2>3, Typed DEF ReadStatus, IrqTypeOK, Via2States, EascStates, Level2States
<1>6. CASE PushSample
  <2>1. Pushed(easc) \in EascStates
    BY PushLatches, Typed
  <2>2. easc' \in EascStates /\ via2' \in Via2States /\ ipl' \in 0..2
    BY <1>6, <2>1, AscTyped, LevelIsLevel, Typed DEF PushSample
  <2>3. level2' \in Level2States /\ main' \in MainStates /\ ran' \in 0..StepsPerSlice /\ owed' \in BOOLEAN
    BY <1>0, <1>6, StepTyped, Typed, CadenceAssumption DEF PushSample
  <2> QED
    BY <1>6, <2>2, <2>3, Typed DEF PushSample, IrqTypeOK, Via2States, EascStates, Level2States, MainStates
<1>7. CASE EndFill
  BY <1>0, <1>7, StepTyped, Typed DEF EndFill, devices, IrqTypeOK
<1>8. CASE TakeLevel1
  BY <1>8, StepTyped, Typed DEF TakeLevel1, devices, IrqTypeOK
<1>9. CASE ServeTick
  <2>1. ipl' \in 0..2 /\ ran' \in 0..StepsPerSlice /\ via1' \in Via1States
    BY <1>9, LevelIsLevel, StepTyped, Typed DEF ServeTick
  <2> QED
    BY <1>9, <2>1, Typed DEF ServeTick, devices, IrqTypeOK
<1> QED
  BY <1>1, <1>2, <1>3, <1>4, <1>5, <1>6, <1>7, <1>8, <1>9 DEF Handlers

\* The guest acknowledges before it serves, so a bit cleared under a line that
\* stays up is the bit it is serving.
LEMMA HandlersRemember ==
  ASSUME IrqTypeOK, Remembered, Handlers
  PROVE  Remembered'
<1>0. /\ via2 \in Via2States /\ dafb \in DafbStates /\ easc \in EascStates /\ level2 \in Level2States
      /\ easc.line <=> "asc" \in via2.told
      /\ owed \in BOOLEAN
  BY Typed DEF Remembered, LinesTold
<1> USE DEF Level2States
<1>1. ASSUME NEW bit \in Flags, TakeLevel2(bit)
      PROVE  Remembered'
  BY <1>1 DEF Remembered, TakeLevel2, CanTake, LinesTold, RoomLatched, SlotKnown, AscKnown, BeamUp, Pending
<1>2. CASE Acknowledge
  <2>1. /\ via2'.told = via2.told /\ via2'.ifr = via2.ifr \ {level2.pc}
    BY <1>0, <1>2 DEF Acknowledge, Acknowledged, Via2States
  <2>2. level2.pc \in Flags /\ level2'.pc = (IF level2.pc = "slot" THEN "portA" ELSE "status")
    BY <1>0, <1>2 DEF Acknowledge
  <2>3. UNCHANGED << dafb, easc, owed >>
    BY <1>2 DEF Acknowledge
  <2> QED
    BY <2>1, <2>2, <2>3 DEF Remembered, LinesTold, RoomLatched, SlotKnown, AscKnown, BeamUp, Pending, Flags
<1>3. CASE ReadPortA
  <2>1. level2.pc = "portA" /\ level2'.pc = (IF dafb.irq THEN "beam" ELSE "none")
    BY <1>0, <1>3 DEF ReadPortA
  <2> QED
    BY <1>3, <2>1 DEF ReadPortA, devices, Remembered, LinesTold, RoomLatched, SlotKnown, AscKnown, BeamUp, Pending
<1>4. ASSUME NEW beam \in Beams, ClearBeam(beam)
      PROVE  Remembered'
  <2>1. Cleared(dafb, beam) \in DafbStates /\ Cleared(dafb, beam).irq = BeamUp(Cleared(dafb, beam))
    BY <1>0 DEF Cleared, BeamUp, DafbStates
  <2>2. /\ dafb' = Cleared(dafb, beam) /\ via2' = TellSlot(dafb', via2) /\ level2'.pc = "portA" /\ level2.pc = "beam"
        /\ UNCHANGED << easc, owed >>
    BY <1>0, <1>4 DEF ClearBeam
  <2>3. /\ via2.ifr \subseteq via2'.ifr /\ ("slot" \in via2'.told <=> dafb'.irq)
        /\ ("asc" \in via2'.told <=> "asc" \in via2.told)
    BY <1>0, <2>1, <2>2, SlotTold
  <2> QED
    BY <2>1, <2>2, <2>3 DEF Remembered, LinesTold, RoomLatched, SlotKnown, AscKnown, Pending
<1>5. CASE ReadStatus
  <2>1. /\ Told(easc) \in EascStates /\ Told(easc).line = easc.line /\ Told(easc).latched = {}
        /\ Told(easc).fifoMode = easc.fifoMode
    BY <1>0 DEF Told, EascStates
  <2>2. /\ easc' = Lined(Told(easc)) /\ via2' = TellAsc(Told(easc), via2) /\ UNCHANGED dafb
        /\ owed' = (owed /\ "room" \notin Status(easc)) /\ level2.pc = "status"
        /\ level2'.pc \notin {"portA", "beam"}
    BY <1>0, <1>5 DEF ReadStatus
  <2>3. ~Pending(Told(easc))
    BY <2>1 DEF Pending
  <2>4. /\ via2.ifr \subseteq via2'.ifr /\ "asc" \notin via2'.told /\ ("slot" \in via2'.told <=> "slot" \in via2.told)
        /\ ~easc'.line /\ easc'.line = Pending(easc') /\ easc'.fifoMode = easc.fifoMode
    BY <1>0, <2>1, <2>2, <2>3, AscTold
  <2>5. easc.fifoMode => ~owed'
    BY <1>0, <2>2 DEF Remembered, RoomLatched, Status
  <2> QED
    BY <2>2, <2>4, <2>5 DEF Remembered, LinesTold, RoomLatched, SlotKnown, AscKnown, BeamUp
<1>6. CASE PushSample
  <2>1. /\ Pushed(easc) \in EascStates /\ Pushed(easc).line = easc.line
        /\ Pushed(easc).fifoMode = easc.fifoMode /\ easc.latched \subseteq Pushed(easc).latched
        /\ Pushed(easc).level <= Half => "room" \in Pushed(easc).latched
    BY <1>0, PushLatches
  <2>2. /\ easc' = Lined(Pushed(easc)) /\ via2' = TellAsc(Pushed(easc), via2) /\ UNCHANGED dafb
        /\ owed' = (owed \/ Pushed(easc).level <= Half) /\ level2.pc = "fill" /\ level2'.pc = "fill"
    BY <1>0, <1>6 DEF PushSample
  <2>3. /\ via2.ifr \subseteq via2'.ifr
        /\ "asc" \in via2'.told <=> Pending(Pushed(easc))
        /\ "slot" \in via2'.told <=> "slot" \in via2.told
        /\ Pending(Pushed(easc)) /\ ~easc.line => "asc" \in via2'.ifr
        /\ easc'.line = Pending(Pushed(easc)) /\ Pending(easc') = Pending(Pushed(easc))
        /\ easc'.fifoMode = easc.fifoMode /\ easc'.latched = Pushed(easc).latched
    BY <1>0, <2>1, <2>2, AscTold
  <2> QED
    BY <1>0, <2>1, <2>2, <2>3 DEF Remembered, LinesTold, RoomLatched, SlotKnown, AscKnown, BeamUp
<1>7. CASE EndFill
  BY <1>7 DEF EndFill, devices, Remembered, LinesTold, RoomLatched, SlotKnown, AscKnown, BeamUp, Pending
<1>8. CASE TakeLevel1
  BY <1>8 DEF TakeLevel1, devices, Remembered, LinesTold, RoomLatched, SlotKnown, AscKnown, BeamUp, Pending
<1>9. CASE ServeTick
  BY <1>9 DEF ServeTick, devices, Remembered, LinesTold, RoomLatched, SlotKnown, AscKnown, BeamUp, Pending
<1> QED
  BY <1>1, <1>2, <1>3, <1>4, <1>5, <1>6, <1>7, <1>8, <1>9 DEF Handlers

-----------------------------------------------------------------------------
(* The guest's program, and resets                                         *)

LEMMA WriteEascTyped ==
  ASSUME IrqTypeOK, NEW e \in EascStates, NEW pc \in {"idle", "cleared", "mode", "ended"}, NEW o \in BOOLEAN,
         WriteEasc(e, pc, o)
  PROVE  IrqTypeOK'
<1>1. easc' \in EascStates /\ via2' \in Via2States /\ ipl' \in 0..2
  BY AscTyped, LevelIsLevel, Typed DEF WriteEasc
<1>2. main' \in MainStates
  BY Typed DEF WriteEasc, MainStates
<1> QED
  BY <1>1, <1>2, Typed DEF WriteEasc, IrqTypeOK, Via2States, EascStates, MainStates

\* A write that unlatches nothing and keeps the line for the chip to move.
LEMMA WriteEascRemembers ==
  ASSUME IrqTypeOK, Remembered, NEW e \in EascStates, NEW pc, NEW o \in BOOLEAN, WriteEasc(e, pc, o),
         e.line = easc.line, e.fifoMode /\ o => "room" \in e.latched
  PROVE  Remembered'
<1>1. /\ via2 \in Via2States /\ easc \in EascStates /\ (easc.line <=> "asc" \in via2.told)
  BY Typed DEF Remembered, LinesTold
<1>2. /\ easc' = Lined(e) /\ via2' = TellAsc(e, via2) /\ owed' = o /\ UNCHANGED << dafb, level2 >>
  BY DEF WriteEasc
<1>3. /\ via2.ifr \subseteq via2'.ifr
      /\ "asc" \in via2'.told <=> Pending(e)
      /\ "slot" \in via2'.told <=> "slot" \in via2.told
      /\ Pending(e) /\ ~easc.line => "asc" \in via2'.ifr
      /\ easc'.line = Pending(e) /\ Pending(easc') = Pending(e)
      /\ easc'.fifoMode = e.fifoMode /\ easc'.latched = e.latched
  BY <1>1, <1>2, AscTold
<1> QED
  BY <1>2, <1>3 DEF Remembered, LinesTold, RoomLatched, SlotKnown, AscKnown, BeamUp

\* The states of the sound chip that the program's writes make.
LEMMA EascWrites ==
  ASSUME NEW e \in EascStates
  PROVE  /\ LET w == [e EXCEPT !.level = 0]
            IN w \in EascStates /\ w.line = e.line /\ w.fifoMode = e.fifoMode /\ w.latched = e.latched
         /\ LET w == [e EXCEPT !.fifoMode = TRUE, !.latched = IF Room(e) THEN @ \cup {"room"} ELSE @]
            IN w \in EascStates /\ w.line = e.line /\ (Room(e) => "room" \in w.latched)
         /\ \A on \in BOOLEAN : LET w == [e EXCEPT !.enabled = on]
            IN w \in EascStates /\ w.line = e.line /\ w.fifoMode = e.fifoMode /\ w.latched = e.latched
         /\ LET w == [e EXCEPT !.fifoMode = FALSE]
            IN w \in EascStates /\ w.line = e.line /\ ~w.fifoMode
<1>1. 0 \in 0..(Ring - 1)
  BY CadenceAssumption
<1>2. (IF Room(e) THEN e.latched \cup {"room"} ELSE e.latched) \in SUBSET Events
  BY DEF EascStates, Events
<1> QED
  BY <1>1, <1>2 DEF EascStates

LEMMA ProgramTyped ==
  ASSUME IrqTypeOK, Program
  PROVE  IrqTypeOK'
<1>0. easc \in EascStates /\ owed \in BOOLEAN /\ Room(easc) \in BOOLEAN
  BY Typed DEF Room
<1>1. CASE Enable
  <2>1. via2' \in Via2States /\ via1' \in Via1States /\ main' \in MainStates /\ ipl' \in 0..2
    BY <1>1, LevelIsLevel, Typed DEF Enable, Via2States, Via1States, MainStates
  <2> QED
    BY <1>1, <2>1, Typed DEF Enable, IrqTypeOK, Via2States, Via1States, MainStates
<1>2. CASE ClearFifo
  BY <1>0, <1>2, EascWrites, WriteEascTyped DEF ClearFifo
<1>3. CASE EnterFifoMode
  BY <1>0, <1>3, EascWrites, WriteEascTyped DEF EnterFifoMode
<1>4. CASE EnableCallback
  <2>1. [easc EXCEPT !.enabled = TRUE] \in EascStates
    BY <1>0, EascWrites
  <2>2. easc' \in EascStates /\ via2' \in Via2States /\ ipl' \in 0..2
    BY <1>4, <2>1, AscTyped, LevelIsLevel, Typed DEF EnableCallback
  <2>3. main' \in MainStates
    BY <1>4, CadenceAssumption DEF EnableCallback, MainStates
  <2> QED
    BY <1>4, <2>2, <2>3, Typed DEF EnableCallback, IrqTypeOK, Via2States, EascStates, MainStates
<1>5. CASE DisableCallback
  BY <1>0, <1>5, EascWrites, WriteEascTyped DEF DisableCallback
<1>6. CASE LeaveFifoMode
  BY <1>0, <1>6, EascWrites, WriteEascTyped DEF LeaveFifoMode
<1> QED
  BY <1>1, <1>2, <1>3, <1>4, <1>5, <1>6 DEF Program

LEMMA ProgramRemembers ==
  ASSUME IrqTypeOK, Remembered, Program
  PROVE  Remembered'
<1>0. /\ easc \in EascStates /\ owed \in BOOLEAN /\ Room(easc) \in BOOLEAN /\ via2 \in Via2States
      /\ easc.fifoMode /\ owed => "room" \in easc.latched
      /\ easc.line <=> "asc" \in via2.told
  BY Typed DEF Room, Remembered, LinesTold, RoomLatched
<1>1. CASE Enable
  <2>1. via2'.ifr = via2.ifr /\ via2'.told = via2.told /\ UNCHANGED << dafb, easc, level2, owed >>
    BY <1>0, <1>1 DEF Enable, Via2States
  <2> QED
    BY <2>1 DEF Remembered, LinesTold, RoomLatched, SlotKnown, AscKnown, BeamUp, Pending
<1>2. CASE ClearFifo
  <2> DEFINE e == [easc EXCEPT !.level = 0]
  <2>1. e \in EascStates /\ e.line = easc.line /\ (e.fifoMode /\ owed => "room" \in e.latched)
    BY <1>0, EascWrites
  <2>2. WriteEasc(e, "cleared", owed)
    BY <1>2 DEF ClearFifo
  <2> QED
    BY <1>0, <2>1, <2>2, WriteEascRemembers
<1>3. CASE EnterFifoMode
  <2> DEFINE e == [easc EXCEPT !.fifoMode = TRUE, !.latched = IF Room(easc) THEN @ \cup {"room"} ELSE @]
  <2>1. e \in EascStates /\ e.line = easc.line /\ (e.fifoMode /\ Room(easc) => "room" \in e.latched)
    BY <1>0, EascWrites
  <2>2. WriteEasc(e, "mode", Room(easc))
    BY <1>3 DEF EnterFifoMode
  <2> QED
    BY <1>0, <2>1, <2>2, WriteEascRemembers
<1>4. CASE EnableCallback
  <2> DEFINE e == [easc EXCEPT !.enabled = TRUE]
  <2>1. e \in EascStates /\ e.line = easc.line /\ e.fifoMode = easc.fifoMode /\ e.latched = easc.latched
    BY <1>0, EascWrites
  <2>2. easc' = Lined(e) /\ via2' = TellAsc(e, via2) /\ UNCHANGED << dafb, level2, owed >>
    BY <1>4 DEF EnableCallback
  <2> HIDE DEF e
  <2>3. /\ via2.ifr \subseteq via2'.ifr
        /\ "asc" \in via2'.told <=> Pending(e)
        /\ "slot" \in via2'.told <=> "slot" \in via2.told
        /\ Pending(e) /\ ~easc.line => "asc" \in via2'.ifr
        /\ easc'.line = Pending(e) /\ Pending(easc') = Pending(e)
        /\ easc'.fifoMode = easc.fifoMode /\ easc'.latched = easc.latched
    BY <1>0, <2>1, <2>2, AscTold
  <2> QED
    BY <2>2, <2>3 DEF Remembered, LinesTold, RoomLatched, SlotKnown, AscKnown, BeamUp
<1>5. CASE DisableCallback
  <2> DEFINE e == [easc EXCEPT !.enabled = FALSE]
  <2>1. e \in EascStates /\ e.line = easc.line /\ (e.fifoMode /\ owed => "room" \in e.latched)
    BY <1>0, EascWrites
  <2>2. WriteEasc(e, "ended", owed)
    BY <1>5 DEF DisableCallback
  <2> QED
    BY <1>0, <2>1, <2>2, WriteEascRemembers
<1>6. CASE LeaveFifoMode
  BY <1>0, <1>6, EascWrites, WriteEascRemembers DEF LeaveFifoMode
<1> QED
  BY <1>1, <1>2, <1>3, <1>4, <1>5, <1>6 DEF Program

LEMMA MaskTyped ==
  ASSUME NEW d \in DafbStates, NEW mask \in SUBSET Beams
  PROVE  Masked(d, mask) \in DafbStates /\ Masked(d, mask).irq = BeamUp(Masked(d, mask))
<1> DEFINE less == [d EXCEPT !.mask = mask, !.pending = d.pending \cap mask]
<1>1. less \in DafbStates
  BY DEF DafbStates
<1>2. BeamUp(less) \in BOOLEAN
  BY DEF BeamUp
<1> HIDE DEF less
<1>3. Masked(d, mask) = [less EXCEPT !.irq = BeamUp(less)]
  BY DEF Masked, less
<1>4. /\ Masked(d, mask) \in DafbStates /\ Masked(d, mask).irq = BeamUp(less)
      /\ Masked(d, mask).pending = less.pending /\ Masked(d, mask).mask = less.mask
  BY <1>1, <1>2, <1>3 DEF DafbStates
<1> QED
  BY <1>4 DEF BeamUp

LEMMA SetMaskTyped ==
  ASSUME IrqTypeOK, NEW mask \in SUBSET Beams, SetMask(mask)
  PROVE  IrqTypeOK'
<1>1. dafb' \in DafbStates /\ via2' \in Via2States /\ ipl' \in 0..2
  BY MaskTyped, SlotTold, LevelIsLevel, Typed DEF SetMask
<1> QED
  BY <1>1, Typed DEF SetMask, IrqTypeOK, Via2States, DafbStates

LEMMA SetMaskRemembers ==
  ASSUME IrqTypeOK, Remembered, NEW mask \in SUBSET Beams, SetMask(mask)
  PROVE  Remembered'
<1>1. /\ via2 \in Via2States /\ dafb' \in DafbStates /\ dafb'.irq = BeamUp(dafb')
      /\ via2' = TellSlot(dafb', via2) /\ UNCHANGED << easc, level2, owed >>
  BY MaskTyped, Typed DEF SetMask
<1>2. /\ via2.ifr \subseteq via2'.ifr /\ ("slot" \in via2'.told <=> dafb'.irq)
      /\ ("asc" \in via2'.told <=> "asc" \in via2.told)
      /\ dafb'.irq /\ "slot" \notin via2.told => "slot" \in via2'.ifr
  BY <1>1, SlotTold
<1> QED
  BY <1>1, <1>2 DEF Remembered, LinesTold, RoomLatched, SlotKnown, AscKnown, Pending

LEMMA ResetTyped ==
  ASSUME IrqTypeOK, NEW whole \in BOOLEAN, Reset(whole)
  PROVE  IrqTypeOK'
<1>1. via2' \in Via2States
  BY Typed DEF Reset, ResetVia2, Via2States
<1>2. via1' \in Via1States
  BY Typed DEF Reset, Via1States
<1>3. dafb' \in DafbStates
  BY Typed DEF Reset, DafbStates
<1>4. easc' \in EascStates
  <2>1. 0 \in 0..(Ring - 1) /\ {} \in SUBSET Events
    BY CadenceAssumption
  <2> QED
    BY <2>1, Typed DEF Reset, ResetEasc, EascStates
<1>5. level2' \in Level2States /\ main' \in MainStates /\ ran' \in 0..StepsPerSlice
  BY HalfIsNat, CadenceAssumption DEF Reset, Level2States, MainStates
<1>6. ipl' \in 0..2 /\ slice' \in 0..(SlicesPerFrame - 1)
  BY Typed DEF Reset
<1>7. level1' \in BOOLEAN /\ owed' \in BOOLEAN
  BY Zenon DEF Reset
<1> QED
  BY <1>1, <1>2, <1>3, <1>4, <1>5, <1>6, <1>7
  DEF IrqTypeOK, Via2States, Via1States, DafbStates, EascStates, MainStates, Level2States

\* Easc::reset and a machine reset drop lines without a word: no harm when they are down.
LEMMA ResetRemembers ==
  ASSUME IrqTypeOK, Remembered, ~ResetsAnytime, NEW whole \in BOOLEAN, Reset(whole)
  PROVE  Remembered'
<1>0. via2 \in Via2States /\ dafb \in DafbStates /\ easc \in EascStates
  BY Typed
<1>1. ~easc.line /\ ~dafb.irq
  BY DEF Reset
<1>2. via2'.told = via2.told
  BY <1>0 DEF Reset, ResetVia2, Via2States
<1>3. dafb'.irq = dafb.irq /\ (dafb'.pending \cap dafb'.mask = {})
  BY <1>0, <1>1 DEF Reset, DafbStates, Remembered, LinesTold, BeamUp
<1>4. easc'.line = FALSE /\ easc'.fifoMode = FALSE
  BY <1>0 DEF Reset, ResetEasc, EascStates
<1> QED
  BY <1>0, <1>1, <1>2, <1>3, <1>4
  DEF Remembered, LinesTold, RoomLatched, SlotKnown, AscKnown, BeamUp, Pending, DafbStates

-----------------------------------------------------------------------------
(* The theorems                                                            *)

LEMMA InitIInv == Init => IInv
<1> SUFFICES ASSUME Init PROVE IInv
  OBVIOUS
<1>1. IrqTypeOK
  <2>1. /\ 0 \in 0..(Ring - 1) /\ 0 \in 0..(SlicesPerFrame - 1) /\ 0 \in 0..Song /\ 0 \in 0..Half
        /\ 0 \in 0..StepsPerSlice
    BY HalfIsNat, CadenceAssumption
  <2>2. level1 \in BOOLEAN /\ owed \in BOOLEAN
    BY Zenon DEF Init
  <2>3. /\ via2 \in Via2States /\ via1 \in Via1States /\ dafb \in DafbStates /\ easc \in EascStates
        /\ main \in MainStates /\ level2 \in Level2States
    BY <2>1 DEF Init, Via2States, Via1States, DafbStates, EascStates, MainStates, Level2States
  <2>4. slice \in 0..(SlicesPerFrame - 1) /\ ipl \in 0..2 /\ ran \in 0..StepsPerSlice
    BY <2>1 DEF Init
  <2> QED
    BY <2>2, <2>3, <2>4, Typed
<1>2. Remembered
  BY DEF Init, Remembered, LinesTold, RoomLatched, SlotKnown, AscKnown, BeamUp, Pending
<1> QED
  BY <1>1, <1>2 DEF IInv

LEMMA NextIInv ==
  ASSUME IInv, [Next]_vars
  PROVE  IInv'
<1>0. IrqTypeOK
  BY DEF IInv
<1>1. IrqTypeOK'
  <2>1. CASE UNCHANGED vars
    BY <1>0, <2>1 DEF vars, IrqTypeOK
  <2> QED
    BY <1>0, <2>1, TickTyped, HandlersTyped, ProgramTyped, SetMaskTyped, ResetTyped DEF Next
<1>2. ASSUME ~ResetsAnytime
      PROVE  Remembered'
  <2>0. Remembered
    BY <1>2 DEF IInv
  <2>1. CASE UNCHANGED vars
    BY <2>0, <2>1 DEF vars, Remembered, LinesTold, RoomLatched, SlotKnown, AscKnown, BeamUp, Pending
  <2> QED
    BY <1>0, <1>2, <2>0, <2>1, TickRemembers, HandlersRemember, ProgramRemembers, SetMaskRemembers, ResetRemembers
    DEF Next
<1> QED
  BY <1>1, <1>2 DEF IInv

LEMMA AlwaysRemembered == Spec => []IInv
BY InitIInv, NextIInv, PTL DEF Spec

\* Every variable keeps its type: no song, however long, overfills the FIFO, and
\* the slice count stays within its frame.
THEOREM IrqTypeCorrect == Spec => []IrqTypeOK
<1>1. IInv => IrqTypeOK
  BY DEF IInv
<1> QED
  BY <1>1, AlwaysRemembered, PTL

\* No interrupt is forgotten: an asserted line has its flag, or the guest is about
\* to serve it, and room the guest waits for asserts the line.
THEOREM NothingIsForgotten ==
  ASSUME ~ResetsAnytime
  PROVE  Spec => []NothingForgotten
<1>1. IInv => NothingForgotten
  <2> SUFFICES ASSUME IInv
               PROVE  NothingForgotten
    OBVIOUS
  <2>1. Remembered
    BY DEF IInv
  <2>2. easc.fifoMode /\ easc.enabled /\ owed => Pending(easc)
    BY <2>1 DEF Remembered, RoomLatched, Pending
  <2> QED
    BY <2>1, <2>2 DEF Remembered, LinesTold, SlotKnown, AscKnown, NothingForgotten
<1> QED
  BY <1>1, AlwaysRemembered, PTL

LEMMA RiseIsTold ==
  ASSUME IrqTypeOK, Remembered, Remembered', Next, ~easc.line, easc'.line
  PROVE  "asc" \in via2'.ifr
<1>0. "asc" \in via2'.ifr \/ level2'.pc = "status"
  BY DEF Remembered, AscKnown
<1>1. CASE Tick
  <2> DEFINE sounded == TellAsc(Pulled(easc), via2)
             blank == [dafb EXCEPT !.pending = IF slice = SlicesPerFrame - 1 THEN @ \cup Beams ELSE @]
  <2>1. /\ via2 \in Via2States /\ easc \in EascStates /\ dafb \in DafbStates
        /\ easc.line <=> "asc" \in via2.told
    BY Typed DEF Remembered, LinesTold
  <2>2. Pulled(easc) \in EascStates /\ Pulled(easc).line = easc.line
    BY <2>1, PullLatches
  <2>3. /\ sounded \in Via2States /\ Lined(Pulled(easc)).line = Pending(Pulled(easc))
        /\ Pending(Pulled(easc)) /\ ~easc.line => "asc" \in sounded.ifr
    BY <2>1, <2>2, AscTold
  <2>4. blank \in DafbStates
    BY <2>1 DEF DafbStates
  <2> HIDE DEF sounded, blank
  <2>5. /\ easc' = Lined(Pulled(easc))
        /\ via2' = IF slice = SlicesPerFrame - 1 THEN TellSlot(blank, sounded) ELSE sounded
    BY <1>1 DEF Tick, Slice, sounded, blank
  <2>6. sounded.ifr \subseteq TellSlot(blank, sounded).ifr
    BY <2>3, <2>4, SlotTold
  <2> QED
    BY <2>3, <2>5, <2>6
<1>2. CASE Handlers
  <2>1. UNCHANGED easc \/ level2'.pc # "status"
    BY <1>2, Typed DEF Handlers, TakeLevel2, Acknowledge, ReadPortA, ClearBeam, ReadStatus, PushSample, EndFill,
       TakeLevel1, ServeTick, devices, Level2States
  <2> QED
    BY <1>0, <2>1
<1>3. CASE Program
  <2>1. level2.pc = "none" /\ UNCHANGED level2
    BY <1>3 DEF Program, Enable, ClearFifo, EnterFifoMode, EnableCallback, DisableCallback, LeaveFifoMode,
       WriteEasc, AtMain, Handling
  <2> QED
    BY <1>0, <2>1
<1>4. ASSUME NEW mask \in SUBSET Beams, SetMask(mask)
      PROVE  FALSE
  BY <1>4 DEF SetMask
<1>5. ASSUME NEW whole \in BOOLEAN, Reset(whole)
      PROVE  "asc" \in via2'.ifr
  BY <1>0, <1>5 DEF Reset
<1> QED
  BY <1>1, <1>2, <1>3, <1>4, <1>5 DEF Next

\* A rising edge of the sound chip's line sets its flag, whatever the guest does.
THEOREM EdgesSetFlags ==
  ASSUME ~ResetsAnytime
  PROVE  Spec => EdgeSetsFlag
<1>1. IInv /\ IInv' /\ [Next]_vars => [~easc.line /\ easc.line' => "asc" \in via2'.ifr]_vars
  <2> SUFFICES ASSUME IInv, IInv', Next, ~easc.line, easc'.line
               PROVE  "asc" \in via2'.ifr
    BY DEF vars
  <2>1. IrqTypeOK /\ Remembered /\ Remembered'
    BY DEF IInv
  <2> QED
    BY <2>1, RiseIsTold
<1> QED
  BY <1>1, AlwaysRemembered, PTL DEF Spec, EdgeSetsFlag

-----------------------------------------------------------------------------
(* Adb: the transceiver, the pump and the guest                            *)


Transceivers == [state : 0..3, cmd : Commands, unread : Response, int : BOOLEAN, listening : BOOLEAN,
                 staged : BOOLEAN, held : SUBSET Keys, queue : Queue,
                 motion : -MaxMotion..MaxMotion, moved : BOOLEAN]

\* A response is whole until the guest reads it.
Whole(s) == Len(s) \in {0, 2}

Pcs == {"idle", "command", "dip", "first", "second", "data1", "data2", "spin"}
Guests == [pc : Pcs, first : Bytes, sweep : SUBSET Devices]
StateOf == [pc \in Pcs |-> IF pc = "command" THEN 0 ELSE IF pc \in {"first", "data1"} THEN 1
                           ELSE IF pc \in {"second", "data2"} THEN 2 ELSE 3]

\* Where a response can be, and the shift that brings its next byte, at each step of the guest.
Placed ==
  /\ adb.listening <=> adb.cmd.op = "listen"
  /\ adb.listening => adb.unread = << >>
  /\ adb.state = StateOf[guest.pc]
  /\ flag => pump = "none"
  /\ guest.pc \in {"idle", "spin"} => pump = "none" /\ (~flag => adb.unread = << >>)
  /\ guest.pc = "dip" => /\ ~adb.listening /\ pump # "out"
                         /\ ~flag /\ pump = "none" => adb.unread = << >>
  /\ guest.pc = "command" =>
       /\ ~flag => pump = "out" /\ sr \in Commands /\ adb.unread = << >>
       /\ flag /\ adb.cmd.op # "talk" => adb.unread = << >>
  /\ guest.pc \in {"data1", "data2"} => (~flag => pump = "out") /\ adb.unread = << >>
  /\ guest.pc = "first" =>
       /\ ~flag => pump = "in" /\ adb.int /\ Whole(adb.unread)
       /\ flag /\ adb.int => Len(adb.unread) = 1 /\ sr \in Bytes
       /\ flag /\ ~adb.int => adb.unread = << >> /\ sr = Nothing
  /\ guest.pc = "second" =>
       /\ ~flag => pump = "in" /\ Len(adb.unread) = 1
       /\ flag => adb.unread = << >> /\ sr \in Bytes
  /\ guest.pc \notin {"first", "second"} => Whole(adb.unread)

\* The wakes counted are those since a poll, or the response that ends the count is there.
Recent == polled \/ streak = 0 \/ (adb.unread # << >> /\ ~adb.staged)

\* A guest that has ignored as many wakes as it may is woken, or about to poll.
Noticed ==
  /\ guest.pc # "spin" /\ streak = WakeLimit /\ ~polled /\ guest.sweep = {} =>
       \/ guest.pc = "idle" /\ flag
       \/ guest.pc = "command" /\ ~flag /\ sr \in Polls
  /\ guest.pc = "dip" /\ ~flag => Recent
  /\ guest.pc = "command" /\ flag /\ adb.cmd.op = "talk" => Recent

AInv == AdbTypeOK /\ Placed /\ Noticed /\ InputIsConserved

-----------------------------------------------------------------------------
(* Responses                                                               *)

LEMMA NothingIsByte == Nothing \in Bytes /\ Info \in Bytes /\ \A n \in Int : Motion(n) \in Bytes
BY DEF Nothing, Info, Motion, Bytes

LEMMA TransitionIsByte == Transitions \subseteq Bytes /\ \A t \in Transitions : IsKey(t)
<1>1. Keys \subseteq Int
  BY AdbAssumption DEF Keys
<1> QED
  BY <1>1 DEF Transitions, Bytes, IsKey

LEMMA CommandIsNoByte == Commands \cap Bytes = {} /\ Polls \subseteq Commands
<1>1. Polls \subseteq Commands
  BY DEF Polls, Commands, Talk
<1>2. ASSUME NEW c \in Commands, c \in Bytes PROVE FALSE
  <2>1. DOMAIN c = {"op", "dev", "reg"} /\ DOMAIN c = {"kind", "n", "down"}
    BY <1>2 DEF Commands, Bytes
  <2> QED
    BY <2>1
<1> QED
  BY <1>1, <1>2

LEMMA NoByte == KeysIn(<< >>) = << >> /\ MotionIn(<< >>) = 0
BY DEF KeysIn, MotionIn

LEMMA OneByte ==
  ASSUME NEW b \in Bytes PROVE KeysIn(<< b >>) = Key(b) /\ MotionIn(<< b >>) = Move(b)
<1>1. Len(<< b >>) = 1 /\ << b >>[1] = b
  OBVIOUS
<1>2. Key(b) \in Seq(Bytes) /\ Move(b) \in Int
  <2>1. << b >> \in Seq(Bytes) /\ << >> \in Seq(Bytes)
    OBVIOUS
  <2>2. b.n \in Int
    BY DEF Bytes
  <2> QED
    BY <2>1, <2>2 DEF Key, Move
<1>3. Key(b) \o << >> = Key(b)
  BY <1>2, ConcatEmptySeq
<1> QED
  BY <1>1, <1>2, <1>3 DEF KeysIn, MotionIn

LEMMA TwoBytes ==
  ASSUME NEW b \in Bytes, NEW c \in Bytes
  PROVE  KeysIn(<< b, c >>) = Key(b) \o Key(c) /\ MotionIn(<< b, c >>) = Move(b) + Move(c)
<1>1. Len(<< b, c >>) = 2 /\ << b, c >>[1] = b /\ << b, c >>[2] = c
  OBVIOUS
<1> QED
  BY <1>1 DEF KeysIn, MotionIn

\* A response is nothing, one byte or two.
LEMMA ResponseForms ==
  ASSUME NEW s \in Response
  PROVE  /\ Len(s) = 0 => s = << >>
         /\ Len(s) = 1 => s = << s[1] >> /\ s[1] \in Bytes
         /\ Len(s) = 2 => s = << s[1], s[2] >> /\ s[1] \in Bytes /\ s[2] \in Bytes
         /\ Len(s) \in {0, 1, 2} /\ s \in Seq(Bytes)
<1>1. s \in Seq(Bytes) /\ Len(s) \in Nat /\ Len(s) <= 2
  BY DEF Response
<1>2. ASSUME Len(s) = 0 PROVE s = << >>
  BY <1>1, <1>2, EmptySeq
<1>3. ASSUME Len(s) = 1 PROVE s = << s[1] >> /\ s[1] \in Bytes
  <2>1. s[1] \in Bytes
    BY <1>1, <1>3
  <2>2. << s[1] >> \in Seq(Bytes) /\ Len(<< s[1] >>) = Len(s)
        /\ \A i \in 1..Len(s) : s[i] = << s[1] >>[i]
    BY <1>3, <2>1
  <2> HIDE <1>3
  <2> QED
    BY <1>1, <2>1, <2>2, SeqEqual
<1>4. ASSUME Len(s) = 2 PROVE s = << s[1], s[2] >> /\ s[1] \in Bytes /\ s[2] \in Bytes
  <2>1. s[1] \in Bytes /\ s[2] \in Bytes
    BY <1>1, <1>4
  <2>2. << s[1], s[2] >> \in Seq(Bytes) /\ Len(<< s[1], s[2] >>) = Len(s)
        /\ \A i \in 1..Len(s) : s[i] = << s[1], s[2] >>[i]
    BY <1>4, <2>1
  <2> HIDE <1>4
  <2> QED
    BY <1>1, <2>1, <2>2, SeqEqual
<1>5. Len(s) \in {0, 1, 2}
  <2>1. \A n \in Nat : n <= 2 => n \in {0, 1, 2}
    OBVIOUS
  <2> QED
    BY <1>1, <2>1
<1> QED
  BY <1>1, <1>2, <1>3, <1>4, <1>5

LEMMA PairOfTwo ==
  ASSUME NEW S, NEW x \in S, NEW y \in S PROVE << x >> \o << y >> = << x, y >>
<1>1. << x >> \in Seq(S) /\ << y >> \in Seq(S) /\ << x, y >> \in Seq(S)
      /\ Len(<< x >>) = 1 /\ Len(<< y >>) = 1 /\ Len(<< x, y >>) = 2
      /\ << x >>[1] = x /\ << y >>[1] = y /\ << x, y >>[1] = x /\ << x, y >>[2] = y
  OBVIOUS
<1> DEFINE w == << x >> \o << y >>
           v == << x, y >>
<1>2. w \in Seq(S) /\ Len(w) = 2 /\ w[1] = x /\ w[2] = y
  BY <1>1, ConcatProperties
<1>3. v \in Seq(S) /\ Len(v) = 2 /\ v[1] = x /\ v[2] = y
  BY <1>1
<1> HIDE DEF w, v
<1>4. w = v
  BY <1>2, <1>3, SeqEqual
<1> QED
  BY <1>4 DEF w, v

\* The bytes that leave the queue for a response, and those that stay, are the queue.
LEMMA QueueSplits ==
  ASSUME NEW q \in Queue, q # << >>
  PROVE  /\ q[1] \in Transitions /\ Rest(q, 1) \in Queue /\ << q[1] >> \o Rest(q, 1) = q
         /\ Len(q) > 1 => /\ q[2] \in Transitions /\ Rest(q, 2) \in Queue
                          /\ << q[1] >> \o << q[2] >> \o Rest(q, 2) = q
<1>1. q \in Seq(Transitions) /\ Len(q) \in Nat \ {0} /\ Len(q) < KeyQueue
  BY EmptySeq DEF Queue
<1>2. q[1] \in Transitions /\ (Len(q) > 1 => q[2] \in Transitions)
  BY <1>1
<1>3. ASSUME NEW n \in 1..2, n <= Len(q)
      PROVE  /\ Rest(q, n) \in Seq(Transitions) /\ Len(Rest(q, n)) = Len(q) - n
             /\ \A i \in 1..(Len(q) - n) : Rest(q, n)[i] = q[n + i]
  <2>1. \A i \in (n + 1)..Len(q) : q[i] \in Transitions
    BY <1>1
  <2>2. n + 1 \in Int /\ Len(q) \in Int
    BY <1>1
  <2>3. /\ SubSeq(q, n + 1, Len(q)) \in Seq(Transitions)
        /\ Len(SubSeq(q, n + 1, Len(q))) = IF n + 1 <= Len(q) THEN Len(q) - (n + 1) + 1 ELSE 0
        /\ \A i \in 1..(Len(q) - (n + 1) + 1) : SubSeq(q, n + 1, Len(q))[i] = q[n + 1 + i - 1]
    BY <2>1, <2>2, SubSeqProperties
  <2> QED
    BY <1>1, <1>3, <2>3 DEF Rest
<1>4. Rest(q, 1) \in Queue /\ << q[1] >> \o Rest(q, 1) = q
  <2>1. /\ Rest(q, 1) \in Seq(Transitions) /\ Len(Rest(q, 1)) = Len(q) - 1
        /\ \A i \in 1..(Len(q) - 1) : Rest(q, 1)[i] = q[1 + i]
    BY <1>1, <1>3
  <2>2. << q[1] >> \in Seq(Transitions) /\ Len(<< q[1] >>) = 1 /\ << q[1] >>[1] = q[1]
    BY <1>2
  <2> DEFINE w == << q[1] >> \o Rest(q, 1)
  <2>3. /\ w \in Seq(Transitions) /\ Len(w) = Len(q)
        /\ \A i \in 1..Len(q) : w[i] = q[i]
    BY <1>1, <2>1, <2>2, ConcatProperties
  <2> HIDE DEF w
  <2>4. w = q
    BY <1>1, <2>3, SeqEqual
  <2> QED
    BY <1>1, <2>1, <2>4, AdbAssumption DEF w, Queue
<1>5. ASSUME Len(q) > 1 PROVE Rest(q, 2) \in Queue /\ << q[1] >> \o << q[2] >> \o Rest(q, 2) = q
  <2>1. /\ Rest(q, 2) \in Seq(Transitions) /\ Len(Rest(q, 2)) = Len(q) - 2
        /\ \A i \in 1..(Len(q) - 2) : Rest(q, 2)[i] = q[2 + i]
    BY <1>1, <1>3, <1>5
  <2>5. << q[1] >> \o << q[2] >> = << q[1], q[2] >>
    BY <1>2, <1>5, PairOfTwo
  <2>2. /\ << q[1] >> \o << q[2] >> = << q[1], q[2] >>
        /\ << q[1], q[2] >> \in Seq(Transitions) /\ Len(<< q[1], q[2] >>) = 2
        /\ << q[1], q[2] >>[1] = q[1] /\ << q[1], q[2] >>[2] = q[2]
    BY <1>2, <1>5, <2>5
  <2> DEFINE w == << q[1], q[2] >> \o Rest(q, 2)
  <2>3. /\ w \in Seq(Transitions) /\ Len(w) = Len(q)
        /\ \A i \in 1..Len(q) : w[i] = q[i]
    BY <1>1, <1>5, <2>1, <2>2, ConcatProperties
  <2> HIDE DEF w
  <2>4. w = q
    BY <1>1, <2>3, SeqEqual
  <2> QED
    BY <1>1, <1>5, <2>1, <2>2, <2>4, AdbAssumption DEF w, Queue
<1> QED
  BY <1>2, <1>4, <1>5

-----------------------------------------------------------------------------
(* The transceiver answers                                                 *)

\* What an answer moves from the queue or the motion into the response, and leaves of the rest.
Moves(a, b) ==
  /\ b \in Transceivers /\ Whole(b.unread)
  /\ KeysIn(b.unread) \o b.queue = a.queue
  /\ MotionIn(b.unread) + b.motion = a.motion
  /\ b.state = a.state /\ b.cmd = a.cmd /\ b.int = a.int /\ b.listening = a.listening
  /\ b.staged = a.staged /\ b.held = a.held

LEMMA ClampedFits ==
  ASSUME NEW n \in -MaxMotion..MaxMotion
  PROVE  Clamped(n) \in Int /\ n - Clamped(n) \in -MaxMotion..MaxMotion
BY AdbAssumption DEF Clamped

\* A response of two bytes, put into the empty buffer.
LEMMA EmitTwo ==
  ASSUME NEW a \in Transceivers, NEW x \in Bytes, NEW y \in Bytes, NEW q \in Queue,
         NEW m \in -MaxMotion..MaxMotion, NEW v \in BOOLEAN,
         Key(x) \o Key(y) \o q = a.queue, Move(x) + Move(y) + m = a.motion
  PROVE  Moves(a, [a EXCEPT !.unread = << x, y >>, !.queue = q, !.motion = m, !.moved = v])
<1> DEFINE b == [a EXCEPT !.unread = << x, y >>, !.queue = q, !.motion = m, !.moved = v]
<1>1. << x, y >> \in Response /\ Whole(<< x, y >>)
  BY DEF Response, Whole
<1>2. b \in Transceivers /\ b.unread = << x, y >> /\ b.queue = q /\ b.motion = m
  BY <1>1 DEF Transceivers
<1>3. /\ b.state = a.state /\ b.cmd = a.cmd /\ b.int = a.int /\ b.listening = a.listening
      /\ b.staged = a.staged /\ b.held = a.held
  BY DEF Transceivers
<1> HIDE DEF b
<1>4. Moves(a, b)
  BY <1>1, <1>2, <1>3, TwoBytes DEF Moves
<1> QED
  BY <1>4 DEF b

LEMMA EmptyMoves ==
  ASSUME NEW a \in Transceivers, a.unread = << >> PROVE Moves(a, a)
<1>1. a.queue \in Seq(Transitions) /\ a.motion \in Int
  BY DEF Transceivers, Queue
<1>2. << >> \o a.queue = a.queue
  BY <1>1, ConcatEmptySeq
<1> QED
  BY <1>1, <1>2, NoByte DEF Moves, Whole

LEMMA InfoMoves ==
  ASSUME NEW a \in Transceivers
  PROVE  Moves(a, Emit(a, Info, Info)) /\ Emit(a, Info, Info).unread # << >>
<1>1. a.queue \in Seq(Transitions) /\ a.queue \in Queue /\ a.motion \in -MaxMotion..MaxMotion
  BY DEF Transceivers, Queue
<1>2. Key(Info) = << >> /\ Move(Info) = 0
  BY DEF Key, IsKey, Move, Info
<1>3. Key(Info) \o Key(Info) \o a.queue = a.queue
  BY <1>1, <1>2, ConcatEmptySeq
<1>4. a.moved \in BOOLEAN
  BY DEF Transceivers
<1> DEFINE b == [a EXCEPT !.unread = << Info, Info >>, !.queue = a.queue, !.motion = a.motion, !.moved = a.moved]
<1>5. Moves(a, b)
  <2>1. Info \in Bytes /\ Move(Info) + Move(Info) + a.motion = a.motion
    BY <1>1, <1>2, NothingIsByte, AdbAssumption
  <2> QED
    BY <1>1, <1>3, <1>4, <2>1, EmitTwo
<1>6. Emit(a, Info, Info) = b /\ b.unread = << Info, Info >>
  BY DEF Emit, Transceivers
<1> QED
  BY <1>5, <1>6

LEMMA TalkKeyboardMoves ==
  ASSUME NEW a \in Transceivers, a.unread = << >>, NEW reg \in {"zero", "info"}
  PROVE  Moves(a, TalkKeyboard(a, reg)) /\ (reg = "info" => TalkKeyboard(a, reg).unread # << >>)
<1>1. CASE reg = "info"
  BY <1>1, InfoMoves DEF TalkKeyboard
<1>2. CASE reg # "info" /\ a.queue = << >>
  BY <1>2, EmptyMoves DEF TalkKeyboard
<1>3. CASE reg # "info" /\ a.queue # << >>
  <2> DEFINE q == a.queue
             y == IF Len(q) > 1 THEN q[2] ELSE Nothing
             r == Rest(q, IF Len(q) > 1 THEN 2 ELSE 1)
             b == [a EXCEPT !.unread = << q[1], y >>, !.queue = r, !.motion = a.motion, !.moved = a.moved]
  <2>1. q \in Queue /\ q # << >> /\ a.motion \in -MaxMotion..MaxMotion /\ a.moved \in BOOLEAN
    BY <1>3 DEF Transceivers
  <2>2. TalkKeyboard(a, reg) = b
    BY <1>3 DEF TalkKeyboard, Emit, Transceivers
  <2>3. q[1] \in Transitions /\ q[1] \in Bytes /\ Key(q[1]) = << q[1] >> /\ Move(q[1]) = 0
    <3>1. q[1] \in Transitions
      BY <2>1, QueueSplits
    <3> QED
      BY <3>1, TransitionIsByte DEF Key, Move, IsKey
  <2>4. y \in Bytes /\ r \in Queue /\ Key(q[1]) \o Key(y) \o r = q /\ Move(y) = 0
    <3>1. CASE Len(q) > 1
      <4>1. q[2] \in Transitions /\ r = Rest(q, 2) /\ y = q[2] /\ r \in Queue
            /\ << q[1] >> \o << q[2] >> \o r = q
        BY <2>1, <3>1, QueueSplits
      <4>2. Key(y) = << y >> /\ Move(y) = 0 /\ y \in Bytes
        BY <4>1, TransitionIsByte DEF Key, Move, IsKey
      <4> QED
        BY <2>3, <4>1, <4>2
    <3>2. CASE ~(Len(q) > 1)
      <4>1. r = Rest(q, 1) /\ y = Nothing /\ r \in Queue /\ << q[1] >> \o r = q
        BY <2>1, <3>2, QueueSplits
      <4>2. Key(y) = << >> /\ Move(y) = 0 /\ y \in Bytes
        BY <4>1, NothingIsByte DEF Key, Move, IsKey, Nothing
      <4>3. << q[1] >> \o << >> = << q[1] >>
        BY <2>3, ConcatEmptySeq
      <4> QED
        BY <2>3, <4>1, <4>2, <4>3
    <3> QED
      BY <3>1, <3>2
  <2> HIDE DEF y, r, b
  <2>5. Move(q[1]) + Move(y) + a.motion = a.motion
    BY <2>1, <2>3, <2>4, AdbAssumption
  <2>6. Moves(a, b)
    BY <2>1, <2>3, <2>4, <2>5, EmitTwo DEF b
  <2> QED
    BY <1>3, <2>2, <2>6
<1> QED
  BY <1>1, <1>2, <1>3

LEMMA TalkMouseMoves ==
  ASSUME NEW a \in Transceivers, a.unread = << >>, NEW reg \in {"zero", "info"}
  PROVE  Moves(a, TalkMouse(a, reg)) /\ (reg = "info" => TalkMouse(a, reg).unread # << >>)
<1>1. CASE reg = "info"
  BY <1>1, InfoMoves DEF TalkMouse
<1>2. CASE reg # "info" /\ (a.queue # << >> \/ ~a.moved)
  BY <1>2, EmptyMoves DEF TalkMouse
<1>3. CASE reg # "info" /\ a.queue = << >> /\ a.moved
  <2> DEFINE d == Clamped(a.motion)
             v == a.motion # d
             b == [a EXCEPT !.unread = << Motion(d), Nothing >>, !.queue = << >>,
                            !.motion = a.motion - d, !.moved = v]
  <2>1. a.queue \in Queue /\ a.motion \in -MaxMotion..MaxMotion
    BY DEF Transceivers
  <2>2. d \in Int /\ a.motion - d \in -MaxMotion..MaxMotion
    BY <2>1, ClampedFits
  <2>3. TalkMouse(a, reg) = b
    BY <1>3 DEF TalkMouse, Emit, Transceivers
  <2>4. Motion(d) \in Bytes /\ Nothing \in Bytes /\ Key(Motion(d)) = << >> /\ Key(Nothing) = << >>
        /\ Move(Motion(d)) = d /\ Move(Nothing) = 0
    BY <2>2, NothingIsByte DEF Key, Move, IsKey, Motion, Nothing
  <2>5. Key(Motion(d)) \o Key(Nothing) \o << >> = a.queue
    BY <1>3, <2>4
  <2>6. v \in BOOLEAN /\ << >> \in Queue
    BY <1>3, <2>1
  <2> HIDE DEF d, v, b
  <2>7. Move(Motion(d)) + Move(Nothing) + (a.motion - d) = a.motion
    BY <2>1, <2>2, <2>4, AdbAssumption
  <2>8. Moves(a, b)
    BY <2>2, <2>4, <2>5, <2>6, <2>7, EmitTwo DEF b
  <2> QED
    BY <1>3, <2>3, <2>8
<1> QED
  BY <1>1, <1>2, <1>3

LEMMA AnswerMoves ==
  ASSUME NEW a \in Transceivers, a.unread = << >>
  PROVE  Moves(a, Answer(a)) /\ (a.cmd.reg = "info" => Answer(a).unread # << >>)
<1>1. a.cmd.reg \in {"zero", "info"}
  BY DEF Transceivers, Commands
<1> QED
  BY <1>1, TalkKeyboardMoves, TalkMouseMoves DEF Answer

-----------------------------------------------------------------------------
(* What is on its way to the guest                                         *)

Flight(g, f, s, u) ==
  (IF g.pc = "second" THEN << g.first >> ELSE << >>)
    \o (IF f /\ g.pc \in {"first", "second"} THEN << s >> ELSE << >>) \o u

LEMMA FlightIs == InFlight = Flight(guest, flag, sr, adb.unread)
BY DEF InFlight, Flight

LEMMA FlightElsewhere ==
  ASSUME NEW g, NEW f \in BOOLEAN, NEW s, NEW u \in Seq(Bytes), g.pc # "second", g.pc = "first" => ~f
  PROVE  Flight(g, f, s, u) = u
<1>1. << >> \o << >> = << >> /\ << >> \o u = u
  BY ConcatEmptySeq
<1> QED
  BY <1>1 DEF Flight

LEMMA FlightFirst ==
  ASSUME NEW g, NEW f \in BOOLEAN, f, NEW s \in Bytes, NEW u \in Seq(Bytes), g.pc = "first"
  PROVE  Flight(g, f, s, u) = << s >> \o u
<1>1. << >> \o << s >> = << s >>
  BY ConcatEmptySeq
<1> QED
  BY <1>1 DEF Flight

LEMMA FlightSecond ==
  ASSUME NEW g, NEW s, NEW u \in Seq(Bytes), g.pc = "second", g.first \in Bytes
  PROVE  Flight(g, FALSE, s, u) = << g.first >> \o u
<1>1. << g.first >> \o << >> = << g.first >>
  BY ConcatEmptySeq
<1> QED
  BY <1>1 DEF Flight

LEMMA FlightLast ==
  ASSUME NEW g, NEW s \in Bytes, g.pc = "second", g.first \in Bytes
  PROVE  Flight(g, TRUE, s, << >>) = << g.first, s >>
<1>1. << g.first >> \o << s >> = << g.first, s >> /\ << g.first, s >> \o << >> = << g.first, s >>
  <2>1. << g.first, s >> \in Seq(Bytes)
    OBVIOUS
  <2> QED
    BY <2>1, PairOfTwo, ConcatEmptySeq
<1> QED
  BY <1>1 DEF Flight

\* The next byte and those behind it.
LEMMA HeadFirst ==
  ASSUME NEW u \in Response, u # << >>
  PROVE  /\ Head(u) \in Bytes /\ Tail(u) \in Response /\ Len(Tail(u)) = Len(u) - 1
         /\ << Head(u) >> \o Tail(u) = u
<1>1. u \in Seq(Bytes) /\ Len(u) \in Nat /\ Len(u) <= 2
  BY DEF Response
<1>2. /\ Head(u) \in Bytes /\ Tail(u) \in Seq(Bytes) /\ Len(Tail(u)) = Len(u) - 1
      /\ \A i \in 1..Len(Tail(u)) : Tail(u)[i] = u[i + 1]
  BY <1>1, HeadTailProperties
<1>3. Len(u) # 0 /\ Head(u) = u[1]
  BY <1>1, EmptySeq
<1> DEFINE w == << Head(u) >> \o Tail(u)
<1>4. << Head(u) >> \in Seq(Bytes) /\ Len(<< Head(u) >>) = 1 /\ << Head(u) >>[1] = Head(u)
  BY <1>2
<1>5. w \in Seq(Bytes) /\ Len(w) = Len(u) /\ \A i \in 1..Len(u) : w[i] = u[i]
  BY <1>1, <1>2, <1>3, <1>4, ConcatProperties
<1> HIDE DEF w
<1>6. w = u
  BY <1>1, <1>5, SeqEqual
<1>7. Tail(u) \in Response
  BY <1>1, <1>2 DEF Response
<1> QED
  BY <1>2, <1>6, <1>7 DEF w

Conserved(fl, q, m, d, o) == Len(fl) <= 2 /\ KeysIn(fl) \o q = d /\ MotionIn(fl) + m = o

LEMMA ConservedIs == InputIsConserved <=> Conserved(InFlight, adb.queue, adb.motion, due, motionDue)
BY DEF InputIsConserved, Conserved

\* The bytes that a lone empty byte stands for.
LEMMA NothingCarried == KeysIn(<< Nothing >>) = << >> /\ MotionIn(<< Nothing >>) = 0
BY NothingIsByte, OneByte DEF Key, IsKey, Move, Nothing

-----------------------------------------------------------------------------
(* The parts of the invariant                                              *)

LEMMA BusTyped ==
  AdbTypeOK =>
    /\ adb \in Transceivers /\ guest \in Guests /\ sr \in Bytes \cup Commands
    /\ pump \in {"none", "in", "out"} /\ flag \in BOOLEAN /\ polled \in BOOLEAN
    /\ streak \in 0..WakeLimit /\ idle \in 0..(WakeLimit + 2) /\ typed \in 0..MaxTyped /\ asked \in 0..MaxAsked
    /\ due \in Seq(Transitions) /\ motionDue \in Int
BY DEF AdbTypeOK, Transceivers, Guests, Pcs

LEMMA TypedThen ==
  ASSUME adb' \in Transceivers, guest' \in Guests, sr' \in Bytes \cup Commands,
         pump' \in {"none", "in", "out"}, flag' \in BOOLEAN, polled' \in BOOLEAN, streak' \in 0..WakeLimit,
         idle' \in 0..(WakeLimit + 2), typed' \in 0..MaxTyped, asked' \in 0..MaxAsked,
         due' \in Seq(Transitions), motionDue' \in Int
  PROVE  AdbTypeOK'
BY DEF AdbTypeOK, Transceivers, Guests, Pcs

LEMMA StateIs ==
  /\ StateOf["idle"] = 3 /\ StateOf["command"] = 0 /\ StateOf["dip"] = 3 /\ StateOf["first"] = 1
  /\ StateOf["second"] = 2 /\ StateOf["data1"] = 1 /\ StateOf["data2"] = 2 /\ StateOf["spin"] = 3
BY DEF StateOf, Pcs

\* The fields of the transceiver and of the guest.
LEMMA Fields ==
  ASSUME NEW a \in Transceivers
  PROVE  /\ a.state \in 0..3 /\ a.cmd \in Commands /\ a.unread \in Response /\ a.int \in BOOLEAN
         /\ a.listening \in BOOLEAN /\ a.staged \in BOOLEAN /\ a.held \in SUBSET Keys /\ a.queue \in Queue
         /\ a.motion \in Int /\ a.moved \in BOOLEAN /\ a.unread \in Seq(Bytes) /\ a.queue \in Seq(Transitions)
         /\ a.cmd.op \in {"talk", "listen", "flush"}
BY DEF Transceivers, Response, Queue, Commands

\* a, but for its state and /INT, in state st.
Stated(a, st, b) ==
  /\ b \in Transceivers /\ b.state = st /\ b.int = TRUE /\ b.cmd = a.cmd /\ b.unread = a.unread
  /\ b.listening = a.listening /\ b.staged = a.staged /\ b.queue = a.queue /\ b.motion = a.motion

LEMMA StateSet ==
  ASSUME NEW a \in Transceivers, NEW st \in 0..3
  PROVE  Stated(a, st, SetState(a, st))
<1> DEFINE b == [a EXCEPT !.state = st, !.int = TRUE]
<1>1. /\ b \in Transceivers /\ b.state = st /\ b.int = TRUE /\ b.cmd = a.cmd /\ b.unread = a.unread
      /\ b.listening = a.listening /\ b.staged = a.staged /\ b.queue = a.queue /\ b.motion = a.motion
  BY DEF Transceivers
<1>2. SetState(a, st) = b
  BY DEF SetState
<1> HIDE DEF b
<1> QED
  BY <1>1, <1>2 DEF Stated

LEMMA GuestAt ==
  ASSUME NEW g \in Guests, NEW pc \in Pcs, NEW w \in SUBSET Devices, NEW f \in Bytes,
         NEW h, h = [g EXCEPT !.pc = pc, !.first = f, !.sweep = w]
  PROVE  h \in Guests /\ h.pc = pc /\ h.first = f /\ h.sweep = w
BY DEF Guests

LEMMA GuestGoes ==
  ASSUME NEW g \in Guests, NEW pc \in Pcs, NEW h, h = [g EXCEPT !.pc = pc]
  PROVE  h \in Guests /\ h.pc = pc /\ h.first = g.first /\ h.sweep = g.sweep
BY DEF Guests

\* What was on its way still is.
LEMMA Undisturbed ==
  ASSUME InputIsConserved, Flight(guest', flag', sr', adb'.unread) = Flight(guest, flag, sr, adb.unread),
         adb'.queue = adb.queue, adb'.motion = adb.motion, due' = due, motionDue' = motionDue
  PROVE  InputIsConserved'
<1>1. InFlight = Flight(guest, flag, sr, adb.unread) /\ InFlight' = Flight(guest', flag', sr', adb'.unread)
  BY DEF InFlight, Flight
<1>2. InFlight' = InFlight
  BY <1>1
<1> QED
  BY <1>2 DEF InputIsConserved

LEMMA ConservedThen ==
  ASSUME Conserved(Flight(guest', flag', sr', adb'.unread), adb'.queue, adb'.motion, due', motionDue')
  PROVE  InputIsConserved'
<1>1. InFlight' = Flight(guest', flag', sr', adb'.unread)
  BY DEF InFlight, Flight
<1> QED
  BY <1>1 DEF InputIsConserved, Conserved

-----------------------------------------------------------------------------
(* The invariant holds at first                                            *)

LEMMA StartKept == AdbInit => AInv
<1> SUFFICES ASSUME AdbInit PROVE AInv
  OBVIOUS
<1>1. /\ adb = [state |-> 3, cmd |-> NoCommand, unread |-> << >>, int |-> TRUE, listening |-> FALSE,
                staged |-> FALSE, held |-> {}, queue |-> << >>, motion |-> 0, moved |-> FALSE]
      /\ pump = "none" /\ sr = Nothing /\ flag = FALSE /\ streak = 0 /\ polled = FALSE
      /\ guest = [pc |-> "spin", first |-> Nothing, sweep |-> {}]
      /\ due = << >> /\ motionDue = 0 /\ idle = 0 /\ typed = 0 /\ asked = 0
  BY DEF AdbInit, ResetAdb
<1>2. NoCommand \in Commands /\ NoCommand.op = "flush"
  BY DEF NoCommand, Commands, Devices
<1>3. << >> \in Queue /\ << >> \in Response /\ << >> \in Seq(Transitions) /\ 0 \in -MaxMotion..MaxMotion
  <2>1. Len(<< >>) = 0 /\ << >> \in Seq(Transitions) /\ << >> \in Seq(Bytes)
    OBVIOUS
  <2> QED
    BY <2>1, AdbAssumption DEF Queue, Response
<1>4. AdbTypeOK
  <2>1. adb \in Transceivers
    BY <1>1, <1>2, <1>3 DEF Transceivers
  <2>2. guest \in Guests /\ sr \in Bytes \cup Commands
    BY <1>1, NothingIsByte DEF Guests, Pcs
  <2>3. streak \in 0..WakeLimit /\ idle \in 0..(WakeLimit + 2) /\ typed \in 0..MaxTyped /\ asked \in 0..MaxAsked
    BY <1>1, AdbAssumption
  <2>4. pump \in {"none", "in", "out"} /\ flag \in BOOLEAN /\ polled \in BOOLEAN
    BY <1>1
  <2>5. due \in Seq(Transitions) /\ motionDue \in Int
    BY <1>1, <1>3
  <2> QED
    BY <2>1, <2>2, <2>3, <2>4, <2>5 DEF AdbTypeOK, Transceivers, Guests, Pcs
<1>5. Placed
  <2>1. StateOf["spin"] = 3
    BY DEF StateOf, Pcs
  <2> QED
    BY <1>1, <1>2, <2>1 DEF Placed, Whole
<1>6. Noticed
  BY <1>1 DEF Noticed
<1>7. InputIsConserved
  <2>1. Flight(guest, flag, sr, adb.unread) = << >>
    BY <1>1 DEF Flight
  <2> QED
    BY <1>1, <2>1, FlightIs, NoByte DEF InputIsConserved
<1> QED
  BY <1>4, <1>5, <1>6, <1>7 DEF AInv

-----------------------------------------------------------------------------
(* The guest's steps                                                       *)

LEMMA DataStates == 1 \in {1, 2, 3} /\ 2 \in {1, 2, 3} /\ 3 \in {1, 2, 3}
OBVIOUS

LEMMA Entered ==
  ASSUME AdbTypeOK, NEW st \in {1, 2, 3}, Enter(st)
  PROVE  /\ adb' \in Transceivers /\ adb'.state = st /\ adb'.int = TRUE /\ adb'.cmd = adb.cmd
         /\ adb'.unread = adb.unread /\ adb'.listening = adb.listening /\ adb'.staged = adb.staged
         /\ adb'.queue = adb.queue /\ adb'.motion = adb.motion
         /\ pump' \in {"none", "in", "out"}
         /\ st \in {1, 2} /\ ~adb.listening => pump' = "in"
         /\ st = 3 => pump' = IF adb.unread = << >> THEN "none" ELSE "in"
<1>1. adb \in Transceivers /\ pump \in {"none", "in", "out"}
  BY BusTyped
<1>2. adb' = SetState(adb, st) /\ pump' = Pumped(adb, st)
  BY DEF Enter
<1>3. /\ adb' \in Transceivers /\ adb'.state = st /\ adb'.int = TRUE /\ adb'.cmd = adb.cmd
      /\ adb'.unread = adb.unread /\ adb'.listening = adb.listening /\ adb'.staged = adb.staged
      /\ adb'.queue = adb.queue /\ adb'.motion = adb.motion
  <2>1. st \in 0..3
    OBVIOUS
  <2>2. adb' = SetState(adb, st)
    BY <1>2
  <2>3. Stated(adb, st, adb')
    BY <1>1, <2>1, <2>2, StateSet
  <2> QED
    BY <2>3 DEF Stated
<1>4. Pumped(adb, st) \in {"none", "in", "out"}
  BY <1>1 DEF Pumped
<1>5. st \in {1, 2} /\ ~adb.listening => Pumped(adb, st) = "in"
  BY DEF Pumped
<1>6. st = 3 => Pumped(adb, st) = IF adb.unread = << >> THEN "none" ELSE "in"
  BY DEF Pumped, ResponsePending
<1> QED
  BY <1>2, <1>3, <1>4, <1>5, <1>6

\* What a step of the guest that reads nothing leaves as it was.
LEMMA GuestKept ==
  ASSUME AInv, Act, adb' \in Transceivers, guest' \in Guests, pump' \in {"none", "in", "out"}, flag' \in BOOLEAN,
         sr' \in Bytes \cup Commands, due' = due, motionDue' = motionDue
  PROVE  AdbTypeOK'
<1>1. AdbTypeOK
  BY DEF AInv
<1>2. streak' \in 0..WakeLimit /\ typed' \in 0..MaxTyped /\ asked' \in 0..MaxAsked
  BY <1>1, BusTyped DEF Act
<1>3. idle' \in 0..(WakeLimit + 2)
  BY AdbAssumption DEF Act
<1>4. polled' \in BOOLEAN /\ due' \in Seq(Transitions) /\ motionDue' \in Int
  BY <1>1, BusTyped DEF Act
<1> QED
  BY <1>2, <1>3, <1>4, TypedThen

\* The bytes of a response stay in the transceiver.
LEMMA Carried ==
  ASSUME AInv, flag' \in BOOLEAN, guest.pc # "second", guest.pc = "first" => ~flag,
         guest'.pc # "second", guest'.pc = "first" => ~flag',
         adb'.unread = adb.unread, adb'.queue = adb.queue, adb'.motion = adb.motion,
         due' = due, motionDue' = motionDue
  PROVE  InputIsConserved'
<1>1. AdbTypeOK /\ InputIsConserved
  BY DEF AInv
<1>2. flag \in BOOLEAN /\ adb.unread \in Seq(Bytes)
  BY <1>1, BusTyped, Fields
<1>3. Flight(guest, flag, sr, adb.unread) = adb.unread
  BY <1>2, FlightElsewhere
<1>4. Flight(guest', flag', sr', adb.unread) = adb.unread
  BY <1>2, FlightElsewhere
<1> QED
  BY <1>1, <1>3, <1>4, Undisturbed

\* What the steps of the guest start from.
LEMMA Before ==
  AInv => /\ AdbTypeOK /\ Placed /\ Noticed /\ InputIsConserved
          /\ adb \in Transceivers /\ guest \in Guests /\ sr \in Bytes \cup Commands /\ flag \in BOOLEAN
          /\ pump \in {"none", "in", "out"} /\ guest.sweep \in SUBSET Devices /\ guest.first \in Bytes
          /\ guest.pc \in Pcs /\ adb.unread \in Seq(Bytes) /\ adb.unread \in Response
          /\ adb.cmd.op \in {"talk", "listen", "flush"} /\ adb.listening \in BOOLEAN
<1>1. AdbTypeOK => guest.sweep \in SUBSET Devices /\ guest.first \in Bytes /\ guest.pc \in Pcs
  BY BusTyped DEF Guests
<1> QED
  BY <1>1, BusTyped, Fields DEF AInv

LEMMA ReadAtOnceKept == AInv /\ ReadAtOnce => AInv'
<1> SUFFICES ASSUME AInv, ReadAtOnce PROVE AInv'
  OBVIOUS
<1>1. AdbTypeOK /\ Placed /\ Noticed
  BY Before
<1>2. guest \in Guests /\ sr \in Bytes \cup Commands
  BY Before
<1>3. /\ guest.pc = "command" /\ flag /\ adb.cmd.op = "talk" /\ Enter(1) /\ ~flag'
      /\ guest' = [guest EXCEPT !.pc = "first"] /\ Act /\ sr' = sr /\ due' = due /\ motionDue' = motionDue
      /\ streak' = streak /\ polled' = polled /\ flag' \in BOOLEAN
  BY DEF ReadAtOnce, Goto, Act
<1>4. guest' \in Guests /\ guest'.pc = "first" /\ guest'.first = guest.first /\ guest'.sweep = guest.sweep
  BY <1>2, <1>3, GuestGoes DEF Pcs
<1>5. ~adb.listening /\ Whole(adb.unread)
  BY <1>1, <1>3 DEF Placed
<1>6. /\ adb' \in Transceivers /\ adb'.state = 1 /\ adb'.int = TRUE /\ adb'.cmd = adb.cmd
      /\ adb'.unread = adb.unread /\ adb'.listening = adb.listening /\ adb'.staged = adb.staged
      /\ adb'.queue = adb.queue /\ adb'.motion = adb.motion /\ pump' = "in"
  BY <1>1, <1>3, <1>5, DataStates, Entered
<1>7. AdbTypeOK'
  BY <1>2, <1>3, <1>4, <1>6, GuestKept
<1>8. Placed'
  BY <1>3, <1>4, <1>5, <1>6, StateIs DEF Placed
<1>9. Noticed'
  BY <1>1, <1>3, <1>4 DEF Noticed
<1>10. InputIsConserved'
  BY <1>3, <1>4, <1>6, Carried
<1> QED
  BY <1>7, <1>8, <1>9, <1>10 DEF AInv

LEMMA DipKept == AInv /\ Dip => AInv'
<1> SUFFICES ASSUME AInv, Dip PROVE AInv'
  OBVIOUS
<1>1. AdbTypeOK /\ Placed /\ Noticed
  BY Before
<1>2. guest \in Guests /\ sr \in Bytes \cup Commands
  BY Before
<1>3. /\ guest.pc = "command" /\ flag /\ adb.cmd.op = "talk" /\ Enter(3) /\ ~flag'
      /\ guest' = [guest EXCEPT !.pc = "dip"] /\ Act /\ sr' = sr /\ due' = due /\ motionDue' = motionDue
      /\ streak' = streak /\ polled' = polled /\ flag' \in BOOLEAN
  BY DEF Dip, Goto, Act
<1>4. guest' \in Guests /\ guest'.pc = "dip" /\ guest'.first = guest.first /\ guest'.sweep = guest.sweep
  BY <1>2, <1>3, GuestGoes DEF Pcs
<1>5. ~adb.listening /\ Whole(adb.unread)
  BY <1>1, <1>3 DEF Placed
<1>6. /\ adb' \in Transceivers /\ adb'.state = 3 /\ adb'.int = TRUE /\ adb'.cmd = adb.cmd
      /\ adb'.unread = adb.unread /\ adb'.listening = adb.listening /\ adb'.staged = adb.staged
      /\ adb'.queue = adb.queue /\ adb'.motion = adb.motion
      /\ pump' = IF adb.unread = << >> THEN "none" ELSE "in"
  BY <1>1, <1>3, DataStates, Entered
<1>7. AdbTypeOK'
  <2>1. pump' \in {"none", "in", "out"}
    BY <1>6
  <2> QED
    BY <1>2, <1>3, <1>4, <1>6, <2>1, GuestKept
<1>8. Placed'
  BY <1>3, <1>4, <1>5, <1>6, StateIs DEF Placed
<1>9. Noticed'
  BY <1>1, <1>3, <1>4, <1>6 DEF Noticed, Recent
<1>10. InputIsConserved'
  BY <1>3, <1>4, <1>6, Carried
<1> QED
  BY <1>7, <1>8, <1>9, <1>10 DEF AInv

LEMMA ReadAfterDipKept == AInv /\ ReadAfterDip => AInv'
<1> SUFFICES ASSUME AInv, ReadAfterDip PROVE AInv'
  OBVIOUS
<1>1. AdbTypeOK /\ Placed /\ Noticed
  BY Before
<1>2. guest \in Guests /\ sr \in Bytes \cup Commands
  BY Before
<1>3. /\ guest.pc = "dip" /\ flag /\ Enter(1) /\ ~flag'
      /\ guest' = [guest EXCEPT !.pc = "first"] /\ Act /\ sr' = sr /\ due' = due /\ motionDue' = motionDue
      /\ streak' = streak /\ polled' = polled /\ flag' \in BOOLEAN
  BY DEF ReadAfterDip, Goto, Act
<1>4. guest' \in Guests /\ guest'.pc = "first" /\ guest'.first = guest.first /\ guest'.sweep = guest.sweep
  BY <1>2, <1>3, GuestGoes DEF Pcs
<1>5. ~adb.listening /\ Whole(adb.unread)
  BY <1>1, <1>3 DEF Placed
<1>6. /\ adb' \in Transceivers /\ adb'.state = 1 /\ adb'.int = TRUE /\ adb'.cmd = adb.cmd
      /\ adb'.unread = adb.unread /\ adb'.listening = adb.listening /\ adb'.staged = adb.staged
      /\ adb'.queue = adb.queue /\ adb'.motion = adb.motion /\ pump' = "in"
  BY <1>1, <1>3, <1>5, DataStates, Entered
<1>7. AdbTypeOK'
  BY <1>2, <1>3, <1>4, <1>6, GuestKept
<1>8. Placed'
  BY <1>1, <1>3, <1>4, <1>5, <1>6, StateIs DEF Placed
<1>9. Noticed'
  BY <1>1, <1>3, <1>4 DEF Noticed
<1>10. InputIsConserved'
  BY <1>3, <1>4, <1>6, Carried
<1> QED
  BY <1>7, <1>8, <1>9, <1>10 DEF AInv

LEMMA GiveUpDipKept == AInv /\ GiveUpDip => AInv'
<1> SUFFICES ASSUME AInv, GiveUpDip PROVE AInv'
  OBVIOUS
<1>1. AdbTypeOK /\ Placed /\ Noticed
  BY Before
<1>2. guest \in Guests /\ sr \in Bytes \cup Commands /\ adb \in Transceivers /\ flag \in BOOLEAN
      /\ pump \in {"none", "in", "out"}
  BY Before
<1>3. /\ guest.pc = "dip" /\ ~flag /\ pump = "none" /\ adb' = adb /\ pump' = pump /\ flag' = flag
      /\ guest' = [guest EXCEPT !.pc = "idle"] /\ Act /\ sr' = sr /\ due' = due /\ motionDue' = motionDue
      /\ streak' = streak /\ polled' = polled
  BY DEF GiveUpDip, Goto, Act
<1>4. guest' \in Guests /\ guest'.pc = "idle" /\ guest'.first = guest.first /\ guest'.sweep = guest.sweep
  BY <1>2, <1>3, GuestGoes DEF Pcs
<1>7. AdbTypeOK'
  BY <1>2, <1>3, <1>4, GuestKept
<1>8. Placed'
  BY <1>1, <1>3, <1>4, StateIs DEF Placed
<1>9. Noticed'
  BY <1>1, <1>3, <1>4 DEF Noticed
<1>10. InputIsConserved'
  BY <1>2, <1>3, <1>4, Carried
<1> QED
  BY <1>7, <1>8, <1>9, <1>10 DEF AInv

LEMMA WrittenIn ==
  ASSUME AdbTypeOK, NEW st \in 0..3, NEW v, EnterAndWrite(st, v)
  PROVE  /\ adb' \in Transceivers /\ adb'.state = st /\ adb'.int = TRUE /\ adb'.cmd = adb.cmd
         /\ adb'.unread = adb.unread /\ adb'.listening = adb.listening /\ adb'.staged = adb.staged
         /\ adb'.queue = adb.queue /\ adb'.motion = adb.motion
         /\ pump' = "out" /\ sr' = v
<1>1. adb \in Transceivers /\ adb' = SetState(adb, st) /\ pump' = "out" /\ sr' = v
  BY BusTyped DEF EnterAndWrite
<1>2. Stated(adb, st, adb')
  BY <1>1, StateSet
<1> QED
  BY <1>1, <1>2 DEF Stated

\* Data of a Listen: the guest goes to the next byte, which is shifted out.
LEMMA SendDataKept ==
  ASSUME AInv, NEW pc \in {"command", "data1"}, NEW st \in {1, 2}, NEW next \in {"data1", "data2"},
         st = StateOf[next], adb.unread = << >>, SendData(pc, st, next)
  PROVE  AInv'
<1>1. AdbTypeOK /\ Placed /\ Noticed
  BY Before
<1>2. guest \in Guests /\ adb.cmd.op \in {"talk", "listen", "flush"}
  BY Before
<1>3. /\ guest.pc = pc /\ flag /\ EnterAndWrite(st, Nothing) /\ ~flag'
      /\ guest' = [guest EXCEPT !.pc = next] /\ Act /\ due' = due /\ motionDue' = motionDue
      /\ streak' = streak /\ polled' = polled /\ flag' \in BOOLEAN
  BY DEF SendData, Goto, Act
<1>4. guest' \in Guests /\ guest'.pc = next /\ guest'.first = guest.first /\ guest'.sweep = guest.sweep
  <2>1. next \in Pcs
    BY DEF Pcs
  <2> QED
    BY <1>2, <1>3, <2>1, GuestGoes
<1>6. /\ adb' \in Transceivers /\ adb'.state = st /\ adb'.int = TRUE /\ adb'.cmd = adb.cmd
      /\ adb'.unread = adb.unread /\ adb'.listening = adb.listening /\ adb'.staged = adb.staged
      /\ adb'.queue = adb.queue /\ adb'.motion = adb.motion /\ pump' = "out" /\ sr' = Nothing
  <2>1. st \in 0..3
    OBVIOUS
  <2> QED
    BY <1>1, <1>3, <2>1, WrittenIn
<1>7. AdbTypeOK'
  <2>1. sr' \in Bytes \cup Commands /\ pump' \in {"none", "in", "out"}
    BY <1>6, NothingIsByte
  <2> QED
    BY <1>3, <1>4, <1>6, <2>1, GuestKept
<1>8. Placed'
  BY <1>1, <1>3, <1>4, <1>6, StateIs DEF Placed, Whole
<1>9. Noticed'
  BY <1>1, <1>3, <1>4 DEF Noticed
<1>10. InputIsConserved'
  BY <1>3, <1>4, <1>6, Carried
<1> QED
  BY <1>7, <1>8, <1>9, <1>10 DEF AInv

LEMMA ListenKept == AInv /\ Listen => AInv'
<1> SUFFICES ASSUME AInv, Listen PROVE AInv'
  OBVIOUS
<1>1. adb.cmd.op = "listen" /\ SendData("command", 1, "data1")
  BY DEF Listen
<1>2. adb.unread = << >>
  BY <1>1, Before DEF Placed
<1> QED
  BY <1>1, <1>2, StateIs, SendDataKept

LEMMA DataKept == AInv /\ SendData("data1", 2, "data2") => AInv'
<1> SUFFICES ASSUME AInv, SendData("data1", 2, "data2") PROVE AInv'
  OBVIOUS
<1>1. guest.pc = "data1"
  BY DEF SendData
<1>2. adb.unread = << >>
  BY <1>1, Before DEF Placed
<1> QED
  BY <1>2, StateIs, SendDataKept

LEMMA EndKept == AInv /\ End => AInv'
<1> SUFFICES ASSUME AInv, End PROVE AInv'
  OBVIOUS
<1>1. AdbTypeOK /\ Placed /\ Noticed
  BY Before
<1>2. guest \in Guests /\ sr \in Bytes \cup Commands
  BY Before
<1>3. /\ guest.pc = "data2" \/ (guest.pc = "command" /\ adb.cmd.op = "flush")
      /\ flag /\ Enter(3) /\ ~flag'
      /\ guest' = [guest EXCEPT !.pc = "idle"] /\ Act /\ sr' = sr /\ due' = due /\ motionDue' = motionDue
      /\ streak' = streak /\ polled' = polled /\ flag' \in BOOLEAN
  BY DEF End, Goto, Act
<1>4. guest' \in Guests /\ guest'.pc = "idle" /\ guest'.first = guest.first /\ guest'.sweep = guest.sweep
  BY <1>2, <1>3, GuestGoes DEF Pcs
<1>5. adb.unread = << >>
  BY <1>1, <1>3 DEF Placed
<1>6. /\ adb' \in Transceivers /\ adb'.state = 3 /\ adb'.int = TRUE /\ adb'.cmd = adb.cmd
      /\ adb'.unread = adb.unread /\ adb'.listening = adb.listening /\ adb'.staged = adb.staged
      /\ adb'.queue = adb.queue /\ adb'.motion = adb.motion /\ pump' = "none"
  BY <1>1, <1>3, <1>5, DataStates, Entered
<1>7. AdbTypeOK'
  BY <1>2, <1>3, <1>4, <1>6, GuestKept
<1>8. Placed'
  BY <1>1, <1>3, <1>4, <1>5, <1>6, StateIs DEF Placed, Whole
<1>9. Noticed'
  BY <1>1, <1>3, <1>4 DEF Noticed
<1>10. InputIsConserved'
  BY <1>3, <1>4, <1>6, Carried
<1> QED
  BY <1>7, <1>8, <1>9, <1>10 DEF AInv

LEMMA TakeWakeKept == AInv /\ TakeWake => AInv'
<1> SUFFICES ASSUME AInv, TakeWake PROVE AInv'
  OBVIOUS
<1>1. AdbTypeOK /\ Placed /\ Noticed
  BY Before
<1>2. guest \in Guests /\ sr \in Bytes \cup Commands /\ adb \in Transceivers /\ pump \in {"none", "in", "out"}
      /\ Devices \in SUBSET Devices /\ Devices # {} /\ guest.first \in Bytes
  BY Before DEF Devices
<1>3. /\ guest.pc = "idle" /\ flag /\ ~flag'
      /\ Act /\ sr' = sr /\ due' = due /\ motionDue' = motionDue /\ flag' \in BOOLEAN
  BY DEF TakeWake
<1>a. CASE adb.listening
  <2>1. adb' = adb /\ pump' = pump /\ guest' = [guest EXCEPT !.sweep = Devices]
    BY <1>a DEF TakeWake
  <2>2. guest' \in Guests /\ guest'.pc = "idle" /\ guest'.sweep = Devices
    BY <1>2, <1>3, <2>1 DEF Guests
  <2>3. AdbTypeOK'
    BY <1>2, <1>3, <2>1, <2>2, GuestKept
  <2>4. Placed'
    BY <1>1, <1>3, <1>a, <2>1, <2>2, StateIs DEF Placed
  <2>5. Noticed'
    BY <1>2, <1>3, <2>2 DEF Noticed
  <2>6. InputIsConserved'
    BY <1>3, <2>1, <2>2, Carried
  <2> QED
    BY <2>3, <2>4, <2>5, <2>6 DEF AInv
<1>b. CASE ~adb.listening
  <2>1. Enter(1) /\ guest' = [guest EXCEPT !.pc = "first", !.sweep = Devices]
    BY <1>b DEF TakeWake
  <2>2. guest' \in Guests /\ guest'.pc = "first" /\ guest'.sweep = Devices
    BY <1>2, <2>1 DEF Guests, Pcs
  <2>3. Whole(adb.unread)
    BY <1>1, <1>3 DEF Placed
  <2>4. /\ adb' \in Transceivers /\ adb'.state = 1 /\ adb'.int = TRUE /\ adb'.cmd = adb.cmd
        /\ adb'.unread = adb.unread /\ adb'.listening = adb.listening /\ adb'.staged = adb.staged
        /\ adb'.queue = adb.queue /\ adb'.motion = adb.motion /\ pump' = "in"
    BY <1>1, <1>b, <2>1, DataStates, Entered
  <2>5. AdbTypeOK'
    BY <1>2, <1>3, <2>2, <2>4, GuestKept
  <2>6. Placed'
    BY <1>1, <1>3, <1>b, <2>2, <2>3, <2>4, StateIs DEF Placed
  <2>7. Noticed'
    BY <1>2, <1>3, <2>2 DEF Noticed
  <2>8. InputIsConserved'
    BY <1>3, <2>2, <2>4, Carried
  <2> QED
    BY <2>5, <2>6, <2>7, <2>8 DEF AInv
<1> QED
  BY <1>a, <1>b

LEMMA ReadFirstKept == AInv /\ ReadFirst => AInv'
<1> SUFFICES ASSUME AInv, ReadFirst PROVE AInv'
  OBVIOUS
<1>1. AdbTypeOK /\ Placed /\ Noticed /\ InputIsConserved
  BY Before
<1>2. guest \in Guests /\ sr \in Bytes \cup Commands /\ adb \in Transceivers /\ adb.int \in BOOLEAN
      /\ adb.unread \in Seq(Bytes) /\ guest.sweep \in SUBSET Devices /\ flag \in BOOLEAN
  BY Before, Fields
<1>3. /\ guest.pc = "first" /\ flag /\ ~flag' /\ flag = TRUE /\ flag' = FALSE
      /\ Act /\ sr' = sr /\ due' = due /\ motionDue' = motionDue /\ flag' \in BOOLEAN
      /\ streak' = streak /\ polled' = polled
  BY <1>2 DEF ReadFirst, Act
<1>a. CASE adb.int
  <2>1. Enter(2) /\ guest' = [guest EXCEPT !.pc = "second", !.first = sr]
    BY <1>a DEF ReadFirst
  <2>3. Len(adb.unread) = 1 /\ sr \in Bytes /\ ~adb.listening
    <3>1. Len(adb.unread) = 1 /\ sr \in Bytes /\ (adb.listening => adb.unread = << >>)
      BY <1>1, <1>3, <1>a DEF Placed
    <3>2. Len(<< >>) = 0
      OBVIOUS
    <3> QED
      BY <3>1, <3>2
  <2>2. guest' \in Guests /\ guest'.pc = "second" /\ guest'.sweep = guest.sweep /\ guest'.first = sr
    BY <1>2, <2>1, <2>3 DEF Guests, Pcs
  <2>4. /\ adb' \in Transceivers /\ adb'.state = 2 /\ adb'.int = TRUE /\ adb'.cmd = adb.cmd
        /\ adb'.unread = adb.unread /\ adb'.listening = adb.listening /\ adb'.staged = adb.staged
        /\ adb'.queue = adb.queue /\ adb'.motion = adb.motion /\ pump' = "in"
    BY <1>1, <2>1, <2>3, DataStates, Entered
  <2>5. AdbTypeOK'
    BY <1>2, <1>3, <2>2, <2>4, GuestKept
  <2>6. Placed'
    BY <1>1, <1>3, <2>2, <2>3, <2>4, StateIs DEF Placed
  <2>7. Noticed'
    BY <1>1, <1>3, <2>2 DEF Noticed
  <2>8. InputIsConserved'
    <3>1. Flight(guest, flag, sr, adb.unread) = << sr >> \o adb.unread
      BY <1>2, <1>3, <2>3, FlightFirst
    <3>2. Flight(guest', flag', sr', adb'.unread) = << sr >> \o adb.unread
      BY <1>2, <1>3, <2>2, <2>3, <2>4, FlightSecond
    <3> QED
      BY <1>1, <1>3, <2>4, <3>1, <3>2, Undisturbed
  <2> QED
    BY <2>5, <2>6, <2>7, <2>8 DEF AInv
<1>b. CASE ~adb.int
  <2>1. Enter(3) /\ guest' = [guest EXCEPT !.pc = "idle"]
    BY <1>b DEF ReadFirst, Goto
  <2>3. adb.unread = << >> /\ sr = Nothing
    BY <1>1, <1>3, <1>b DEF Placed
  <2>2. guest' \in Guests /\ guest'.pc = "idle" /\ guest'.sweep = guest.sweep
    BY <1>2, <2>1 DEF Guests, Pcs
  <2>4. /\ adb' \in Transceivers /\ adb'.state = 3 /\ adb'.int = TRUE /\ adb'.cmd = adb.cmd
        /\ adb'.unread = adb.unread /\ adb'.listening = adb.listening /\ adb'.staged = adb.staged
        /\ adb'.queue = adb.queue /\ adb'.motion = adb.motion /\ pump' = "none"
    BY <1>1, <2>1, <2>3, DataStates, Entered
  <2>5. AdbTypeOK'
    BY <1>2, <1>3, <2>2, <2>4, GuestKept
  <2>6. Placed'
    BY <1>1, <1>3, <2>2, <2>3, <2>4, StateIs DEF Placed, Whole
  <2>7. Noticed'
    BY <1>1, <1>3, <2>2 DEF Noticed
  <2>8. InputIsConserved'
    <3>1. Flight(guest, flag, sr, adb.unread) = << Nothing >>
      <4>1. << Nothing >> \o << >> = << Nothing >>
        BY NothingIsByte, ConcatEmptySeq
      <4> QED
        BY <1>2, <1>3, <2>3, <4>1, NothingIsByte, FlightFirst
    <3>2. Flight(guest', flag', sr', adb'.unread) = << >>
      <4>1. flag' \in BOOLEAN /\ adb'.unread = << >> /\ << >> \in Seq(Bytes)
        BY <1>3, <2>3, <2>4
      <4> QED
        BY <2>2, <4>1, FlightElsewhere
    <3>3. /\ KeysIn(<< Nothing >>) \o adb.queue = due /\ MotionIn(<< Nothing >>) + adb.motion = motionDue
      BY <1>1, <3>1, FlightIs DEF InputIsConserved
    <3>4. Conserved(<< >>, adb.queue, adb.motion, due, motionDue)
      BY <3>3, NoByte, NothingCarried DEF Conserved
    <3> QED
      BY <1>3, <2>4, <3>2, <3>4, ConservedThen
  <2> QED
    BY <2>5, <2>6, <2>7, <2>8 DEF AInv
<1> QED
  BY <1>a, <1>b

LEMMA RestOfConcat ==
  ASSUME NEW k \in Seq(Bytes), NEW q \in Seq(Bytes) PROVE Rest(k \o q, Len(k)) = q
<1> DEFINE w == k \o q
           r == SubSeq(w, Len(k) + 1, Len(w))
<1>1. /\ w \in Seq(Bytes) /\ Len(w) = Len(k) + Len(q) /\ Len(k) \in Nat /\ Len(q) \in Nat
      /\ \A i \in 1..Len(w) : w[i] = IF i <= Len(k) THEN k[i] ELSE q[i - Len(k)]
  BY ConcatProperties
<1> HIDE DEF w
<1>2. /\ r \in Seq(Bytes)
      /\ Len(r) = IF Len(k) + 1 <= Len(w) THEN Len(w) - (Len(k) + 1) + 1 ELSE 0
      /\ \A i \in 1..(Len(w) - (Len(k) + 1) + 1) : r[i] = w[Len(k) + 1 + i - 1]
  <2>1. \A i \in (Len(k) + 1)..Len(w) : w[i] \in Bytes
    BY <1>1
  <2>2. Len(k) + 1 \in Int /\ Len(w) \in Int
    BY <1>1
  <2> QED
    BY <2>1, <2>2, SubSeqProperties
<1>3. Len(r) = Len(q) /\ \A i \in 1..Len(q) : r[i] = q[i]
  BY <1>1, <1>2
<1> HIDE DEF r
<1>4. r = q
  BY <1>2, <1>3, SeqEqual
<1> QED
  BY <1>4 DEF r, w, Rest

LEMMA ReadSecondKept == AInv /\ ReadSecond => AInv'
<1> SUFFICES ASSUME AInv, ReadSecond PROVE AInv'
  OBVIOUS
<1>1. AdbTypeOK /\ Placed /\ Noticed /\ InputIsConserved
  BY Before
<1>2. guest \in Guests /\ sr \in Bytes \cup Commands /\ adb \in Transceivers /\ guest.first \in Bytes
      /\ guest.sweep \in SUBSET Devices /\ flag \in BOOLEAN
  BY Before
<1>c. adb.queue \in Seq(Transitions) /\ adb.motion \in Int
  BY <1>2, Fields
<1>3. /\ guest.pc = "second" /\ flag /\ ~flag' /\ flag' \in BOOLEAN
      /\ Act /\ sr' = sr /\ Enter(3) /\ streak' = streak /\ polled' = polled
      /\ guest' = [guest EXCEPT !.pc = "idle", !.first = Nothing]
      /\ due' = Rest(due, Len(KeysIn(<< guest.first, sr >>)))
      /\ motionDue' = motionDue - MotionIn(<< guest.first, sr >>)
  BY DEF ReadSecond, Act
<1>4. guest' \in Guests /\ guest'.pc = "idle" /\ guest'.sweep = guest.sweep
  BY <1>2, <1>3, NothingIsByte DEF Guests, Pcs
<1>5. adb.unread = << >> /\ sr \in Bytes
  BY <1>1, <1>3 DEF Placed
<1>6. /\ adb' \in Transceivers /\ adb'.state = 3 /\ adb'.int = TRUE /\ adb'.cmd = adb.cmd
      /\ adb'.unread = adb.unread /\ adb'.listening = adb.listening /\ adb'.staged = adb.staged
      /\ adb'.queue = adb.queue /\ adb'.motion = adb.motion /\ pump' = "none"
  BY <1>1, <1>3, <1>5, DataStates, Entered
<1> DEFINE r == << guest.first, sr >>
<1>7. KeysIn(r) \o adb.queue = due /\ MotionIn(r) + adb.motion = motionDue
  <2>1. Flight(guest, flag, sr, adb.unread) = r
    <3>1. flag = TRUE
      BY <1>2, <1>3
    <3> QED
      BY <1>2, <1>3, <1>5, <3>1, FlightLast
  <2> QED
    BY <1>1, <2>1, FlightIs DEF InputIsConserved
<1>8. KeysIn(r) \in Seq(Bytes) /\ MotionIn(r) \in Int
  <2>1. KeysIn(r) = Key(guest.first) \o Key(sr) /\ MotionIn(r) = Move(guest.first) + Move(sr)
    BY <1>2, <1>5, TwoBytes
  <2>2. ASSUME NEW b \in Bytes PROVE Key(b) \in Seq(Bytes) /\ Move(b) \in Int
    <3>1. << b >> \in Seq(Bytes) /\ << >> \in Seq(Bytes) /\ b.n \in Int
      BY DEF Bytes
    <3> QED
      BY <3>1 DEF Key, Move
  <2>3. Key(guest.first) \in Seq(Bytes) /\ Key(sr) \in Seq(Bytes) /\ Move(guest.first) \in Int /\ Move(sr) \in Int
    BY <1>2, <1>5, <2>2
  <2>4. Key(guest.first) \o Key(sr) \in Seq(Bytes)
    BY <2>3, ConcatProperties
  <2>5. Move(guest.first) + Move(sr) \in Int
    BY <2>3
  <2> QED
    BY <2>1, <2>4, <2>5
<1> HIDE DEF r
<1>9. due' = adb.queue /\ motionDue' = adb.motion
  <2>1. adb.queue \in Seq(Bytes)
    BY <1>c, TransitionIsByte
  <2>2. due' = Rest(KeysIn(r) \o adb.queue, Len(KeysIn(r)))
    BY <1>3, <1>7 DEF r
  <2>3. due' = adb.queue
    BY <1>8, <2>1, <2>2, RestOfConcat
  <2>4. motionDue' = motionDue - MotionIn(r)
    BY <1>3 DEF r
  <2> QED
    BY <1>7, <1>8, <1>c, <2>3, <2>4
<1>10. AdbTypeOK'
  <2>1. streak' \in 0..WakeLimit /\ typed' \in 0..MaxTyped /\ asked' \in 0..MaxAsked /\ polled' \in BOOLEAN
    BY <1>1, <1>3, BusTyped DEF Act
  <2>2. idle' \in 0..(WakeLimit + 2)
    BY <1>3, AdbAssumption DEF Act
  <2>3. sr' \in Bytes \cup Commands /\ pump' \in {"none", "in", "out"} /\ flag' \in BOOLEAN
    BY <1>2, <1>3, <1>6
  <2>4. due' \in Seq(Transitions) /\ motionDue' \in Int
    BY <1>9, <1>c
  <2> QED
    BY <1>4, <1>6, <2>1, <2>2, <2>3, <2>4, TypedThen
<1>11. Placed'
  BY <1>1, <1>3, <1>4, <1>5, <1>6, StateIs DEF Placed, Whole
<1>12. Noticed'
  BY <1>1, <1>3, <1>4 DEF Noticed
<1>13. InputIsConserved'
  <2>1. Flight(guest', flag', sr', adb'.unread) = << >>
    <3>1. flag' \in BOOLEAN /\ adb'.unread = << >> /\ << >> \in Seq(Bytes)
      BY <1>3, <1>5, <1>6
    <3> QED
      BY <1>4, <3>1, FlightElsewhere
  <2>2. Conserved(<< >>, adb'.queue, adb'.motion, due', motionDue')
    <3>1. << >> \o adb.queue = adb.queue /\ Len(<< >>) <= 2
      BY <1>c, ConcatEmptySeq
    <3>2. 0 + adb.motion = adb.motion
      BY <1>c
    <3> QED
      BY <1>6, <1>9, <3>1, <3>2, NoByte DEF Conserved
  <2> QED
    BY <2>1, <2>2, ConservedThen
<1> QED
  BY <1>10, <1>11, <1>12, <1>13 DEF AInv

LEMMA EndSpinKept == AInv /\ EndSpin => AInv'
<1> SUFFICES ASSUME AInv, EndSpin PROVE AInv'
  OBVIOUS
<1>1. AdbTypeOK /\ Placed /\ Noticed
  BY Before
<1>2. guest \in Guests /\ sr \in Bytes \cup Commands /\ adb \in Transceivers /\ pump \in {"none", "in", "out"}
      /\ Devices \in SUBSET Devices /\ Devices # {} /\ flag \in BOOLEAN
  BY Before DEF Devices
<1>3. /\ guest.pc = "spin" /\ guest' = [guest EXCEPT !.pc = "idle", !.sweep = Devices] /\ Act
      /\ adb' = adb /\ pump' = pump /\ sr' = sr /\ flag' = flag /\ due' = due /\ motionDue' = motionDue
  BY DEF EndSpin
<1>4. guest' \in Guests /\ guest'.pc = "idle" /\ guest'.sweep = Devices
  BY <1>2, <1>3 DEF Guests, Pcs
<1>5. AdbTypeOK'
  BY <1>2, <1>3, <1>4, GuestKept
<1>6. Placed'
  BY <1>1, <1>3, <1>4, StateIs DEF Placed
<1>7. Noticed'
  BY <1>2, <1>4 DEF Noticed
<1>8. InputIsConserved'
  BY <1>2, <1>3, <1>4, Carried
<1> QED
  BY <1>5, <1>6, <1>7, <1>8 DEF AInv

LEMMA SweepKept == AInv /\ Sweep => AInv'
<1> SUFFICES ASSUME AInv, Sweep PROVE AInv'
  OBVIOUS
<1>1. AdbTypeOK /\ Placed /\ Noticed
  BY Before
<1>2. guest \in Guests /\ sr \in Bytes \cup Commands /\ adb \in Transceivers /\ pump \in {"none", "in", "out"}
      /\ Devices \in SUBSET Devices /\ Devices # {} /\ flag \in BOOLEAN
  BY Before DEF Devices
<1>3. /\ guest.pc = "idle" /\ guest' = [guest EXCEPT !.sweep = Devices] /\ Act
      /\ adb' = adb /\ pump' = pump /\ sr' = sr /\ flag' = flag /\ due' = due /\ motionDue' = motionDue
  BY DEF Sweep
<1>4. guest' \in Guests /\ guest'.pc = "idle" /\ guest'.sweep = Devices
  BY <1>2, <1>3 DEF Guests, Pcs
<1>5. AdbTypeOK'
  BY <1>2, <1>3, <1>4, GuestKept
<1>6. Placed'
  BY <1>1, <1>3, <1>4, StateIs DEF Placed
<1>7. Noticed'
  BY <1>2, <1>4 DEF Noticed
<1>8. InputIsConserved'
  BY <1>2, <1>3, <1>4, Carried
<1> QED
  BY <1>5, <1>6, <1>7, <1>8 DEF AInv

\* A command of the guest, asked' being what becomes of the count of its own.
LEMMA SendKept ==
  ASSUME AInv, NEW c \in Commands, Send(c), asked' \in 0..MaxAsked PROVE AInv'
<1>1. AdbTypeOK /\ Placed /\ Noticed
  BY Before
<1>2. guest \in Guests /\ guest.sweep \in SUBSET Devices
  BY Before
<1>3. /\ guest.pc = "idle" /\ ~flag /\ EnterAndWrite(0, c) /\ flag' = flag
      /\ guest' = [guest EXCEPT !.pc = "command", !.sweep = IF c \in Polls THEN @ \ {c.dev} ELSE @]
      /\ idle' = 0 /\ streak' = streak /\ polled' = polled /\ due' = due /\ motionDue' = motionDue /\ typed' = typed
  BY DEF Send
<1> DEFINE w == IF c \in Polls THEN guest.sweep \ {c.dev} ELSE guest.sweep
<1>4. guest' \in Guests /\ guest'.pc = "command" /\ guest'.sweep = w
  <2>1. guest' = [guest EXCEPT !.pc = "command", !.sweep = w]
    BY <1>2, <1>3 DEF Guests
  <2>2. w \in SUBSET Devices
    BY <1>2
  <2> HIDE DEF w
  <2> QED
    BY <1>2, <2>1, <2>2 DEF Guests, Pcs
<1>5. adb.unread = << >>
  BY <1>1, <1>3 DEF Placed
<1>6. /\ adb' \in Transceivers /\ adb'.state = 0 /\ adb'.int = TRUE /\ adb'.cmd = adb.cmd
      /\ adb'.unread = adb.unread /\ adb'.listening = adb.listening /\ adb'.staged = adb.staged
      /\ adb'.queue = adb.queue /\ adb'.motion = adb.motion /\ pump' = "out" /\ sr' = c
  <2>1. 0 \in 0..3
    OBVIOUS
  <2> QED
    BY <1>1, <1>3, <2>1, WrittenIn
<1>7. AdbTypeOK'
  <2>1. streak' \in 0..WakeLimit /\ typed' \in 0..MaxTyped /\ polled' \in BOOLEAN /\ flag' \in BOOLEAN
        /\ due' \in Seq(Transitions) /\ motionDue' \in Int
    BY <1>1, <1>3, BusTyped
  <2>2. idle' \in 0..(WakeLimit + 2)
    BY <1>3, AdbAssumption
  <2>3. sr' \in Bytes \cup Commands /\ pump' \in {"none", "in", "out"}
    BY <1>6
  <2> QED
    BY <1>4, <1>6, <2>1, <2>2, <2>3, TypedThen
<1>8. Placed'
  BY <1>1, <1>3, <1>4, <1>5, <1>6, StateIs DEF Placed, Whole
<1>9. Noticed'
  <2>1. CASE c \in Polls
    BY <1>3, <1>4, <1>6, <2>1 DEF Noticed
  <2>2. CASE c \notin Polls
    BY <1>1, <1>3, <1>4, <1>6, <2>2 DEF Noticed
  <2> QED
    BY <2>1, <2>2
<1>10. InputIsConserved'
  <2>1. flag' \in BOOLEAN
    BY <1>3, Before
  <2> QED
    BY <1>3, <1>4, <1>6, <2>1, Carried
<1> QED
  BY <1>7, <1>8, <1>9, <1>10 DEF AInv

LEMMA PollKept == AInv /\ (\E dev \in Devices : Poll(dev)) => AInv'
<1> SUFFICES ASSUME AInv, NEW dev \in Devices, Poll(dev) PROVE AInv'
  OBVIOUS
<1>1. Talk(dev) \in Commands /\ Send(Talk(dev)) /\ asked' = asked
  BY DEF Poll, Talk, Commands
<1>2. asked' \in 0..MaxAsked
  BY <1>1, Before, BusTyped
<1> QED
  BY <1>1, <1>2, SendKept

LEMMA AskKept == AInv /\ (\E c \in Commands : Ask(c)) => AInv'
<1> SUFFICES ASSUME AInv, NEW c \in Commands, Ask(c) PROVE AInv'
  OBVIOUS
<1>1. Send(c) /\ asked < MaxAsked /\ asked' = asked + 1
  BY DEF Ask
<1>2. asked' \in 0..MaxAsked
  <2>1. asked \in 0..MaxAsked
    BY Before, BusTyped
  <2> QED
    BY <1>1, <2>1, AdbAssumption
<1> QED
  BY <1>1, <1>2, SendKept

-----------------------------------------------------------------------------
(* The shift ends                                                          *)

\* What the end of a shift leaves of the types, given the new transceiver and byte.
LEMMA ShiftTyped ==
  ASSUME AInv, Complete, adb' \in Transceivers, sr' \in Bytes \cup Commands PROVE AdbTypeOK'
<1>1. AdbTypeOK
  BY DEF AInv
<1>2. pump' \in {"none", "in", "out"} /\ flag' \in BOOLEAN
  BY DEF Complete
<1>3. polled' \in BOOLEAN
  BY <1>1, BusTyped DEF Complete
<1>4. /\ streak' \in 0..WakeLimit /\ idle' \in 0..(WakeLimit + 2) /\ typed' \in 0..MaxTyped /\ asked' \in 0..MaxAsked
      /\ due' \in Seq(Transitions) /\ motionDue' \in Int /\ guest' \in Guests
  BY <1>1, BusTyped DEF Complete, host
<1> QED
  BY <1>2, <1>3, <1>4, TypedThen

\* The transceiver after it gave a byte or found none.
LEMMA GaveNothing ==
  ASSUME NEW a \in Transceivers, NEW i \in BOOLEAN
  PROVE  /\ [a EXCEPT !.int = i] \in Transceivers
         /\ [a EXCEPT !.int = i].int = i /\ [a EXCEPT !.int = i].state = a.state
         /\ [a EXCEPT !.int = i].cmd = a.cmd /\ [a EXCEPT !.int = i].unread = a.unread
         /\ [a EXCEPT !.int = i].listening = a.listening /\ [a EXCEPT !.int = i].staged = a.staged
         /\ [a EXCEPT !.int = i].queue = a.queue /\ [a EXCEPT !.int = i].motion = a.motion
BY DEF Transceivers

LEMMA GaveByte ==
  ASSUME NEW a \in Transceivers, NEW u \in Response
  PROVE  /\ [a EXCEPT !.unread = u] \in Transceivers
         /\ [a EXCEPT !.unread = u].int = a.int /\ [a EXCEPT !.unread = u].state = a.state
         /\ [a EXCEPT !.unread = u].cmd = a.cmd /\ [a EXCEPT !.unread = u].unread = u
         /\ [a EXCEPT !.unread = u].listening = a.listening /\ [a EXCEPT !.unread = u].staged = a.staged
         /\ [a EXCEPT !.unread = u].queue = a.queue /\ [a EXCEPT !.unread = u].motion = a.motion
BY DEF Transceivers

LEMMA ShiftInKept == AInv /\ Complete /\ pump = "in" => AInv'
<1> SUFFICES ASSUME AInv, Complete, pump = "in" PROVE AInv'
  OBVIOUS
<1>1. AdbTypeOK /\ Placed /\ Noticed /\ InputIsConserved
  BY Before
<1>2. guest \in Guests /\ adb \in Transceivers /\ adb.unread \in Response /\ adb.unread \in Seq(Bytes)
      /\ guest.first \in Bytes /\ guest.pc \in Pcs
  BY Before
<1>3. /\ pump' = "none" /\ flag' = TRUE /\ adb' = ShiftIn(adb) /\ sr' = ShiftedIn(adb) /\ polled' = polled
      /\ streak' = streak /\ guest' = guest /\ due' = due /\ motionDue' = motionDue
  BY DEF Complete, host
<1>4. flag' /\ flag' \in BOOLEAN
  BY <1>3
<1>5. ~flag /\ guest.pc \in {"dip", "first", "second"}
  BY <1>1, <1>2 DEF Placed, Pcs
<1>n. Noticed'
  BY <1>1, <1>3, <1>4, <1>5 DEF Noticed
<1>a. CASE guest.pc = "dip" \/ adb.unread = << >>
  <2>1. sr' = Nothing /\ (adb' = adb \/ adb' = [adb EXCEPT !.int = FALSE])
        /\ (adb.unread = << >> => adb' = [adb EXCEPT !.int = FALSE])
    <3>1. guest.pc = "dip" => adb.state = 3
      BY <1>1, StateIs DEF Placed
    <3> QED
      BY <1>3, <1>a, <3>1 DEF ShiftIn, ShiftedIn, ResponsePending
  <2>2. /\ adb' \in Transceivers /\ adb'.state = adb.state /\ adb'.cmd = adb.cmd /\ adb'.unread = adb.unread
        /\ adb'.listening = adb.listening /\ adb'.queue = adb.queue /\ adb'.motion = adb.motion
    BY <1>2, <2>1, GaveNothing
  <2>3. adb.unread = << >> => ~adb'.int
    BY <1>2, <2>1, GaveNothing
  <2>4. guest.pc # "second"
    <3>1. guest.pc = "second" => Len(adb.unread) = 1
      BY <1>1, <1>5 DEF Placed
    <3>2. Len(<< >>) = 0
      OBVIOUS
    <3> QED
      BY <1>a, <3>1, <3>2
  <2>5. AdbTypeOK'
    BY <2>1, <2>2, NothingIsByte, ShiftTyped
  <2>6. Placed'
    <3>1. Whole(adb.unread) /\ (guest.pc = "first" => adb.unread = << >>)
      BY <1>1, <1>5, <1>a DEF Placed
    <3> QED
      BY <1>1, <1>3, <1>4, <1>5, <2>1, <2>2, <2>3, <2>4, <3>1 DEF Placed
  <2>7. InputIsConserved'
    <3>1. CASE guest.pc = "dip"
      BY <1>3, <1>4, <2>2, <3>1, Carried
    <3>2. CASE guest.pc = "first"
      <4>1. adb.unread = << >> /\ adb'.unread = << >>
        BY <1>a, <2>2, <3>2
      <4>2. Flight(guest, flag, sr, adb.unread) = << >>
        <5>1. flag \in BOOLEAN /\ << >> \in Seq(Bytes)
          BY Before
        <5> QED
          BY <1>5, <3>2, <4>1, <5>1, FlightElsewhere
      <4>3. Flight(guest', flag', sr', adb'.unread) = << Nothing >>
        <5>1. << Nothing >> \o << >> = << Nothing >> /\ << >> \in Seq(Bytes)
          BY NothingIsByte, ConcatEmptySeq
        <5>2. guest'.pc = "first" /\ sr' = Nothing /\ adb'.unread = << >>
          BY <1>3, <2>1, <3>2, <4>1
        <5> QED
          BY <1>4, <5>1, <5>2, NothingIsByte, FlightFirst
      <4>4. KeysIn(<< >>) \o adb.queue = due /\ MotionIn(<< >>) + adb.motion = motionDue
        BY <1>1, <4>2, FlightIs DEF InputIsConserved
      <4>5. Conserved(<< Nothing >>, adb.queue, adb.motion, due, motionDue)
        <5>1. Len(<< Nothing >>) <= 2
          OBVIOUS
        <5> QED
          BY <4>4, <5>1, NoByte, NothingCarried DEF Conserved
      <4> QED
        BY <1>3, <2>2, <4>3, <4>5, ConservedThen
    <3> QED
      BY <1>5, <2>4, <3>1, <3>2
  <2> QED
    BY <1>n, <2>5, <2>6, <2>7 DEF AInv
<1>b. CASE guest.pc # "dip" /\ adb.unread # << >>
  <2>1. adb' = [adb EXCEPT !.unread = Tail(adb.unread)] /\ sr' = Head(adb.unread)
    <3>1. adb.state \in {1, 2}
      BY <1>1, <1>5, <1>b, StateIs DEF Placed
    <3> QED
      BY <1>2, <1>3, <1>b, <3>1 DEF ShiftIn, ShiftedIn, ResponsePending
  <2>2. Head(adb.unread) \in Bytes /\ Tail(adb.unread) \in Response /\ Len(Tail(adb.unread)) = Len(adb.unread) - 1
        /\ << Head(adb.unread) >> \o Tail(adb.unread) = adb.unread
    BY <1>2, <1>b, HeadFirst
  <2>3. /\ adb' \in Transceivers /\ adb'.state = adb.state /\ adb'.cmd = adb.cmd /\ adb'.unread = Tail(adb.unread)
        /\ adb'.listening = adb.listening /\ adb'.queue = adb.queue /\ adb'.motion = adb.motion /\ adb'.int = adb.int
    BY <1>2, <2>1, <2>2, GaveByte
  <2>4. AdbTypeOK'
    BY <2>1, <2>2, <2>3, ShiftTyped
  <2>l. Len(adb.unread) \in Nat /\ Len(adb.unread) # 0 /\ Tail(adb.unread) \in Seq(Bytes)
    BY <1>2, <1>b, <2>2, EmptySeq DEF Response
  <2>5. /\ guest.pc = "first" => Len(adb'.unread) = 1 /\ adb.int
        /\ guest.pc = "second" => adb'.unread = << >>
    <3>1. guest.pc = "first" => Whole(adb.unread) /\ adb.int
      BY <1>1, <1>5 DEF Placed
    <3>2. guest.pc = "second" => Len(adb.unread) = 1
      BY <1>1, <1>5 DEF Placed
    <3>3. Whole(adb.unread) => Len(adb.unread) = 2
      BY <2>l DEF Whole
    <3>4. Len(adb.unread) = 1 => Tail(adb.unread) = << >>
      BY <2>2, <2>l, EmptySeq
    <3> QED
      BY <2>2, <2>3, <3>1, <3>2, <3>3, <3>4
  <2>6. Placed'
    <3>1. sr' \in Bytes /\ guest.pc \in {"first", "second"} /\ ~adb.listening
      BY <1>1, <1>5, <1>b, <2>1, <2>2 DEF Placed
    <3> QED
      BY <1>1, <1>3, <1>4, <2>3, <2>5, <3>1 DEF Placed
  <2>7. InputIsConserved'
    <3>0. flag \in BOOLEAN
      BY Before
    <3>1. CASE guest.pc = "first"
      <4>1. Flight(guest, flag, sr, adb.unread) = adb.unread
        BY <1>2, <1>5, <3>0, <3>1, FlightElsewhere
      <4>2. Flight(guest', flag', sr', adb'.unread) = << Head(adb.unread) >> \o Tail(adb.unread)
        <5>1. guest'.pc = "first" /\ sr' = Head(adb.unread) /\ adb'.unread = Tail(adb.unread)
          BY <1>3, <2>1, <2>3, <3>1
        <5> QED
          BY <1>4, <2>2, <2>l, <5>1, FlightFirst
      <4> QED
        BY <1>1, <1>3, <2>2, <2>3, <4>1, <4>2, Undisturbed
    <3>2. CASE guest.pc = "second"
      <4>1. Flight(guest, flag, sr, adb.unread) = << guest.first >> \o adb.unread
        <5>1. flag = FALSE
          BY <1>5, <3>0
        <5> QED
          BY <1>2, <3>2, <5>1, FlightSecond
      <4>2. Tail(adb.unread) = << >>
        BY <2>3, <2>5, <3>2
      <4>3. Flight(guest', flag', sr', adb'.unread) = << guest.first, Head(adb.unread) >>
        BY <1>2, <1>3, <2>1, <2>2, <2>3, <3>2, <4>2, FlightLast
      <4>4. adb.unread = << Head(adb.unread) >>
        <5>1. << Head(adb.unread) >> \o << >> = << Head(adb.unread) >>
          BY <2>2, ConcatEmptySeq
        <5> QED
          BY <2>2, <4>2, <5>1
      <4>5. << guest.first >> \o << Head(adb.unread) >> = << guest.first, Head(adb.unread) >>
        BY <1>2, <2>2, PairOfTwo
      <4>6. Flight(guest', flag', sr', adb'.unread) = Flight(guest, flag, sr, adb.unread)
        BY <4>1, <4>3, <4>4, <4>5
      <4> QED
        BY <1>1, <1>3, <2>3, <4>6, Undisturbed
    <3> QED
      BY <1>5, <1>b, <3>1, <3>2
  <2> QED
    BY <1>n, <2>4, <2>6, <2>7 DEF AInv
<1> QED
  BY <1>a, <1>b

\* A command is answered from the queue and the motion, if at all; a talk for
\* information always is.
Ran(a, c, r) ==
  /\ r \in Transceivers /\ r.state = a.state /\ r.cmd = c /\ (r.listening <=> c.op = "listen") /\ ~r.staged
  /\ Whole(r.unread) /\ (c.op # "talk" => r.unread = << >>)
  /\ c.op = "talk" /\ c.reg = "info" => r.unread # << >>
  /\ KeysIn(r.unread) \o r.queue = a.queue /\ MotionIn(r.unread) + r.motion = a.motion

LEMMA CommandRun ==
  ASSUME NEW a \in Transceivers, a.unread = << >>, NEW c \in Commands
  PROVE  Ran(a, c, RunCommand(a, c))
<1> DEFINE r == RunCommand(a, c)
<1> DEFINE l == c.op = "listen"
           b == [a EXCEPT !.cmd = c, !.unread = << >>, !.int = TRUE, !.staged = FALSE, !.listening = l]
<1>1. r = IF c.op = "talk" THEN Answer(b) ELSE b
  BY DEF RunCommand
<1>2. << >> \in Response /\ l \in BOOLEAN /\ (l <=> c.op = "listen")
  <2>1. << >> \in Seq(Bytes) /\ Len(<< >>) <= 2
    OBVIOUS
  <2> QED
    BY <2>1 DEF Response
<1> HIDE DEF l, r
<1>3. b \in Transceivers
  BY <1>2 DEF Transceivers
<1>4. /\ b.state = a.state /\ b.cmd = c /\ b.unread = << >> /\ b.listening = l /\ b.staged = FALSE
      /\ b.queue = a.queue /\ b.motion = a.motion
  BY DEF Transceivers
<1> HIDE DEF b
<1>5. Moves(b, b) /\ Moves(b, Answer(b)) /\ (b.cmd.reg = "info" => Answer(b).unread # << >>)
  BY <1>3, <1>4, EmptyMoves, AnswerMoves
<1>6. Moves(b, r)
  BY <1>1, <1>5
<1>7. /\ r \in Transceivers /\ Whole(r.unread) /\ r.state = b.state /\ r.cmd = b.cmd /\ r.listening = b.listening
      /\ r.staged = b.staged /\ KeysIn(r.unread) \o r.queue = b.queue /\ MotionIn(r.unread) + r.motion = b.motion
  BY <1>6 DEF Moves
<1>8. (c.op # "talk" => r.unread = << >>) /\ (c.op = "talk" /\ c.reg = "info" => r.unread # << >>)
  BY <1>1, <1>4, <1>5
<1>9. Ran(a, c, r)
  BY <1>2, <1>4, <1>7, <1>8 DEF Ran
<1> QED
  BY <1>9 DEF r

LEMMA ShiftOutKept == AInv /\ Complete /\ pump = "out" => AInv'
<1> SUFFICES ASSUME AInv, Complete, pump = "out" PROVE AInv'
  OBVIOUS
<1>1. AdbTypeOK /\ Placed /\ Noticed /\ InputIsConserved
  BY Before
<1>2. guest \in Guests /\ adb \in Transceivers /\ guest.pc \in Pcs /\ sr \in Bytes \cup Commands
  BY Before
<1>3. /\ pump' = "none" /\ flag' = TRUE /\ adb' = ShiftOut(adb, sr) /\ sr' = sr
      /\ polled' = (polled \/ (adb.state = 0 /\ sr \in Polls))
      /\ streak' = streak /\ guest' = guest /\ due' = due /\ motionDue' = motionDue
  BY DEF Complete, host
<1>4. flag' /\ flag' \in BOOLEAN
  BY <1>3
<1>5. ~flag /\ guest.pc \in {"command", "data1", "data2"}
  BY <1>1, <1>2 DEF Placed, Pcs
<1>a. CASE guest.pc \in {"data1", "data2"}
  <2>1. adb' = adb
    BY <1>1, <1>3, <1>a, StateIs DEF ShiftOut, Placed
  <2>2. AdbTypeOK'
    BY <1>2, <1>3, <2>1, ShiftTyped
  <2>3. Placed'
    BY <1>1, <1>3, <1>4, <1>a, <2>1 DEF Placed
  <2>4. Noticed'
    <3>1. polled' <=> polled
      <4>1. adb.state # 0
        BY <1>1, <1>a, StateIs DEF Placed
      <4> QED
        BY <1>3, <4>1
    <3> QED
      BY <1>1, <1>3, <1>a, <3>1 DEF Noticed
  <2>5. InputIsConserved'
    BY <1>3, <1>4, <1>a, <2>1, Carried
  <2> QED
    BY <2>2, <2>3, <2>4, <2>5 DEF AInv
<1>b. CASE guest.pc = "command"
  <2>1. adb.state = 0 /\ sr \in Commands /\ adb.unread = << >>
    BY <1>1, <1>5, <1>b, StateIs DEF Placed
  <2>2. adb' = RunCommand(adb, sr) /\ (polled' <=> (polled \/ sr \in Polls))
    BY <1>3, <2>1 DEF ShiftOut
  <2>3. /\ adb' \in Transceivers /\ adb'.state = adb.state /\ adb'.cmd = sr
        /\ (adb'.listening <=> sr.op = "listen") /\ ~adb'.staged
        /\ Whole(adb'.unread) /\ (sr.op # "talk" => adb'.unread = << >>)
        /\ sr.op = "talk" /\ sr.reg = "info" => adb'.unread # << >>
        /\ KeysIn(adb'.unread) \o adb'.queue = adb.queue /\ MotionIn(adb'.unread) + adb'.motion = adb.motion
    <3>1. Ran(adb, sr, adb')
      BY <1>2, <2>1, <2>2, CommandRun
    <3> QED
      BY <3>1 DEF Ran
  <2>4. AdbTypeOK'
    BY <1>2, <1>3, <2>3, ShiftTyped
  <2>5. Placed'
    BY <1>1, <1>3, <1>4, <1>b, <2>1, <2>3, StateIs DEF Placed
  <2>6. Noticed'
    <3>1. sr.op = "talk" => sr \in Polls \/ sr.reg = "info"
      <4>1. sr \in [op : {"talk", "listen", "flush"}, dev : Devices, reg : {"zero", "info"}]
        BY <2>1 DEF Commands
      <4>2. ASSUME sr.op = "talk", sr.reg = "zero" PROVE sr = Talk(sr.dev) /\ sr.dev \in Devices
        BY <4>1, <4>2 DEF Talk
      <4> QED
        BY <4>1, <4>2 DEF Polls
    <3>2. sr.op = "talk" => Recent'
      BY <2>2, <2>3, <3>1 DEF Recent
    <3>3. ~(guest'.pc # "spin" /\ streak' = WakeLimit /\ ~polled' /\ guest'.sweep = {})
      BY <1>1, <1>3, <1>5, <1>b, <2>2 DEF Noticed
    <3> QED
      BY <1>3, <1>4, <1>b, <2>3, <3>2, <3>3 DEF Noticed
  <2>7. InputIsConserved'
    <3>1. adb'.unread \in Seq(Bytes) /\ adb.queue \in Seq(Transitions) /\ adb.motion \in Int
      BY <1>2, <2>3, Fields
    <3>2. Flight(guest', flag', sr', adb'.unread) = adb'.unread
      BY <1>3, <1>4, <1>b, <3>1, FlightElsewhere
    <3>3. Flight(guest, flag, sr, adb.unread) = << >>
      <4>1. flag \in BOOLEAN /\ << >> \in Seq(Bytes)
        BY Before
      <4> QED
        BY <1>b, <2>1, <4>1, FlightElsewhere
    <3>4. adb.queue = due /\ adb.motion = motionDue
      <4>1. << >> \o adb.queue = adb.queue /\ 0 + adb.motion = adb.motion
        BY <3>1, ConcatEmptySeq
      <4>2. KeysIn(<< >>) \o adb.queue = due /\ MotionIn(<< >>) + adb.motion = motionDue
        BY <1>1, <3>3, FlightIs DEF InputIsConserved
      <4> QED
        BY <4>1, <4>2, NoByte
    <3>5. Len(adb'.unread) <= 2
      <4>1. Whole(adb'.unread)
        BY <2>3
      <4>2. Len(adb'.unread) \in {0, 2}
        BY <4>1 DEF Whole
      <4>3. \A n \in {0, 2} : n <= 2
        OBVIOUS
      <4> QED
        BY <4>2, <4>3
    <3>6. Conserved(adb'.unread, adb'.queue, adb'.motion, due', motionDue')
      BY <1>3, <2>3, <3>4, <3>5 DEF Conserved
    <3> QED
      BY <3>2, <3>6, ConservedThen
  <2> QED
    BY <2>4, <2>5, <2>6, <2>7 DEF AInv
<1> QED
  BY <1>5, <1>a, <1>b

LEMMA CompleteKept == AInv /\ Complete => AInv'
<1> SUFFICES ASSUME AInv, Complete PROVE AInv'
  OBVIOUS
<1>1. pump \in {"in", "out"}
  BY Before DEF Complete
<1> QED
  BY <1>1, ShiftInKept, ShiftOutKept

-----------------------------------------------------------------------------
(* The frame                                                               *)

\* What a wake stages was queued, and what was unread stays.
Restaged(a, r) ==
  /\ r \in Transceivers /\ r.state = a.state /\ r.cmd = a.cmd /\ r.listening = a.listening /\ Whole(r.unread)
  /\ KeysIn(r.unread) \o r.queue = KeysIn(a.unread) \o a.queue
  /\ MotionIn(r.unread) + r.motion = MotionIn(a.unread) + a.motion
  /\ a.cmd.op # "talk" => r.unread = a.unread

LEMMA ReStageMoves ==
  ASSUME NEW a \in Transceivers, Whole(a.unread)
  PROVE  Restaged(a, ReStage(a))
<1>1. CASE ResponsePending(a) \/ a.cmd.op # "talk"
  BY <1>1 DEF ReStage, Restaged
<1>2. CASE ~(ResponsePending(a) \/ a.cmd.op # "talk")
  <2> DEFINE b == Answer(a)
             v == b.unread # << >>
             r == [b EXCEPT !.staged = v]
  <2>1. ReStage(a) = r
    BY <1>2 DEF ReStage
  <2>2. a.unread = << >>
    BY <1>2 DEF ResponsePending
  <2>3. Moves(a, b)
    BY <2>2, AnswerMoves
  <2>4. v \in BOOLEAN
    OBVIOUS
  <2> HIDE DEF b, v
  <2>5. r \in Transceivers /\ r.state = b.state /\ r.cmd = b.cmd /\ r.listening = b.listening
        /\ r.unread = b.unread /\ r.queue = b.queue /\ r.motion = b.motion
    BY <2>3, <2>4 DEF Moves, Transceivers
  <2> HIDE DEF r
  <2>6. KeysIn(a.unread) \o a.queue = a.queue /\ MotionIn(a.unread) + a.motion = a.motion
    <3>1. a.queue \in Seq(Transitions) /\ a.motion \in Int
      BY Fields
    <3> QED
      BY <2>2, <3>1, NoByte, ConcatEmptySeq
  <2>7. Restaged(a, r)
    BY <1>2, <2>3, <2>5, <2>6 DEF Moves, Restaged
  <2> QED
    BY <2>1, <2>7
<1> QED
  BY <1>1, <1>2

LEMMA WakeKept == AInv /\ Attentive /\ Wake => AInv'
<1> SUFFICES ASSUME AInv, Attentive, Wake PROVE AInv'
  OBVIOUS
<1>1. AdbTypeOK /\ Placed /\ Noticed /\ InputIsConserved
  BY Before
<1>2. guest \in Guests /\ adb \in Transceivers /\ guest.pc \in Pcs /\ flag \in BOOLEAN /\ polled \in BOOLEAN
      /\ streak \in 0..WakeLimit /\ idle \in 0..(WakeLimit + 2)
  BY <1>1, Before, BusTyped
<1>3. /\ pump = "none" /\ adb.state = 3 /\ (adb.unread = << >> \/ adb.staged) /\ Streak < WakeLimit
      /\ adb' = ReStage(adb) /\ sr' = Nothing /\ flag' = TRUE /\ streak' = Streak + 1
      /\ idle' = (IF idle > WakeLimit + 1 THEN idle ELSE idle + 1)
      /\ polled' \in BOOLEAN /\ pump' = pump /\ guest' = guest /\ due' = due /\ motionDue' = motionDue
      /\ typed' = typed /\ asked' = asked
  BY DEF Wake, Worth, WakeWorthPoking, host
<1>4. flag' /\ flag' \in BOOLEAN
  BY <1>3
<1>5. guest.pc \in {"idle", "dip", "spin"}
  <2>1. StateOf[guest.pc] = 3
    BY <1>1, <1>3 DEF Placed
  <2> QED
    BY <1>2, <2>1, StateIs DEF Pcs
<1>6. Whole(adb.unread)
  BY <1>1, <1>5 DEF Placed
<1>7. Restaged(adb, adb')
  BY <1>2, <1>3, <1>6, ReStageMoves
<1>8. /\ adb' \in Transceivers /\ adb'.state = adb.state /\ adb'.cmd = adb.cmd /\ adb'.listening = adb.listening
      /\ Whole(adb'.unread)
      /\ KeysIn(adb'.unread) \o adb'.queue = KeysIn(adb.unread) \o adb.queue
      /\ MotionIn(adb'.unread) + adb'.motion = MotionIn(adb.unread) + adb.motion
      /\ adb.cmd.op # "talk" => adb'.unread = adb.unread
  BY <1>7 DEF Restaged
<1>9. AdbTypeOK'
  <2>1. streak' \in 0..WakeLimit
    BY <1>2, <1>3, AdbAssumption DEF Streak
  <2>2. idle' \in 0..(WakeLimit + 2)
    BY <1>2, <1>3, AdbAssumption
  <2>3. typed' \in 0..MaxTyped /\ asked' \in 0..MaxAsked /\ due' \in Seq(Transitions) /\ motionDue' \in Int
    BY <1>1, <1>3, BusTyped
  <2>4. sr' \in Bytes \cup Commands /\ pump' \in {"none", "in", "out"} /\ guest' \in Guests
    BY <1>2, <1>3, NothingIsByte
  <2> QED
    BY <1>3, <1>4, <1>8, <2>1, <2>2, <2>3, <2>4, TypedThen
<1>10. Placed'
  BY <1>1, <1>3, <1>4, <1>5, <1>8 DEF Placed
<1>11. Noticed'
  <2>1. ~(guest.pc = "dip" /\ streak' = WakeLimit /\ guest.sweep = {})
    <3> SUFFICES ASSUME guest.pc = "dip", streak' = WakeLimit PROVE FALSE
      OBVIOUS
    <3>1. ~polled /\ streak = WakeLimit - 1 /\ streak # 0
      BY <1>2, <1>3, AdbAssumption DEF Streak
    <3>2. ~flag
      BY <3>1 DEF Attentive
    <3>3. Recent
      BY <1>1, <3>2 DEF Noticed
    <3> QED
      BY <1>3, <3>1, <3>3 DEF Recent
  <2> QED
    BY <1>3, <1>4, <1>5, <2>1 DEF Noticed
<1>12. InputIsConserved'
  <2>1. adb.unread \in Seq(Bytes) /\ adb'.unread \in Seq(Bytes)
    BY <1>2, <1>8, Fields
  <2>2. Flight(guest, flag, sr, adb.unread) = adb.unread
    BY <1>2, <1>5, <2>1, FlightElsewhere
  <2>3. Flight(guest', flag', sr', adb'.unread) = adb'.unread
    BY <1>3, <1>4, <1>5, <2>1, FlightElsewhere
  <2>4. KeysIn(adb.unread) \o adb.queue = due /\ MotionIn(adb.unread) + adb.motion = motionDue
    BY <1>1, <2>2, FlightIs DEF InputIsConserved
  <2>5. Len(adb'.unread) <= 2
    <3>1. Len(adb'.unread) \in {0, 2}
      BY <1>8 DEF Whole
    <3>2. \A n \in {0, 2} : n <= 2
      OBVIOUS
    <3> QED
      BY <3>1, <3>2
  <2>6. Conserved(adb'.unread, adb'.queue, adb'.motion, due', motionDue')
    BY <1>3, <1>8, <2>4, <2>5 DEF Conserved
  <2> QED
    BY <2>3, <2>6, ConservedThen
<1> QED
  BY <1>9, <1>10, <1>11, <1>12 DEF AInv

LEMMA FlushStaleKept == AInv /\ Attentive /\ FlushStale => AInv'
<1> SUFFICES ASSUME AInv, Attentive, FlushStale PROVE AInv'
  OBVIOUS
<1>1. AdbTypeOK /\ Placed /\ Noticed
  BY Before
<1>2. guest \in Guests /\ adb \in Transceivers /\ guest.pc \in Pcs /\ flag \in BOOLEAN /\ polled \in BOOLEAN
      /\ streak \in 0..WakeLimit /\ sr \in Bytes \cup Commands
  BY <1>1, Before, BusTyped
<1>3. /\ pump = "none" /\ adb.state = 3 /\ (adb.unread = << >> \/ adb.staged) /\ Streak >= WakeLimit
      /\ adb' = Flush(adb) /\ sr' = sr /\ flag' = flag /\ streak' = 0 /\ idle' = 0 /\ polled' = FALSE
      /\ due' = (IF guest.pc = "spin" THEN << >> ELSE due)
      /\ motionDue' = (IF guest.pc = "spin" THEN 0 ELSE motionDue)
      /\ pump' = pump /\ guest' = guest /\ typed' = typed /\ asked' = asked
  BY DEF FlushStale, Worth, WakeWorthPoking
<1>4. ~polled /\ streak = WakeLimit
  BY <1>2, <1>3, AdbAssumption DEF Streak
<1>5. guest.pc = "spin"
  <2> SUFFICES ASSUME guest.pc # "spin" PROVE FALSE
    OBVIOUS
  <2>1. ~flag /\ guest.sweep = {}
    BY <1>4, AdbAssumption DEF Attentive
  <2>2. guest.pc = "command"
    BY <1>1, <1>4, <2>1 DEF Noticed
  <2>3. StateOf[guest.pc] = 3
    BY <1>1, <1>3 DEF Placed
  <2> QED
    BY <2>2, <2>3, StateIs
<1>6. /\ adb' \in Transceivers /\ adb'.state = adb.state /\ adb'.cmd = adb.cmd /\ adb'.listening = adb.listening
      /\ adb'.unread = << >> /\ adb'.queue = << >> /\ adb'.motion = 0
  <2> DEFINE u == IF adb.staged THEN << >> ELSE adb.unread
  <2>1. u = << >>
    BY <1>3
  <2> HIDE DEF u
  <2>2. adb' = [adb EXCEPT !.moved = FALSE, !.motion = 0, !.queue = << >>, !.unread = u, !.staged = FALSE]
    BY <1>2, <1>3 DEF Flush, Transceivers, u
  <2>3. << >> \in Response /\ << >> \in Queue /\ 0 \in -MaxMotion..MaxMotion
    <3>1. Len(<< >>) = 0 /\ << >> \in Seq(Transitions) /\ << >> \in Seq(Bytes)
      OBVIOUS
    <3> QED
      BY <3>1, AdbAssumption DEF Queue, Response
  <2> QED
    BY <1>2, <2>1, <2>2, <2>3 DEF Transceivers
<1>7. due' = << >> /\ motionDue' = 0
  BY <1>3, <1>5
<1>8. AdbTypeOK'
  <2>1. streak' \in 0..WakeLimit /\ idle' \in 0..(WakeLimit + 2)
    BY <1>3, AdbAssumption
  <2>2. typed' \in 0..MaxTyped /\ asked' \in 0..MaxAsked
    BY <1>1, <1>3, BusTyped
  <2>3. sr' \in Bytes \cup Commands /\ pump' \in {"none", "in", "out"} /\ guest' \in Guests
    BY <1>2, <1>3
  <2>4. due' \in Seq(Transitions) /\ motionDue' \in Int
    BY <1>7
  <2>5. flag' \in BOOLEAN
    BY <1>2, <1>3
  <2>6. polled' \in BOOLEAN
    BY <1>3
  <2> QED
    BY <1>6, <2>1, <2>2, <2>3, <2>4, <2>5, <2>6, TypedThen
<1>9. Placed'
  BY <1>1, <1>3, <1>5, <1>6 DEF Placed, Whole
<1>10. Noticed'
  BY <1>3, <1>5 DEF Noticed
<1>11. InputIsConserved'
  <2>1. Flight(guest', flag', sr', adb'.unread) = << >>
    <3>1. flag' \in BOOLEAN /\ << >> \in Seq(Bytes) /\ guest'.pc = "spin"
      BY <1>2, <1>3, <1>5
    <3> QED
      BY <1>6, <3>1, FlightElsewhere
  <2>2. Conserved(<< >>, adb'.queue, adb'.motion, due', motionDue')
    BY <1>6, <1>7, NoByte DEF Conserved
  <2> QED
    BY <2>1, <2>2, ConservedThen
<1> QED
  BY <1>8, <1>9, <1>10, <1>11 DEF AInv

LEMMA NoWakeKept == AInv /\ NoWake => AInv'
<1> SUFFICES ASSUME AInv, NoWake PROVE AInv'
  OBVIOUS
<1>1. AdbTypeOK /\ Placed /\ Noticed
  BY Before
<1>2. /\ polled' = FALSE /\ streak' = 0 /\ idle' = 0 /\ adb' = adb /\ pump' = pump /\ sr' = sr /\ flag' = flag
      /\ guest' = guest /\ due' = due /\ motionDue' = motionDue /\ typed' = typed /\ asked' = asked
  BY DEF NoWake, host
<1>3. AdbTypeOK'
  <2>1. streak' \in 0..WakeLimit /\ idle' \in 0..(WakeLimit + 2)
    BY <1>2, AdbAssumption
  <2>2. polled' \in BOOLEAN
    BY <1>2
  <2>3. flag' \in BOOLEAN
    BY <1>1, <1>2, BusTyped
  <2>4. /\ adb' \in Transceivers /\ guest' \in Guests /\ sr' \in Bytes \cup Commands /\ pump' \in {"none", "in", "out"}
        /\ typed' \in 0..MaxTyped /\ asked' \in 0..MaxAsked /\ due' \in Seq(Transitions) /\ motionDue' \in Int
    BY <1>1, <1>2, BusTyped
  <2> QED
    BY <2>1, <2>2, <2>3, <2>4, TypedThen
<1>4. Placed'
  BY <1>1, <1>2 DEF Placed
<1>5. Noticed'
  <2>1. streak' # WakeLimit
    BY <1>2, AdbAssumption
  <2> QED
    BY <1>2, <2>1 DEF Noticed, Recent
<1>6. InputIsConserved'
  BY <1>2, Before, Undisturbed
<1> QED
  BY <1>3, <1>4, <1>5, <1>6 DEF AInv

-----------------------------------------------------------------------------
(* The host                                                                *)

\* What a step of the host leaves of the types.
LEMMA HostTyped ==
  ASSUME AInv, adb' \in Transceivers, due' \in Seq(Transitions), motionDue' \in Int, typed' \in 0..MaxTyped,
         pump' = pump, sr' = sr, flag' = flag, streak' = streak, polled' = polled, guest' = guest,
         idle' = idle, asked' = asked
  PROVE  AdbTypeOK'
<1>1. AdbTypeOK
  BY DEF AInv
<1>2. flag' \in BOOLEAN /\ polled' \in BOOLEAN
  BY <1>1, BusTyped
<1>3. guest' \in Guests /\ sr' \in Bytes \cup Commands /\ pump' \in {"none", "in", "out"}
      /\ streak' \in 0..WakeLimit /\ idle' \in 0..(WakeLimit + 2) /\ asked' \in 0..MaxAsked
  BY <1>1, BusTyped
<1> QED
  BY <1>2, <1>3, TypedThen

LEMMA PlacedSame ==
  ASSUME Placed, adb'.state = adb.state, adb'.cmd = adb.cmd, adb'.listening = adb.listening,
         adb'.unread = adb.unread, adb'.int = adb.int, pump' = pump, sr' = sr, flag' = flag, guest' = guest
  PROVE  Placed'
BY DEF Placed

LEMMA NoticedSame ==
  ASSUME Noticed, adb'.cmd = adb.cmd, adb'.unread = adb.unread, adb'.staged = adb.staged, sr' = sr, flag' = flag,
         streak' = streak, polled' = polled, guest' = guest
  PROVE  Noticed'
BY DEF Noticed, Recent

LEMMA KeysTyped ==
  ASSUME NEW s \in Seq(Bytes) PROVE KeysIn(s) \in Seq(Bytes)
<1> DEFINE x == IF Len(s) > 0 THEN Key(s[1]) ELSE << >>
           y == IF Len(s) > 1 THEN Key(s[2]) ELSE << >>
<1>1. ASSUME NEW b \in Bytes PROVE Key(b) \in Seq(Bytes)
  <2>1. << b >> \in Seq(Bytes) /\ << >> \in Seq(Bytes)
    OBVIOUS
  <2> QED
    BY <2>1 DEF Key
<1>2. Len(s) \in Nat /\ (Len(s) > 0 => s[1] \in Bytes) /\ (Len(s) > 1 => s[2] \in Bytes)
  OBVIOUS
<1>3. x \in Seq(Bytes) /\ y \in Seq(Bytes)
  <2>1. << >> \in Seq(Bytes)
    OBVIOUS
  <2> QED
    BY <1>1, <1>2, <2>1
<1>4. KeysIn(s) = x \o y
  BY DEF KeysIn
<1> HIDE DEF x, y
<1> QED
  BY <1>3, <1>4, ConcatProperties

LEMMA FlightTyped == AInv => InFlight \in Seq(Bytes)
<1> SUFFICES ASSUME AInv PROVE InFlight \in Seq(Bytes)
  OBVIOUS
<1> DEFINE x == IF guest.pc = "second" THEN << guest.first >> ELSE << >>
           y == IF flag /\ guest.pc \in {"first", "second"} THEN << sr >> ELSE << >>
<1>1. Placed /\ guest.first \in Bytes /\ adb.unread \in Seq(Bytes) /\ flag \in BOOLEAN
  BY Before
<1>2. flag /\ guest.pc \in {"first", "second"} => sr \in Bytes
  BY <1>1, NothingIsByte DEF Placed
<1>3. \A b \in Bytes : << b >> \in Seq(Bytes)
  OBVIOUS
<1>4. << >> \in Seq(Bytes)
  OBVIOUS
<1>5. x \in Seq(Bytes) /\ y \in Seq(Bytes)
  BY <1>1, <1>2, <1>3, <1>4
<1>6. InFlight = x \o y \o adb.unread
  BY DEF InFlight
<1> HIDE DEF x, y
<1> QED
  BY <1>1, <1>5, <1>6, ConcatProperties

LEMMA AppendAfter ==
  ASSUME NEW S, NEW k \in Seq(S), NEW q \in Seq(S), NEW t \in S
  PROVE  k \o Append(q, t) = Append(k \o q, t)
<1> DEFINE a == Append(q, t)
           w == k \o q
           v == k \o a
           u == Append(w, t)
<1>1. /\ a \in Seq(S) /\ Len(a) = Len(q) + 1 /\ Len(q) \in Nat /\ Len(k) \in Nat
      /\ \A i \in 1..Len(q) : a[i] = q[i]
      /\ a[Len(q) + 1] = t
  BY AppendProperties
<1>2. /\ w \in Seq(S) /\ Len(w) = Len(k) + Len(q)
      /\ \A i \in 1..Len(w) : w[i] = IF i <= Len(k) THEN k[i] ELSE q[i - Len(k)]
  BY ConcatProperties
<1> HIDE DEF a, w
<1>3. /\ v \in Seq(S) /\ Len(v) = Len(k) + Len(a)
      /\ \A i \in 1..Len(v) : v[i] = IF i <= Len(k) THEN k[i] ELSE a[i - Len(k)]
  <2>1. a \in Seq(S)
    BY <1>1
  <2> QED
    BY <2>1, ConcatProperties
<1>4. /\ u \in Seq(S) /\ Len(u) = Len(w) + 1
      /\ \A i \in 1..Len(w) : u[i] = w[i]
      /\ u[Len(w) + 1] = t
  <2>1. w \in Seq(S)
    BY <1>2
  <2> QED
    BY <2>1, AppendProperties
<1> HIDE DEF v, u
<1>5. Len(u) = Len(v)
  BY <1>1, <1>2, <1>3, <1>4
<1>6. ASSUME NEW i \in 1..Len(v) PROVE u[i] = v[i]
  <2>1. CASE i <= Len(k)
    <3>1. i \in 1..Len(w)
      BY <1>1, <1>2, <1>3, <2>1
    <3>2. u[i] = k[i]
      BY <1>2, <1>4, <2>1, <3>1
    <3> QED
      BY <1>3, <2>1, <3>2
  <2>2. CASE i > Len(k) /\ i <= Len(w)
    <3>1. i - Len(k) \in 1..Len(q)
      BY <1>1, <1>2, <1>3, <2>2
    <3>2. a[i - Len(k)] = q[i - Len(k)]
      BY <1>1, <3>1
    <3> QED
      BY <1>1, <1>2, <1>3, <1>4, <2>2, <3>2
  <2>3. CASE i > Len(w)
    <3>1. i = Len(w) + 1 /\ i - Len(k) = Len(q) + 1
      <4>1. i \in Int /\ i <= Len(k) + (Len(q) + 1) /\ Len(w) = Len(k) + Len(q)
        BY <1>1, <1>2, <1>3
      <4>2. Len(q) \in Nat /\ Len(k) \in Nat
        BY <1>1
      <4> QED
        BY <2>3, <4>1, <4>2
    <3> QED
      BY <1>1, <1>2, <1>3, <1>4, <3>1
  <2> QED
    BY <1>1, <1>2, <1>3, <2>1, <2>2, <2>3
<1>7. u = v
  BY <1>3, <1>4, <1>5, <1>6, SeqEqual
<1> QED
  BY <1>7 DEF a, w, v, u

LEMMA InjectKeyKept == AInv /\ (\E k \in Keys : InjectKey(k)) => AInv'
<1> SUFFICES ASSUME AInv, NEW k \in Keys, InjectKey(k) PROVE AInv'
  OBVIOUS
<1>1. AdbTypeOK /\ Placed /\ Noticed /\ InputIsConserved
  BY Before
<1>2. adb \in Transceivers /\ adb.queue \in Queue /\ adb.queue \in Seq(Transitions) /\ adb.held \in SUBSET Keys
      /\ due \in Seq(Transitions) /\ motionDue \in Int /\ typed \in 0..MaxTyped
  BY <1>1, BusTyped, Fields
<1> DEFINE down == k \notin adb.held
           t == Transition(k, down)
           h == IF t.down THEN adb.held \cup {k} ELSE adb.held \ {k}
           q == Queued(adb.queue, t)
<1>3. /\ typed < MaxTyped /\ typed' = typed + 1
      /\ adb' = [adb EXCEPT !.held = h, !.queue = q]
      /\ due' = IF adb'.queue = adb.queue THEN due ELSE Append(due, t)
      /\ pump' = pump /\ sr' = sr /\ flag' = flag /\ streak' = streak /\ polled' = polled
      /\ guest' = guest /\ motionDue' = motionDue /\ idle' = idle /\ asked' = asked
  BY <1>2 DEF InjectKey, Transceivers
<1>4. t \in Transitions
  <2>1. down \in BOOLEAN
    OBVIOUS
  <2> HIDE DEF down
  <2> QED
    BY <2>1 DEF Transition, Transitions
<1>5. h \in SUBSET Keys
  BY <1>2
<1>6. q \in Queue /\ (q = adb.queue \/ q = Append(adb.queue, t))
  <2>1. Len(adb.queue) \in Nat /\ Len(adb.queue) < KeyQueue
    BY <1>2 DEF Queue
  <2> HIDE DEF t
  <2>2. Append(adb.queue, t) \in Seq(Transitions) /\ Len(Append(adb.queue, t)) = Len(adb.queue) + 1
    BY <1>2, <1>4, AppendProperties
  <2>3. Len(adb.queue) < KeyQueue - 1 => Append(adb.queue, t) \in Queue
    BY <2>1, <2>2, AdbAssumption DEF Queue
  <2> QED
    BY <1>2, <2>3 DEF Queued
<1> HIDE DEF t, h, q
<1>7. /\ adb' \in Transceivers /\ adb'.state = adb.state /\ adb'.cmd = adb.cmd /\ adb'.listening = adb.listening
      /\ adb'.unread = adb.unread /\ adb'.int = adb.int /\ adb'.staged = adb.staged /\ adb'.motion = adb.motion
      /\ adb'.queue = q
  BY <1>2, <1>3, <1>5, <1>6 DEF Transceivers
<1>8. AdbTypeOK'
  <2>1. due' \in Seq(Transitions)
    BY <1>2, <1>3, <1>4, AppendProperties
  <2>2. typed' \in 0..MaxTyped /\ motionDue' \in Int
    BY <1>2, <1>3, AdbAssumption
  <2> QED
    BY <1>3, <1>7, <2>1, <2>2, HostTyped
<1>9. Placed'
  BY <1>1, <1>3, <1>7, PlacedSame
<1>10. Noticed'
  BY <1>1, <1>3, <1>7, NoticedSame
<1>11. InputIsConserved'
  <2>1. InFlight' = InFlight
    BY <1>3, <1>7 DEF InFlight
  <2>2. Len(InFlight) <= 2 /\ KeysIn(InFlight) \o adb.queue = due /\ MotionIn(InFlight) + adb.motion = motionDue
    BY <1>1 DEF InputIsConserved
  <2>3. CASE q = adb.queue
    BY <1>3, <1>7, <2>1, <2>2, <2>3 DEF InputIsConserved
  <2>4. CASE q # adb.queue
    <3>1. q = Append(adb.queue, t) /\ due' = Append(due, t)
      BY <1>3, <1>6, <1>7, <2>4
    <3>2. KeysIn(InFlight) \in Seq(Bytes)
      <4>1. InFlight \in Seq(Bytes)
        BY FlightTyped
      <4> QED
        BY <4>1, KeysTyped
    <3>3. KeysIn(InFlight) \o Append(adb.queue, t) = Append(KeysIn(InFlight) \o adb.queue, t)
      BY <1>2, <1>4, <3>2, TransitionIsByte, AppendAfter
    <3> QED
      BY <1>3, <1>7, <2>1, <2>2, <3>1, <3>3 DEF InputIsConserved
  <2> QED
    BY <2>3, <2>4
<1> QED
  BY <1>8, <1>9, <1>10, <1>11 DEF AInv

LEMMA MotionTyped ==
  ASSUME NEW s \in Seq(Bytes) PROVE MotionIn(s) \in Int
<1> DEFINE x == IF Len(s) > 0 THEN Move(s[1]) ELSE 0
           y == IF Len(s) > 1 THEN Move(s[2]) ELSE 0
<1>1. ASSUME NEW b \in Bytes PROVE Move(b) \in Int
  BY DEF Move, Bytes
<1>2. Len(s) \in Nat /\ (Len(s) > 0 => s[1] \in Bytes) /\ (Len(s) > 1 => s[2] \in Bytes)
  OBVIOUS
<1>3. x \in Int /\ y \in Int
  BY <1>1, <1>2
<1>4. MotionIn(s) = x + y
  BY DEF MotionIn
<1> HIDE DEF x, y
<1> QED
  BY <1>3, <1>4

LEMMA InjectMouseKept == AInv /\ (\E n \in Motions : InjectMouse(n)) => AInv'
<1> SUFFICES ASSUME AInv, NEW n \in Motions, InjectMouse(n) PROVE AInv'
  OBVIOUS
<1>1. AdbTypeOK /\ Placed /\ Noticed /\ InputIsConserved
  BY Before
<1>2. adb \in Transceivers /\ adb.motion \in Int /\ n \in Int /\ motionDue \in Int /\ due \in Seq(Transitions)
      /\ typed \in 0..MaxTyped
  BY <1>1, BusTyped, Fields, AdbAssumption
<1> DEFINE m == adb.motion + n
<1>3. /\ m \in -MaxMotion..MaxMotion /\ adb' = [adb EXCEPT !.motion = m, !.moved = TRUE]
      /\ motionDue' = motionDue + n /\ due' = due /\ typed' = typed
      /\ pump' = pump /\ sr' = sr /\ flag' = flag /\ streak' = streak /\ polled' = polled
      /\ guest' = guest /\ idle' = idle /\ asked' = asked
  BY <1>2 DEF InjectMouse, Transceivers
<1> HIDE DEF m
<1>4. /\ adb' \in Transceivers /\ adb'.state = adb.state /\ adb'.cmd = adb.cmd /\ adb'.listening = adb.listening
      /\ adb'.unread = adb.unread /\ adb'.int = adb.int /\ adb'.staged = adb.staged /\ adb'.motion = m
      /\ adb'.queue = adb.queue
  BY <1>2, <1>3 DEF Transceivers
<1>5. AdbTypeOK'
  <2>1. motionDue' \in Int
    BY <1>2, <1>3
  <2> QED
    BY <1>2, <1>3, <1>4, <2>1, HostTyped
<1>6. Placed'
  BY <1>1, <1>3, <1>4, PlacedSame
<1>7. Noticed'
  BY <1>1, <1>3, <1>4, NoticedSame
<1>8. InputIsConserved'
  <2>1. InFlight' = InFlight
    BY <1>3, <1>4 DEF InFlight
  <2>2. Len(InFlight) <= 2 /\ KeysIn(InFlight) \o adb.queue = due /\ MotionIn(InFlight) + adb.motion = motionDue
    BY <1>1 DEF InputIsConserved
  <2>3. MotionIn(InFlight) \in Int
    <3>1. InFlight \in Seq(Bytes)
      BY FlightTyped
    <3> QED
      BY <3>1, MotionTyped
  <2>4. MotionIn(InFlight) + (adb.motion + n) = motionDue + n
    <3>1. \A a, b, c \in Int : a + b + c = a + (b + c)
      OBVIOUS
    <3>2. MotionIn(InFlight) + adb.motion + n = MotionIn(InFlight) + (adb.motion + n)
      BY <1>2, <2>3, <3>1
    <3> QED
      BY <2>2, <3>2
  <2> QED
    BY <1>3, <1>4, <2>1, <2>2, <2>4 DEF InputIsConserved, m
<1> QED
  BY <1>5, <1>6, <1>7, <1>8 DEF AInv

LEMMA QueuesFit == Queues \subseteq Queue
<1> SUFFICES ASSUME NEW n \in 0..(KeyQueue - 1), NEW q \in [1..n -> Transitions] PROVE q \in Queue
  BY DEF Queues
<1>1. n \in Nat /\ n < KeyQueue
  BY AdbAssumption
<1>2. q \in Seq(Transitions)
  BY <1>1, SeqDef
<1>3. Len(q) = n
  BY <1>1, <1>2
<1> QED
  BY <1>1, <1>2, <1>3 DEF Queue

LEMMA MachineResetKept == AInv /\ MachineReset => AInv'
<1> SUFFICES ASSUME AInv, NEW q \in Queues, adb' = ResetAdb(adb, q), MachineReset PROVE AInv'
  BY DEF MachineReset
<1>1. AdbTypeOK
  BY Before
<1>2. q \in Queue /\ q \in Seq(Transitions) /\ adb \in Transceivers /\ adb.held \in SUBSET Keys
  BY <1>1, QueuesFit, BusTyped, Fields DEF Queue
<1>3. /\ pump' = "none" /\ flag' = FALSE /\ guest' = [pc |-> "spin", first |-> Nothing, sweep |-> {}]
      /\ due' = adb'.queue /\ motionDue' = 0
      /\ sr' = sr /\ streak' = streak /\ polled' = polled /\ idle' = idle /\ typed' = typed /\ asked' = asked
  BY DEF MachineReset
<1>4. NoCommand \in Commands /\ NoCommand.op = "flush"
  BY DEF NoCommand, Commands, Devices
<1>5. << >> \in Response /\ 0 \in -MaxMotion..MaxMotion
  <2>1. Len(<< >>) = 0 /\ << >> \in Seq(Bytes)
    OBVIOUS
  <2> QED
    BY <2>1, AdbAssumption DEF Response
<1>6. /\ adb' \in Transceivers /\ adb'.state = 3 /\ adb'.cmd = NoCommand /\ ~adb'.listening /\ adb'.unread = << >>
      /\ adb'.queue = q /\ adb'.motion = 0
  BY <1>2, <1>4, <1>5 DEF ResetAdb, Transceivers
<1>7. guest' \in Guests /\ guest'.pc = "spin"
  BY <1>3, NothingIsByte DEF Guests, Pcs
<1>8. ~flag' /\ flag' \in BOOLEAN
  BY <1>3
<1>9. AdbTypeOK'
  <2>1. polled' \in BOOLEAN
    BY <1>1, <1>3, BusTyped
  <2>2. sr' \in Bytes \cup Commands /\ streak' \in 0..WakeLimit /\ idle' \in 0..(WakeLimit + 2)
        /\ typed' \in 0..MaxTyped /\ asked' \in 0..MaxAsked
    BY <1>1, <1>3, BusTyped
  <2>3. due' \in Seq(Transitions) /\ motionDue' \in Int /\ pump' \in {"none", "in", "out"}
    BY <1>2, <1>3, <1>6
  <2> QED
    BY <1>6, <1>7, <1>8, <2>1, <2>2, <2>3, TypedThen
<1>10. Placed'
  BY <1>3, <1>4, <1>6, <1>7, <1>8, StateIs DEF Placed, Whole
<1>11. Noticed'
  BY <1>7 DEF Noticed
<1>12. InputIsConserved'
  <2>1. Flight(guest', flag', sr', adb'.unread) = << >>
    <3>1. << >> \in Seq(Bytes)
      OBVIOUS
    <3> QED
      BY <1>6, <1>7, <1>8, <3>1, FlightElsewhere
  <2>2. Conserved(<< >>, adb'.queue, adb'.motion, due', motionDue')
    <3>1. << >> \o q = q /\ Len(<< >>) <= 2 /\ 0 + 0 = 0
      BY <1>2, ConcatEmptySeq
    <3> QED
      BY <1>3, <1>6, <3>1, NoByte DEF Conserved
  <2> QED
    BY <2>1, <2>2, ConservedThen
<1> QED
  BY <1>9, <1>10, <1>11, <1>12 DEF AInv

LEMMA AnswersKept == AInv /\ Answers => AInv'
BY ReadAtOnceKept, DipKept, ReadAfterDipKept, GiveUpDipKept, ListenKept, DataKept, EndKept, TakeWakeKept,
   ReadFirstKept, ReadSecondKept DEF Answers

LEMMA NextKept == AInv /\ [AdbNext]_adbVars => AInv'
<1> SUFFICES ASSUME AInv, [AdbNext]_adbVars PROVE AInv'
  OBVIOUS
<1>1. CASE Complete
  BY <1>1, CompleteKept
<1>2. CASE Frame
  BY <1>2, WakeKept, FlushStaleKept, NoWakeKept DEF Frame
<1>3. CASE \E k \in Keys : InjectKey(k)
  BY <1>3, InjectKeyKept
<1>4. CASE \E n \in Motions : InjectMouse(n)
  BY <1>4, InjectMouseKept
<1>5. CASE MachineReset
  BY <1>5, MachineResetKept
<1>6. CASE \E dev \in Devices : Poll(dev)
  BY <1>6, PollKept
<1>7. CASE Sweep
  BY <1>7, SweepKept
<1>8. CASE \E c \in Commands : Ask(c)
  BY <1>8, AskKept
<1>9. CASE Answers
  BY <1>9, AnswersKept
<1>10. CASE EndSpin
  BY <1>10, EndSpinKept
<1>11. CASE UNCHANGED adbVars
  <2>1. /\ adb' = adb /\ pump' = pump /\ sr' = sr /\ flag' = flag /\ streak' = streak /\ polled' = polled
        /\ guest' = guest /\ due' = due /\ motionDue' = motionDue /\ idle' = idle /\ typed' = typed /\ asked' = asked
    BY <1>11 DEF adbVars
  <2>2. AdbTypeOK'
    <3>1. AdbTypeOK
      BY Before
    <3> QED
      BY <2>1, <3>1 DEF AdbTypeOK
  <2>3. Placed'
    BY <2>1, Before, PlacedSame
  <2>4. Noticed'
    BY <2>1, Before, NoticedSame
  <2>5. InputIsConserved'
    BY <2>1, Before, Undisturbed
  <2> QED
    BY <2>2, <2>3, <2>4, <2>5 DEF AInv
<1> QED
  BY <1>1, <1>2, <1>3, <1>4, <1>5, <1>6, <1>7, <1>8, <1>9, <1>10, <1>11 DEF AdbNext

\* The transceiver, the shift register, the pump and the guest keep to their types: no
\* response is longer than two bytes and the queue of transitions never exceeds its size.
THEOREM AdbTypeCorrect == AdbSpec => []AdbTypeOK
<1>1. AInv => AdbTypeOK
  BY DEF AInv
<1> QED
  BY <1>1, StartKept, NextKept, PTL DEF AdbSpec

\* Every transition that was queued, and all motion, is on its way to the guest or still
\* queued until the guest has read it, in order and once, for any size of the queue, any
\* limit of the wakes, any keys and motions of the host.
THEOREM InputIsAlwaysConserved == AdbSpec => []InputIsConserved
<1>1. AInv => InputIsConserved
  BY DEF AInv
<1> QED
  BY <1>1, StartKept, NextKept, PTL DEF AdbSpec
=============================================================================
