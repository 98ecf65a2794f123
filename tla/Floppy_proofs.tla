---------------------------- MODULE Floppy_proofs ----------------------------
(***************************************************************************)
(* Proofs about Floppy, for any files, saves and limits, on each machine:  *)
(*                                                                         *)
(*   FloppyTypeCorrect  Spec => []FloppyTypeOK                             *)
(*   WorkComesHome      Spec => []DisksComeHome                            *)
(*                                                                         *)
(* A write-back is three steps, and it is right only if the path it read,  *)
(* the medium it copies and the file it stores to belong to one disk.      *)
(* Home says which disk each step has in hand; it holds of the IIfx with   *)
(* any user, and of the others if the user takes care.  What a careful     *)
(* user avoids is Orderly: he never has the drive filled while a notice or *)
(* an eject is under way.  Worked then says where the guest's work is, and *)
(* Locked what the IIfx knows of the tab.                                  *)
(***************************************************************************)
EXTENDS Floppy, TLAPS

UiPcs == {"Idle", "Save", "Copy", "Store", "Load", "Seat", "Name", "Out", "Forget", "Look",
          "Build", "Clear", "Closing", "Closed"}
EmuPcs == {"Run", "Save", "Copy", "Store", "Forget", "Tell"}
SomePath == Paths \cup {Nothing}
SomeDisk == Disks \cup {NoDisk}
UiStates == [pc : UiPcs, op : Ops, arg : SomePath, to : SomePath, buf : SomeDisk, lock : BOOLEAN]
EmuStates == [pc : EmuPcs, to : SomePath, buf : SomeDisk]

\* The step an operation is in.
UiTypes ==
  /\ ui \in UiStates
  /\ ui.pc = "Idle" => ui = Idle
  /\ ui.pc \in {"Load", "Seat", "Name"} => ui.op = "Insert"
  /\ ui.op = "Insert" => ui.arg # Nothing
  /\ ui.pc = "Seat" => ui.buf # NoDisk
  /\ ui.pc \in {"Copy", "Store"} => ui.to # Nothing
  /\ ui.pc = "Store" => ui.buf # NoDisk
  /\ ui.pc = "Out" => ui.op = "Eject"
  /\ ui.pc = "Forget" => ui.op = "Poll" \/ (ui.op = "Eject" /\ machine = "Classic")
  /\ ui.pc = "Look" => ui.op = "Poll"
  /\ ui.pc \in {"Build", "Clear"} => ui.op = "Restart"
  /\ ui.pc \in {"Closing", "Closed"} => ui.op = "Close"
  /\ ui.lock => ui.op = "Insert"

EmuTypes ==
  /\ emu \in EmuStates
  /\ emu.pc \in {"Copy", "Store"} => emu.to # Nothing
  /\ emu.pc = "Store" => emu.buf # NoDisk
  /\ machine # "Classic" => emu.pc = "Run"

CoreTypes ==
  /\ drive \in SomeDisk /\ kept \in SomeDisk /\ staged \in SomeDisk
  /\ ejecting \in {"no", "asked", "runs"} /\ settle \in 0..SettleFrames
  /\ machine # "Quadra" => ejecting = "no" /\ staged = NoDisk
  /\ ejecting = "runs" => drive # NoDisk

FrontTypes ==
  /\ machine \in {"Classic", "Quadra", "Iifx"} /\ careful \in BOOLEAN
  /\ files \in [Paths -> Disks] /\ saved \subseteq Paths \X Saves
  /\ path \in SomePath /\ waiting \in SomePath
  /\ protect \in BOOLEAN /\ tab \in BOOLEAN /\ seen \in BOOLEAN /\ dirty \in BOOLEAN

Types == UiTypes /\ EmuTypes /\ CoreTypes /\ FrontTypes

\* Nothing goes into a drive that is not done with its last disk.
Orderly ==
  /\ staged = NoDisk
  /\ drive = NoDisk => ejecting # "asked"
  /\ emu.pc # "Run" => drive = NoDisk
  /\ machine = "Classic" => waiting = Nothing
  /\ ui.op \in {"Insert", "Restart"} => emu.pc = "Run" /\ (machine # "Iifx" => path = Nothing)
  /\ path = Nothing /\ ui.pc # "Name" => drive = NoDisk
  /\ ui.pc \in {"Forget", "Clear"} => drive = NoDisk
  /\ ui.op = "Poll" /\ ui.pc \in {"Save", "Copy", "Store"} => drive = NoDisk

\* Each step of a write-back has the same disk in hand.
Home ==
  /\ \A p \in Paths : files[p].of = p
  /\ path # Nothing /\ ui.pc # "Name" => Medium.of \in {path, Nothing}
  /\ ui.pc = "Name" => Medium.of = ui.arg
  /\ ui.pc = "Seat" => ui.buf.of = ui.arg
  /\ ui.pc = "Copy" => Medium.of \in {ui.to, Nothing}
  /\ ui.pc = "Store" => ui.buf.of = ui.to
  /\ emu.pc = "Copy" => Medium.of \in {emu.to, Nothing}
  /\ emu.pc = "Store" => emu.buf.of = emu.to

\* The IIfx's tab is that of the disk.
Locked ==
  /\ \A p \in Paths : ~files[p].locked
  /\ path # Nothing /\ ui.pc # "Name" /\ Medium # NoDisk => (Medium.locked <=> tab)
  /\ ui.pc = "Name" => (Medium.locked <=> Protected)
  /\ ui.pc = "Copy" => ~Medium.locked
  /\ ui.pc = "Store" => ~ui.buf.locked

\* Everything the guest saved is in its file.
AllHome == \A w \in saved : w[2] \in files[w[1]].work

\* What keeps the disk in the drive from being written back.
Tab == IF machine = "Iifx" THEN tab ELSE protect

\* Where nothing is left to write back.
Banked ==
  \/ path = Nothing
  \/ ui.pc \in {"Load", "Seat", "Name", "Forget", "Build", "Clear", "Closed"}
  \/ ui.pc = "Out" /\ machine = "Classic"
  \/ emu.pc \in {"Forget", "Tell"}
  \/ Tab /\ path # Nothing

Banks == Banked => AllHome

\* What is not is on the disk whose file the front end knows.
Carries == \A w \in saved : \/ w[2] \in files[w[1]].work
                            \/ w[1] = path /\ Medium.of = path /\ w[2] \in Medium.work

\* A disk that may be written back has all that its file has.
Newer == path # Nothing \/ ui.pc \in {"Copy", "Store", "Name"} \/ emu.pc \in {"Copy", "Store"}
         => Medium = NoDisk \/ files[Medium.of].work \subseteq Medium.work

\* A copy that was taken is still what it was taken of.
Current == /\ ui.pc = "Store" => ui.buf = Medium
           /\ emu.pc = "Store" => emu.buf = Medium
           /\ ui.pc = "Seat" => ui.buf = files[ui.arg]

\* The guest cannot write on what would not be written back.
Tabbed == /\ path # Nothing /\ ui.pc # "Name" /\ drive # NoDisk /\ Tab => drive.locked
          /\ ui.pc = "Name" /\ drive # NoDisk /\ Protected => drive.locked

Worked == Banks /\ Carries /\ Newer /\ Current /\ Tabbed

IInv == /\ Types
        /\ careful => Orderly /\ Worked
        /\ careful \/ machine = "Iifx" => Home
        /\ machine = "Iifx" => Locked

-----------------------------------------------------------------------------
(* Types                                                                   *)

LEMMA TypesImply == Types => FloppyTypeOK
  BY DEF Types, UiTypes, EmuTypes, CoreTypes, FrontTypes, FloppyTypeOK, UiStates, EmuStates, SomeDisk, SomePath

LEMMA NoDiskFacts == /\ NoDisk \notin Disks /\ NoDisk.of = Nothing /\ NoDisk.work = {} /\ NoDisk.locked = FALSE
                     /\ NoDisk \in SomeDisk
  BY NothingAssumption DEF NoDisk, Disks, SomeDisk

\* A disk is not the absence of one, and knows its file.
LEMMA DiskFacts == \A d \in SomeDisk : /\ d # NoDisk => d \in Disks /\ d.of \in Paths /\ d.of # Nothing
                                       /\ d.of \in SomePath /\ d.work \in SUBSET Saves /\ d.locked \in BOOLEAN
  BY NothingAssumption, NoDiskFacts DEF Disks, SomeDisk, SomePath, NoDisk

LEMMA IdleTypes == Idle \in UiStates /\ Idle.pc = "Idle" /\ Idle.op = "Poll" /\ Idle.lock = FALSE
                   /\ Idle.arg = Nothing /\ Idle.to = Nothing /\ Idle.buf = NoDisk
  BY NoDiskFacts DEF Idle, UiStates, UiPcs, Ops, SomePath

LEMMA QuietTypes == Quiet \in EmuStates /\ Quiet.pc = "Run" /\ Quiet.to = Nothing /\ Quiet.buf = NoDisk
  BY NoDiskFacts DEF Quiet, EmuStates, EmuPcs, SomePath

\* What Begin makes of ui.
LEMMA BeginSteps ==
  ASSUME NEW op \in Ops, NEW arg \in SomePath, NEW lock \in BOOLEAN, Begin(op, arg, lock)
  PROVE  /\ ui' \in UiStates
         /\ ui'.pc = First(op) /\ ui'.op = op /\ ui'.arg = arg /\ ui'.to = Nothing /\ ui'.buf = NoDisk
         /\ ui'.lock = lock
<1>1. First(op) \in UiPcs
  BY DEF First, Ops, UiPcs
<1>2. ui' = [pc |-> First(op), op |-> op, arg |-> arg, to |-> Nothing, buf |-> NoDisk, lock |-> lock]
  BY DEF Begin, Idle
<1>3. QED
  BY <1>1, <1>2, NoDiskFacts DEF UiStates, SomePath

LEMMA BeginTypes ==
  ASSUME NEW op \in Ops, NEW arg \in SomePath, NEW lock \in BOOLEAN, Begin(op, arg, lock),
         op = "Insert" => arg # Nothing, lock => op = "Insert"
  PROVE  UiTypes'
<1>1. First(op) \notin {"Idle", "Seat", "Name", "Copy", "Store", "Forget", "Clear", "Closed"}
      /\ (First(op) = "Load" => op = "Insert") /\ (First(op) = "Out" => op = "Eject")
      /\ (First(op) = "Look" => op = "Poll") /\ (First(op) = "Build" => op = "Restart")
      /\ (First(op) = "Closing" => op = "Close")
  BY DEF First, Ops
<1>2. QED
  BY <1>1, BeginSteps DEF UiTypes

LEMMA IdleKeepsTypes == ASSUME ui' = Idle PROVE UiTypes'
  BY IdleTypes DEF UiTypes

LEMMA UnchangedUi == ASSUME UiTypes, UNCHANGED << ui, machine >> PROVE UiTypes'
  BY DEF UiTypes
LEMMA UnchangedEmu == ASSUME EmuTypes, UNCHANGED << emu, machine >> PROVE EmuTypes'
  BY DEF EmuTypes
LEMMA UnchangedCore == ASSUME CoreTypes, UNCHANGED << core, machine >> PROVE CoreTypes'
  BY DEF CoreTypes, core
LEMMA UnchangedFront ==
  ASSUME FrontTypes, UNCHANGED << machine, careful, files, saved, frontEnd >>
  PROVE  FrontTypes'
  BY DEF FrontTypes, frontEnd

\* The medium is the disk in the drive or the last one in it.
LEMMA MediumType == Types => Medium \in SomeDisk
  BY DEF Types, CoreTypes, Medium

LEMMA AfterSaveSteps ==
  ASSUME Types, ui.pc \in {"Save", "Copy", "Store"}
  PROVE  /\ AfterSave \in {"Load", "Out", "Build", "Forget", "Closed"}
         /\ (AfterSave = "Load" <=> ui.op = "Insert") /\ (AfterSave = "Out" <=> ui.op = "Eject")
         /\ (AfterSave = "Build" <=> ui.op = "Restart") /\ (AfterSave = "Forget" <=> ui.op = "Poll")
         /\ (AfterSave = "Closed" <=> ui.op = "Close")
  BY DEF Types, UiTypes, UiStates, Ops, AfterSave

\* The user's thread: each step leaves ui where the next can take it up.
LEMMA UiKeepsTypes ==
  ASSUME Types, [Next]_vars
  PROVE  UiTypes'
<1> USE DEF Types
<1> SUFFICES ASSUME ui' # ui
    PROVE UiTypes'
  <2>1. machine' = machine
    BY DEF Next, vars, GuestWrite, GuestEjects, CoreStep, Frame, CompleteEject, SeatPending, MechanismEnds,
       Noticing, Notice, NoticeSave, NoticeCopy, NoticeStore, NoticeForget, NoticeTell, NoticeStep,
       Ui, UiStep, Save, Copy, Store, Load, SeatDisk, Name, Out, Forget, PollClassic, Poll, Build, Clear, Join,
       Timer, User, Acts, InsertMenu, Drop, EjectMenu, ToggleProtect, Restart, Close
  <2>2. QED
    BY <2>1, UnchangedUi
<1>1. CASE GuestWrite \/ GuestEjects \/ Frame \/ Noticing \/ UNCHANGED vars
  BY <1>1 DEF GuestWrite, GuestEjects, CoreStep, Frame, CompleteEject, SeatPending, MechanismEnds,
       Noticing, Notice, NoticeSave, NoticeCopy, NoticeStore, NoticeForget, NoticeTell, NoticeStep, vars
<1>2. CASE Save
  BY <1>2, AfterSaveSteps DEF Save, UiStep, UiTypes, UiStates, UiPcs, FrontTypes, SomePath
<1>3. CASE Copy
  BY <1>3, AfterSaveSteps, MediumType DEF Copy, UiStep, UiTypes, UiStates, UiPcs
<1>4. CASE Store
  BY <1>4, AfterSaveSteps DEF Store, UiStep, Goes, UiTypes, UiStates, UiPcs
<1>5. CASE Load
  <2>1. files[ui.arg] \in Disks /\ ui.pc = "Load" /\ ui.op = "Insert" /\ ui.arg # Nothing
    BY <1>5 DEF Load, UiTypes, UiStates, FrontTypes, SomePath
  <2>2. machine' = machine /\ ui' = [ui EXCEPT !.pc = "Seat", !.buf = files[ui.arg]]
    BY <1>5 DEF Load, UiStep
  <2>3. ui' \in UiStates
    BY <2>1, <2>2 DEF UiTypes, UiStates, UiPcs, SomeDisk
  <2>4. QED
    BY <2>1, <2>2, <2>3, NoDiskFacts DEF UiTypes, UiStates
<1>6. CASE SeatDisk
  <2>1. CASE ui' = Idle
    BY <2>1, IdleKeepsTypes
  <2>2. CASE Goes("Name")
    BY <1>6, <2>2 DEF SeatDisk, Goes, UiStep, UiTypes, UiStates, UiPcs
  <2>3. QED
    BY <1>6, <2>1, <2>2 DEF SeatDisk
<1>7. CASE Name
  BY <1>7, IdleKeepsTypes DEF Name
<1>8. CASE Out
  <2>1. CASE machine = "Classic"
    BY <1>8, <2>1 DEF Out, UiStep, UiTypes, UiStates, UiPcs
  <2>2. CASE machine # "Classic"
    BY <1>8, <2>2, IdleKeepsTypes DEF Out
  <2>3. QED
    BY <2>1, <2>2
<1>9. ASSUME SeatWaiting
      PROVE  UiTypes'
  <2>1. CASE waiting # Nothing /\ path' = Nothing
    BY <1>9, <2>1, BeginTypes DEF SeatWaiting, FrontTypes, Ops
  <2>2. CASE ~(waiting # Nothing /\ path' = Nothing)
    BY <1>9, <2>2, IdleKeepsTypes DEF SeatWaiting
  <2>3. QED
    BY <2>1, <2>2
<1>10. CASE Forget \/ PollClassic
  BY <1>9, <1>10, IdleKeepsTypes DEF Forget, PollClassic
<1>11. CASE Poll
  <2>1. CASE Goes("Save")
    BY <1>11, <2>1 DEF Poll, Goes, UiStep, UiTypes, UiStates, UiPcs
  <2>2. CASE ~Goes("Save")
    BY <1>9, <1>11, <2>2, IdleKeepsTypes DEF Poll
  <2>3. QED
    BY <2>1, <2>2
<1>12. CASE Build
  BY <1>12 DEF Build, Goes, UiStep, UiTypes, UiStates, UiPcs
<1>13. CASE Clear
  <2>1. CASE ui.arg = Nothing
    BY <1>13, <2>1, IdleKeepsTypes DEF Clear
  <2>2. CASE ui.arg # Nothing
    <3>1. Begin("Insert", ui.arg, FALSE) /\ ui.arg \in SomePath
      BY <1>13, <2>2 DEF Clear, UiTypes, UiStates
    <3>2. QED
      BY <2>2, <3>1, BeginTypes DEF Ops
  <2>3. QED
    BY <2>1, <2>2
<1>14. CASE Join
  BY <1>14 DEF Join, Goes, UiStep, UiTypes, UiStates, UiPcs
<1>15. CASE User
  <2>1. CASE InsertMenu
    <3>1. PICK p \in Paths : Begin("Eject", Nothing, FALSE) \/ Begin("Insert", p, FALSE)
      BY <2>1 DEF InsertMenu
    <3>2. QED
      BY <3>1, BeginTypes, NothingAssumption DEF Ops, SomePath
  <2>2. CASE Drop
    BY <2>2, BeginTypes, NothingAssumption DEF Drop, Ops, SomePath
  <2>3. CASE EjectMenu
    BY <2>3, BeginTypes DEF EjectMenu, Ops, SomePath
  <2>4. CASE ToggleProtect
    BY <2>4, BeginTypes DEF ToggleProtect, FrontTypes, Ops
  <2>5. CASE Restart
    BY <2>5, BeginTypes DEF Restart, Ops, SomePath
  <2>6. CASE Close
    BY <2>6, BeginTypes DEF Close, Ops, SomePath
  <2>7. QED
    BY <1>15, <2>1, <2>2, <2>3, <2>4, <2>5, <2>6 DEF User
<1>16. CASE Timer
  BY <1>16, BeginTypes DEF Timer, Ops, SomePath
<1>17. QED
  BY <1>1, <1>2, <1>3, <1>4, <1>5, <1>6, <1>7, <1>8, <1>10, <1>11, <1>12, <1>13, <1>14, <1>15, <1>16
     DEF Next, Ui

LEMMA EmuKeepsTypes ==
  ASSUME Types, [Next]_vars
  PROVE  EmuTypes'
<1> USE DEF Types
<1>1. CASE GuestWrite \/ GuestEjects \/ Frame \/ Ui \/ Timer \/ User \/ UNCHANGED vars
  <2>1. UNCHANGED << emu, machine >>
    BY <1>1 DEF vars, GuestWrite, GuestEjects, CoreStep, Frame, CompleteEject, SeatPending, MechanismEnds,
       Ui, UiStep, Save, Copy, Store, Load, SeatDisk, Name, Out, Forget, PollClassic, Poll, Build, Clear, Join,
       Timer, User, Acts, InsertMenu, Drop, EjectMenu, ToggleProtect, Restart, Close
  <2>2. QED
    BY <2>1, UnchangedEmu
<1>2. CASE Notice
  BY <1>2 DEF Notice, NoticeStep, At, EmuTypes, EmuStates, EmuPcs
<1>3. CASE NoticeSave
  BY <1>3 DEF NoticeSave, NoticeStep, EmuTypes, EmuStates, EmuPcs, FrontTypes
<1>4. CASE NoticeCopy
  BY <1>4, MediumType DEF NoticeCopy, NoticeStep, EmuTypes, EmuStates, EmuPcs
<1>5. CASE NoticeStore
  BY <1>5 DEF NoticeStore, NoticeStep, At, EmuTypes, EmuStates, EmuPcs
<1>6. CASE NoticeForget
  BY <1>6 DEF NoticeForget, NoticeStep, At, EmuTypes, EmuStates, EmuPcs
<1>7. CASE NoticeTell
  BY <1>7, QuietTypes DEF NoticeTell, NoticeStep, EmuTypes
<1>8. QED
  BY <1>1, <1>2, <1>3, <1>4, <1>5, <1>6, <1>7 DEF Next, Noticing

LEMMA CoreKeepsTypes ==
  ASSUME Types, [Next]_vars
  PROVE  CoreTypes'
<1> USE DEF Types
<1>1. CASE Noticing \/ User \/ Timer \/ UNCHANGED vars
  <2>1. UNCHANGED << core, machine >>
    BY <1>1 DEF vars, Noticing, Notice, NoticeSave, NoticeCopy, NoticeStore, NoticeForget, NoticeTell, NoticeStep,
       Timer, User, Acts, InsertMenu, Drop, EjectMenu, ToggleProtect, Restart, Close
  <2>2. QED
    BY <2>1, UnchangedCore
<1>2. CASE GuestWrite
  <2>1. drive # NoDisk /\ UNCHANGED << machine, kept, ejecting, staged, settle >>
    BY <1>2 DEF GuestWrite
  <2>2. drive' \in Disks /\ drive' # NoDisk
    BY <1>2, DiskFacts, NoDiskFacts DEF GuestWrite, CoreTypes, Disks
  <2>3. QED
    BY <2>1, <2>2 DEF CoreTypes, SomeDisk
<1>3. CASE GuestEjects \/ MechanismEnds
  BY <1>3, NoDiskFacts DEF GuestEjects, MechanismEnds, DiskLeaves, CoreStep, CoreTypes
<1>4. CASE CompleteEject
  BY <1>4, NoDiskFacts DEF CompleteEject, DiskLeaves, CoreStep, CoreTypes
<1>5. CASE SeatPending
  BY <1>5, NoDiskFacts, BoundsAssumption DEF SeatPending, CoreStep, CoreTypes
<1>6. CASE SeatDisk
  <2> DEFINE disk == [ui.buf EXCEPT !.locked = Protected]
  <2>1. disk \in SomeDisk /\ disk # NoDisk
    <3>1. ui.buf \in Disks
      BY <1>6, DiskFacts DEF SeatDisk, UiTypes, UiStates
    <3>2. Protected \in BOOLEAN
      BY DEF Protected, UiTypes, UiStates, FrontTypes
    <3>3. disk \in Disks
      BY <3>1, <3>2 DEF Disks
    <3>4. QED
      BY <3>3, NoDiskFacts DEF SomeDisk
  <2>2. machine' = machine /\ (Seat(disk) \/ UNCHANGED core)
    BY <1>6 DEF SeatDisk, UiStep
  <2> HIDE DEF disk
  <2>3. QED
    BY <2>1, <2>2, UnchangedCore, NoDiskFacts, BoundsAssumption DEF Seat, CoreTypes
<1>7. CASE Out
  BY <1>7, NoDiskFacts DEF Out, UiStep, CoreEject, DiskLeaves, CoreTypes
<1>8. CASE Build
  BY <1>8, NoDiskFacts, BoundsAssumption DEF Build, UiStep, NewMachine, CoreTypes
<1>9. CASE Save \/ Copy \/ Store \/ Load \/ Name \/ Forget \/ PollClassic \/ Poll \/ Clear \/ Join
  BY <1>9, UnchangedCore DEF UiStep, Save, Copy, Store, Load, Name, Forget, PollClassic, Poll, Clear, Join
<1>10. QED
  BY <1>1, <1>2, <1>3, <1>4, <1>5, <1>6, <1>7, <1>8, <1>9 DEF Next, Ui, Frame

\* The files and what the front end knows of them.
LEMMA FrontKeepsTypes ==
  ASSUME Types, [Next]_vars
  PROVE  FrontTypes'
<1> USE DEF Types
<1>1. CASE UNCHANGED << machine, careful, files, saved, frontEnd >>
  BY <1>1, UnchangedFront
<1>2. CASE GuestEjects \/ Frame \/ UNCHANGED vars
  BY <1>1, <1>2 DEF vars, GuestEjects, CoreStep, Frame, CompleteEject, SeatPending, MechanismEnds
<1>3. CASE GuestWrite
  <2>1. UNCHANGED << machine, careful, files, frontEnd >> /\ saved' \subseteq Paths \X Saves
    BY <1>3, DiskFacts DEF GuestWrite, FrontTypes, CoreTypes
  <2>2. QED
    BY <2>1 DEF FrontTypes, frontEnd
<1>4. CASE NoticeStore
  <2>1. emu.to \in Paths /\ emu.buf \in Disks
    BY <1>4, DiskFacts DEF NoticeStore, EmuTypes, EmuStates, SomePath
  <2>2. QED
    BY <1>4, <2>1 DEF NoticeStore, NoticeStep, FrontTypes
<1>5. CASE Notice \/ NoticeSave \/ NoticeCopy \/ NoticeForget \/ NoticeTell
  BY <1>5 DEF Notice, NoticeSave, NoticeCopy, NoticeForget, NoticeTell, NoticeStep, FrontTypes, SomePath
<1>6. CASE Store
  <2>1. ui.to \in Paths /\ ui.buf \in Disks
    BY <1>6, DiskFacts DEF Store, UiTypes, UiStates, SomePath
  <2>2. QED
    BY <1>6, <2>1 DEF Store, UiStep, FrontTypes, frontEnd
<1>7. CASE Save \/ Copy \/ Load \/ SeatDisk \/ Out \/ Build \/ Join
  BY <1>1, <1>7 DEF Save, Copy, Load, SeatDisk, Out, Build, Join, UiStep
<1>8. Protected \in BOOLEAN
  BY DEF Protected, UiTypes, UiStates, FrontTypes
<1>9. CASE Name
  BY <1>8, <1>9 DEF Name, UiStep, FrontTypes, UiTypes, UiStates
<1>10. CASE Forget \/ PollClassic \/ Poll
  BY <1>10 DEF Forget, PollClassic, Poll, SeatWaiting, UiStep, FrontTypes, SomePath
<1>11. CASE Clear
  BY <1>11 DEF Clear, UiStep, FrontTypes, SomePath
<1>12. CASE Timer
  BY <1>1, <1>12 DEF Timer
<1>13. User => UNCHANGED << machine, careful, files, saved >>
  BY DEF User, Acts, InsertMenu, Drop, EjectMenu, ToggleProtect, Restart, Close
<1>14. CASE InsertMenu \/ ToggleProtect
  BY <1>13, <1>14 DEF User, InsertMenu, ToggleProtect, FrontTypes, SomePath
<1>15. CASE Drop \/ EjectMenu \/ Restart \/ Close
  BY <1>1, <1>13, <1>15 DEF User, Drop, EjectMenu, Restart, Close
<1>16. QED
  BY <1>2, <1>3, <1>4, <1>5, <1>6, <1>7, <1>9, <1>10, <1>11, <1>12, <1>14, <1>15
     DEF Next, Ui, Noticing, User

LEMMA InitTypes == Init => Types
<1> SUFFICES ASSUME Init
             PROVE  Types
  OBVIOUS
<1>1. files \in [Paths -> Disks]
  BY DEF Init, Disks
<1>2. FrontTypes
  BY <1>1, MachinesAssumption, MannersAssumption DEF Init, FrontTypes, SomePath
<1>3. CoreTypes
  BY NoDiskFacts, BoundsAssumption DEF Init, CoreTypes
<1>4. UiTypes
  BY IdleTypes DEF Init, UiTypes
<1>5. EmuTypes
  BY QuietTypes DEF Init, EmuTypes
<1>6. QED
  BY <1>2, <1>3, <1>4, <1>5 DEF Types

\* Every variable stays in its type; a mechanism runs only with a disk in the
\* drive, and only the Quadra's drive keeps a request or a disk waiting
\* (quadra.cpp:2346-2403).
THEOREM FloppyTypeCorrect == Spec => []FloppyTypeOK
<1>1. Types /\ [Next]_vars => Types'
  BY UiKeepsTypes, EmuKeepsTypes, CoreKeepsTypes, FrontKeepsTypes DEF Types
<1>2. QED
  BY <1>1, InitTypes, TypesImply, PTL DEF Spec

-----------------------------------------------------------------------------
(* What the steps do to the disk and to the UI thread                      *)

\* Operations begin, and some end; nothing moves but what the UI thread knows.
Fresh == Timer \/ User \/ Forget \/ PollClassic \/ Poll \/ Clear \/ Join
FreshPcs == {"Idle", "Save", "Load", "Out", "Build", "Look", "Closing"}

LEMMA FirstSteps == \A op \in Ops : First(op) \in FreshPcs \ {"Idle"}
  BY DEF First, Ops, FreshPcs

LEMMA SeatWaitingSteps ==
  ASSUME Types, SeatWaiting
  PROVE  ui'.pc \in FreshPcs
<1>1. CASE ui' = Idle
  BY <1>1, IdleTypes DEF FreshPcs
<1>2. CASE Begin("Insert", waiting, FALSE)
  BY <1>2, BeginSteps, FirstSteps DEF Types, FrontTypes, Ops
<1>3. QED
  BY <1>1, <1>2 DEF SeatWaiting

LEMMA FreshSteps ==
  ASSUME Types, Fresh
  PROVE  /\ ui'.pc \in FreshPcs
         /\ ui.pc \in {"Idle", "Forget", "Look", "Clear", "Closing"}
         /\ path' \in {path, Nothing}
         /\ UNCHANGED << machine, careful, files, core, emu, saved >>
<1> USE DEF Types
<1>1. CASE Timer
  BY <1>1, BeginSteps, FirstSteps, IdleTypes DEF Timer, frontEnd, Ops, SomePath
<1>2. CASE User
  <2>1. ui.pc = "Idle" /\ UNCHANGED << machine, careful, files, core, emu, saved, path >>
    BY <1>2, IdleTypes DEF User, Acts, InsertMenu, Drop, EjectMenu, ToggleProtect, Restart, Close, frontEnd
  <2>2. PICK op \in Ops, arg \in SomePath, lock \in BOOLEAN : Begin(op, arg, lock) \/ ui' = ui
    BY <1>2 DEF User, InsertMenu, Drop, EjectMenu, ToggleProtect, Restart, Close, FrontTypes, Ops, SomePath
  <2>3. ui'.pc \in FreshPcs
    BY <2>1, <2>2, BeginSteps, FirstSteps DEF FreshPcs
  <2>4. QED
    BY <2>1, <2>3
<1>3. CASE Forget
  BY <1>3, SeatWaitingSteps, IdleTypes DEF Forget, UiStep, FreshPcs
<1>4. CASE PollClassic
  BY <1>4, SeatWaitingSteps, IdleTypes DEF PollClassic, UiStep, FreshPcs
<1>5. CASE Poll
  <2>1. CASE Goes("Save")
    BY <1>5, <2>1 DEF Poll, Goes, UiStep, FreshPcs, UiTypes, UiStates
  <2>2. CASE ~Goes("Save")
    BY <1>5, <2>2, SeatWaitingSteps, IdleTypes DEF Poll, UiStep, FreshPcs
  <2>3. QED
    BY <2>1, <2>2
<1>6. CASE Clear
  <2>1. ui'.pc \in FreshPcs
    BY <1>6, BeginSteps, FirstSteps, IdleTypes DEF Clear, UiTypes, UiStates, FreshPcs, Ops
  <2>2. QED
    BY <1>6, <2>1 DEF Clear, UiStep
<1>7. CASE Join
  BY <1>7 DEF Join, Goes, UiStep, UiTypes, UiStates, FreshPcs, frontEnd
<1>8. QED
  BY <1>1, <1>2, <1>3, <1>4, <1>5, <1>6, <1>7 DEF Fresh

\* The cases Home is about: the disk that is inserted goes into the drive.
Sure == (careful /\ Orderly) \/ machine = "Iifx"

LEMMA SeatSteps ==
  ASSUME Types, Sure, SeatDisk, ui' # Idle
  PROVE  /\ drive' = [ui.buf EXCEPT !.locked = Protected] /\ drive' # NoDisk /\ Medium' = drive'
         /\ drive' \in Disks /\ drive'.of = ui.buf.of /\ drive'.work = ui.buf.work
         /\ (drive'.locked <=> Protected)
         /\ ui' = [ui EXCEPT !.pc = "Name"] /\ ui \in UiStates /\ ui.pc = "Seat" /\ ui.op = "Insert"
         /\ ejecting' = "no" /\ staged' = staged
         /\ UNCHANGED << machine, careful, files, frontEnd, emu, saved >>
<1> DEFINE disk == [ui.buf EXCEPT !.locked = Protected]
<1>1. Seat(disk) /\ ui' = [ui EXCEPT !.pc = "Name"] /\ ui.pc = "Seat" /\ ui.op = "Insert" /\ ui \in UiStates
      /\ UNCHANGED << machine, careful, files, frontEnd, emu, saved >>
  BY DEF SeatDisk, Goes, UiStep, Types, UiTypes
<1>2. disk \in Disks /\ disk # NoDisk /\ disk.of = ui.buf.of /\ disk.work = ui.buf.work
      /\ (disk.locked <=> Protected)
  <2>1. ui.buf \in Disks
    BY <1>1, DiskFacts DEF Types, UiTypes, UiStates
  <2>2. Protected \in BOOLEAN
    BY DEF Protected, Types, UiTypes, UiStates, FrontTypes
  <2>3. QED
    BY <2>1, <2>2, NoDiskFacts DEF Disks
<1>3. ~(machine = "Quadra" /\ (drive # NoDisk \/ ejecting = "asked"))
  BY <1>1 DEF Sure, Orderly
<1> HIDE DEF disk
<1>4. drive' = disk /\ ejecting' = "no" /\ staged' = staged
  BY <1>1, <1>3 DEF Seat
<1>5. QED
  BY <1>1, <1>2, <1>4 DEF disk, Medium

\* The core refuses the disk, and keeps what it has.
LEMMA RefusedSteps ==
  ASSUME Types, SeatDisk, ui' = Idle
  PROVE  /\ ui.pc = "Seat" /\ Medium' = Medium
         /\ UNCHANGED << core, machine, careful, files, frontEnd, emu, saved >>
<1>1. ~Goes("Name")
  BY IdleTypes DEF Goes, Types, UiTypes, UiStates
<1>2. UNCHANGED core
  BY <1>1, Zenon DEF SeatDisk
<1>3. QED
  BY <1>2 DEF SeatDisk, UiStep, core, Medium

\* A disk that is not in the drive any more is still the last one in it.
LEMMA EjectKeepsMedium ==
  ASSUME Types, DiskLeaves \/ UNCHANGED << drive, kept >>
  PROVE  Medium' = Medium
  BY DEF DiskLeaves, Medium

LEMMA CoreStepsKeepMedium ==
  ASSUME Types, Sure, GuestEjects \/ Frame
  PROVE  Medium' = Medium /\ UNCHANGED << machine, careful, files, frontEnd, ui, emu, saved, staged >>
         /\ (drive = NoDisk => drive' = NoDisk)
         /\ (drive' = drive \/ drive' = NoDisk)
<1>1. CASE GuestEjects \/ MechanismEnds
  BY <1>1, EjectKeepsMedium DEF GuestEjects, MechanismEnds, CoreStep, DiskLeaves
<1>2. CASE CompleteEject
  BY <1>2, EjectKeepsMedium DEF CompleteEject, CoreStep, DiskLeaves
<1>3. ~SeatPending
  BY DEF SeatPending, Sure, Orderly, Types, CoreTypes, FrontTypes
<1>4. QED
  BY <1>1, <1>2, <1>3 DEF Frame

LEMMA OutSteps ==
  ASSUME Types, Out
  PROVE  /\ Medium' = Medium /\ ui.pc = "Out" /\ ui.op = "Eject"
         /\ ui'.pc = (IF machine = "Classic" THEN "Forget" ELSE "Idle")
         /\ ui'.op = (IF machine = "Classic" THEN "Eject" ELSE "Poll")
         /\ (drive' = drive \/ drive' = NoDisk) /\ (machine = "Classic" => drive' = NoDisk)
         /\ staged' = staged
         /\ drive' = NoDisk /\ ejecting' = "asked" => drive = NoDisk /\ ejecting = "asked"
         /\ UNCHANGED << machine, careful, files, frontEnd, emu, saved >>
<1> USE DEF Types
<1>1. (DiskLeaves \/ UNCHANGED << drive, kept >>) /\ staged' = staged
      /\ (drive' = NoDisk /\ ejecting' = "asked" => drive = NoDisk /\ ejecting = "asked")
      /\ (drive' = drive \/ drive' = NoDisk) /\ (machine = "Classic" => drive' = NoDisk)
  BY DEF Out, CoreEject, DiskLeaves, CoreTypes
<1>2. ui'.pc = (IF machine = "Classic" THEN "Forget" ELSE "Idle")
      /\ ui'.op = (IF machine = "Classic" THEN "Eject" ELSE "Poll")
  BY IdleTypes DEF Out, UiTypes, UiStates
<1>3. QED
  BY <1>1, <1>2, EjectKeepsMedium DEF Out, UiStep, UiTypes

LEMMA WriteSteps ==
  ASSUME Types, NEW s \in Saves, drive # NoDisk, drive' = [drive EXCEPT !.work = @ \cup {s}], kept' = kept
  PROVE  /\ Medium = drive /\ Medium' = drive' /\ drive' # NoDisk /\ drive.of \in Paths
         /\ drive'.of = drive.of /\ drive'.work = drive.work \cup {s} /\ drive'.locked = drive.locked
<1>1. drive \in Disks
  BY DiskFacts DEF Types, CoreTypes
<1>2. drive' \in Disks /\ drive'.of = drive.of /\ drive'.work = drive.work \cup {s} /\ drive'.locked = drive.locked
      /\ drive.of \in Paths
  BY <1>1 DEF Disks
<1>3. QED
  BY <1>2, NoDiskFacts DEF Medium

LEMMA BuildSteps ==
  ASSUME Types, Build
  PROVE  /\ Medium' = NoDisk /\ drive' = NoDisk /\ staged' = NoDisk /\ ejecting' = "no"
         /\ ui.pc = "Build" /\ ui.op = "Restart" /\ ui'.pc = "Clear" /\ ui'.op = "Restart"
         /\ UNCHANGED << machine, careful, files, frontEnd, emu, saved >>
  BY DEF Build, NewMachine, Goes, UiStep, Types, UiTypes, UiStates, Medium

-----------------------------------------------------------------------------
(* Each step of a write-back has the same disk in hand                     *)

LEMMA HomeKept ==
  ASSUME Types, Sure, Home, [Next]_vars
  PROVE  Home'
<1> USE DEF Types
<1>1. emu.pc # "Run" => careful /\ Orderly
  BY DEF Sure, EmuTypes
<1>2. ui.pc \in {"Load", "Seat", "Name"} => emu.pc = "Run"
  BY <1>1 DEF UiTypes, Orderly
<1>3. ASSUME Medium'.of = Medium.of, UNCHANGED << files, frontEnd, ui, emu >>
      PROVE  Home'
  BY <1>3 DEF Home, frontEnd
<1>4. CASE UNCHANGED vars
  BY <1>3, <1>4 DEF vars, core, Medium
<1>5. CASE GuestWrite
  <2>1. PICK s \in Saves : drive # NoDisk /\ drive' = [drive EXCEPT !.work = @ \cup {s}]
                           /\ UNCHANGED << files, kept, frontEnd, ui, emu >>
    BY <1>5 DEF GuestWrite
  <2>2. QED
    BY <2>1, <1>3, WriteSteps
<1>6. CASE GuestEjects \/ Frame
  BY <1>3, <1>6, CoreStepsKeepMedium
<1>7. CASE Noticing
  <2>1. Medium' = Medium /\ ui' = ui
    BY <1>7 DEF Noticing, Notice, NoticeSave, NoticeCopy, NoticeStore, NoticeForget, NoticeTell, NoticeStep,
                core, Medium
  <2>2. CASE Notice
    BY <2>1, <2>2 DEF Notice, NoticeStep, At, EmuTypes, EmuStates, Home
  <2>3. CASE NoticeSave
    BY <1>2, <2>1, <2>3 DEF NoticeSave, NoticeStep, EmuTypes, EmuStates, Home
  <2>4. CASE NoticeCopy
    BY <2>1, <2>4, MediumType, DiskFacts DEF NoticeCopy, NoticeStep, EmuTypes, EmuStates, Home
  <2>5. CASE NoticeStore
    <3>1. /\ files' = [files EXCEPT ![emu.to] = emu.buf] /\ emu.buf.of = emu.to
          /\ path' = path /\ emu'.pc = "Forget"
      BY <2>5 DEF NoticeStore, NoticeStep, At, EmuTypes, EmuStates, Home
    <3>2. \A p \in Paths : files'[p].of = p
      BY <3>1 DEF FrontTypes, Home
    <3>3. QED
      BY <2>1, <3>1, <3>2 DEF Home
  <2>6. CASE NoticeForget
    BY <2>1, <2>6 DEF NoticeForget, NoticeStep, At, EmuTypes, EmuStates, Home
  <2>7. CASE NoticeTell
    BY <2>1, <2>7, QuietTypes DEF NoticeTell, NoticeStep, Home
  <2>8. QED
    BY <1>7, <2>2, <2>3, <2>4, <2>5, <2>6, <2>7 DEF Noticing
<1>8. CASE Fresh
  <2>1. Medium' = Medium /\ UNCHANGED << files, emu >> /\ path' \in {path, Nothing}
        /\ ui'.pc \notin {"Name", "Seat", "Copy", "Store"} /\ ui.pc # "Name"
    BY <1>8, FreshSteps DEF core, Medium, FreshPcs
  <2>2. QED
    BY <2>1 DEF Home
<1>9. CASE Save \/ Copy \/ Store \/ Load
  <2>1. Medium' = Medium /\ UNCHANGED << emu, path >> /\ ui.pc # "Name"
    BY <1>9 DEF Save, Copy, Store, Load, UiStep, core, frontEnd, Medium
  <2>2. CASE Save
    BY <2>1, <2>2, AfterSaveSteps DEF Save, UiTypes, UiStates, Home
  <2>3. CASE Copy
    BY <2>1, <2>3, MediumType, DiskFacts, AfterSaveSteps DEF Copy, UiTypes, UiStates, Home
  <2>4. CASE Store
    <3>1. /\ files' = [files EXCEPT ![ui.to] = ui.buf] /\ ui.buf.of = ui.to
          /\ ui'.pc = AfterSave
      BY <2>4 DEF Store, Goes, UiTypes, UiStates, Home
    <3>2. \A p \in Paths : files'[p].of = p
      BY <3>1 DEF FrontTypes, Home
    <3>3. QED
      BY <2>1, <2>4, <3>1, <3>2, AfterSaveSteps DEF Home, Store
  <2>5. CASE Load
    BY <2>1, <2>5 DEF Load, UiTypes, UiStates, SomePath, Home
  <2>6. QED
    BY <1>9, <2>2, <2>3, <2>4, <2>5
<1>10. CASE SeatDisk
  <2>1. CASE ui' = Idle
    BY <1>10, <2>1, RefusedSteps, IdleTypes DEF Home, frontEnd
  <2>2. CASE ui' # Idle
    <3>1. /\ Medium'.of = ui.buf.of /\ ui.pc = "Seat" /\ ui'.pc = "Name" /\ ui'.arg = ui.arg
          /\ UNCHANGED << files, frontEnd, emu >>
      BY <1>10, <2>2, SeatSteps DEF UiStates
    <3>2. QED
      BY <1>2, <3>1 DEF Home
  <2>3. QED
    BY <2>1, <2>2
<1>11. CASE Name
  <2>1. Medium' = Medium /\ UNCHANGED << files, emu >> /\ path' = ui.arg /\ ui.pc = "Name" /\ ui'.pc = "Idle"
    BY <1>11, IdleTypes DEF Name, UiStep, core, Medium
  <2>2. QED
    BY <2>1 DEF Home
<1>12. CASE Out
  BY <1>12, OutSteps DEF Home, frontEnd
<1>13. CASE Build
  BY <1>13, BuildSteps, NoDiskFacts DEF Home, frontEnd
<1>14. QED
  BY <1>4, <1>5, <1>6, <1>7, <1>8, <1>9, <1>10, <1>11, <1>12, <1>13 DEF Next, Ui, Fresh

-----------------------------------------------------------------------------
(* The IIfx's tab                                                          *)

LEMMA LockedKept ==
  ASSUME Types, machine = "Iifx", Locked, [Next]_vars
  PROVE  Locked'
<1> USE DEF Types
<1>1. Sure
  BY DEF Sure
<1>2. emu.pc = "Run"
  BY DEF EmuTypes
<1>3. ASSUME Medium' = Medium, UNCHANGED << files, frontEnd, ui >>
      PROVE  Locked'
  BY <1>3 DEF Locked, frontEnd, Protected
<1>4. CASE UNCHANGED vars
  BY <1>3, <1>4 DEF vars, core, Medium
<1>5. CASE GuestWrite
  <2>1. PICK s \in Saves : drive # NoDisk /\ drive' = [drive EXCEPT !.work = @ \cup {s}]
                           /\ UNCHANGED << files, kept, frontEnd, ui, emu >>
    BY <1>5 DEF GuestWrite
  <2>2. (Medium'.locked <=> Medium.locked) /\ Medium # NoDisk
    BY <2>1, WriteSteps
  <2>3. QED
    BY <2>1, <2>2 DEF Locked, frontEnd, Protected
<1>6. CASE GuestEjects \/ Frame
  BY <1>1, <1>3, <1>6, CoreStepsKeepMedium
<1>7. CASE Noticing
  BY <1>2, <1>7 DEF Noticing, Notice, NoticeSave, NoticeCopy, NoticeStore, NoticeForget, NoticeTell
<1>8. CASE Fresh
  <2>1. Medium' = Medium /\ files' = files /\ ui'.pc \notin {"Name", "Copy", "Store"} /\ ui.pc # "Name"
        /\ path' \in {path, Nothing}
    BY <1>8, FreshSteps DEF core, Medium, FreshPcs
  <2>2. path' = Nothing \/ tab' = tab
    BY <1>8 DEF Fresh, Timer, User, InsertMenu, Drop, EjectMenu, ToggleProtect, Restart, Close, Forget,
                PollClassic, Poll, Clear, Join, frontEnd
  <2>3. QED
    BY <2>1, <2>2 DEF Locked
<1>9. CASE Save \/ Copy \/ Store \/ Load
  <2>1. Medium' = Medium /\ UNCHANGED << emu, path, tab >> /\ ui.pc # "Name"
    BY <1>9 DEF Save, Copy, Store, Load, UiStep, core, frontEnd, Medium
  <2>2. CASE Save
    BY <2>1, <2>2, NoDiskFacts, AfterSaveSteps DEF Save, HeldBack, UiTypes, UiStates, Locked
  <2>3. CASE Copy
    BY <2>1, <2>3, AfterSaveSteps DEF Copy, UiTypes, UiStates, Locked
  <2>4. CASE Store
    <3>1. /\ files' = [files EXCEPT ![ui.to] = ui.buf] /\ ~ui.buf.locked
          /\ ui'.pc = AfterSave
      BY <2>4 DEF Store, Goes, UiTypes, UiStates, Locked
    <3>2. \A p \in Paths : ~files'[p].locked
      BY <3>1 DEF FrontTypes, Locked
    <3>3. QED
      BY <2>1, <2>4, <3>1, <3>2, AfterSaveSteps DEF Locked, Store
  <2>5. CASE Load
    BY <2>1, <2>5 DEF Load, UiTypes, UiStates, Locked
  <2>6. QED
    BY <1>9, <2>2, <2>3, <2>4, <2>5
<1>10. CASE SeatDisk
  <2>1. CASE ui' = Idle
    BY <1>10, <2>1, RefusedSteps, IdleTypes DEF Locked, frontEnd
  <2>2. CASE ui' # Idle
    <3>1. /\ (Medium'.locked <=> Protected) /\ ui'.pc = "Name" /\ UNCHANGED << files, frontEnd >>
          /\ (ui'.lock <=> ui.lock)
      BY <1>1, <1>10, <2>2, SeatSteps DEF UiStates
    <3>2. Protected' <=> Protected
      BY <3>1 DEF Protected, frontEnd
    <3>3. QED
      BY <3>1, <3>2 DEF Locked
  <2>3. QED
    BY <2>1, <2>2
<1>11. CASE Name
  <2>1. Medium' = Medium /\ files' = files /\ tab' = Protected /\ ui.pc = "Name" /\ ui'.pc = "Idle"
    BY <1>11, IdleTypes DEF Name, UiStep, core, Medium
  <2>2. QED
    BY <2>1 DEF Locked
<1>12. CASE Out
  BY <1>12, OutSteps DEF Locked, frontEnd
<1>13. CASE Build
  BY <1>13, BuildSteps, NoDiskFacts DEF Locked, frontEnd
<1>14. QED
  BY <1>4, <1>5, <1>6, <1>7, <1>8, <1>9, <1>10, <1>11, <1>12, <1>13 DEF Next, Ui, Fresh

-----------------------------------------------------------------------------
(* The careful user's order of things                                      *)

\* What a careful user begins.
LEMMA UserSteps ==
  ASSUME Types, careful, User
  PROVE  /\ ui.pc = "Idle" /\ UNCHANGED << path, tab >>
         /\ protect' = protect \/ path = Nothing \/ machine = "Iifx"
         /\ waiting' = waiting \/ machine # "Classic"
         /\ ui' = ui \/ \E op \in {"Insert", "Eject", "Restart", "Close"} :
              /\ ui'.op = op /\ ui'.pc = First(op)
              /\ op \in {"Insert", "Restart"} => emu.pc = "Run" /\ (path = Nothing \/ machine = "Iifx")
<1>1. ui.pc = "Idle" /\ UNCHANGED << path, tab >>
  BY IdleTypes DEF User, Acts, InsertMenu, Drop, EjectMenu, ToggleProtect, Restart, Close, frontEnd
<1>2. PICK op \in {"Insert", "Eject", "Restart", "Close"}, arg \in SomePath, lock \in BOOLEAN :
        /\ ui' = ui \/ Begin(op, arg, lock)
        /\ ui' = ui \/ op \notin {"Insert", "Restart"} \/ MayInsert
  <2>1. CASE InsertMenu \/ Drop
    BY <2>1 DEF InsertMenu, Drop, SomePath
  <2>2. CASE EjectMenu \/ Close
    BY <2>2 DEF EjectMenu, Close, SomePath
  <2>3. CASE ToggleProtect
    BY <2>3 DEF ToggleProtect, Types, FrontTypes
  <2>4. CASE Restart
    BY <2>4 DEF Restart, SomePath
  <2>5. QED
    BY <2>1, <2>2, <2>3, <2>4 DEF User
<1>3. protect' = protect \/ path = Nothing \/ machine = "Iifx"
  BY DEF User, InsertMenu, Drop, EjectMenu, ToggleProtect, Restart, Close, frontEnd, MayInsert
<1>4. waiting' = waiting \/ machine # "Classic"
  BY DEF User, InsertMenu, Drop, EjectMenu, ToggleProtect, Restart, Close, frontEnd, MaySwap
<1>5. op \in Ops
  BY <1>2 DEF Ops
<1>6. CASE ui' = ui
  BY <1>1, <1>3, <1>4, <1>6
<1>7. CASE Begin(op, arg, lock) /\ ui' # ui
  <2>1. ui'.op = op /\ ui'.pc = First(op)
    BY <1>5, <1>7, BeginSteps
  <2>2. QED
    BY <1>1, <1>2, <1>3, <1>4, <1>7, <2>1 DEF MayInsert
<1>8. QED
  BY <1>2, <1>6, <1>7

\* The swapped disk is begun only on an empty drive.
LEMMA SwapSteps ==
  ASSUME Types, careful, Orderly, SeatWaiting
  PROVE  /\ waiting' \in {waiting, Nothing}
         /\ \/ ui'.pc = "Idle" /\ ui'.op = "Poll"
            \/ ui'.op = "Insert" /\ ui'.pc = First("Insert") /\ path' = Nothing /\ machine # "Classic"
<1>1. CASE waiting # Nothing /\ path' = Nothing
  <2>1. machine # "Classic" /\ waiting' = Nothing /\ Begin("Insert", waiting, FALSE)
    BY <1>1 DEF SeatWaiting, Orderly
  <2>2. QED
    BY <1>1, <2>1, BeginSteps DEF Types, FrontTypes, Ops
<1>2. CASE ~(waiting # Nothing /\ path' = Nothing)
  BY <1>2, IdleTypes DEF SeatWaiting
<1>3. QED
  BY <1>1, <1>2

LEMMA FreshKeepsOrder ==
  ASSUME Types, careful, Orderly, Fresh
  PROVE  Orderly'
<1> USE DEF Types
<1>1. UNCHANGED << machine, careful, files, drive, staged, ejecting, emu >>
  BY FreshSteps DEF core
<1>2. machine # "Classic" => emu.pc = "Run"
  BY DEF EmuTypes
<1>3. First("Insert") \in {"Load", "Save"} /\ First("Eject") \in {"Save", "Out"}
      /\ First("Restart") \in {"Build", "Save"} /\ First("Close") = "Closing" /\ First("Poll") = "Look"
  BY DEF First
<1>4. CASE Timer
  <2>1. ui'.op = "Poll" /\ ui'.pc = "Look" /\ ui.pc = "Idle" /\ UNCHANGED << path, waiting >>
    BY <1>3, <1>4, BeginSteps, IdleTypes DEF Timer, frontEnd, Ops, SomePath
  <2>2. QED
    BY <1>1, <2>1 DEF Orderly
<1>5. CASE User
  <2>1. ui.pc = "Idle" /\ path' = path /\ (waiting' = waiting \/ machine # "Classic")
    BY <1>5, UserSteps
  <2>2. CASE ui' = ui
    BY <1>1, <2>1, <2>2 DEF Orderly
  <2>3. CASE ui' # ui
    <3>1. PICK op \in {"Insert", "Eject", "Restart", "Close"} :
              /\ ui'.op = op /\ ui'.pc = First(op)
              /\ op \in {"Insert", "Restart"} => emu.pc = "Run" /\ (path = Nothing \/ machine = "Iifx")
      BY <1>5, <2>3, UserSteps
    <3>2. ui'.op # "Poll" /\ ui'.pc \notin {"Forget", "Clear", "Name"}
      BY <1>3, <3>1
    <3>3. ui'.op \in {"Insert", "Restart"} => emu'.pc = "Run" /\ (machine # "Iifx" => path' = Nothing)
      BY <1>1, <2>1, <3>1
    <3>4. QED
      BY <1>1, <2>1, <3>2, <3>3 DEF Orderly
  <2>4. QED
    BY <2>2, <2>3
<1>6. ASSUME SeatWaiting, path' \in {path, Nothing}, path' = Nothing => drive = NoDisk, ui.pc # "Name"
      PROVE  Orderly'
  <2>1. waiting' \in {waiting, Nothing}
    BY <1>6, SwapSteps
  <2>2. CASE ui'.pc = "Idle" /\ ui'.op = "Poll"
    BY <1>1, <1>6, <2>1, <2>2 DEF Orderly
  <2>3. CASE ui'.op = "Insert" /\ ui'.pc = First("Insert") /\ path' = Nothing /\ machine # "Classic"
    BY <1>1, <1>2, <1>3, <1>6, <2>1, <2>3 DEF Orderly
  <2>4. QED
    BY <1>6, <2>2, <2>3, SwapSteps
<1>7. ASSUME ui' = Idle, waiting' = waiting, path' \in {path, Nothing}, path' = Nothing => drive = NoDisk
      PROVE  Orderly'
  BY <1>1, <1>7, IdleTypes DEF Orderly
<1>8. CASE Forget
  <2>1. drive = NoDisk /\ path' = Nothing /\ ui.pc = "Forget"
    BY <1>8 DEF Forget, Orderly
  <2>2. QED
    BY <1>6, <1>7, <1>8, <2>1 DEF Forget
<1>9. CASE PollClassic
  <2>1. path' = path /\ ui.pc = "Look" /\ (path = Nothing => drive = NoDisk)
    BY <1>9 DEF PollClassic, Orderly
  <2>2. QED
    BY <1>6, <1>7, <1>9, <2>1 DEF PollClassic
<1>10. CASE Poll
  <2>1. path' = path /\ ui.pc = "Look" /\ (path = Nothing => drive = NoDisk)
    BY <1>10 DEF Poll, Orderly
  <2>2. CASE Goes("Save") /\ drive = NoDisk /\ waiting' = waiting
    <3>1. ui'.pc = "Save" /\ ui'.op = "Poll"
      BY <2>1, <2>2 DEF Goes, UiTypes, UiStates
    <3>2. QED
      BY <1>1, <2>1, <2>2, <3>1 DEF Orderly
  <2>3. QED
    BY <1>6, <1>7, <1>10, <2>1, <2>2 DEF Poll
<1>11. CASE Clear
  <2>1. drive = NoDisk /\ ui.pc = "Clear" /\ ui.op = "Restart" /\ emu.pc = "Run" /\ path' \in {path, Nothing}
        /\ (machine # "Iifx" => path' = Nothing) /\ waiting' = waiting
    BY <1>11 DEF Clear, Orderly, UiTypes
  <2>2. CASE ui.arg # Nothing
    <3>1. ui'.op = "Insert" /\ ui'.pc = First("Insert")
      BY <1>11, <2>2, BeginSteps DEF Clear, UiTypes, UiStates, Ops
    <3>2. QED
      BY <1>1, <1>3, <2>1, <3>1 DEF Orderly
  <2>3. QED
    BY <1>7, <1>11, <2>1, <2>2 DEF Clear
<1>12. CASE Join
  <2>1. ui'.pc = "Save" /\ ui'.op = "Close" /\ ui.pc = "Closing" /\ UNCHANGED << path, waiting >>
    BY <1>12 DEF Join, Goes, UiTypes, UiStates, frontEnd
  <2>2. QED
    BY <1>1, <2>1 DEF Orderly
<1>13. QED
  BY <1>4, <1>5, <1>8, <1>9, <1>10, <1>11, <1>12 DEF Fresh

LEMMA OrderKept ==
  ASSUME Types, careful, Orderly, [Next]_vars
  PROVE  Orderly'
<1> USE DEF Types
<1>1. Sure
  BY DEF Sure
<1>2. CASE UNCHANGED vars
  BY <1>2 DEF vars, core, frontEnd, Orderly
<1>3. CASE GuestWrite
  <2>1. drive # NoDisk /\ UNCHANGED << machine, ejecting, staged, frontEnd, ui, emu >>
    BY <1>3 DEF GuestWrite
  <2>2. drive' # NoDisk
    BY <1>3, WriteSteps DEF GuestWrite
  <2>3. QED
    BY <2>1, <2>2 DEF Orderly, frontEnd
<1>4. CASE GuestEjects \/ Frame
  <2>1. staged' = staged /\ drive' \in {drive, NoDisk} /\ UNCHANGED << machine, frontEnd, ui, emu >>
    BY <1>1, <1>4, CoreStepsKeepMedium
  <2>2. drive' = NoDisk => ejecting' # "asked"
    BY <1>4 DEF GuestEjects, Frame, MechanismEnds, CompleteEject, SeatPending, Orderly
  <2>3. QED
    BY <2>1, <2>2 DEF Orderly, frontEnd
<1>5. CASE Noticing
  <2>1. UNCHANGED << machine, drive, ejecting, staged, ui, waiting >>
    BY <1>5 DEF Noticing, Notice, NoticeSave, NoticeCopy, NoticeStore, NoticeForget, NoticeTell, NoticeStep, core
  <2>2. machine = "Classic" /\ drive = NoDisk
    BY <1>5 DEF Noticing, Notice, NoticeSave, NoticeCopy, NoticeStore, NoticeForget, NoticeTell, Orderly, EmuTypes
  <2>3. CASE Notice
    BY <2>1, <2>2, <2>3 DEF Notice, At, EmuTypes, EmuStates, Orderly
  <2>4. CASE ~Notice
    <3>1. emu.pc # "Run" /\ path' \in {path, Nothing}
      BY <1>5, <2>4 DEF Noticing, NoticeSave, NoticeCopy, NoticeStore, NoticeForget, NoticeTell
    <3>2. QED
      BY <2>1, <2>2, <3>1 DEF Orderly
  <2>5. QED
    BY <2>3, <2>4
<1>6. CASE Fresh
  BY <1>6, FreshKeepsOrder
<1>7. CASE Save \/ Copy \/ Store \/ Load
  <2>1. UNCHANGED << machine, core, frontEnd, emu >>
    BY <1>7 DEF Save, Copy, Store, Load, UiStep
  <2>2. ui'.op = ui.op /\ ui.pc \in {"Save", "Copy", "Store", "Load"}
    BY <1>7 DEF Save, Copy, Store, Load, Goes, UiTypes, UiStates
  <2>3. \/ ui'.pc \in {"Seat", "Copy", "Store"}
        \/ ui'.pc = AfterSave /\ ui.pc \in {"Save", "Copy", "Store"}
    BY <1>7 DEF Save, Copy, Store, Load, Goes, UiTypes, UiStates
  <2>4. ui'.pc \in {"Seat", "Copy", "Store"} \/ ui'.pc \in {"Load", "Out", "Build", "Closed"}
        \/ (ui'.pc = "Forget" /\ ui.op = "Poll" /\ ui.pc \in {"Save", "Copy", "Store"})
    BY <2>3, AfterSaveSteps
  <2>5. ui'.pc # "Clear" /\ ui'.pc # "Name"
    BY <2>4
  <2>6. ui.pc = "Load" => ui.op = "Insert"
    BY DEF UiTypes
  <2>7. ui'.pc \in {"Save", "Copy", "Store", "Forget"} /\ ui.op = "Poll" => drive = NoDisk
    BY <2>2, <2>6 DEF Orderly
  <2>8. ui'.pc = "Forget" => ui.op = "Poll"
    BY <2>4
  <2>9. QED
    BY <2>1, <2>2, <2>5, <2>7, <2>8 DEF Orderly, core, frontEnd
<1>8. CASE SeatDisk
  <2>1. CASE ui' = Idle
    BY <1>8, <2>1, RefusedSteps, IdleTypes DEF Orderly, core, frontEnd
  <2>2. CASE ui' # Idle
    <3>1. drive' # NoDisk /\ staged' = staged /\ ui'.pc = "Name" /\ ui'.op = "Insert" /\ ui.op = "Insert"
          /\ UNCHANGED << machine, frontEnd, emu >>
      BY <1>1, <1>8, <2>2, SeatSteps DEF UiStates
    <3>2. QED
      BY <3>1 DEF Orderly, frontEnd
  <2>3. QED
    BY <2>1, <2>2
<1>9. CASE Name
  <2>1. UNCHANGED << machine, core, waiting, emu >> /\ path' # Nothing /\ ui'.pc = "Idle" /\ ui'.op = "Poll"
    BY <1>9, IdleTypes DEF Name, UiStep, UiTypes
  <2>2. QED
    BY <2>1 DEF Orderly, core
<1>10. CASE Out
  BY <1>10, OutSteps DEF Orderly, frontEnd
<1>11. CASE Build
  BY <1>11, BuildSteps DEF Orderly, frontEnd
<1>12. QED
  BY <1>2, <1>3, <1>4, <1>5, <1>6, <1>7, <1>8, <1>9, <1>10, <1>11 DEF Next, Ui, Fresh

-----------------------------------------------------------------------------
(* The guest's work                                                        *)

\* Beginning an operation leaves nothing to write back that was not left before.
LEMMA FreshBanked ==
  ASSUME Types, careful, Orderly, Fresh
  PROVE  /\ Banked' => Banked
         /\ path' = Nothing \/ (Tab' <=> Tab) \/ drive = NoDisk
         /\ ui'.pc \notin {"Name", "Seat", "Copy", "Store"} /\ ui.pc # "Name"
<1> USE DEF Types
<1>1. /\ UNCHANGED << machine, emu >> /\ path' \in {path, Nothing} /\ ui'.pc \in FreshPcs
      /\ ui.pc \in {"Idle", "Forget", "Look", "Clear", "Closing"}
  BY FreshSteps
<1>2. ui'.pc \notin {"Name", "Seat", "Copy", "Store"} /\ ui.pc # "Name"
  BY <1>1 DEF FreshPcs
<1>3. CASE Forget \/ Clear
  <2>1. Banked
    BY <1>3 DEF Forget, Clear, Banked, UiTypes, Orderly
  <2>2. path' = Nothing \/ drive = NoDisk
    BY <1>3 DEF Forget, Clear, Orderly
  <2>3. QED
    BY <1>2, <2>1, <2>2
<1>4. First("Insert") \in {"Load", "Save"} /\ (First("Insert") = "Load" => machine = "Quadra")
      /\ First("Restart") \in {"Build", "Save"} /\ (First("Restart") = "Build" => machine = "Quadra")
      /\ (First("Eject") = "Save" <=> machine = "Classic") /\ First("Eject") \in {"Save", "Out"}
      /\ First("Close") = "Closing" /\ First("Poll") = "Look"
  BY DEF First
<1>5. ASSUME path' = path, (Tab' <=> Tab) \/ path = Nothing,
             \/ path = Nothing \/ ui' = ui \/ ui'.pc \in {"Idle", "Save", "Look", "Closing"}
             \/ ui'.pc = "Out" /\ machine # "Classic"
      PROVE  (Banked' => Banked) /\ (path' = Nothing \/ (Tab' <=> Tab) \/ drive = NoDisk)
  BY <1>1, <1>5 DEF Banked
<1>6. CASE Timer \/ Join
  <2>1. UNCHANGED << path, Tab >>
    BY <1>6 DEF Timer, Join, UiStep, frontEnd, Tab
  <2>2. ui'.pc \in {"Look", "Save"}
    BY <1>4, <1>6, BeginSteps DEF Timer, Join, Goes, UiTypes, UiStates, Ops, SomePath
  <2>3. QED
    BY <1>2, <1>5, <2>1, <2>2
<1>7. CASE User
  <2>1. UNCHANGED path /\ ((Tab' <=> Tab) \/ path = Nothing)
    BY <1>1, <1>7, UserSteps DEF Tab
  <2>2. QED
    BY <1>2, <1>4, <1>5, <1>7, <2>1, UserSteps
<1>8. ASSUME SeatWaiting, path' = path
      PROVE  path = Nothing \/ ui'.pc = "Idle"
  BY <1>8, SwapSteps
<1>9. CASE PollClassic \/ Poll
  <2>1. UNCHANGED << path, Tab >>
    BY <1>1, <1>9 DEF PollClassic, Poll, Tab
  <2>2. path = Nothing \/ ui'.pc \in {"Idle", "Save"}
    BY <1>8, <1>9, <2>1, IdleTypes DEF PollClassic, Poll, Goes, UiTypes, UiStates
  <2>3. QED
    BY <1>2, <1>5, <2>1, <2>2
<1>10. QED
  BY <1>3, <1>6, <1>7, <1>9 DEF Fresh

LEMMA NothingLeft ==
  ASSUME AllHome, UNCHANGED << files, saved >>
  PROVE  Banks' /\ Carries'
  BY DEF AllHome, Banks, Carries

\* The guest writes only on a disk that will be written back.
LEMMA WriteKeepsWork ==
  ASSUME Types, careful, Orderly, Home, Worked, GuestWrite
  PROVE  Worked'
<1> USE DEF Types, Worked
<1>1. PICK s \in Saves :
        /\ drive # NoDisk /\ ~drive.locked /\ emu.pc = "Run" /\ ui.op = "Poll" /\ kept' = kept
        /\ drive' = [drive EXCEPT !.work = @ \cup {s}] /\ saved' = saved \cup {<< drive.of, s >>}
        /\ UNCHANGED << machine, files, frontEnd, ui, emu >>
  BY DEF GuestWrite, Running
<1>2. /\ Medium = drive /\ Medium' = drive' /\ drive' # NoDisk /\ drive.of \in Paths
      /\ drive'.of = drive.of /\ drive'.work = drive.work \cup {s} /\ drive'.locked = drive.locked
  BY <1>1, WriteSteps
<1>3. ui.pc \notin {"Load", "Seat", "Name", "Forget", "Out", "Build", "Clear", "Closed", "Copy", "Store"}
  BY <1>1 DEF Orderly, UiTypes
<1>4. path # Nothing /\ drive.of = path
  BY <1>1, <1>2, <1>3, NothingAssumption DEF Orderly, Home
<1>5. ~Tab
  BY <1>1, <1>3, <1>4 DEF Tabbed
<1>6. ~Banked /\ (Banked' <=> Banked) /\ (Tab' <=> Tab)
  BY <1>1, <1>3, <1>4, <1>5 DEF Banked, Tab, frontEnd
<1>7. Carries'
  <2> SUFFICES ASSUME NEW w \in saved'
               PROVE  \/ w[2] \in files[w[1]].work
                      \/ w[1] = path /\ drive'.of = path /\ w[2] \in drive'.work
    BY <1>1, <1>2 DEF Carries, frontEnd
  <2>1. CASE w \in saved
    BY <1>2, <2>1 DEF Carries
  <2>2. CASE w = << drive.of, s >>
    BY <1>2, <1>4, <2>2
  <2>3. QED
    BY <1>1, <2>1, <2>2
<1>8. Newer'
  BY <1>1, <1>2, <1>4 DEF Newer, frontEnd
<1>9. QED
  BY <1>1, <1>2, <1>3, <1>6, <1>7, <1>8, <1>5 DEF Banks, Current, Tabbed

\* Storing the disk that has everything its file has brings everything home.
LEMMA StoreBringsHome ==
  ASSUME Types, Home, Carries, NEW p \in Paths, Medium # NoDisk, Medium.of = p,
         files[p].work \subseteq Medium.work, files' = [files EXCEPT ![p] = Medium], saved' = saved
  PROVE  AllHome' /\ files'[p].work = Medium.work
<1>1. files \in [Paths -> Disks] /\ saved \subseteq Paths \X Saves
  BY DEF Types, FrontTypes
<1>2. files'[p] = Medium
  BY <1>1
<1>3. ASSUME NEW w \in saved
      PROVE  w[2] \in files'[w[1]].work
  <2>1. w[1] \in Paths
    BY <1>1
  <2>2. CASE w[1] = p
    BY <1>2, <2>2 DEF Carries
  <2>3. CASE w[1] # p
    <3>1. files'[w[1]] = files[w[1]]
      BY <1>1, <2>1, <2>3
    <3>2. ~(w[1] = path /\ Medium.of = path)
      BY <2>3
    <3>3. QED
      BY <3>1, <3>2 DEF Carries
  <2>4. QED
    BY <2>2, <2>3
<1>4. QED
  BY <1>2, <1>3 DEF AllHome

LEMMA NoticingKeepsWork ==
  ASSUME Types, careful, Orderly, Home, Worked, Noticing
  PROVE  Worked'
<1> USE DEF Types, Worked
<1>1. /\ Medium' = Medium
      /\ UNCHANGED << machine, careful, core, protect, tab, seen, waiting, ui, saved >>
  BY DEF Noticing, Notice, NoticeSave, NoticeCopy, NoticeStore, NoticeForget, NoticeTell, NoticeStep, core, Medium
<1>2. (Tab' <=> Tab) /\ (Protected' <=> Protected) /\ drive' = drive
  BY <1>1 DEF Tab, Protected, core
<1>3. emu.pc # "Run" => ~ui.lock /\ ui.pc \notin {"Load", "Seat", "Name"} /\ machine = "Classic"
  BY DEF Orderly, UiTypes, UiStates, EmuTypes
<1>4. CASE Notice
  <2>1. emu'.pc = "Save" /\ emu.pc = "Run" /\ UNCHANGED << files, path >>
    BY <1>4 DEF Notice, Running, At, EmuTypes, EmuStates
  <2>2. QED
    BY <1>1, <1>2, <2>1 DEF Banks, Banked, AllHome, Carries, Newer, Current, Tabbed
<1>5. CASE NoticeSave
  <2>1. emu.pc = "Save" /\ UNCHANGED << files, path >>
        /\ \/ emu'.pc = "Copy" /\ path # Nothing
           \/ emu'.pc = "Forget" /\ (path = Nothing \/ Tab)
    BY <1>3, <1>5 DEF NoticeSave, EmuTypes, EmuStates, Protected, Tab
  <2>2. Banked' => Banked
    BY <1>1, <1>2, <2>1 DEF Banked
  <2>3. QED
    BY <1>1, <1>2, <2>1, <2>2 DEF Banks, AllHome, Carries, Newer, Current, Tabbed
<1>6. CASE NoticeCopy
  <2>1. emu.pc = "Copy" /\ UNCHANGED << files, path >>
        /\ \/ emu'.pc = "Store" /\ emu'.buf = Medium
           \/ emu'.pc = "Forget" /\ Medium = NoDisk
    BY <1>6 DEF NoticeCopy, EmuTypes, EmuStates
  <2>2. CASE Medium = NoDisk
    <3>1. AllHome
      BY <2>2, NoDiskFacts DEF AllHome, Carries
    <3>2. QED
      BY <1>1, <1>2, <2>1, <2>2, <3>1, NothingLeft DEF Newer, Current, Tabbed
  <2>3. CASE Medium # NoDisk
    <3>1. Banked' => Banked
      BY <1>1, <1>2, <2>1, <2>3 DEF Banked
    <3>2. QED
      BY <1>1, <1>2, <2>1, <2>3, <3>1 DEF Banks, AllHome, Carries, Newer, Current, Tabbed
  <2>4. QED
    BY <2>2, <2>3
<1>7. CASE NoticeStore
  <2>1. /\ emu.pc = "Store" /\ emu'.pc = "Forget" /\ path' = path /\ emu.buf = Medium
        /\ emu.to \in Paths /\ Medium # NoDisk /\ Medium.of = emu.to
        /\ files' = [files EXCEPT ![emu.to] = Medium]
    BY <1>7 DEF NoticeStore, At, EmuTypes, EmuStates, SomePath, Current, Home
  <2>2. files[emu.to].work \subseteq Medium.work
    BY <2>1 DEF Newer
  <2>3. AllHome' /\ files'[emu.to].work = Medium.work
    BY <1>1, <2>1, <2>2, StoreBringsHome
  <2>4. QED
    BY <1>1, <1>2, <1>3, <2>1, <2>3 DEF Banks, AllHome, Carries, Newer, Current, Tabbed
<1>8. CASE NoticeForget \/ NoticeTell
  <2>1. AllHome
    BY <1>8 DEF NoticeForget, NoticeTell, Banks, Banked
  <2>2. path' \in {path, Nothing} /\ emu'.pc \in {"Tell", "Run"} /\ UNCHANGED << files, saved >>
    BY <1>1, <1>8, QuietTypes DEF NoticeForget, NoticeTell, At, EmuTypes, EmuStates
  <2>3. QED
    BY <1>1, <1>2, <2>1, <2>2, NothingLeft DEF Newer, Current, Tabbed
<1>9. QED
  BY <1>4, <1>5, <1>6, <1>7, <1>8 DEF Noticing

LEMMA WorkKept ==
  ASSUME Types, careful, Orderly, Home, Worked, [Next]_vars
  PROVE  Worked'
<1> USE DEF Types, Worked
<1>1. Sure
  BY DEF Sure
<1>2. CASE UNCHANGED vars
  BY <1>2 DEF vars, core, frontEnd, Banks, Banked, AllHome, Carries, Newer, Current, Tabbed, Tab, Protected, Medium
<1>3. CASE GuestEjects \/ Frame
  <2>1. drive' \in {drive, NoDisk} /\ UNCHANGED << machine, frontEnd, ui, emu, files, saved, Medium >>
    BY <1>1, <1>3, CoreStepsKeepMedium
  <2>2. UNCHANGED << Tab, Protected >>
    BY <2>1 DEF Tab, Protected, frontEnd
  <2>3. QED
    BY <2>1, <2>2 DEF Banks, Banked, AllHome, Carries, Newer, Current, Tabbed, frontEnd
<1>4. CASE Fresh
  <2>1. UNCHANGED << machine, files, core, emu, saved, Medium >> /\ path' \in {path, Nothing}
    BY <1>4, FreshSteps DEF Medium, core
  <2>2. /\ Banked' => Banked
        /\ path' = Nothing \/ (Tab' <=> Tab) \/ drive = NoDisk
        /\ ui'.pc \notin {"Name", "Seat", "Copy", "Store"} /\ ui.pc # "Name"
    BY <1>4, FreshBanked
  <2>3. Carries'
    <3>1. CASE path' = path
      BY <2>1, <3>1 DEF Carries
    <3>2. CASE path' = Nothing
      BY <2>1, <2>2, <3>2, NothingLeft DEF Banks, Banked
    <3>3. QED
      BY <2>1, <3>1, <3>2
  <2>4. QED
    BY <2>1, <2>2, <2>3 DEF Banks, AllHome, Newer, Current, Tabbed, core
<1>5. CASE Save \/ Copy \/ Load
  <2>1. UNCHANGED << machine, path, files, drive, emu, saved, Medium, Tab >> /\ ui.pc # "Name"
    BY <1>5 DEF Save, Copy, Load, UiStep, core, frontEnd, Medium, Tab
  <2>2. CASE Save
    <3>1. ui.lock => machine = "Iifx" \/ path = Nothing
      BY DEF UiTypes, Orderly
    <3>2. \/ ui'.pc = "Copy" /\ path # Nothing
          \/ ui'.pc = AfterSave /\ (path = Nothing \/ Tab)
      BY <2>2, <3>1 DEF Save, HeldBack, Protected, Tab, UiTypes, UiStates
    <3>3. Banked' => Banked
      BY <2>1, <3>2 DEF Banked
    <3>4. ui'.pc \notin {"Name", "Seat", "Store"}
      BY <2>2, <3>2, AfterSaveSteps DEF Save
    <3>5. ui'.pc = "Copy" => path # Nothing
      BY <2>2, <3>2, AfterSaveSteps DEF Save
    <3>6. QED
      BY <2>1, <3>3, <3>4, <3>5 DEF Banks, AllHome, Carries, Newer, Current, Tabbed
  <2>3. CASE Copy
    <3>1. ui.pc = "Copy"
          /\ \/ ui'.pc = "Store" /\ ui'.buf = Medium
             \/ ui'.pc = AfterSave /\ Medium = NoDisk
      BY <2>3 DEF Copy, UiTypes, UiStates
    <3>2. CASE Medium = NoDisk
      <4>1. AllHome
        BY <3>2, NoDiskFacts DEF AllHome, Carries
      <4>2. ui'.pc \notin {"Name", "Seat"}
        BY <3>1, AfterSaveSteps
      <4>3. ui'.pc = "Store" => ui'.buf = Medium
        BY <3>1, AfterSaveSteps
      <4>4. QED
        BY <2>1, <3>2, <4>1, <4>2, <4>3, NothingLeft DEF Newer, Current, Tabbed
    <3>3. CASE Medium # NoDisk
      <4>1. Banked' => Banked
        BY <2>1, <3>1, <3>3 DEF Banked
      <4>2. QED
        BY <2>1, <3>1, <3>3, <4>1 DEF Banks, AllHome, Carries, Newer, Current, Tabbed
    <3>4. QED
      BY <3>2, <3>3
  <2>4. CASE Load
    <3>1. ui.pc = "Load" /\ ui'.pc = "Seat" /\ ui'.arg = ui.arg /\ ui'.buf = files[ui.arg]
      BY <2>4 DEF Load, UiTypes, UiStates
    <3>2. AllHome
      BY <3>1 DEF Banks, Banked
    <3>3. QED
      BY <2>1, <3>1, <3>2, NothingLeft DEF Newer, Current, Tabbed
  <2>5. QED
    BY <1>5, <2>2, <2>3, <2>4
<1>6. CASE Store
  <2>1. UNCHANGED << machine, path, drive, emu, saved, Medium, Tab >>
    BY <1>6 DEF Store, UiStep, core, frontEnd, Medium, Tab
  <2>2. /\ ui.pc = "Store" /\ ui'.pc = AfterSave /\ ui.buf = Medium
        /\ ui.to \in Paths /\ Medium # NoDisk /\ Medium.of = ui.to
        /\ files' = [files EXCEPT ![ui.to] = Medium]
    BY <1>6 DEF Store, Goes, UiTypes, UiStates, SomePath, Current, Home
  <2>3. files[ui.to].work \subseteq Medium.work
    BY <2>2 DEF Newer
  <2>4. AllHome' /\ files'[ui.to].work = Medium.work
    BY <2>1, <2>2, <2>3, StoreBringsHome
  <2>5. ui'.pc \notin {"Name", "Seat", "Copy", "Store"}
    BY <2>2, AfterSaveSteps
  <2>6. QED
    BY <2>1, <2>2, <2>4, <2>5 DEF Banks, AllHome, Carries, Newer, Current, Tabbed
<1>7. CASE SeatDisk
  <2>1. CASE ui' = Idle
    <3>1. ui.pc = "Seat" /\ ui'.pc = "Idle" /\ UNCHANGED << machine, path, files, drive, emu, saved, Medium, Tab >>
      BY <1>7, <2>1, RefusedSteps, IdleTypes DEF core, frontEnd, Tab
    <3>2. AllHome
      BY <3>1 DEF Banks, Banked
    <3>3. QED
      BY <3>1, <3>2, NothingLeft DEF Newer, Current, Tabbed
  <2>2. CASE ui' # Idle
    <3>1. /\ Medium' = drive' /\ drive'.of = ui.buf.of /\ drive'.work = ui.buf.work /\ drive' # NoDisk
          /\ (drive'.locked <=> Protected) /\ ui.pc = "Seat" /\ ui.op = "Insert" /\ ui'.pc = "Name"
          /\ ui'.arg = ui.arg /\ (ui'.lock <=> ui.lock)
          /\ UNCHANGED << files, emu, saved, frontEnd >>
      BY <1>1, <1>7, <2>2, SeatSteps DEF UiStates
    <3>2. AllHome
      BY <3>1 DEF Banks, Banked
    <3>3. ui.buf.of = ui.arg /\ ui.buf = files[ui.arg]
      BY <3>1 DEF Home, Current
    <3>4. Protected' <=> Protected
      BY <3>1 DEF Protected, frontEnd
    <3>5. emu'.pc = "Run"
      BY <3>1 DEF Orderly
    <3>6. QED
      BY <3>1, <3>2, <3>3, <3>4, <3>5, NothingLeft DEF Newer, Current, Tabbed
  <2>3. QED
    BY <2>1, <2>2
<1>8. CASE Name
  <2>1. /\ ui.pc = "Name" /\ ui'.pc = "Idle" /\ UNCHANGED << machine, files, drive, emu, saved, Medium >>
        /\ (Tab' => Protected)
    BY <1>8, IdleTypes DEF Name, UiStep, core, Medium, Tab, Protected
  <2>2. AllHome
    BY <2>1 DEF Banks, Banked
  <2>3. QED
    BY <2>1, <2>2, NothingLeft DEF Newer, Current, Tabbed
<1>9. CASE Out
  <2>1. /\ ui.pc = "Out" /\ ui'.pc = (IF machine = "Classic" THEN "Forget" ELSE "Idle")
        /\ drive' \in {drive, NoDisk} /\ UNCHANGED << machine, path, files, emu, saved, Medium, Tab >>
    BY <1>9, OutSteps DEF frontEnd, Tab
  <2>2. Banked' => Banked
    BY <2>1 DEF Banked
  <2>3. QED
    BY <2>1, <2>2 DEF Banks, AllHome, Carries, Newer, Current, Tabbed
<1>10. CASE Build
  <2>1. /\ Medium' = NoDisk /\ drive' = NoDisk /\ ui.pc = "Build" /\ ui.op = "Restart" /\ ui'.pc = "Clear"
        /\ UNCHANGED << machine, files, emu, saved >>
    BY <1>10, BuildSteps
  <2>2. AllHome /\ emu.pc = "Run"
    BY <2>1 DEF Banks, Banked, Orderly
  <2>3. QED
    BY <2>1, <2>2, NothingLeft DEF Newer, Current, Tabbed
<1>11. QED
  BY <1>2, <1>3, <1>4, <1>5, <1>6, <1>7, <1>8, <1>9, <1>10, WriteKeepsWork, NoticingKeepsWork
     DEF Next, Ui, Fresh

-----------------------------------------------------------------------------
(* The theorem                                                             *)

LEMMA Inductive ==
  ASSUME IInv, [Next]_vars
  PROVE  IInv'
<1>1. Types'
  BY UiKeepsTypes, EmuKeepsTypes, CoreKeepsTypes, FrontKeepsTypes DEF Types, IInv
<1>2. machine' = machine /\ careful' = careful
  BY DEF Next, vars, GuestWrite, GuestEjects, CoreStep, Frame, CompleteEject, SeatPending, MechanismEnds,
     Noticing, Notice, NoticeSave, NoticeCopy, NoticeStore, NoticeForget, NoticeTell, NoticeStep,
     Ui, UiStep, Save, Copy, Store, Load, SeatDisk, Name, Out, Forget, PollClassic, Poll, Build, Clear, Join,
     Timer, User, Acts, InsertMenu, Drop, EjectMenu, ToggleProtect, Restart, Close
<1>3. careful => Orderly' /\ Worked'
  BY OrderKept, WorkKept DEF IInv
<1>4. careful \/ machine = "Iifx" => Home'
  BY HomeKept DEF IInv, Sure
<1>5. machine = "Iifx" => Locked'
  BY LockedKept DEF IInv
<1>6. QED
  BY <1>1, <1>2, <1>3, <1>4, <1>5 DEF IInv

LEMMA InitInv == Init => IInv
<1> SUFFICES ASSUME Init
             PROVE  IInv
  OBVIOUS
<1>1. Types
  BY InitTypes
<1>2. Medium = NoDisk /\ ui.pc = "Idle" /\ ui.op = "Poll" /\ emu.pc = "Run"
  BY IdleTypes, QuietTypes DEF Init, Medium
<1>3. \A p \in Paths : files[p].of = p /\ files[p].work = {} /\ files[p].locked = FALSE
  BY DEF Init
<1>4. Orderly
  BY <1>2 DEF Init, Orderly
<1>5. Home
  BY <1>2, <1>3 DEF Init, Home
<1>6. Locked
  BY <1>2, <1>3 DEF Init, Locked
<1>7. Worked
  BY <1>2 DEF Init, Worked, Banks, AllHome, Carries, Newer, Current, Tabbed
<1>8. QED
  BY <1>1, <1>4, <1>5, <1>6, <1>7 DEF IInv

LEMMA InvImplies == IInv => DisksComeHome
  BY DEF IInv, DisksComeHome, DisksGoHome, WorkComesBack, LockedStaysHome, Home, Locked, Worked, Banks, Banked,
         AllHome

\* What the guest did to a disk comes back to that disk's file, and nothing else
\* does: no disk is written over another's file and, when the window has closed,
\* every save is in its file, if the user takes care; on the IIfx the first holds
\* with any user, and no disk that went in locked is written back
\* (NativeEmulator.cs:213-217, 383-386; IifxEmulator.cs:235-236).
THEOREM WorkComesHome == Spec => []DisksComeHome
<1>1. Init => IInv
  BY InitInv
<1>2. IInv /\ [Next]_vars => IInv'
  BY Inductive
<1>3. IInv => DisksComeHome
  BY InvImplies
<1>4. QED
  BY <1>1, <1>2, <1>3, PTL DEF Spec
=============================================================================
