------------------------------- MODULE Floppy -------------------------------
(***************************************************************************)
(* The internal floppy drive between a host file and the guest, for the    *)
(* three front ends of gui/Emulation (NativeEmulator is the Classic's).    *)
(* The core holds a copy of the file.  The guest writes to the copy, which *)
(* goes back to the file when the disk leaves the drive, is replaced, or   *)
(* the machine ends.  The UI thread inserts, ejects, restarts and polls;   *)
(* the emulation thread runs the guest, and on the Classic also writes     *)
(* back the disks the guest ejects.  Calls into the core are serialised by *)
(* _sync, but the front end's own fields are not: every step between two   *)
(* accesses to shared state is an action of its own.                       *)
(*                                                                         *)
(* A disk is the file it came from, what the guest saved on it since, and  *)
(* whether it went in locked.  The Classic's disk held back for a ROM-disk *)
(* boot, its external drive and the guest's own caches are left out.       *)
(***************************************************************************)
EXTENDS Naturals

CONSTANTS
  Machines,      \* "Classic", "Quadra", "Iifx": the machines to look at
  Manners,       \* values of careful, below, to look at
  Paths,         \* disk image files
  Saves,         \* bound: what the guest may save, once each
  Nothing,
  SettleFrames,  \* frames the Quadra's drive stays empty between disks (60)
  MaxOps         \* bound: things the user does

ASSUME MachinesAssumption == Machines \subseteq {"Classic", "Quadra", "Iifx"}
ASSUME MannersAssumption == Manners \subseteq BOOLEAN
ASSUME NothingAssumption == Nothing \notin Paths
ASSUME BoundsAssumption == SettleFrames \in Nat /\ MaxOps \in Nat

VARIABLES
  machine,
  careful,   \* the user takes care, see MayInsert and GuestWrite
  files,     \* the host's files
  drive,     \* the disk in the drive, or NoDisk
  kept,      \* floppyEjected_: the last disk that left it
  ejecting,  \* Quadra: floppyEjectPending_ "asked", then the mechanism "runs"
  staged,    \* Quadra: floppyPending_, the disk that waits in the core
  settle,    \* Quadra: floppyPendingDelay_
  path,      \* FloppyPath: the file of the disk in the drive
  protect,   \* WriteProtectFloppies
  tab,       \* IIfx: _floppyReadOnly
  seen,      \* Quadra, IIfx: _lastFloppyPresent
  dirty,     \* Classic: _diskStateDirty
  waiting,   \* _floppyWaiting: the file to insert once the drive is empty
  ui,        \* the UI thread: where it is, in what, and its locals
  emu,       \* Classic: the emulation thread in NoticeGuestEjects
  saved,     \* history: the saves, each with the disk it was made on
  ops        \* the user's actions so far

core == << drive, kept, ejecting, staged, settle >>
frontEnd == << path, protect, tab, seen, dirty, waiting >>
vars == << machine, careful, files, core, frontEnd, ui, emu, saved, ops >>

NoDisk == [of |-> Nothing, work |-> {}, locked |-> FALSE]
Disks == [of : Paths, work : SUBSET Saves, locked : BOOLEAN]
Ops == {"Insert", "Eject", "Poll", "Restart", "Close"}

\* The UI thread between two operations.
Idle == [pc |-> "Idle", op |-> "Poll", arg |-> Nothing, to |-> Nothing, buf |-> NoDisk,
         lock |-> FALSE]

\* The tab a disk goes in with: the transfer floppy sets the property for the
\* time of its own insertion.
Protected == protect \/ ui.lock

-----------------------------------------------------------------------------
(* The core                                                                *)

\* Mutant: the disk that left comes before the one in the drive.
MediumKept == IF kept # NoDisk THEN kept ELSE drive

\* What a write-back gets: the disk in the drive, or the last one it held.
Medium == IF drive # NoDisk THEN drive ELSE kept

\* insertFloppy on the Classic and the IIfx puts the disk in whatever the
\* drive holds; the Quadra lets the old disk out first.
Seat(disk) ==
  IF machine = "Quadra" /\ (drive # NoDisk \/ ejecting = "asked")
  THEN /\ staged' = disk /\ settle' = SettleFrames
       /\ ejecting' = IF drive # NoDisk THEN "asked" ELSE ejecting
       /\ UNCHANGED << drive, kept >>
  ELSE /\ drive' = disk /\ kept' = IF machine = "Quadra" THEN kept ELSE NoDisk
       /\ ejecting' = "no" /\ UNCHANGED << staged, settle >>

\* The disk leaves the drive and the core keeps its bytes.
DiskLeaves == /\ kept' = IF drive # NoDisk THEN drive ELSE kept
              /\ drive' = NoDisk

\* ejectFloppy: at once, or asked for on the Quadra.
CoreEject == IF machine = "Quadra"
             THEN /\ ejecting' = IF drive # NoDisk THEN "asked" ELSE ejecting
                  /\ UNCHANGED << drive, kept, staged, settle >>
             ELSE DiskLeaves /\ UNCHANGED << ejecting, staged, settle >>

\* Mutant: the mechanism is not reset.
NewMachineKeeps == /\ drive' = NoDisk /\ kept' = NoDisk /\ staged' = NoDisk
                   /\ UNCHANGED ejecting /\ settle' = 0

NewMachine == /\ drive' = NoDisk /\ kept' = NoDisk /\ staged' = NoDisk
              /\ ejecting' = "no" /\ settle' = 0

-----------------------------------------------------------------------------
(* The emulation thread                                                    *)

Alive == ui.pc \notin {"Closing", "Closed"} /\ ~(ui.op = "Close" /\ ui.pc # "Idle")

\* Frames of the guest run, unless this thread is in a notice.
Running == Alive /\ emu.pc = "Run"

\* The guest saves something on the disk.  A careful user sees to it that
\* nothing is written while the front end takes the disk out.
GuestWrite == \E s \in Saves :
  /\ Running /\ drive # NoDisk /\ ~drive.locked
  /\ \A p \in Paths : << p, s >> \notin saved
  /\ careful => ui.op = "Poll"
  /\ drive' = [drive EXCEPT !.work = @ \cup {s}]
  /\ saved' = saved \cup {<< drive.of, s >>}
  /\ UNCHANGED << machine, careful, files, kept, ejecting, staged, settle, frontEnd, ui, emu, ops >>

CoreStep == UNCHANGED << machine, careful, files, frontEnd, ui, emu, saved, ops >>

\* A careful user's disks stay in the Quadra's drive for longer than the timer's
\* period; the IIfx knows from the insertion that it holds one.
BeenSeen == careful /\ machine = "Quadra" => seen

\* The guest ejects the disk, or the mechanism it started has finished.  A
\* careful user does not ask for a disk the guest is throwing out.
GuestEjects == /\ Running /\ drive # NoDisk /\ DiskLeaves
               /\ BeenSeen /\ (careful => ejecting # "asked")
               /\ ejecting' = IF ejecting = "runs" THEN "no" ELSE ejecting
               /\ UNCHANGED << staged, settle >> /\ CoreStep

MechanismEnds == ejecting = "runs" /\ GuestEjects

\* Mutant: the request is dropped and the File Manager not asked.
EjectUnasked ==
  /\ Running /\ ejecting = "asked" /\ ejecting' = "no"
  /\ IF drive # NoDisk THEN UNCHANGED << drive, kept >> ELSE DiskLeaves
  /\ UNCHANGED << staged, settle >> /\ CoreStep

\* Mutant: nothing is done when the disk is gone already.
EjectNeedsDisk ==
  /\ Running /\ ejecting = "asked" /\ drive # NoDisk
  /\ \/ ejecting' = "runs" /\ UNCHANGED << drive, kept >>
     \/ BeenSeen /\ ejecting' = "no" /\ DiskLeaves
  /\ UNCHANGED << staged, settle >> /\ CoreStep

\* Quadra, at a frame edge: completeFloppyEject asks the File Manager when the
\* volume is mounted, and takes the disk itself when it is not.
CompleteEject ==
  /\ Running /\ ejecting = "asked"
  /\ \/ drive # NoDisk /\ ejecting' = "runs" /\ UNCHANGED << drive, kept >>
     \/ BeenSeen /\ ejecting' = "no" /\ DiskLeaves
  /\ UNCHANGED << staged, settle >> /\ CoreStep

SeatPending ==
  /\ Running /\ staged # NoDisk /\ drive = NoDisk /\ ejecting # "asked"
  /\ IF settle = 0
     THEN drive' = staged /\ staged' = NoDisk /\ ejecting' = "no" /\ UNCHANGED << kept, settle >>
     ELSE settle' = settle - 1 /\ UNCHANGED << drive, kept, ejecting, staged >>
  /\ CoreStep

At(pc) == emu' = [emu EXCEPT !.pc = pc]
NoticeStep == UNCHANGED << machine, careful, core, protect, tab, seen, waiting, ui, saved, ops >>

\* Classic, after every frame: NoticeGuestEjects.
Notice == /\ machine = "Classic" /\ Running
          /\ path # Nothing /\ drive = NoDisk
          /\ At("Save") /\ NoticeStep /\ UNCHANGED << files, path, dirty >>

\* WriteBack is called with the path there is now ...
NoticeSave == /\ emu.pc = "Save"
              /\ emu' = IF path = Nothing \/ Protected THEN [emu EXCEPT !.pc = "Forget"]
                        ELSE [emu EXCEPT !.pc = "Copy", !.to = path]
              /\ NoticeStep /\ UNCHANGED << files, path, dirty >>

\* ... reads the medium there is now ...
NoticeCopy == /\ emu.pc = "Copy"
              /\ emu' = [emu EXCEPT !.pc = IF Medium = NoDisk THEN "Forget" ELSE "Store",
                                    !.buf = Medium]
              /\ NoticeStep /\ UNCHANGED << files, path, dirty >>

\* ... and writes the file outside the lock.
NoticeStore == /\ emu.pc = "Store" /\ files' = [files EXCEPT ![emu.to] = emu.buf]
               /\ At("Forget") /\ NoticeStep /\ UNCHANGED << path, dirty >>

NoticeForget == /\ emu.pc = "Forget" /\ path' = Nothing
                /\ At("Tell") /\ NoticeStep /\ UNCHANGED << files, dirty >>

Quiet == [pc |-> "Run", to |-> Nothing, buf |-> NoDisk]

NoticeTell == /\ emu.pc = "Tell" /\ dirty' = TRUE /\ emu' = Quiet
              /\ NoticeStep /\ UNCHANGED << files, path >>

Noticing == Notice \/ NoticeSave \/ NoticeCopy \/ NoticeStore \/ NoticeForget \/ NoticeTell
Frame == CompleteEject \/ SeatPending \/ MechanismEnds

-----------------------------------------------------------------------------
(* The UI thread: operations as sequences of steps                         *)

UiStep == UNCHANGED << machine, careful, emu, saved, ops >>
Goes(pc) == ui' = [ui EXCEPT !.pc = pc]

\* Where an operation begins: with a write-back, unless the machine has none there.
First(op) ==
  CASE op = "Insert"  -> IF machine = "Quadra" THEN "Load" ELSE "Save"
    [] op = "Eject"   -> IF machine = "Classic" THEN "Save" ELSE "Out"
    [] op = "Restart" -> IF machine = "Quadra" THEN "Build" ELSE "Save"
    [] op = "Poll"    -> "Look"
    [] op = "Close"   -> "Closing"

\* Where it goes on after its write-back.
AfterSave == CASE ui.op = "Insert"  -> "Load"
               [] ui.op = "Eject"   -> "Out"
               [] ui.op = "Restart" -> "Build"
               [] ui.op = "Poll"    -> "Forget"
               [] ui.op = "Close"   -> "Closed"

Begin(op, arg, lock) ==
  ui' = [Idle EXCEPT !.pc = First(op), !.op = op, !.arg = arg, !.lock = lock]

\* Mutant: the write-back goes by the property, not by the tab of this disk.
HeldBackNow == Protected

\* The Classic and the Quadra go by the property as it is now, the IIfx by the
\* tab the disk went in with.
HeldBack == IF machine = "Iifx" THEN tab ELSE Protected

\* WriteBackFloppy: the path, then the medium, then the file.
Save == /\ ui.pc = "Save"
        /\ ui' = IF path = Nothing \/ HeldBack THEN [ui EXCEPT !.pc = AfterSave]
                 ELSE [ui EXCEPT !.pc = "Copy", !.to = path]
        /\ UiStep /\ UNCHANGED << files, core, frontEnd >>

Copy == /\ ui.pc = "Copy"
        /\ ui' = [ui EXCEPT !.pc = IF Medium = NoDisk THEN AfterSave ELSE "Store", !.buf = Medium]
        /\ UiStep /\ UNCHANGED << files, core, frontEnd >>

Store == /\ ui.pc = "Store" /\ files' = [files EXCEPT ![ui.to] = ui.buf]
         /\ Goes(AfterSave) /\ UiStep /\ UNCHANGED << core, frontEnd >>

\* InsertFloppy: read the file ...
Load == /\ ui.pc = "Load" /\ ui' = [ui EXCEPT !.pc = "Seat", !.buf = files[ui.arg]]
        /\ UiStep /\ UNCHANGED << files, core, frontEnd >>

\* ... hand it to the core, which may refuse it ...
SeatDisk == /\ ui.pc = "Seat"
            /\ \/ Seat([ui.buf EXCEPT !.locked = Protected]) /\ Goes("Name")
               \/ ui' = Idle /\ UNCHANGED core
            /\ UiStep /\ UNCHANGED << files, frontEnd >>

\* Mutant: the poll is not told that the drive is full.
NameUnseen == /\ ui.pc = "Name" /\ path' = ui.arg /\ ui' = Idle
              /\ tab' = IF machine = "Iifx" THEN Protected ELSE tab
              /\ UiStep /\ UNCHANGED << files, core, protect, seen, dirty, waiting >>

\* ... and remember where it came from.
Name == /\ ui.pc = "Name" /\ path' = ui.arg /\ ui' = Idle
        /\ tab' = IF machine = "Iifx" THEN Protected ELSE tab
        /\ seen' = IF machine = "Iifx" THEN TRUE ELSE seen
        /\ UiStep /\ UNCHANGED << files, core, protect, dirty, waiting >>

\* Mutant: every machine forgets the path at once.
OutForgets == /\ ui.pc = "Out" /\ CoreEject /\ Goes("Forget")
              /\ UiStep /\ UNCHANGED << files, frontEnd >>

\* EjectFloppy; only the Classic forgets the path at once.
Out == /\ ui.pc = "Out" /\ CoreEject
       /\ ui' = IF machine = "Classic" THEN [ui EXCEPT !.pc = "Forget"] ELSE Idle
       /\ UiStep /\ UNCHANGED << files, frontEnd >>

\* SeatWaitingFloppy, once the drive is empty.
SeatWaiting ==
  IF waiting # Nothing /\ path' = Nothing
  THEN waiting' = Nothing /\ Begin("Insert", waiting, FALSE)
  ELSE ui' = Idle /\ UNCHANGED waiting

Forget == /\ ui.pc = "Forget" /\ path' = Nothing
          /\ IF ui.op = "Poll" THEN SeatWaiting ELSE ui' = Idle /\ UNCHANGED waiting
          /\ UiStep /\ UNCHANGED << files, core, protect, tab, seen, dirty >>

\* The frame tick: ConsumeDiskStateChanged, and SeatWaitingFloppy if so.
PollClassic == /\ ui.pc = "Look" /\ machine = "Classic"
               /\ dirty' = FALSE /\ path' = path
               /\ IF dirty THEN SeatWaiting ELSE ui' = Idle /\ UNCHANGED waiting
               /\ UiStep /\ UNCHANGED << files, core, protect, tab, seen >>

Poll == /\ ui.pc = "Look" /\ machine # "Classic"
        /\ seen' = (drive # NoDisk) /\ path' = path
        /\ IF seen' = seen THEN ui' = Idle /\ UNCHANGED waiting
           ELSE IF drive = NoDisk /\ path # Nothing THEN Goes("Save") /\ UNCHANGED waiting
           ELSE SeatWaiting
        /\ UiStep /\ UNCHANGED << files, core, protect, tab, dirty >>

\* LoadRom: the machine is torn down and built again ...
Build == /\ ui.pc = "Build" /\ NewMachine /\ Goes("Clear")
         /\ UiStep /\ UNCHANGED << files, frontEnd >>

\* ... and the front end's state is reset, and a remembered disk goes back in.
Clear == /\ ui.pc = "Clear"
         /\ path' = IF machine = "Quadra" THEN path ELSE Nothing
         /\ tab' = FALSE /\ seen' = IF machine = "Iifx" THEN FALSE ELSE seen
         /\ IF ui.arg = Nothing THEN ui' = Idle ELSE Begin("Insert", ui.arg, FALSE)
         /\ UiStep /\ UNCHANGED << files, core, protect, dirty, waiting >>

\* Dispose joins the emulation thread first.
Join == /\ ui.pc = "Closing" /\ emu.pc = "Run" /\ Goes("Save")
        /\ UiStep /\ UNCHANGED << files, core, frontEnd >>

Ui == \/ Save \/ Copy \/ Store \/ Load \/ SeatDisk \/ Name \/ Out \/ Forget
      \/ PollClassic \/ Poll \/ Build \/ Clear \/ Join

-----------------------------------------------------------------------------
(* What the user does                                                      *)

\* A careful user puts a disk into an empty drive and not under a mounted volume
\* (the IIfx saves the old disk first), nor while an eject, its notice or a swap
\* is under way.
MayInsert == careful => /\ emu.pc = "Run" /\ ejecting = "no" /\ waiting = Nothing
                        /\ path = Nothing \/ machine = "Iifx"

\* On the Classic a careful user ejects first and inserts then: the notice may
\* still be reading the drive when the waiting disk goes in.
MaySwap == careful => machine # "Classic"

Acts == /\ ui = Idle /\ ops < MaxOps /\ ops' = ops + 1
        /\ UNCHANGED << machine, careful, files, core, emu, saved >>

\* Insert Floppy takes the old disk out first and lets the new one wait.
InsertMenu == \E p \in Paths :
  /\ Acts /\ UNCHANGED << path, protect, tab, seen, dirty >>
  /\ IF path # Nothing THEN MaySwap /\ waiting' = p /\ Begin("Eject", Nothing, FALSE)
     ELSE MayInsert /\ Begin("Insert", p, FALSE) /\ UNCHANGED waiting

\* A file dropped on the window goes straight in; one that is packed for the
\* Mac goes in locked.
Drop == \E p \in Paths, lock \in BOOLEAN :
  Acts /\ MayInsert /\ Begin("Insert", p, lock) /\ UNCHANGED frontEnd

EjectMenu == Acts /\ Begin("Eject", Nothing, FALSE) /\ UNCHANGED frontEnd

\* The write-protect item puts the disk in the drive in again.
ToggleProtect ==
  /\ Acts /\ protect' = ~protect /\ UNCHANGED << path, tab, seen, dirty, waiting >>
  /\ IF path # Nothing THEN MayInsert /\ Begin("Insert", path, FALSE) ELSE UNCHANGED ui

\* The Quadra does not save its floppy here, and on the Classic the notice may
\* find the new machine's drive empty: a careful user takes the disk out first.
Restart == \E p \in Paths \cup {Nothing} :
  /\ Acts /\ MayInsert
  /\ Begin("Restart", p, FALSE) /\ UNCHANGED frontEnd

Close == Acts /\ Begin("Close", Nothing, FALSE) /\ UNCHANGED frontEnd

\* The window's timer.
Timer == /\ ui = Idle /\ Begin("Poll", Nothing, FALSE)
         /\ UNCHANGED << machine, careful, files, core, frontEnd, emu, saved, ops >>

User == InsertMenu \/ Drop \/ EjectMenu \/ ToggleProtect \/ Restart \/ Close

-----------------------------------------------------------------------------

Init == /\ machine \in Machines /\ careful \in Manners
        /\ files = [p \in Paths |-> [of |-> p, work |-> {}, locked |-> FALSE]]
        /\ drive = NoDisk /\ kept = NoDisk /\ ejecting = "no" /\ staged = NoDisk /\ settle = 0
        /\ path = Nothing /\ protect \in BOOLEAN /\ tab = FALSE /\ seen = FALSE
        /\ dirty = FALSE /\ waiting = Nothing
        /\ ui = Idle /\ emu = Quiet /\ saved = {} /\ ops = 0

Next == GuestWrite \/ GuestEjects \/ Frame \/ Noticing \/ Ui \/ Timer \/ User

Spec == Init /\ [][Next]_vars

\* Frames run at 60 Hz, the UI thread returns to its queue, and the timer's
\* message is there every 16 ms.
Fairness == WF_vars(Frame) /\ WF_vars(Noticing) /\ WF_vars(Ui) /\ WF_vars(Timer)

FairSpec == Spec /\ Fairness

-----------------------------------------------------------------------------
(* Correctness                                                             *)

FloppyTypeOK ==
  /\ files \in [Paths -> Disks]
  /\ {drive, kept, staged, ui.buf, emu.buf} \subseteq Disks \cup {NoDisk}
  /\ ejecting \in {"no", "asked", "runs"} /\ settle \in 0..SettleFrames
  /\ {path, waiting, ui.arg, ui.to, emu.to} \subseteq Paths \cup {Nothing}
  /\ ui.op \in Ops /\ ui.lock \in BOOLEAN
  /\ {protect, tab, seen, dirty} \subseteq BOOLEAN
  /\ machine # "Quadra" => ejecting = "no" /\ staged = NoDisk
  /\ ejecting = "runs" => drive # NoDisk

\* No disk is ever written over another disk's file: on the IIfx always, on the
\* others if the user takes care (NativeEmulator.cs:383-386, IifxEmulator.cs:235).
DisksGoHome == careful \/ machine = "Iifx" => \A p \in Paths : files[p].of = p

\* With a careful user everything the guest has saved is in the disk's file when
\* the window has closed, whoever ejected the disk and whatever was inserted in
\* between (NativeEmulator.cs:213-217, 383-386; QuadraEmulator.cs:308-310).
WorkComesBack == careful /\ ui.pc = "Closed" => \A w \in saved : w[2] \in files[w[1]].work

\* The IIfx never writes a disk back that went in locked (QuadraEmulator.cs:322-325
\* says why; IifxEmulator.cs:235-236: "the tab state with which that medium was
\* inserted").
LockedStaysHome == machine = "Iifx" => \A p \in Paths : ~files[p].locked

\* What the guest did to a disk comes back to that disk's file, and nothing else does.
DisksComeHome == DisksGoHome /\ WorkComesBack /\ LockedStaysHome

\* The second disk of a swap goes in once the drive is empty (MainWindow.axaml.cs
\* :794-801): on the Quadra and the IIfx.
SwapCompletes ==
  careful /\ machine # "Classic" /\ waiting # Nothing ~> waiting = Nothing \/ ~Alive

\* The same, said of every machine.  It does not hold of the Classic, whose host eject
\* announces no change (NativeEmulator.cs:341).
WaitingGoesIn == waiting # Nothing ~> waiting = Nothing \/ ~Alive

\* A disk the guest threw out does not stay in the menu (NativeEmulator.cs:213-216).
EjectIsNoticed == careful /\ path # Nothing /\ drive = NoDisk ~> path = Nothing \/ drive # NoDisk \/ ~Alive

\* A disk the Quadra holds back until the drive is empty does go in, unless
\* another one was pushed into the empty drive first (quadra.cpp:2384-2403).
StagedGoesIn == staged # NoDisk ~> \/ staged = NoDisk \/ ~Alive
                                   \/ drive # NoDisk /\ ejecting = "no"

\* The drive is served: swaps complete, ejects are noticed, staged disks go in.
DriveIsServed == SwapCompletes /\ EjectIsNoticed /\ StagedGoesIn

\* "whatever it changed has to be copied back to the file the disk came from"
\* (NativeEmulator.cs:384-385), and to no other.
EveryDiskGoesHome == \A p \in Paths : files[p].of = p
=============================================================================
