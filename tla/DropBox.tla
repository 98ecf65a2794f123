------------------------------- MODULE DropBox -------------------------------
(***************************************************************************)
(* The drop box of gui/Emulation/DropBox.cs: a host folder served to the   *)
(* Mac as a volume on the second SCSI seat, and republished by a swap (the *)
(* guest lets go of the volume, the folder is rebuilt, a new volume goes   *)
(* on the seat).  Three kinds of thread share the seat: the UI asks and    *)
(* detaches, the emulation thread pumps one stage per frame batch between  *)
(* frames of the guest, and a pool task rebuilds.  Each step between two   *)
(* accesses to shared state is an action of its own.                       *)
(*                                                                         *)
(* A volume or a host folder is a set of files.  A file stands for what it *)
(* holds (Content) under a name, and the two conversions do not keep the   *)
(* name: the builder calls it what HFS can carry (MacNames), the sync-back *)
(* what the host can (HostName), and each leaves some out.  What one file  *)
(* does to another of the same name is left out: the builder numbers it,   *)
(* the sync-back and the shelf overwrite it.  The guest sees a mounted     *)
(* volume through its cached catalog (guest.view), written to the disk     *)
(* only by a flush.                                                        *)
(***************************************************************************)
EXTENDS Naturals, FiniteSets

CONSTANTS
  Folders,      \* host folders
  Drops,        \* files the user drops
  Saves,        \* files the guest saves
  Given,        \* files a folder has before
  Copies,       \* all these under the names that the conversions give them
  Content,      \* what a file holds, named by the file it comes from
  MacNames,     \* the files that the builder may make of a file of the folder
  HostName,     \* the file that the sync-back makes of a file of the volume
  Skipped,      \* files the builder may skip and the shelf may not get: another
                \* program has them, or their folder is called like one of the guest's
  HostNoise,    \* neither built nor shelved
  GuestNoise,   \* not synced back: in the Trash, on the desktop, temporary
  None,
  MaxTries,     \* frame batches Pump asks the guest for (300)
  MaxAttempts,  \* PutAwaySeatVolume's attempts (100)
  MaxTasks,     \* bound: Rebuild tasks alive at once
  Setups,       \* bound: folders and files of a run, see setup
  Remounts,     \* the Classic mounts the seat whenever it finds it unmounted,
                \* the Quadra once for each volume put there
  Settles,      \* LoadRom settles the volumes first (the Quadra); the Classic and
                \* the IIfx at most flush them
  Patient,      \* the user waits for the volume to come back before acting again
  BuildMayFail  \* may a folder not fit a volume?

Works == Drops \cup Saves \cup Given
Files == Works \cup Copies
Volumes == SUBSET Files

ASSUME FilesAssumption == /\ Drops \cap Saves = {}
                          /\ None \notin Files \cup Folders /\ \A v \in Volumes : v # None
ASSUME NamesAssumption == /\ Content \in [Files -> Works] /\ \A w \in Works : Content[w] = w
                          /\ MacNames \in [Files -> Volumes] /\ HostName \in [Files -> Files]
                          /\ \A f \in Files : /\ Content[HostName[f]] = Content[f]
                                              /\ \A m \in MacNames[f] : Content[m] = Content[f]
ASSUME SetupAssumption ==
  Setups \subseteq [folders : SUBSET Folders, drops : SUBSET Drops, saves : SUBSET Saves, given : SUBSET Given]
ASSUME LimitAssumption == MaxTries \in Nat \ {0} /\ MaxAttempts \in Nat \ {0} /\ MaxTasks \in Nat \ {0}
ASSUME FlagAssumption == Remounts \in BOOLEAN /\ Settles \in BOOLEAN /\ Patient \in BOOLEAN /\ BuildMayFail \in BOOLEAN

VARIABLES
  setup,         \* the folders there are, what each has before, what the user may
                 \* drop and the guest save, once each
  stage, tries,  \* _stage, _tries
  pending,       \* _pendingAdd and _pendingFolder
  rebuilt,       \* _rebuilt
  folder,        \* Folder
  tasks,         \* the Rebuild tasks
  pump,          \* the emulation thread: inside a frame batch or a stage of Pump
  ui,            \* the UI thread: the operation it is in; in a restart goal is
                 \* the folder that goes back on the seat
  image,         \* hd2_, the volume on the seat
  mountDue,      \* ~hd2Mounted_ (Classic), hd2AnnouncePending_ (Quadra)
  guest,         \* the File Manager: volume on line, its catalog, a file open on it
  host,          \* the files in each folder
  shelf,         \* the files in each folder's _openmac-removed
  saved,         \* history: files the guest saved and has not deleted
  deleted,       \* history: files the guest deleted
  asked,         \* history: drops Request accepted
  told           \* history: drops whose loss was logged; "forced", "unsynced" likewise

seatVars == << stage, tries, pending, rebuilt, folder >>
macVars == << image, mountDue, guest >>
hostVars == << host, shelf >>
history == << saved, deleted, asked, told >>
vars == << setup, seatVars, tasks, pump, ui, macVars, hostVars, history >>

NoWish == [add |-> None, move |-> None]
OffLine == [online |-> FALSE, view |-> {}, open |-> FALSE, stale |-> FALSE]
NoTask == [pc |-> "Done", current |-> None, folder |-> None, wish |-> NoWish, next |-> None]
AtEase == [pc |-> "Ready", goal |-> None, image |-> None, attempts |-> 0]
InFrame == [pc |-> "Frame", image |-> None]

Pending == stage # "Idle"

-----------------------------------------------------------------------------
(* FolderDisk                                                              *)

Held(files) == {Content[f] : f \in files}

\* canonicalName and uniqueName: 31 characters, the safe ones, no two alike.
Namings(files) ==
  {name \in [files -> UNION {MacNames[f] : f \in files}] : \A f \in files : name[f] \in MacNames[f]}

\* Build: the volumes that may come of a folder's files.
VolumesOf(files) ==
  {{name[f] : f \in files \ (left \cup HostNoise)} : left \in SUBSET Skipped, name \in Namings(files)}

\* Mutant: files whose names the host cannot have are not written back.
BackAsNamed(volume) == {f \in volume \ GuestNoise : HostName[f] = f}

\* What a volume's files are called in the folder.
Back(volume) == {HostName[f] : f \in volume \ GuestNoise}

\* Mutant: what the volume does not hold is erased.
FoldsErasing(volume, f, left) ==
  /\ host' = [host EXCEPT ![f] = Back(volume) \cup (@ \cap (HostNoise \cup left))]
  /\ UNCHANGED shelf

\* The volume is the truth: of the folder's files those it does not hold, by name,
\* go to the shelf.  Some cannot be moved.
Folds(volume, f, left) ==
  /\ host' = [host EXCEPT ![f] = Back(volume) \cup (@ \cap (HostNoise \cup left))]
  /\ shelf' = [shelf EXCEPT ![f] = @ \cup (host[f] \ (Back(volume) \cup HostNoise \cup left))]

\* SyncBack.  The volume may not read back, or a file not be written: then the log
\* says so, some files are in the folder, and nothing or not everything is shelved.
SyncBack(volume, f) ==
  \/ /\ \E left \in SUBSET Skipped : Folds(volume, f, left)
     /\ UNCHANGED told
  \/ /\ \E written \in SUBSET Back(volume) : host' = [host EXCEPT ![f] = @ \cup written]
     /\ UNCHANGED shelf
     /\ told' = told \cup {"unsynced"}
  \/ /\ \E left \in SUBSET host[f] : Folds(volume, f, left)
     /\ told' = told \cup {"unsynced"}

-----------------------------------------------------------------------------
(* The machine                                                             *)

\* insertHardDisk2.  A volume the guest still has on line goes stale.
InsertHardDisk2(volume) ==
  /\ image' = volume
  /\ mountDue' = TRUE
  /\ guest' = [guest EXCEPT !.stale = guest.online]

\* The next frame batch finds the volume unmounted and injects _MountVol.
Mount ==
  /\ pump.pc = "Frame" /\ mountDue /\ image # None
  /\ mountDue' = FALSE
  /\ guest' = IF guest.online THEN guest
              ELSE [online |-> TRUE, view |-> image, open |-> FALSE, stale |-> FALSE]
  /\ UNCHANGED << image, seatVars, tasks, pump, ui, hostVars, history >>

Flushed == IF guest.online /\ image # None THEN guest.view ELSE image

LooksOffLine == image = None \/ (IF Remounts THEN mountDue ELSE ~guest.online)

\* Mutant: only the flag is cleared.
UnmountsFlagOnly ==
  /\ mountDue' = (mountDue \/ Remounts)
  /\ UNCHANGED << image, guest >>

\* unmountSecondDisk, done: the File Manager flushes and forgets the volume.
Unmounts ==
  IF LooksOffLine THEN UNCHANGED macVars
  ELSE /\ guest.online => ~guest.open
       /\ image' = Flushed
       /\ guest' = [guest EXCEPT !.online = FALSE, !.view = {}, !.stale = FALSE]
       /\ mountDue' = (mountDue \/ Remounts)

\* unmountSecondDisk, refused: a file operation is under way, or a file is open.
Refuses ==
  /\ ~LooksOffLine
  /\ UNCHANGED << guest, mountDue >>
  /\ \/ UNCHANGED image
     \/ guest.open /\ image' = Flushed

\* Mutant: the volumes are not settled.
NothingSettles == UNCHANGED macVars

\* shutdownVolumes: flushed, and off line unless a file is open; or a flush at most.
SettleVolumes ==
  /\ UNCHANGED mountDue
  /\ IF Settles
     THEN /\ image' = Flushed
          /\ guest' = IF guest.open THEN guest ELSE OffLine
     ELSE image' \in {image, Flushed} /\ UNCHANGED guest

-----------------------------------------------------------------------------
(* The guest, between the host's steps                                     *)

GuestRuns == pump.pc = "Frame" /\ guest.online

GuestSaves(f) ==
  /\ GuestRuns /\ f \in setup.saves \ (saved \cup deleted)
  /\ guest' = [guest EXCEPT !.view = @ \cup {f}]
  /\ saved' = saved \cup {f}
  /\ UNCHANGED << image, mountDue, deleted, asked, told >>

GuestDeletes(f) ==
  /\ GuestRuns /\ f \in guest.view
  /\ guest' = [guest EXCEPT !.view = @ \ {f}]
  /\ saved' = saved \ {Content[f]} /\ deleted' = deleted \cup {Content[f]}
  /\ UNCHANGED << image, mountDue, asked, told >>

GuestFlushes ==
  /\ GuestRuns /\ image # None
  /\ image' = Flushed
  /\ UNCHANGED << guest, mountDue, history >>

GuestOpensOrCloses ==
  /\ GuestRuns
  /\ guest' = [guest EXCEPT !.open = ~@]
  /\ UNCHANGED << image, mountDue, history >>

\* The volume goes to the Trash; the machine does not notice.
GuestPutsAway ==
  /\ GuestRuns /\ ~guest.open
  /\ image' = Flushed
  /\ guest' = [guest EXCEPT !.online = FALSE, !.view = {}, !.stale = FALSE]
  /\ UNCHANGED << mountDue, history >>

Guest ==
  /\ \/ \E f \in Saves : GuestSaves(f)
     \/ \E f \in Files : GuestDeletes(f)
     \/ GuestFlushes
     \/ GuestOpensOrCloses
     \/ GuestPutsAway
  /\ UNCHANGED << seatVars, tasks, pump, ui, hostVars >>

-----------------------------------------------------------------------------
(* Pump, on the emulation thread                                           *)

\* Mutant: the tries run on from one request to the next.
KeepTries == tries

ResetTries == 0

\* Mutant: the tries are not counted.
UncountedTry == tries

NextTry == tries + 1

Abandon ==
  /\ stage' = "Idle"
  /\ told' = told \cup ({pending.add} \ {None})

PumpRefused ==
  /\ pump.pc = "Frame" /\ stage = "WantUnmount"
  /\ Refuses
  /\ tries' = NextTry
  /\ IF NextTry >= MaxTries THEN Abandon ELSE UNCHANGED << stage, told >>
  /\ UNCHANGED << pending, rebuilt, folder, tasks, pump, ui, hostVars, saved, deleted, asked >>

PumpUnmounted ==
  /\ pump.pc = "Frame" /\ stage = "WantUnmount"
  /\ Unmounts
  /\ pump' = [pump EXCEPT !.pc = "Start"]
  /\ UNCHANGED << seatVars, tasks, ui, hostVars, history >>

PumpStart ==
  /\ pump.pc = "Start"
  /\ \E t \in 1..MaxTasks :
       /\ tasks[t].pc = "Done"
       /\ tasks' = [tasks EXCEPT ![t] = [NoTask EXCEPT !.pc = "Take", !.current = image, !.folder = folder]]
  /\ stage' = "Building"
  /\ pump' = InFrame
  /\ UNCHANGED << tries, pending, rebuilt, folder, ui, macVars, hostVars, history >>

PumpTake ==
  /\ pump.pc = "Frame" /\ stage = "WantInsert"
  /\ pump' = [pc |-> "Put", image |-> rebuilt]
  /\ rebuilt' = None
  /\ UNCHANGED << stage, tries, pending, folder, tasks, ui, macVars, hostVars, history >>

PumpPut ==
  /\ pump.pc = "Put"
  /\ IF pump.image = None THEN UNCHANGED macVars ELSE InsertHardDisk2(pump.image)
  /\ stage' = "Idle"
  /\ pump' = InFrame
  /\ UNCHANGED << tries, pending, rebuilt, folder, tasks, ui, hostVars, history >>

Pump == PumpRefused \/ PumpUnmounted \/ PumpStart \/ PumpTake \/ PumpPut

-----------------------------------------------------------------------------
(* Rebuild, on a pool task                                                 *)

\* Mutant: the file is copied before the sync-back.
CopyFirst(pc) ==
  CASE pc = "Take" -> "Move" [] pc = "Move" -> "Copy" [] pc = "Copy" -> "Sync" [] pc = "Sync" -> "Build" [] pc = "Build" -> "Hand"

\* Mutant: the sync-back is skipped.
SkipSync(pc) ==
  CASE pc = "Take" -> "Move" [] pc = "Sync" -> "Move" [] pc = "Move" -> "Copy" [] pc = "Copy" -> "Build" [] pc = "Build" -> "Hand"

\* Mutant: the volume is built before the file is copied.
CopyLast(pc) ==
  CASE pc = "Take" -> "Sync" [] pc = "Sync" -> "Move" [] pc = "Move" -> "Build" [] pc = "Build" -> "Copy" [] pc = "Copy" -> "Hand"

\* The order of Rebuild's steps.
After(pc) ==
  CASE pc = "Take" -> "Sync" [] pc = "Sync" -> "Move" [] pc = "Move" -> "Copy" [] pc = "Copy" -> "Build" [] pc = "Build" -> "Hand"

\* Mutant: a file taken by an earlier try is dropped.
TakenMoveOnly == [pending EXCEPT !.add = None]

Taken == pending

RebuildTake(t) ==
  /\ tasks[t].pc = "Take"
  /\ tasks' = [tasks EXCEPT ![t].pc = After("Take"), ![t].wish = Taken]
  /\ pending' = NoWish
  /\ UNCHANGED << stage, tries, rebuilt, folder, hostVars, told >>

RebuildSync(t) ==
  /\ tasks[t].pc = "Sync"
  /\ tasks' = [tasks EXCEPT ![t].pc = After("Sync")]
  /\ IF tasks[t].current = None \/ tasks[t].folder = None
     THEN UNCHANGED << hostVars, told >>
     ELSE SyncBack(tasks[t].current, tasks[t].folder)
  /\ UNCHANGED seatVars

RebuildMove(t) ==
  /\ tasks[t].pc = "Move"
  /\ LET f == IF tasks[t].wish.move = None THEN tasks[t].folder ELSE tasks[t].wish.move IN
       /\ tasks' = [tasks EXCEPT ![t].pc = IF f = None THEN "Hand" ELSE After("Move"), ![t].folder = f]
       /\ folder' = IF tasks[t].wish.move = None THEN folder ELSE f
  /\ UNCHANGED << stage, tries, pending, rebuilt, hostVars, told >>

\* CopyIn, or the log says it could not.
RebuildCopy(t) ==
  /\ tasks[t].pc = "Copy"
  /\ tasks' = [tasks EXCEPT ![t].pc = After("Copy")]
  /\ IF tasks[t].wish.add = None THEN UNCHANGED << host, told >>
     ELSE \/ /\ host' = [host EXCEPT ![tasks[t].folder] = @ \cup {tasks[t].wish.add}]
             /\ UNCHANGED told
          \/ told' = told \cup {tasks[t].wish.add} /\ UNCHANGED host
  /\ UNCHANGED << seatVars, shelf >>

BuildFails(t) ==
  /\ BuildMayFail
  /\ tasks' = [tasks EXCEPT ![t].pc = "Hand"]
  /\ told' = told \cup ({tasks[t].wish.add} \ {None})

RebuildBuild(t) ==
  /\ tasks[t].pc = "Build"
  /\ \/ /\ \E volume \in VolumesOf(host[tasks[t].folder]) :
             tasks' = [tasks EXCEPT ![t].pc = After("Build"), ![t].next = volume]
        /\ UNCHANGED told
     \/ BuildFails(t)
  /\ UNCHANGED << seatVars, hostVars >>

\* finally: the volume is handed over, then the stage moves on.
RebuildHand(t) ==
  /\ tasks[t].pc = "Hand"
  /\ tasks' = [tasks EXCEPT ![t].pc = "Stage"]
  /\ rebuilt' = tasks[t].next
  /\ UNCHANGED << stage, tries, pending, folder, hostVars, told >>

RebuildStage(t) ==
  /\ tasks[t].pc = "Stage"
  /\ tasks' = [tasks EXCEPT ![t] = NoTask]
  /\ stage' = "WantInsert"
  /\ UNCHANGED << tries, pending, rebuilt, folder, hostVars, told >>

Rebuild(t) ==
  /\ \/ RebuildTake(t) \/ RebuildSync(t) \/ RebuildMove(t) \/ RebuildCopy(t)
     \/ RebuildBuild(t) \/ RebuildHand(t) \/ RebuildStage(t)
  /\ UNCHANGED << pump, ui, macVars, saved, deleted, asked >>

-----------------------------------------------------------------------------
(* The UI thread                                                           *)

MayAct == ui.pc = "Ready" /\ (Patient => ~Pending /\ ~mountDue)

\* DropBoxDrop, DropBoxRepublish_Click and DropBoxChooseFolder_Click
Wishes == {NoWish} \cup [add : Drops \ asked, move : {None}] \cup [add : {None}, move : Folders]

Request(wish) ==
  /\ MayAct /\ folder # None
  /\ wish.add \in setup.drops \cup {None} /\ wish.move \in setup.folders \cup {None}
  /\ rebuilt' = None
  /\ pending' = wish
  /\ asked' = asked \cup ({wish.add} \ {None})
  /\ ui' = [ui EXCEPT !.pc = "Asked"]
  /\ UNCHANGED << stage, tries, folder, macVars, hostVars, saved, deleted, told >>

RequestStage ==
  /\ ui.pc = "Asked"
  /\ tries' = ResetTries
  /\ stage' = "WantUnmount"
  /\ ui' = AtEase
  /\ UNCHANGED << pending, rebuilt, folder, macVars, hostVars, history >>

DetachFolderDisk ==
  /\ MayAct /\ folder # None
  /\ ui' = [ui EXCEPT !.pc = "PutAway"]
  /\ UNCHANGED << seatVars, macVars, hostVars, history >>

\* PutAwaySeatVolume
PutAwaySeatVolume ==
  /\ ui.pc = "PutAway"
  /\ \/ /\ Unmounts
        /\ ui' = [ui EXCEPT !.pc = "Read"]
        /\ UNCHANGED told
     \/ /\ Refuses
        /\ IF ui.attempts + 1 < MaxAttempts
           THEN ui' = [ui EXCEPT !.attempts = @ + 1] /\ UNCHANGED told
           ELSE ui' = [ui EXCEPT !.pc = "Read"] /\ told' = told \cup {"forced"}
  /\ UNCHANGED << seatVars, hostVars, saved, deleted, asked >>

\* Sync reads the image under the lock and folds it back outside.
SyncRead ==
  /\ ui.pc = "Read"
  /\ ui' = [ui EXCEPT !.pc = IF image = None THEN "Close" ELSE "Fold", !.image = image]
  /\ UNCHANGED << seatVars, macVars, hostVars, history >>

SyncFold ==
  /\ ui.pc = "Fold"
  /\ ui' = [ui EXCEPT !.pc = "Close"]
  /\ SyncBack(ui.image, folder)
  /\ UNCHANGED << seatVars, macVars, saved, deleted, asked >>

\* Cancel, Folder = null, detachHardDisk2
DetachClose ==
  /\ ui.pc = "Close" /\ ui.goal = None
  /\ stage' = "Idle"
  /\ folder' = None
  /\ image' = None
  /\ mountDue' = (mountDue \/ Remounts)
  /\ guest' = [guest EXCEPT !.stale = guest.online]
  /\ ui' = AtEase
  /\ UNCHANGED << tries, pending, rebuilt, hostVars, history >>

\* AttachFolderDisk on an empty seat: build, insert, remember.
AttachFolderDisk(f) ==
  /\ ui.pc = "Ready" /\ (Patient => ~Pending)
  /\ folder = None /\ f \in setup.folders
  /\ \E volume \in VolumesOf(host[f]) :
       ui' = [ui EXCEPT !.pc = "Place", !.goal = f, !.image = volume]
  /\ UNCHANGED << seatVars, macVars, hostVars, history >>

AttachPlace ==
  /\ ui.pc = "Place"
  /\ InsertHardDisk2(ui.image)
  /\ folder' = ui.goal
  /\ ui' = AtEase
  /\ UNCHANGED << stage, tries, pending, rebuilt, hostVars, history >>

\* A restart: LoadRom tears the machine down, and the window attaches the folder
\* to the new one.  The careful user waits for a swap and closes his files first.
LoadRom ==
  /\ MayAct /\ folder # None /\ ~Pending
  /\ Patient => ~guest.open
  /\ SettleVolumes
  /\ ui' = [ui EXCEPT !.pc = "Read", !.goal = folder]
  /\ UNCHANGED << seatVars, hostVars, history >>

\* Destroy, create, Cancel: only the seat and the host survive.
NewMachine ==
  /\ ui.pc = "Close" /\ ui.goal # None
  /\ stage' = "Idle"
  /\ folder' = IF Remounts THEN None ELSE folder
  /\ image' = None /\ mountDue' = Remounts /\ guest' = OffLine
  /\ ui' = [ui EXCEPT !.pc = "Rejoin"]
  /\ UNCHANGED << tries, pending, rebuilt, hostVars, history >>

Rejoin ==
  /\ ui.pc = "Rejoin"
  /\ \/ \E volume \in VolumesOf(host[ui.goal]) :
          ui' = [ui EXCEPT !.pc = "Place", !.image = volume]
     \/ BuildMayFail /\ ui' = AtEase
  /\ UNCHANGED << seatVars, macVars, hostVars, history >>

UiGoesOn ==
  \/ RequestStage \/ PutAwaySeatVolume \/ SyncRead \/ SyncFold \/ DetachClose
  \/ NewMachine \/ Rejoin \/ AttachPlace

Ui ==
  /\ \/ UiGoesOn
     \/ \E wish \in Wishes : Request(wish)
     \/ DetachFolderDisk
     \/ LoadRom
     \/ \E f \in Folders : AttachFolderDisk(f)
  /\ UNCHANGED << tasks, pump >>

-----------------------------------------------------------------------------
Init ==
  /\ stage = "Idle" /\ tries = 0 /\ pending = NoWish /\ rebuilt = None /\ folder = None
  /\ tasks = [t \in 1..MaxTasks |-> NoTask]
  /\ pump = InFrame /\ ui = AtEase
  /\ image = None /\ mountDue = Remounts
  /\ guest = OffLine
  /\ setup \in Setups
  /\ host = [f \in Folders |-> setup.given] /\ shelf = [f \in Folders |-> {}]
  /\ saved = {} /\ deleted = {} /\ asked = {} /\ told = {}

Next ==
  /\ Mount \/ Guest \/ Pump \/ (\E t \in 1..MaxTasks : Rebuild(t)) \/ Ui
  /\ UNCHANGED setup

\* The frame loop pumps, the pool runs its tasks, the UI thread finishes what
\* it began; neither the guest nor the user has to do anything.
Fairness ==
  /\ WF_vars(Pump /\ UNCHANGED setup)
  /\ \A t \in 1..MaxTasks : WF_vars(Rebuild(t) /\ UNCHANGED setup)
  /\ WF_vars(UiGoesOn /\ UNCHANGED << setup, tasks, pump >>)

Spec == Init /\ [][Next]_vars /\ Fairness

-----------------------------------------------------------------------------
(* Properties                                                              *)

\* Every variable has its type.
DropBoxTypeOK ==
  /\ setup \in Setups
  /\ stage \in {"Idle", "WantUnmount", "Building", "WantInsert"} /\ tries \in 0..MaxTries
  /\ pending \in [add : Drops \cup {None}, move : Folders \cup {None}]
  /\ rebuilt \in Volumes \cup {None} /\ folder \in Folders \cup {None}
  /\ tasks \in [1..MaxTasks -> [pc : {"Done", "Take", "Sync", "Move", "Copy", "Build", "Hand", "Stage"},
                                current : Volumes \cup {None}, folder : Folders \cup {None},
                                wish : [add : Drops \cup {None}, move : Folders \cup {None}],
                                next : Volumes \cup {None}]]
  /\ pump \in [pc : {"Frame", "Start", "Put"}, image : Volumes \cup {None}]
  /\ ui \in [pc : {"Ready", "Asked", "PutAway", "Read", "Fold", "Close", "Rejoin", "Place"},
             goal : Folders \cup {None}, image : Volumes \cup {None}, attempts : 0..MaxAttempts]
  /\ image \in Volumes \cup {None} /\ mountDue \in BOOLEAN
  /\ guest \in [online : BOOLEAN, view : Volumes, open : BOOLEAN, stale : BOOLEAN]
  /\ host \in [Folders -> Volumes] /\ shelf \in [Folders -> Volumes]
  /\ saved \subseteq Saves /\ deleted \subseteq Works /\ asked \subseteq Drops
  /\ told \subseteq Drops \cup {"forced", "unsynced"}

\* The log said: the Mac would not let go of the volume.
Forced == "forced" \in told

\* The guest never reads one volume's catalog against another volume's blocks
\* (DropBox.cs:12-18, machine.cpp:966-969): no volume goes on the seat while an
\* older one is on line, unless the guest would not let go of it.
NeverCrossed == guest.online /\ guest.stale => Forced

\* What the conversions may leave out.
LeftOut == Held(Skipped \cup HostNoise \cup GuestNoise)

\* What the guest saved on the drop box and did not delete is never lost in a swap, a
\* move, a detach or a restart: it is on the volume or, under whatever name, in a host
\* folder, unless the log says otherwise (Rebuild's first step, DetachFolderDisk's and
\* LoadRom's order) or the guest put it where no sync-back looks.
WorkSurvives ==
  \A f \in saved \ LeftOut : \/ \E g \in Folders : f \in Held(host[g])
                             \/ image # None /\ f \in Held(image)
                             \/ guest.online /\ f \in Held(guest.view)
                             \/ Forced \/ "unsynced" \in told

\* What a shelved file holds is deleted by the guest, or the folder still holds it
\* under the name that the volume gave it (Rebuild copies after the sync-back, and
\* syncs to the folder the volume was built from; FolderDisk.cs:310-312, 365-387).
NothingShelvedByMistake ==
  Forced \/ \A g \in Folders : Held(shelf[g]) \subseteq deleted \cup Held(host[g]) \cup LeftOut

\* The shelf is for "Files the guest deleted" (FolderDisk.cs:364).  It also gets what
\* the builder renamed or skipped, so no run checks it.
OnlyDeletedIsShelved ==
  Forced \/ \A g \in Folders : Held(shelf[g]) \subseteq deleted

Settled == stage = "Idle" /\ pump.pc = "Frame" /\ ui.pc # "Asked" /\ \A t \in 1..MaxTasks : tasks[t].pc = "Done"

\* When the seat has come to rest, every file that was dropped is in a folder
\* or its loss was logged; a deleted one is on the shelf.
NoDropForgotten ==
  Settled => \A d \in asked : d \in told \/ \E g \in Folders : d \in Held(host[g] \cup shelf[g])

\* No step of the three threads, in no order and whatever the conversions call a file,
\* loses a save, a dropped file or what a file of the host folder holds that the guest
\* has not deleted (DropBox.cs:209-270).
NothingIsLost == WorkSurvives /\ NothingShelvedByMistake /\ NoDropForgotten

\* A dropped file that the builder does not skip gets onto the volume the Mac is
\* given, under the name it has there, or the log says why not.
DropArrives ==
  \A d \in Drops \ LeftOut :
    pending.add = d ~> (Forced \/ d \in told \/ (image # None /\ d \in Held(image)))

\* A republish ends, even when the Mac never lets go of the volume.
RepublishEnds == Pending ~> ~Pending

\* What was asked for is done, and the seat comes to rest again.
SwapsComplete == DropArrives /\ RepublishEnds
=============================================================================
