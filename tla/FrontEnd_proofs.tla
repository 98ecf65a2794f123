-------------------------- MODULE FrontEnd_proofs --------------------------
(***************************************************************************)
(* Proofs about two components of gui/Emulation.                           *)
(*                                                                         *)
(* DropBox, for any folders, files and limits.  What is promised depends   *)
(* on the machine and the user, and so do the theorems:                    *)
(*                                                                         *)
(*   DropBoxTypeCorrect  Spec => []DropBoxTypeOK                           *)
(*   DropsAreRemembered  the user waits: Spec => []NoDropForgotten         *)
(*   NeverCrossing       and the machine mounts a volume once:             *)
(*                       Spec => []NeverCrossed                            *)
(*   LosesNothing        and it settles its volumes, and folders fit them: *)
(*                       Spec => []NothingIsLost                           *)
(*                                                                         *)
(* A user who waits has one thread act on the seat at a time (Alone), so a *)
(* dropped file has one keeper at each stage (Owed), and a volume goes on  *)
(* the seat only after the guest let go of the last one (Uncrossed).  What *)
(* the volume owes the folder, and which of the two holds the guest's work *)
(* while it changes hands, is Kept; it speaks of what files hold (Held),   *)
(* because neither conversion keeps their names.                           *)
(*                                                                         *)
(* And SlirpTcp, for any window, ring, sequence space and load:            *)
(*                                                                         *)
(*   TcpTypeCorrect      TcpSpec => []TcpTypeOK                            *)
(*   StreamsStaySound    connections shorter than the distance of their    *)
(*                       initial sequence numbers:                         *)
(*                       TcpSpec => []StreamsAreSound                      *)
(*                                                                         *)
(* StreamInv is the inductive invariant.  Without it nothing says what a   *)
(* segment still on its way will do: so every segment toward the guest is  *)
(* tied to the bytes its flow has read (Delivers), every segment of the    *)
(* guest to what its connection has sent (Formed, AckOf), both in the      *)
(* order of the queues (InOrder); and each flow's count to the step its    *)
(* pool thread is at (Counts), which is what makes the unlocked reads of   *)
(* OnTcp harmless.  A flow the guest gave up keeps its own numbers, and no *)
(* number of one connection is a number of another (BasesApart,            *)
(* GuestLies), so its late segments are not in order for the successor.    *)
(***************************************************************************)
EXTENDS DropBox, SlirpTcp, SequenceTheorems, TLAPS

-----------------------------------------------------------------------------
(* DropBox: types                                                         *)

Tasks == 1..MaxTasks
Active(t) == tasks[t].pc # "Done"
Ashore(f) == \E g \in Folders : f \in Held(host[g])

Wish == [add : Drops \cup {None}, move : Folders \cup {None}]
TaskStates == [pc : {"Done", "Take", "Sync", "Move", "Copy", "Build", "Hand", "Stage"},
               current : Volumes \cup {None}, folder : Folders \cup {None},
               wish : Wish, next : Volumes \cup {None}]
PumpStates == [pc : {"Frame", "Start", "Put"}, image : Volumes \cup {None}]
UiStates == [pc : {"Ready", "Asked", "PutAway", "Read", "Fold", "Close", "Rejoin", "Place"},
             goal : Folders \cup {None}, image : Volumes \cup {None}, attempts : 0..MaxAttempts]
GuestStates == [online : BOOLEAN, view : Volumes, open : BOOLEAN, stale : BOOLEAN]

SeatTypes == /\ stage \in {"Idle", "WantUnmount", "Building", "WantInsert"}
             /\ tries \in 0..MaxTries /\ (stage = "WantUnmount" => tries < MaxTries)
             /\ pending \in Wish /\ rebuilt \in Volumes \cup {None} /\ folder \in Folders \cup {None}
TasksTypes == /\ tasks \in [Tasks -> TaskStates]
              /\ \A t \in Tasks : tasks[t].pc \in {"Copy", "Build"} => tasks[t].folder # None
PumpTypes == pump \in PumpStates
UiTypes == /\ ui \in UiStates
           /\ ui.pc = "Fold" => ui.image # None
           /\ ui.pc \in {"Ready", "Asked", "PutAway"} => ui.goal = None
           /\ ui.pc \in {"Rejoin", "Place"} => ui.goal # None
           /\ ui.pc = "Place" => ui.image # None
MacTypes == image \in Volumes \cup {None} /\ mountDue \in BOOLEAN /\ guest \in GuestStates
HostTypes == host \in [Folders -> Volumes] /\ shelf \in [Folders -> Volumes]
HistoryTypes == /\ saved \subseteq Saves /\ deleted \subseteq Works /\ asked \subseteq Drops
                /\ told \subseteq Drops \cup {"forced", "unsynced"}

Types == SeatTypes /\ TasksTypes /\ PumpTypes /\ UiTypes /\ MacTypes /\ HostTypes /\ HistoryTypes

\* The threads take turns.
Alone == /\ stage # "Idle" => ui.pc = "Ready"
         /\ stage # "Idle" \/ ui.pc \in {"Asked", "PutAway", "Read", "Fold", "Close"} => folder # None
         /\ \A t \in Tasks : Active(t) => stage = "Building" /\ tasks[t].folder = folder
         /\ \A t, u \in Tasks : Active(t) /\ Active(u) => t = u
         /\ stage = "Building" => pump.pc = "Frame"
         /\ pump.pc = "Start" => stage = "WantUnmount"
         /\ pump.pc = "Put" => stage = "WantInsert"

\* Who keeps a dropped file.
Filed(d) == \E g \in Folders : d \in Held(host[g] \cup shelf[g])
Waits(d) == /\ pending.add = d
            /\ ui.pc = "Asked" \/ stage = "WantUnmount" \/ \E t \in Tasks : tasks[t].pc = "Take"
Carried(d) == \E t \in Tasks : tasks[t].wish.add = d /\ tasks[t].pc \in {"Sync", "Move", "Copy"}

Owed == \A d \in asked : d \in told \/ Filed(d) \/ Waits(d) \/ Carried(d)

\* Off line, unless the log said that the Mac would not let go.
LetGo == ~guest.online \/ Forced

Uncrossed ==
  /\ NeverCrossed
  /\ image = None => LetGo
  /\ pump.pc = "Start" \/ stage \in {"Building", "WantInsert"} => LetGo
  /\ ui.pc \in {"Read", "Fold", "Close"} /\ (ui.goal = None \/ Settles) => LetGo
  /\ ui.pc \in {"Rejoin", "Place"} \/ folder = None => image = None
  /\ mountDue => stage = "Idle" /\ ui.pc = "Ready" /\ folder # None

\* The volume on the seat is the truth: it is not yet synced to the folder.
Served == /\ folder # None /\ ui.pc \notin {"Close", "Rejoin", "Place"}
          /\ stage \in {"Idle", "WantUnmount"} \/ \E t \in Tasks : tasks[t].pc \in {"Take", "Sync"}

\* The catalog in use.
Live == IF guest.online THEN guest.view ELSE image

Faithful ==
  /\ image # None
  /\ Held(host[folder]) \subseteq Held(image) \cup deleted \cup LeftOut
  /\ guest.online => Held(image) \subseteq Held(guest.view) \cup deleted
  /\ \A f \in saved \ LeftOut : Ashore(f) \/ f \in Held(Live) \/ "unsynced" \in told

\* A volume holds what a folder's files hold, but for what the builder leaves out.
Carries(volume, files) == volume \in Volumes /\ Held(files) \subseteq Held(volume) \cup LeftOut

\* A volume that was built carries the folder.
Built ==
  /\ \A t \in Tasks : tasks[t].pc \in {"Hand", "Stage"} => Carries(tasks[t].next, host[folder])
  /\ \A t \in Tasks : tasks[t].pc = "Stage" => Carries(rebuilt, host[folder])
  /\ stage = "WantInsert" /\ pump.pc = "Frame" => Carries(rebuilt, host[folder])
  /\ pump.pc = "Put" => Carries(pump.image, host[folder])
  /\ ui.pc = "Place" => Carries(ui.image, host[ui.goal])

\* What a shelved file holds.
Shelved == \A g \in Folders : Held(shelf[g]) \subseteq deleted \cup Held(host[g]) \cup LeftOut

\* Every save that a sync-back looks for is in a folder, or the log says otherwise.
Landed == "unsynced" \in told \/ \A f \in saved \ LeftOut : Ashore(f)

Sound ==
  /\ Shelved
  /\ Served => Faithful
  /\ Served \/ Landed
  /\ \A t \in Tasks : tasks[t].pc \in {"Take", "Sync"} => tasks[t].current = image
  /\ ui.pc = "Fold" => ui.image = image

Kept == saved \cap deleted = {} /\ Built /\ (Forced \/ Sound)

-----------------------------------------------------------------------------
(* The conversions                                                         *)

\* What files hold.
LEMMA HeldGrows == \A a, b : a \subseteq b => Held(a) \subseteq Held(b)
  BY DEF Held

LEMMA HeldHas == \A a, f : f \in a => Content[f] \in Held(a)
  BY DEF Held

\* A file under its first name holds what is named by it.
LEMMA HeldWorks == \A a : \A w \in Works : w \in a => w \in Held(a)
  BY NamesAssumption DEF Held

LEMMA HeldSplits == \A a, b : Held(a \cup b) = Held(a) \cup Held(b)
  BY DEF Held

\* What the builder makes of a folder is a volume, and carries it.
LEMMA VolumesCarry ==
  ASSUME NEW files \in Volumes, NEW volume \in VolumesOf(files)
  PROVE  Carries(volume, files)
<1>1. PICK left \in SUBSET Skipped, name \in Namings(files) : volume = {name[f] : f \in files \ (left \cup HostNoise)}
  BY DEF VolumesOf
<1>2. \A f \in files : name[f] \in Files /\ Content[name[f]] = Content[f]
  BY NamesAssumption DEF Namings, Volumes
<1>3. volume \in Volumes
  BY <1>1, <1>2 DEF Volumes
<1>4. ASSUME NEW f \in files PROVE Content[f] \in Held(volume) \cup LeftOut
  <2>1. CASE f \in left \cup HostNoise
    BY <2>1, HeldHas DEF LeftOut
  <2>2. CASE f \notin left \cup HostNoise
    <3>1. name[f] \in volume
      BY <1>1, <2>2
    <3> QED BY <1>2, <3>1, HeldHas DEF Volumes
  <2> QED BY <2>1, <2>2
<1> QED BY <1>3, <1>4 DEF Held, Carries

\* What the sync-back makes of a volume are files, and they hold what it holds,
\* but for what it leaves out.
LEMMA BackCarries ==
  ASSUME NEW volume \in Volumes
  PROVE  Back(volume) \in Volumes /\ Held(volume) \subseteq Held(Back(volume)) \cup LeftOut
<1>1. \A f \in Files : HostName[f] \in Files /\ Content[HostName[f]] = Content[f]
  BY NamesAssumption
<1>2. Back(volume) \in Volumes
  BY <1>1 DEF Back, Volumes
<1>3. ASSUME NEW f \in volume PROVE Content[f] \in Held(Back(volume)) \cup LeftOut
  <2>1. CASE f \in GuestNoise
    BY <2>1, HeldHas DEF LeftOut
  <2>2. CASE f \notin GuestNoise
    <3>1. HostName[f] \in Back(volume)
      BY <2>2 DEF Back
    <3> QED BY <1>1, <3>1, HeldHas DEF Volumes
  <2> QED BY <2>1, <2>2
<1> QED BY <1>2, <1>3 DEF Held

-----------------------------------------------------------------------------
(* Types                                                                   *)

LEMMA TypesImply == Types /\ setup \in Setups => DropBoxTypeOK
  BY DEF Types, SeatTypes, TasksTypes, PumpTypes, UiTypes, MacTypes, HostTypes, HistoryTypes, DropBoxTypeOK,
         Wish, TaskStates, PumpStates, UiStates, GuestStates, Tasks

LEMMA TypesInit == Init => Types
  BY FilesAssumption, SetupAssumption, LimitAssumption, FlagAssumption
  DEF Init, Types, SeatTypes, TasksTypes, PumpTypes, UiTypes, MacTypes, HostTypes, HistoryTypes,
      Wish, TaskStates, PumpStates, UiStates, GuestStates, Tasks,
      NoWish, NoTask, InFrame, AtEase, OffLine, Works, Files, Volumes

LEMMA NoVolume == \A v \in Volumes : v # None
  BY FilesAssumption

\* The order of a rebuild.
LEMMA AfterSteps ==
  /\ After("Take") = "Sync" /\ After("Sync") = "Move" /\ After("Move") = "Copy"
  /\ After("Copy") = "Build" /\ After("Build") = "Hand"
  BY DEF After

\* A sync-back leaves folders of files.
LEMMA SyncBackTypes ==
  ASSUME HostTypes, NEW volume \in Volumes, NEW f, SyncBack(volume, f)
  PROVE  HostTypes' /\ told' \in {told, told \cup {"unsynced"}}
<1>0. Back(volume) \subseteq Files
  BY BackCarries DEF Volumes
<1>1. ASSUME NEW left, Folds(volume, f, left) PROVE HostTypes'
  BY <1>0, <1>1 DEF Folds, HostTypes, Volumes
<1>2. ASSUME NEW written \in SUBSET Back(volume), host' = [host EXCEPT ![f] = @ \cup written], shelf' = shelf
      PROVE  HostTypes'
  BY <1>0, <1>2 DEF HostTypes, Volumes
<1> QED BY <1>1, <1>2 DEF SyncBack

\* What a step leaves alone keeps its types.
LEMMA Unchanged ==
  /\ SeatTypes /\ UNCHANGED seatVars => SeatTypes'
  /\ TasksTypes /\ UNCHANGED tasks => TasksTypes'
  /\ PumpTypes /\ UNCHANGED pump => PumpTypes'
  /\ UiTypes /\ UNCHANGED ui => UiTypes'
  /\ MacTypes /\ UNCHANGED macVars => MacTypes'
  /\ HostTypes /\ UNCHANGED hostVars => HostTypes'
  /\ HistoryTypes /\ UNCHANGED history => HistoryTypes'
<1>1. SeatTypes /\ UNCHANGED seatVars => SeatTypes'
  BY DEF SeatTypes, seatVars
<1>2. TasksTypes /\ UNCHANGED tasks => TasksTypes'
  BY DEF TasksTypes, Tasks
<1>3. PumpTypes /\ UNCHANGED pump => PumpTypes'
  BY DEF PumpTypes
<1>4. UiTypes /\ UNCHANGED ui => UiTypes'
  BY DEF UiTypes
<1>5. MacTypes /\ UNCHANGED macVars => MacTypes'
  BY DEF MacTypes, macVars
<1>6. HostTypes /\ UNCHANGED hostVars => HostTypes'
  BY DEF HostTypes, hostVars
<1>7. HistoryTypes /\ UNCHANGED history => HistoryTypes'
  BY DEF HistoryTypes, history
<1> QED BY <1>1, <1>2, <1>3, <1>4, <1>5, <1>6, <1>7

\* What is read from the guest's catalog is a volume.
LEMMA FlushedTypes ==
  ASSUME MacTypes
  PROVE  Flushed \in Volumes \cup {None} /\ (Flushed = None <=> image = None)
  BY NoVolume DEF MacTypes, GuestStates, Flushed

LEMMA UnmountsTypes ==
  ASSUME MacTypes, Unmounts \/ Refuses
  PROVE  MacTypes'
<1>1. CASE Unmounts
  <2>1. CASE LooksOffLine
    BY <1>1, <2>1, Unchanged DEF Unmounts
  <2>2. CASE ~LooksOffLine
    <3>1. guest' \in GuestStates
      BY <1>1, <2>2 DEF Unmounts, MacTypes, GuestStates, Volumes
    <3> QED BY <1>1, <2>2, <3>1, FlushedTypes, FlagAssumption DEF Unmounts, MacTypes
  <2> QED BY <2>1, <2>2
<1>2. CASE Refuses
  BY <1>2, FlushedTypes DEF Refuses, MacTypes
<1> QED BY <1>1, <1>2

LEMMA InsertTypes ==
  ASSUME MacTypes, NEW volume \in Volumes \cup {None}, InsertHardDisk2(volume)
  PROVE  MacTypes'
  BY DEF InsertHardDisk2, MacTypes, GuestStates

LEMMA MountTypes ==
  ASSUME Types, Mount
  PROVE  Types'
<1>1. image \in Volumes /\ mountDue' = FALSE /\ image' = image
  BY DEF Mount, Types, MacTypes
<1>2. CASE guest.online
  BY <1>1, <1>2, Unchanged DEF Mount, Types, MacTypes
<1>3. CASE ~guest.online
  <2>1. guest' \in GuestStates
    BY <1>1, <1>3 DEF Mount, GuestStates
  <2> QED BY <1>1, <2>1, Unchanged DEF Mount, Types, MacTypes
<1> QED BY <1>2, <1>3

LEMMA GuestTypes ==
  ASSUME Types, Guest
  PROVE  Types'
<1>0. MacTypes /\ HistoryTypes
  BY DEF Types
<1>1. ASSUME NEW f \in Saves, GuestSaves(f) PROVE MacTypes' /\ HistoryTypes'
  BY <1>0, <1>1 DEF GuestSaves, MacTypes, HistoryTypes, GuestStates, Volumes, Files, Works
<1>2. ASSUME NEW f \in Files, GuestDeletes(f) PROVE MacTypes' /\ HistoryTypes'
  <2>1. Content[f] \in Works
    BY NamesAssumption
  <2> QED BY <1>0, <1>2, <2>1 DEF GuestDeletes, MacTypes, HistoryTypes, GuestStates, Volumes
<1>3. ASSUME GuestFlushes PROVE MacTypes' /\ HistoryTypes'
  BY <1>0, <1>3, FlushedTypes DEF GuestFlushes, MacTypes, HistoryTypes, history
<1>4. ASSUME GuestOpensOrCloses PROVE MacTypes' /\ HistoryTypes'
  BY <1>0, <1>4 DEF GuestOpensOrCloses, MacTypes, GuestStates, HistoryTypes, history
<1>5. ASSUME GuestPutsAway PROVE MacTypes' /\ HistoryTypes'
  <2>1. guest' \in GuestStates
    BY <1>0, <1>5 DEF GuestPutsAway, MacTypes, GuestStates, Volumes
  <2> QED BY <1>0, <1>5, <2>1, FlushedTypes DEF GuestPutsAway, MacTypes, HistoryTypes, history
<1>6. MacTypes' /\ HistoryTypes'
  BY <1>1, <1>2, <1>3, <1>4, <1>5 DEF Guest
<1> QED BY <1>6, Unchanged DEF Guest, Types

LEMMA PumpStepTypes ==
  ASSUME Types, Pump
  PROVE  Types'
<1>0. SeatTypes /\ TasksTypes /\ PumpTypes /\ UiTypes /\ MacTypes /\ HostTypes /\ HistoryTypes
  BY DEF Types
<1>1. CASE PumpRefused
  <2>1. MacTypes'
    BY <1>0, <1>1, UnmountsTypes DEF PumpRefused
  <2>2. SeatTypes' /\ HistoryTypes'
    BY <1>0, <1>1, LimitAssumption DEF PumpRefused, Abandon, NextTry, SeatTypes, HistoryTypes, Wish
  <2> QED BY <1>0, <1>1, <2>1, <2>2, Unchanged DEF PumpRefused, Types
<1>2. CASE PumpUnmounted
  <2>1. MacTypes'
    BY <1>0, <1>2, UnmountsTypes DEF PumpUnmounted
  <2>2. PumpTypes'
    BY <1>0, <1>2 DEF PumpUnmounted, PumpTypes, PumpStates
  <2> QED BY <1>0, <1>2, <2>1, <2>2, Unchanged DEF PumpUnmounted, Types
<1>3. CASE PumpStart
  <2>1. PICK t \in Tasks : tasks' = [tasks EXCEPT ![t] = [NoTask EXCEPT !.pc = "Take", !.current = image, !.folder = folder]]
    BY <1>3 DEF PumpStart, Tasks
  <2>2. [NoTask EXCEPT !.pc = "Take", !.current = image, !.folder = folder] \in TaskStates
    BY <1>0 DEF NoTask, NoWish, TaskStates, Wish, MacTypes, SeatTypes
  <2>3. TasksTypes'
    BY <1>0, <2>1, <2>2 DEF TasksTypes, Tasks, NoTask
  <2>4. SeatTypes' /\ PumpTypes'
    BY <1>0, <1>3 DEF PumpStart, SeatTypes, InFrame, PumpTypes, PumpStates
  <2> QED BY <1>0, <1>3, <2>3, <2>4, Unchanged DEF PumpStart, Types
<1>4. CASE PumpTake
  <2>1. SeatTypes' /\ PumpTypes'
    BY <1>0, <1>4 DEF PumpTake, SeatTypes, PumpTypes, PumpStates
  <2> QED BY <1>0, <1>4, <2>1, Unchanged DEF PumpTake, Types
<1>5. CASE PumpPut
  <2>1. MacTypes'
    BY <1>0, <1>5, InsertTypes, Unchanged DEF PumpPut, PumpTypes, PumpStates
  <2>2. SeatTypes' /\ PumpTypes'
    BY <1>0, <1>5 DEF PumpPut, SeatTypes, InFrame, PumpTypes, PumpStates
  <2> QED BY <1>0, <1>5, <2>1, <2>2, Unchanged DEF PumpPut, Types
<1> QED BY <1>1, <1>2, <1>3, <1>4, <1>5 DEF Pump

\* One task moves on, with any new values in its fields.
LEMMA TaskMoves ==
  ASSUME TasksTypes, NEW t \in Tasks, NEW new \in TaskStates, tasks' = [tasks EXCEPT ![t] = new],
         new.pc \in {"Copy", "Build"} => new.folder # None
  PROVE  TasksTypes'
  BY DEF TasksTypes, Tasks

LEMMA RebuildTypes ==
  ASSUME Types, NEW t \in Tasks, Rebuild(t)
  PROVE  Types'
<1>0. SeatTypes /\ TasksTypes /\ PumpTypes /\ UiTypes /\ MacTypes /\ HostTypes /\ HistoryTypes
  BY DEF Types
<1>a. tasks[t] \in TaskStates
  BY <1>0 DEF TasksTypes
<1>b. PumpTypes' /\ UiTypes' /\ MacTypes' /\ saved' = saved /\ deleted' = deleted /\ asked' = asked
  BY <1>0, Unchanged DEF Rebuild
<1>1. CASE RebuildTake(t)
  <2>1. TasksTypes'
    BY <1>0, <1>1, <1>a, AfterSteps DEF RebuildTake, Taken, TasksTypes, TaskStates, SeatTypes, Tasks
  <2>2. SeatTypes' /\ HistoryTypes'
    BY <1>0, <1>1, <1>b DEF RebuildTake, SeatTypes, NoWish, Wish, HistoryTypes
  <2> QED BY <1>0, <1>1, <1>b, <2>1, <2>2, Unchanged DEF RebuildTake, Types
<1>2. CASE RebuildSync(t)
  <2>1. TasksTypes'
    BY <1>0, <1>2, <1>a, AfterSteps DEF RebuildSync, TasksTypes, TaskStates, Tasks
  <2>2. HostTypes' /\ HistoryTypes'
    BY <1>0, <1>2, <1>a, <1>b, SyncBackTypes, Unchanged DEF RebuildSync, HistoryTypes, TaskStates
  <2> QED BY <1>0, <1>2, <1>b, <2>1, <2>2, Unchanged DEF RebuildSync, Types
<1>3. CASE RebuildMove(t)
  <2> DEFINE f == IF tasks[t].wish.move = None THEN tasks[t].folder ELSE tasks[t].wish.move
             pc == IF f = None THEN "Hand" ELSE "Copy"
             new == [tasks[t] EXCEPT !.pc = pc, !.folder = f]
  <2>1. f \in Folders \cup {None}
    BY <1>a DEF TaskStates, Wish
  <2>2. tasks' = [tasks EXCEPT ![t] = new] /\ folder' = IF tasks[t].wish.move = None THEN folder ELSE f
    BY <1>0, <1>3, <1>a, AfterSteps DEF RebuildMove, TasksTypes, TaskStates
  <2>3. pc \in {"Hand", "Copy"} /\ (pc = "Copy" => f # None)
    OBVIOUS
  <2> HIDE DEF pc, f
  <2>4. new \in TaskStates /\ new.pc = pc /\ new.folder = f
    BY <1>a, <2>1, <2>3 DEF TaskStates
  <2> HIDE DEF new
  <2>5. TasksTypes'
    BY <1>0, <2>2, <2>3, <2>4, TaskMoves
  <2>6. SeatTypes' /\ HistoryTypes'
    BY <1>0, <1>3, <1>b, <2>1, <2>2 DEF RebuildMove, SeatTypes, HistoryTypes
  <2> QED BY <1>0, <1>3, <1>b, <2>5, <2>6, Unchanged DEF RebuildMove, Types
<1>4. CASE RebuildCopy(t)
  <2>1. TasksTypes'
    BY <1>0, <1>4, <1>a, AfterSteps DEF RebuildCopy, TasksTypes, TaskStates, Tasks
  <2>2. HostTypes' /\ HistoryTypes'
    BY <1>0, <1>4, <1>a, <1>b DEF RebuildCopy, HostTypes, HistoryTypes, TaskStates, Wish, Volumes, Files, Works
  <2> QED BY <1>0, <1>4, <1>b, <2>1, <2>2, Unchanged DEF RebuildCopy, Types
<1>5. CASE RebuildBuild(t)
  <2>1. tasks[t].folder \in Folders /\ host[tasks[t].folder] \in Volumes
    BY <1>0, <1>5, <1>a DEF RebuildBuild, TasksTypes, TaskStates, HostTypes
  <2>2. TasksTypes'
    <3>1. ASSUME NEW volume \in VolumesOf(host[tasks[t].folder]),
                 tasks' = [tasks EXCEPT ![t].pc = "Hand", ![t].next = volume]
          PROVE  TasksTypes'
      <4>1. volume \in Volumes
        BY <2>1, VolumesCarry DEF Carries
      <4> QED BY <1>0, <1>a, <3>1, <4>1 DEF TasksTypes, TaskStates, Tasks
    <3>2. CASE tasks' = [tasks EXCEPT ![t].pc = "Hand"]
      BY <1>0, <1>a, <3>2 DEF TasksTypes, TaskStates, Tasks
    <3> QED BY <1>5, <3>1, <3>2, AfterSteps DEF RebuildBuild, BuildFails
  <2>3. HistoryTypes'
    BY <1>0, <1>5, <1>a, <1>b DEF RebuildBuild, BuildFails, HistoryTypes, TaskStates, Wish
  <2> QED BY <1>0, <1>5, <1>b, <2>2, <2>3, Unchanged DEF RebuildBuild, Types
<1>6. CASE RebuildHand(t)
  <2>1. TasksTypes'
    BY <1>0, <1>6, <1>a DEF RebuildHand, TasksTypes, TaskStates, Tasks
  <2>2. SeatTypes' /\ HistoryTypes'
    BY <1>0, <1>6, <1>a, <1>b DEF RebuildHand, SeatTypes, TaskStates, HistoryTypes
  <2> QED BY <1>0, <1>6, <1>b, <2>1, <2>2, Unchanged DEF RebuildHand, Types
<1>7. CASE RebuildStage(t)
  <2>1. NoTask \in TaskStates /\ NoTask.pc = "Done"
    BY DEF NoTask, NoWish, TaskStates, Wish
  <2>2. TasksTypes'
    BY <1>0, <1>7, <2>1, TaskMoves DEF RebuildStage
  <2>3. SeatTypes' /\ HistoryTypes'
    BY <1>0, <1>7, <1>b DEF RebuildStage, SeatTypes, HistoryTypes
  <2> QED BY <1>0, <1>7, <1>b, <2>2, <2>3, Unchanged DEF RebuildStage, Types
<1> QED BY <1>1, <1>2, <1>3, <1>4, <1>5, <1>6, <1>7 DEF Rebuild

LEMMA UiStepTypes ==
  ASSUME Types, Ui
  PROVE  Types'
<1>0. SeatTypes /\ TasksTypes /\ PumpTypes /\ UiTypes /\ MacTypes /\ HostTypes /\ HistoryTypes
  BY DEF Types
<1>a. TasksTypes' /\ PumpTypes'
  BY <1>0, Unchanged DEF Ui
<1>b. AtEase \in UiStates /\ AtEase.pc = "Ready" /\ AtEase.goal = None
  BY LimitAssumption DEF AtEase, UiStates
<1>1. CASE RequestStage
  <2>1. SeatTypes' /\ UiTypes'
    BY <1>0, <1>1, <1>b, LimitAssumption DEF RequestStage, ResetTries, SeatTypes, UiTypes
  <2> QED BY <1>0, <1>1, <1>a, <2>1, Unchanged DEF RequestStage, Types
<1>2. CASE PutAwaySeatVolume
  <2>1. MacTypes'
    BY <1>0, <1>2, UnmountsTypes DEF PutAwaySeatVolume
  <2>2. UiTypes' /\ HistoryTypes'
    BY <1>0, <1>2, LimitAssumption DEF PutAwaySeatVolume, UiTypes, UiStates, HistoryTypes
  <2> QED BY <1>0, <1>2, <1>a, <2>1, <2>2, Unchanged DEF PutAwaySeatVolume, Types
<1>3. CASE SyncRead
  <2> DEFINE pc == IF image = None THEN "Close" ELSE "Fold"
  <2>1. pc \in {"Close", "Fold"} /\ (pc = "Fold" => image # None) /\ ui' = [ui EXCEPT !.pc = pc, !.image = image]
    BY <1>3 DEF SyncRead
  <2> HIDE DEF pc
  <2>2. UiTypes'
    BY <1>0, <2>1 DEF UiTypes, UiStates, MacTypes
  <2> QED BY <1>0, <1>3, <1>a, <2>2, Unchanged DEF SyncRead, Types
<1>4. CASE SyncFold
  <2>1. ui.image \in Volumes
    BY <1>0, <1>4 DEF SyncFold, UiTypes, UiStates
  <2>2. HostTypes' /\ HistoryTypes' /\ UiTypes'
    BY <1>0, <1>4, <2>1, SyncBackTypes, Unchanged DEF SyncFold, UiTypes, UiStates, HistoryTypes
  <2> QED BY <1>0, <1>4, <1>a, <2>2, Unchanged DEF SyncFold, Types
<1>5. CASE DetachClose
  <2>1. MacTypes'
    BY <1>0, <1>5, FlagAssumption DEF DetachClose, MacTypes, GuestStates
  <2>2. SeatTypes' /\ UiTypes'
    BY <1>0, <1>5, <1>b DEF DetachClose, SeatTypes, UiTypes
  <2> QED BY <1>0, <1>5, <1>a, <2>1, <2>2, Unchanged DEF DetachClose, Types
<1>6. CASE NewMachine
  <2>1. MacTypes'
    BY <1>0, <1>6, FlagAssumption DEF NewMachine, OffLine, MacTypes, GuestStates, Volumes
  <2>2. SeatTypes' /\ UiTypes'
    BY <1>0, <1>6 DEF NewMachine, SeatTypes, UiTypes, UiStates
  <2> QED BY <1>0, <1>6, <1>a, <2>1, <2>2, Unchanged DEF NewMachine, Types
<1>7. CASE Rejoin
  <2>1. UiTypes'
    <3>1. CASE ui' = AtEase
      BY <3>1, <1>b DEF UiTypes
    <3>2. ASSUME NEW volume \in VolumesOf(host[ui.goal]), ui' = [ui EXCEPT !.pc = "Place", !.image = volume]
          PROVE  UiTypes'
      <4>1. host[ui.goal] \in Volumes
        BY <1>0, <1>7 DEF Rejoin, UiTypes, UiStates, HostTypes
      <4>2. volume \in Volumes
        BY <4>1, VolumesCarry DEF Carries
      <4> QED BY <1>0, <1>7, <3>2, <4>2, NoVolume DEF Rejoin, UiTypes, UiStates
    <3> QED BY <1>7, <3>1, <3>2 DEF Rejoin
  <2> QED BY <1>0, <1>7, <1>a, <2>1, Unchanged DEF Rejoin, Types
<1>8. CASE AttachPlace
  <2>1. MacTypes'
    BY <1>0, <1>8, InsertTypes DEF AttachPlace, UiTypes, UiStates
  <2>2. SeatTypes' /\ UiTypes'
    BY <1>0, <1>8, <1>b DEF AttachPlace, SeatTypes, UiTypes, UiStates
  <2> QED BY <1>0, <1>8, <1>a, <2>1, <2>2, Unchanged DEF AttachPlace, Types
<1>9. ASSUME NEW wish \in Wishes, Request(wish) PROVE Types'
  <2>1. wish \in Wish
    BY <1>9 DEF Wishes, NoWish, Wish
  <2>2. SeatTypes' /\ UiTypes' /\ HistoryTypes'
    BY <1>0, <1>9, <2>1 DEF Request, MayAct, SeatTypes, UiTypes, UiStates, HistoryTypes, Wish
  <2> QED BY <1>0, <1>9, <1>a, <2>2, Unchanged DEF Request, Types
<1>10. CASE DetachFolderDisk
  <2>1. UiTypes'
    BY <1>0, <1>10 DEF DetachFolderDisk, MayAct, UiTypes, UiStates
  <2> QED BY <1>0, <1>10, <1>a, <2>1, Unchanged DEF DetachFolderDisk, Types
<1>11. CASE LoadRom
  <2>1. OffLine \in GuestStates
    BY DEF OffLine, GuestStates, Volumes
  <2>2. MacTypes'
    BY <1>0, <1>11, <2>1, FlushedTypes DEF LoadRom, SettleVolumes, MacTypes
  <2>3. UiTypes'
    BY <1>0, <1>11 DEF LoadRom, UiTypes, UiStates, SeatTypes
  <2> QED BY <1>0, <1>11, <1>a, <2>2, <2>3, Unchanged DEF LoadRom, Types
<1>12. ASSUME NEW f \in Folders, AttachFolderDisk(f) PROVE Types'
  <2>0. PICK volume \in VolumesOf(host[f]) : ui' = [ui EXCEPT !.pc = "Place", !.goal = f, !.image = volume]
    BY <1>12 DEF AttachFolderDisk
  <2>1. volume \in Volumes
    BY <1>0, VolumesCarry DEF Carries, HostTypes
  <2>2. UiTypes'
    BY <1>0, <2>0, <2>1, FilesAssumption, NoVolume DEF UiTypes, UiStates
  <2> QED BY <1>0, <1>12, <1>a, <2>2, Unchanged DEF AttachFolderDisk, Types
<1> QED BY <1>1, <1>2, <1>3, <1>4, <1>5, <1>6, <1>7, <1>8, <1>9, <1>10, <1>11, <1>12 DEF Ui, UiGoesOn

LEMMA TypesStep ==
  ASSUME Types, [Next]_vars
  PROVE  Types'
<1>1. CASE UNCHANGED vars
  BY <1>1, Unchanged DEF vars, Types
<1>2. CASE Next
  BY <1>2, MountTypes, GuestTypes, PumpStepTypes, RebuildTypes, UiStepTypes DEF Next, Tasks
<1> QED BY <1>1, <1>2

\* Every variable has its type in every state, whatever the user, the machine and
\* the folders do (the whole of DropBox.cs).
THEOREM DropBoxTypeCorrect == Spec => []DropBoxTypeOK
<1> DEFINE Inv == Types /\ setup \in Setups
<1>1. Init => Inv
  BY TypesInit DEF Init
<1>2. Inv /\ [Next]_vars => Inv'
  BY TypesStep DEF Next, vars
<1> QED BY <1>1, <1>2, TypesImply, PTL DEF Spec

-----------------------------------------------------------------------------
(* The threads take turns                                                  *)

\* A task that moves on: the others stay as they are.
LEMMA OneTask ==
  ASSUME Types, NEW t \in Tasks, Rebuild(t)
  PROVE  /\ tasks[t] \in TaskStates /\ tasks'[t] \in TaskStates
         /\ \A u \in Tasks : u # t => tasks'[u] = tasks[u]
         /\ Active(t)
         /\ pump' = pump /\ ui' = ui /\ image' = image /\ mountDue' = mountDue /\ guest' = guest
         /\ saved' = saved /\ deleted' = deleted /\ asked' = asked
<1>1. tasks \in [Tasks -> TaskStates] /\ tasks' \in [Tasks -> TaskStates]
  BY RebuildTypes DEF Types, TasksTypes, Tasks
<1>2. Active(t) /\ \A u \in Tasks : u # t => tasks'[u] = tasks[u]
  BY <1>1 DEF Rebuild, RebuildTake, RebuildSync, RebuildMove, RebuildCopy, RebuildBuild, BuildFails,
              RebuildHand, RebuildStage, Active
<1> QED BY <1>1, <1>2 DEF Rebuild, macVars

\* Where a task goes, and what it carries there.
LEMMA TaskSteps ==
  ASSUME Types, NEW t \in Tasks
  PROVE  /\ RebuildTake(t) => /\ tasks[t].pc = "Take" /\ tasks'[t].pc = "Sync"
                              /\ tasks'[t].folder = tasks[t].folder /\ tasks'[t].current = tasks[t].current
                              /\ tasks'[t].wish = pending
         /\ RebuildSync(t) => /\ tasks[t].pc = "Sync" /\ tasks'[t].pc = "Move"
                              /\ tasks'[t].folder = tasks[t].folder /\ tasks'[t].wish = tasks[t].wish
         /\ RebuildMove(t) => /\ tasks[t].pc = "Move" /\ tasks'[t].wish = tasks[t].wish
                              /\ IF tasks[t].wish.move = None
                                 THEN tasks'[t].folder = tasks[t].folder /\ folder' = folder
                                 ELSE tasks'[t].folder = tasks[t].wish.move /\ folder' = tasks[t].wish.move
                              /\ IF tasks'[t].folder = None THEN tasks'[t].pc = "Hand" ELSE tasks'[t].pc = "Copy"
         /\ RebuildCopy(t) => /\ tasks[t].pc = "Copy" /\ tasks'[t].pc = "Build"
                              /\ tasks'[t].folder = tasks[t].folder /\ tasks'[t].wish = tasks[t].wish
         /\ RebuildBuild(t) => /\ tasks[t].pc = "Build" /\ tasks'[t].pc = "Hand"
                               /\ tasks'[t].folder = tasks[t].folder
                               /\ tasks'[t].next \in VolumesOf(host[tasks[t].folder]) \/ BuildMayFail
         /\ RebuildHand(t) => /\ tasks[t].pc = "Hand" /\ tasks'[t].pc = "Stage"
                              /\ tasks'[t].folder = tasks[t].folder /\ tasks'[t].next = tasks[t].next
         /\ RebuildStage(t) => tasks[t].pc = "Stage" /\ tasks'[t].pc = "Done"
<1>1. tasks \in [Tasks -> TaskStates] /\ tasks[t] \in TaskStates
  BY DEF Types, TasksTypes
<1>2. RebuildTake(t) => /\ tasks[t].pc = "Take" /\ tasks'[t].pc = "Sync"
                        /\ tasks'[t].folder = tasks[t].folder /\ tasks'[t].current = tasks[t].current
                        /\ tasks'[t].wish = pending
  BY <1>1, AfterSteps DEF RebuildTake, Taken, TaskStates
<1>3. RebuildSync(t) => /\ tasks[t].pc = "Sync" /\ tasks'[t].pc = "Move"
                        /\ tasks'[t].folder = tasks[t].folder /\ tasks'[t].wish = tasks[t].wish
  BY <1>1, AfterSteps DEF RebuildSync, TaskStates
<1>4. RebuildMove(t) => /\ tasks[t].pc = "Move" /\ tasks'[t].wish = tasks[t].wish
                        /\ IF tasks[t].wish.move = None
                           THEN tasks'[t].folder = tasks[t].folder /\ folder' = folder
                           ELSE tasks'[t].folder = tasks[t].wish.move /\ folder' = tasks[t].wish.move
                        /\ IF tasks'[t].folder = None THEN tasks'[t].pc = "Hand" ELSE tasks'[t].pc = "Copy"
  BY <1>1, AfterSteps DEF RebuildMove, TaskStates
<1>5. RebuildCopy(t) => /\ tasks[t].pc = "Copy" /\ tasks'[t].pc = "Build"
                        /\ tasks'[t].folder = tasks[t].folder /\ tasks'[t].wish = tasks[t].wish
  BY <1>1, AfterSteps DEF RebuildCopy, TaskStates
<1>6. RebuildBuild(t) => /\ tasks[t].pc = "Build" /\ tasks'[t].pc = "Hand"
                         /\ tasks'[t].folder = tasks[t].folder
                         /\ tasks'[t].next \in VolumesOf(host[tasks[t].folder]) \/ BuildMayFail
  BY <1>1, AfterSteps DEF RebuildBuild, BuildFails, TaskStates
<1>7. RebuildHand(t) => /\ tasks[t].pc = "Hand" /\ tasks'[t].pc = "Stage"
                        /\ tasks'[t].folder = tasks[t].folder /\ tasks'[t].next = tasks[t].next
  BY <1>1 DEF RebuildHand, TaskStates
<1>8. RebuildStage(t) => tasks[t].pc = "Stage" /\ tasks'[t].pc = "Done"
  BY <1>1 DEF RebuildStage, NoTask
<1> QED BY <1>2, <1>3, <1>4, <1>5, <1>6, <1>7, <1>8

\* What the pump does to the stage and to the tasks.
LEMMA PumpStarts ==
  ASSUME Types, PumpStart
  PROVE  \E t \in Tasks : /\ tasks[t].pc = "Done"
                          /\ tasks'[t].pc = "Take" /\ tasks'[t].current = image /\ tasks'[t].folder = folder
                          /\ tasks'[t].wish = NoWish
                          /\ \A u \in Tasks : u # t => tasks'[u] = tasks[u]
<1>1. PICK t \in Tasks :
        /\ tasks[t].pc = "Done"
        /\ tasks' = [tasks EXCEPT ![t] = [NoTask EXCEPT !.pc = "Take", !.current = image, !.folder = folder]]
  BY DEF PumpStart, Tasks
<1> QED BY <1>1 DEF Types, TasksTypes, NoTask

\* What the user's thread does to itself.
LEMMA UiSteps ==
  ASSUME Types
  PROVE  /\ RequestStage => ui.pc = "Asked" /\ ui' = AtEase
         /\ PutAwaySeatVolume => ui.pc = "PutAway" /\ ui'.pc \in {"PutAway", "Read"} /\ ui'.goal = None
         /\ SyncRead => /\ ui.pc = "Read" /\ ui'.image = image /\ ui'.goal = ui.goal
                        /\ IF image = None THEN ui'.pc = "Close" ELSE ui'.pc = "Fold"
         /\ SyncFold => ui.pc = "Fold" /\ ui'.pc = "Close" /\ ui'.goal = ui.goal
         /\ NewMachine => ui.pc = "Close" /\ ui'.pc = "Rejoin" /\ ui'.goal = ui.goal
         /\ Rejoin => /\ ui.pc = "Rejoin" /\ ui.goal \in Folders
                      /\ \/ ui'.pc = "Place" /\ ui'.goal = ui.goal /\ ui'.image \in VolumesOf(host[ui.goal])
                         \/ BuildMayFail /\ ui' = AtEase
         /\ AttachPlace => ui.pc = "Place" /\ ui' = AtEase /\ ui.goal \in Folders
         /\ DetachFolderDisk => ui.pc = "Ready" /\ ui'.pc = "PutAway" /\ ui'.goal = None
         /\ LoadRom => ui.pc = "Ready" /\ ui'.pc = "Read" /\ ui'.goal = folder
         /\ \A wish \in Wishes : Request(wish) => ui.pc = "Ready" /\ ui'.pc = "Asked" /\ ui'.goal = None
         /\ \A f \in Folders : AttachFolderDisk(f) =>
              ui.pc = "Ready" /\ ui'.pc = "Place" /\ ui'.goal = f /\ ui'.image \in VolumesOf(host[f])
<1>1. /\ ui \in UiStates /\ (ui.pc \in {"Ready", "Asked", "PutAway"} => ui.goal = None)
      /\ ui.pc \in {"Rejoin", "Place"} => ui.goal # None
  BY DEF Types, UiTypes
<1>2. RequestStage => ui.pc = "Asked" /\ ui' = AtEase
  BY DEF RequestStage
<1>3. PutAwaySeatVolume => ui.pc = "PutAway" /\ ui'.pc \in {"PutAway", "Read"} /\ ui'.goal = None
  BY <1>1 DEF PutAwaySeatVolume, UiStates
<1>4. SyncRead => /\ ui.pc = "Read" /\ ui'.image = image /\ ui'.goal = ui.goal
                  /\ IF image = None THEN ui'.pc = "Close" ELSE ui'.pc = "Fold"
  BY <1>1 DEF SyncRead, UiStates
<1>5. SyncFold => ui.pc = "Fold" /\ ui'.pc = "Close" /\ ui'.goal = ui.goal
  BY <1>1 DEF SyncFold, UiStates
<1>6. NewMachine => ui.pc = "Close" /\ ui'.pc = "Rejoin" /\ ui'.goal = ui.goal
  BY <1>1 DEF NewMachine, UiStates
<1>7. Rejoin => /\ ui.pc = "Rejoin" /\ ui.goal \in Folders
                /\ \/ ui'.pc = "Place" /\ ui'.goal = ui.goal /\ ui'.image \in VolumesOf(host[ui.goal])
                   \/ BuildMayFail /\ ui' = AtEase
  BY <1>1 DEF Rejoin, UiStates
<1>8. AttachPlace => ui.pc = "Place" /\ ui' = AtEase /\ ui.goal \in Folders
  BY <1>1 DEF AttachPlace, UiStates
<1>9. DetachFolderDisk => ui.pc = "Ready" /\ ui'.pc = "PutAway" /\ ui'.goal = None
  BY <1>1 DEF DetachFolderDisk, MayAct, UiStates
<1>10. LoadRom => ui.pc = "Ready" /\ ui'.pc = "Read" /\ ui'.goal = folder
  BY <1>1 DEF LoadRom, MayAct, UiStates
<1>11. ASSUME NEW wish \in Wishes, Request(wish) PROVE ui.pc = "Ready" /\ ui'.pc = "Asked" /\ ui'.goal = None
  BY <1>1, <1>11 DEF Request, MayAct, UiStates
<1>12. ASSUME NEW f \in Folders, AttachFolderDisk(f)
       PROVE  ui.pc = "Ready" /\ ui'.pc = "Place" /\ ui'.goal = f /\ ui'.image \in VolumesOf(host[f])
  BY <1>1, <1>12 DEF AttachFolderDisk, UiStates
<1> QED BY <1>2, <1>3, <1>4, <1>5, <1>6, <1>7, <1>8, <1>9, <1>10, <1>11, <1>12

LEMMA AtRest == AtEase.pc = "Ready" /\ AtEase.goal = None /\ AtEase.image = None
  BY DEF AtEase

LEMMA AloneStep ==
  ASSUME Types, Patient, Alone, Next
  PROVE  Alone'
<1> USE DEF seatVars
<1>1. CASE Mount \/ Guest
  BY <1>1 DEF Mount, Guest, Alone, Active, Tasks
<1>2. CASE PumpRefused
  BY <1>2 DEF PumpRefused, Abandon, Alone, Active, Tasks
<1>3. CASE PumpUnmounted
  BY <1>3 DEF PumpUnmounted, Alone, Active, Tasks, Types, PumpTypes, PumpStates
<1>4. CASE PumpStart
  BY <1>4, PumpStarts DEF PumpStart, Alone, Active, Tasks, InFrame
<1>5. CASE PumpTake \/ PumpPut
  BY <1>5 DEF PumpTake, PumpPut, Alone, Active, Tasks, InFrame
<1>6. ASSUME NEW t \in Tasks, Rebuild(t) PROVE Alone'
  <2>1. stage = "Building" /\ tasks[t].folder = folder /\ folder # None /\ pump.pc = "Frame"
    BY <1>6, OneTask DEF Alone
  <2>2. CASE RebuildTake(t) \/ RebuildSync(t) \/ RebuildMove(t) \/ RebuildCopy(t) \/ RebuildBuild(t) \/ RebuildHand(t)
    BY ZenonT(60), <1>6, <2>1, <2>2, OneTask, TaskSteps
    DEF RebuildTake, RebuildSync, RebuildMove, RebuildCopy, RebuildBuild, RebuildHand, Alone, Active, Tasks
  <2>3. CASE RebuildStage(t)
    <3>1. \A u \in Tasks : ~Active(u)'
      BY <1>6, <2>3, OneTask, TaskSteps DEF Alone, Active
    <3> QED BY <1>6, <2>1, <2>3, <3>1, OneTask DEF RebuildStage, Alone, Tasks
  <2> QED BY <1>6, <2>2, <2>3 DEF Rebuild
<1>7. CASE Ui
  <2>0. tasks' = tasks /\ pump' = pump
    BY <1>7 DEF Ui
  <2>1. CASE RequestStage \/ PutAwaySeatVolume \/ SyncRead \/ SyncFold
    BY <2>0, <2>1, UiSteps, AtRest DEF RequestStage, PutAwaySeatVolume, SyncRead, SyncFold, Alone, Active, Tasks
  <2>2. CASE DetachClose \/ NewMachine
    BY <2>0, <2>2, UiSteps, AtRest DEF DetachClose, NewMachine, Alone, Active, Tasks
  <2>3. CASE Rejoin \/ AttachPlace
    BY <2>0, <2>3, UiSteps, AtRest, FilesAssumption DEF Rejoin, AttachPlace, Alone, Active, Tasks
  <2>4. ASSUME NEW wish \in Wishes, Request(wish) PROVE Alone'
    BY <2>0, <2>4, UiSteps DEF Request, MayAct, Pending, Alone, Active, Tasks
  <2>5. CASE DetachFolderDisk \/ LoadRom
    BY <2>0, <2>5, UiSteps DEF DetachFolderDisk, LoadRom, MayAct, Pending, Alone, Active, Tasks
  <2>6. ASSUME NEW f \in Folders, AttachFolderDisk(f) PROVE Alone'
    BY <2>0, <2>6, UiSteps DEF AttachFolderDisk, Pending, Alone, Active, Tasks
  <2> QED BY <1>7, <2>1, <2>2, <2>3, <2>4, <2>5, <2>6 DEF Ui, UiGoesOn
<1> QED BY <1>1, <1>2, <1>3, <1>4, <1>5, <1>6, <1>7 DEF Next, Pump, Tasks

-----------------------------------------------------------------------------
(* No drop is forgotten                                                    *)

\* A sync-back takes nothing out of a folder that does not go to its shelf, even if
\* it breaks off.
LEMMA SyncBackKeeps ==
  ASSUME HostTypes, NEW volume, NEW f, SyncBack(volume, f), NEW g \in Folders
  PROVE  host[g] \cup shelf[g] \subseteq host'[g] \cup shelf'[g]
<1>1. ASSUME NEW left, Folds(volume, f, left) PROVE host[g] \cup shelf[g] \subseteq host'[g] \cup shelf'[g]
  BY <1>1 DEF Folds, HostTypes
<1>2. ASSUME NEW written, host' = [host EXCEPT ![f] = @ \cup written], shelf' = shelf
      PROVE  host[g] \cup shelf[g] \subseteq host'[g] \cup shelf'[g]
  BY <1>2 DEF HostTypes
<1> QED BY <1>1, <1>2 DEF SyncBack

LEMMA FoldersKeep ==
  ASSUME Types, Next, NEW g \in Folders
  PROVE  host[g] \cup shelf[g] \subseteq host'[g] \cup shelf'[g]
<1> USE DEF hostVars
<1>0. HostTypes
  BY DEF Types
<1>1. CASE Mount \/ Guest \/ Pump
  BY <1>1 DEF Mount, Guest, Pump, PumpRefused, PumpUnmounted, PumpStart, PumpTake, PumpPut
<1>2. ASSUME NEW t \in Tasks, Rebuild(t) PROVE host[g] \cup shelf[g] \subseteq host'[g] \cup shelf'[g]
  <2>1. CASE RebuildSync(t)
    BY <1>0, <2>1, SyncBackKeeps DEF RebuildSync
  <2>2. CASE RebuildCopy(t)
    BY <1>0, <2>2 DEF RebuildCopy, HostTypes
  <2>3. CASE RebuildTake(t) \/ RebuildMove(t) \/ RebuildBuild(t) \/ RebuildHand(t) \/ RebuildStage(t)
    BY <2>3 DEF RebuildTake, RebuildMove, RebuildBuild, RebuildHand, RebuildStage
  <2> QED BY <1>2, <2>1, <2>2, <2>3 DEF Rebuild
<1>3. CASE Ui
  <2>1. CASE SyncFold
    BY <1>0, <2>1, SyncBackKeeps DEF SyncFold
  <2>2. CASE ~SyncFold
    BY <1>3, <2>2 DEF Ui, UiGoesOn, RequestStage, PutAwaySeatVolume, SyncRead, DetachClose, NewMachine, Rejoin,
                      AttachPlace, Request, DetachFolderDisk, LoadRom, AttachFolderDisk
  <2> QED BY <2>1, <2>2
<1> QED BY <1>1, <1>2, <1>3 DEF Next, Tasks

\* What is in a folder or on its shelf stays there, under one name or another.
LEMMA FiledStays ==
  ASSUME Types, Next, NEW d, Filed(d)
  PROVE  Filed(d)'
<1>1. PICK g \in Folders : d \in Held(host[g] \cup shelf[g])
  BY DEF Filed
<1>2. d \in Held(host'[g] \cup shelf'[g])
  BY <1>1, FoldersKeep, HeldGrows
<1> QED BY <1>2 DEF Filed

LEMMA OwedStep ==
  ASSUME Types, Patient, Alone, Owed, Next
  PROVE  Owed'
<1> USE DEF seatVars, hostVars, history
<1>0. asked \subseteq Drops /\ \A d \in asked : d # None
  BY FilesAssumption DEF Types, HistoryTypes, Files, Works
<1>a. \A d : Filed(d) => Filed(d)'
  BY FiledStays
<1>1. CASE Mount \/ Guest
  BY <1>a, <1>1 DEF Mount, Guest, GuestSaves, GuestDeletes, GuestFlushes, GuestOpensOrCloses, GuestPutsAway,
                    Owed, Waits, Carried, Tasks
<1>2. CASE PumpRefused
  BY <1>0, <1>2 DEF PumpRefused, Abandon, Alone, Active, Owed, Filed, Waits, Carried, Tasks
<1>3. CASE PumpUnmounted
  BY <1>3 DEF PumpUnmounted, Owed, Filed, Waits, Carried, Tasks
<1>4. CASE PumpStart
  BY <1>4, PumpStarts DEF PumpStart, Alone, Active, Owed, Filed, Waits, Carried, Tasks
<1>5. CASE PumpTake \/ PumpPut
  BY <1>5 DEF PumpTake, PumpPut, Alone, Owed, Filed, Waits, Carried, Tasks
<1>6. ASSUME NEW t \in Tasks, Rebuild(t) PROVE Owed'
  <2>1. /\ stage = "Building" /\ ui.pc = "Ready" /\ \A u \in Tasks : u # t => tasks[u].pc = "Done"
        /\ tasks[t].folder \in Folders
    BY <1>6, OneTask DEF Alone, Active, TaskStates
  <2> SUFFICES ASSUME NEW d \in asked PROVE (d \in told \/ Filed(d) \/ Waits(d) \/ Carried(d))'
    BY <1>6, OneTask DEF Owed
  <2>2. \/ d \in told \/ Filed(d)
        \/ pending.add = d /\ tasks[t].pc = "Take"
        \/ tasks[t].wish.add = d /\ tasks[t].pc \in {"Sync", "Move", "Copy"}
    BY <2>1 DEF Owed, Waits, Carried
  <2>3. CASE RebuildTake(t)
    <3>1. told' = told /\ (Filed(d) => Filed(d)')
      BY <1>a, <2>3 DEF RebuildTake
    <3> QED BY <2>2, <2>3, <3>1, TaskSteps DEF Carried
  <2>4. CASE RebuildSync(t)
    <3>1. (d \in told => d \in told') /\ (Filed(d) => Filed(d)')
      BY <1>a, <2>4 DEF RebuildSync, SyncBack
    <3> QED BY <2>2, <2>4, <3>1, TaskSteps DEF Carried
  <2>5. CASE RebuildMove(t)
    <3>1. told' = told /\ (Filed(d) => Filed(d)')
      BY <1>a, <2>5 DEF RebuildMove
    <3>2. tasks[t].pc = "Move" /\ tasks'[t].wish = tasks[t].wish /\ tasks'[t].pc = "Copy"
      BY <2>1, <2>5, TaskSteps, FilesAssumption
    <3> QED BY <2>2, <3>1, <3>2 DEF Carried
  <2>6. CASE RebuildCopy(t)
    <3>1. (d \in told => d \in told') /\ (Filed(d) => Filed(d)')
      BY <1>a, <2>6 DEF RebuildCopy
    <3>2. tasks[t].wish.add = d => d \in told' \/ d \in host'[tasks[t].folder] \cup shelf'[tasks[t].folder]
      BY <1>0, <2>1, <2>6 DEF RebuildCopy, Types, HostTypes
    <3>3. d \in Works
      BY <1>0 DEF Works
    <3>4. tasks[t].wish.add = d => d \in told' \/ Filed(d)'
      BY <2>1, <3>2, <3>3, HeldWorks DEF Filed
    <3> QED BY <2>2, <2>6, <3>1, <3>4 DEF RebuildCopy
  <2>7. CASE RebuildBuild(t) \/ RebuildHand(t) \/ RebuildStage(t)
    <3>1. (d \in told => d \in told') /\ (Filed(d) => Filed(d)')
      BY <1>a, <2>7 DEF RebuildBuild, BuildFails, RebuildHand, RebuildStage
    <3> QED BY <2>2, <2>7, <3>1, TaskSteps
  <2> QED BY <1>6, <2>3, <2>4, <2>5, <2>6, <2>7 DEF Rebuild
<1>7. CASE Ui
  <2>0. tasks' = tasks
    BY <1>7 DEF Ui
  <2>1. CASE RequestStage \/ PutAwaySeatVolume \/ SyncRead
    BY <2>0, <2>1, UiSteps, AtRest DEF RequestStage, PutAwaySeatVolume, SyncRead, Owed, Filed, Waits, Carried, Tasks
  <2>2. CASE SyncFold
    BY <1>a, <2>0, <2>2, UiSteps DEF SyncFold, SyncBack, Owed, Waits, Carried, Tasks
  <2>3. CASE DetachClose \/ NewMachine \/ Rejoin \/ AttachPlace
    <3>1. /\ ui.pc \notin {"Ready", "Asked"} /\ UNCHANGED << pending, asked, told >>
          /\ stage' = stage \/ stage' = "Idle"
      BY <2>3, UiSteps DEF DetachClose, NewMachine, Rejoin, AttachPlace
    <3>2. stage = "Idle"
      BY <3>1 DEF Alone, Types, SeatTypes
    <3> QED BY <1>a, <2>0, <3>1, <3>2 DEF Owed, Waits, Carried
  <2>4. ASSUME NEW wish \in Wishes, Request(wish) PROVE Owed'
    BY <2>0, <2>4, UiSteps DEF Request, MayAct, Pending, Alone, Active, Owed, Filed, Waits, Carried, Tasks
  <2>5. CASE DetachFolderDisk \/ LoadRom
    BY <2>0, <2>5, UiSteps DEF DetachFolderDisk, LoadRom, Owed, Filed, Waits, Carried, Tasks
  <2>6. ASSUME NEW f \in Folders, AttachFolderDisk(f) PROVE Owed'
    <3>1. ui.pc = "Ready" /\ ui'.pc = "Place"
      BY <2>6, UiSteps
    <3> QED BY <2>0, <2>6, <3>1 DEF AttachFolderDisk, Owed, Filed, Waits, Carried
  <2> QED BY <1>7, <2>1, <2>2, <2>3, <2>4, <2>5, <2>6 DEF Ui, UiGoesOn
<1> QED BY <1>1, <1>2, <1>3, <1>4, <1>5, <1>6, <1>7 DEF Next, Pump, Tasks

LEMMA AloneInit == Init => Alone /\ Owed
  BY FilesAssumption DEF Init, Alone, Active, Owed, NoTask, AtEase, InFrame, Tasks

\* A stuttering step.
LEMMA AloneStutters == (Alone /\ Owed /\ UNCHANGED vars) => (Alone /\ Owed)'
  BY DEF vars, seatVars, hostVars, history, Alone, Active, Owed, Filed, Waits, Carried, Tasks

LEMMA TurnsStep ==
  ASSUME Types, Patient, Alone, Owed, [Next]_vars
  PROVE  (Alone /\ Owed)'
  BY AloneStep, OwedStep, AloneStutters

\* A user who waits for the volume to come back before he acts again: when the seat
\* has come to rest every file he dropped is in a folder or on its shelf, or the log
\* named it, on every machine and however small the volumes are (Request, Pump and
\* Rebuild, DropBox.cs).
THEOREM DropsAreRemembered ==
  ASSUME Patient
  PROVE  Spec => []NoDropForgotten
<1> DEFINE Inv == Types /\ Alone /\ Owed
<1>1. Init => Inv
  BY TypesInit, AloneInit
<1>2. Inv /\ [Next]_vars => Inv'
  BY TypesStep, TurnsStep
<1>3. Inv => NoDropForgotten
  BY DEF Owed, Filed, Waits, Carried, NoDropForgotten, Settled, Tasks
<1> QED BY <1>1, <1>2, <1>3, PTL DEF Spec

-----------------------------------------------------------------------------
(* One volume's catalog, one volume's blocks                               *)

LEMMA ForcedStays == ASSUME Next, Forced PROVE Forced'
<1> USE DEF history, Forced
<1>1. CASE Mount \/ Guest
  BY <1>1 DEF Mount, Guest, GuestSaves, GuestDeletes, GuestFlushes, GuestOpensOrCloses, GuestPutsAway
<1>2. CASE Pump
  BY <1>2 DEF Pump, PumpRefused, Abandon, PumpUnmounted, PumpStart, PumpTake, PumpPut
<1>3. ASSUME NEW t \in Tasks, Rebuild(t) PROVE Forced'
  BY <1>3 DEF Rebuild, RebuildTake, RebuildSync, SyncBack, RebuildMove, RebuildCopy, RebuildBuild, BuildFails,
              RebuildHand, RebuildStage
<1>4. CASE Ui
  BY <1>4 DEF Ui, UiGoesOn, RequestStage, PutAwaySeatVolume, SyncRead, SyncFold, SyncBack, DetachClose, NewMachine,
              Rejoin, AttachPlace, Request, DetachFolderDisk, LoadRom, AttachFolderDisk
<1> QED BY <1>1, <1>2, <1>3, <1>4 DEF Next, Tasks

\* The guest is not on line after an unmount, and an unmount changes nothing else.
LEMMA UnmountsLetGo ==
  ASSUME Types, ~Remounts, Uncrossed, Unmounts, told' = told
  PROVE  LetGo' /\ (mountDue' <=> mountDue) /\ (image' = None <=> image = None) /\ (NeverCrossed)'
<1>0. guest \in GuestStates /\ MacTypes /\ mountDue \in BOOLEAN
  BY DEF Types, MacTypes
<1>1. CASE LooksOffLine
  BY <1>0, <1>1 DEF Unmounts, LooksOffLine, Uncrossed, NeverCrossed, LetGo, Forced, macVars
<1>2. CASE ~LooksOffLine
  <2>1. ~guest'.online
    BY <1>0, <1>2 DEF Unmounts, GuestStates
  <2> QED BY <1>0, <1>2, <2>1, FlushedTypes DEF Unmounts, LetGo, NeverCrossed
<1> QED BY <1>1, <1>2

\* A refusal changes the disk at most.
LEMMA RefusesKeeps ==
  ASSUME Types, Refuses
  PROVE  guest' = guest /\ mountDue' = mountDue /\ (image' = None <=> image = None)
  BY FlushedTypes DEF Refuses, Types

\* A volume put on the seat of a guest that let go is not stale.
LEMMA InsertKeeps ==
  ASSUME Types, LetGo, NEW volume, InsertHardDisk2(volume), Forced => Forced'
  PROVE  LetGo' /\ NeverCrossed' /\ mountDue' = TRUE /\ image' = volume
  BY DEF InsertHardDisk2, LetGo, NeverCrossed, Types, MacTypes, GuestStates

LEMMA UncrossedStep ==
  ASSUME Types, Patient, ~Remounts, Alone, Uncrossed, Next
  PROVE  Uncrossed'
<1> USE DEF seatVars
<1>0. /\ guest \in GuestStates /\ mountDue \in BOOLEAN /\ Remounts = FALSE
      /\ Forced => Forced'
  BY ForcedStays, FlagAssumption DEF Types, MacTypes
<1>1. CASE Mount
  <2>1. stage = "Idle" /\ ui.pc = "Ready" /\ folder # None /\ image # None /\ pump.pc = "Frame"
    BY <1>1 DEF Mount, Uncrossed
  <2>2. NeverCrossed'
    BY <1>0, <1>1 DEF Mount, Uncrossed, NeverCrossed, history, Forced
  <2> QED BY <1>1, <2>1, <2>2 DEF Mount, Uncrossed
<1>2. CASE Guest
  <2> DEFINE Runs == /\ mountDue' = mountDue /\ (image' = None <=> image = None) /\ told' = told
                     /\ guest'.online => guest.online
                     /\ guest'.online /\ guest'.stale => guest.stale
  <2>a. ASSUME NEW f, GuestSaves(f) \/ GuestDeletes(f) PROVE Runs
    BY <1>0, <2>a DEF GuestSaves, GuestDeletes, GuestStates
  <2>b. ASSUME GuestOpensOrCloses \/ GuestFlushes PROVE Runs
    BY <1>0, <2>b, FlushedTypes DEF GuestOpensOrCloses, GuestFlushes, GuestStates, Types, history
  <2>c. ASSUME GuestPutsAway PROVE Runs
    BY <1>0, <2>c, FlushedTypes DEF GuestPutsAway, GuestStates, Types, history
  <2>1. Runs
    BY <1>2, <2>a, <2>b, <2>c DEF Guest
  <2> QED BY <1>2, <2>1 DEF Guest, Uncrossed, NeverCrossed, LetGo, Forced
<1>3. CASE PumpRefused
  BY <1>0, <1>3, RefusesKeeps DEF PumpRefused, Abandon, Uncrossed, NeverCrossed, LetGo, Alone
<1>4. CASE PumpUnmounted
  BY <1>0, <1>4, UnmountsLetGo DEF PumpUnmounted, Uncrossed, history, Alone
<1>5. CASE PumpStart \/ PumpTake
  BY <1>0, <1>5 DEF PumpStart, PumpTake, macVars, history, Uncrossed, NeverCrossed, LetGo, Forced, InFrame, Alone
<1>6. CASE PumpPut
  <2>1. stage = "WantInsert" /\ LetGo /\ ui.pc = "Ready" /\ folder # None
    BY <1>6 DEF PumpPut, Alone, Uncrossed
  <2>2. CASE pump.image = None
    BY <1>0, <1>6, <2>1, <2>2 DEF PumpPut, macVars, history, Uncrossed, NeverCrossed, LetGo, Forced, InFrame
  <2>3. CASE pump.image # None
    BY <1>0, <1>6, <2>1, <2>3, InsertKeeps DEF PumpPut, Uncrossed, InFrame
  <2> QED BY <2>2, <2>3
<1>7. ASSUME NEW t \in Tasks, Rebuild(t) PROVE Uncrossed'
  <2>1. stage = "Building" /\ ui.pc = "Ready" /\ folder # None /\ pump.pc = "Frame"
    BY <1>7, OneTask DEF Alone
  <2>2. folder' # None /\ stage' \in {"Building", "WantInsert"}
    BY <1>7, <2>1, TaskSteps DEF Rebuild, RebuildTake, RebuildSync, RebuildMove, RebuildCopy, RebuildBuild,
       RebuildHand, RebuildStage
  <2> QED BY <1>0, <1>7, <2>1, <2>2, OneTask DEF Uncrossed, NeverCrossed, LetGo
<1>8. CASE Ui
  <2>0. tasks' = tasks /\ pump' = pump
    BY <1>8 DEF Ui
  <2>1. CASE RequestStage \/ SyncRead \/ SyncFold
    BY <1>0, <2>0, <2>1, UiSteps, AtRest
    DEF RequestStage, SyncRead, SyncFold, macVars, Uncrossed, NeverCrossed, LetGo, Alone
  <2>2. CASE PutAwaySeatVolume
    <3>1. CASE Unmounts /\ told' = told
      BY <2>0, <2>2, <3>1, UiSteps, UnmountsLetGo DEF PutAwaySeatVolume, Uncrossed, Alone
    <3>2. CASE Refuses /\ ui'.pc = "PutAway"
      BY <1>0, <2>0, <2>2, <3>2, UiSteps, RefusesKeeps DEF PutAwaySeatVolume, Uncrossed, NeverCrossed, LetGo, Alone
    <3>3. CASE Refuses /\ Forced'
      BY <1>0, <2>0, <2>2, <3>3, UiSteps, RefusesKeeps DEF PutAwaySeatVolume, Uncrossed, NeverCrossed, LetGo, Alone
    <3> QED BY <2>2, <3>1, <3>2, <3>3 DEF PutAwaySeatVolume, Types, UiTypes, UiStates, Forced
  <2>3. CASE DetachClose
    <3>1. LetGo /\ stage = "Idle" /\ pump.pc = "Frame" /\ ~mountDue
      BY <2>3 DEF DetachClose, Uncrossed, Alone, Types, PumpTypes, PumpStates
    <3>2. LetGo' /\ NeverCrossed'
      BY <1>0, <2>3, <3>1 DEF DetachClose, LetGo, NeverCrossed, GuestStates
    <3> QED BY <1>0, <2>0, <2>3, <3>1, <3>2, AtRest DEF DetachClose, Uncrossed
  <2>4. CASE NewMachine
    <3>1. stage = "Idle" /\ pump.pc = "Frame" /\ folder # None
      BY <2>4 DEF NewMachine, Alone, Types, PumpTypes, PumpStates
    <3> QED BY <1>0, <2>0, <2>4, <3>1, UiSteps DEF NewMachine, OffLine, Uncrossed, NeverCrossed, LetGo
  <2>5. CASE Rejoin
    BY <1>0, <2>0, <2>5, UiSteps, AtRest DEF Rejoin, macVars, history, Uncrossed, NeverCrossed, LetGo, Forced, Alone
  <2>6. CASE AttachPlace
    <3>1. LetGo /\ stage = "Idle" /\ pump.pc = "Frame"
      BY <2>6 DEF AttachPlace, Uncrossed, Alone, Types, PumpTypes, PumpStates
    <3> QED BY <1>0, <2>0, <2>6, <3>1, UiSteps, AtRest, InsertKeeps, FilesAssumption DEF AttachPlace, Uncrossed
  <2>7. ASSUME NEW wish \in Wishes, Request(wish) PROVE Uncrossed'
    BY <1>0, <2>0, <2>7, UiSteps DEF Request, MayAct, macVars, Pending, Uncrossed, NeverCrossed, LetGo, Alone
  <2>8. CASE DetachFolderDisk
    BY <1>0, <2>0, <2>8, UiSteps DEF DetachFolderDisk, MayAct, macVars, Uncrossed, NeverCrossed, LetGo, Alone
  <2>9. CASE LoadRom
    <3>1. /\ mountDue' = mountDue /\ ~mountDue /\ (image' = None <=> image = None)
          /\ guest' = guest \/ guest' = OffLine
          /\ Settles => guest' = OffLine
          /\ stage = "Idle" /\ folder # None
      BY <1>0, <2>9, FlushedTypes DEF LoadRom, SettleVolumes, MayAct, Pending, Types
    <3>2. ~OffLine.online
      BY DEF OffLine
    <3> QED BY <1>0, <2>0, <2>9, <3>1, <3>2, UiSteps DEF LoadRom, history, Uncrossed, NeverCrossed, LetGo, Forced, Alone
  <2>10. ASSUME NEW f \in Folders, AttachFolderDisk(f) PROVE Uncrossed'
    BY <1>0, <2>0, <2>10, UiSteps DEF AttachFolderDisk, Pending, macVars, Uncrossed, NeverCrossed, LetGo, Alone
  <2> QED BY <1>8, <2>1, <2>2, <2>3, <2>4, <2>5, <2>6, <2>7, <2>8, <2>9, <2>10 DEF Ui, UiGoesOn
<1> QED BY <1>1, <1>2, <1>3, <1>4, <1>5, <1>6, <1>7, <1>8 DEF Next, Pump, Tasks

LEMMA UncrossedInit == ~Remounts /\ Init => Uncrossed
  BY FlagAssumption DEF Init, Uncrossed, NeverCrossed, LetGo, OffLine, AtEase, InFrame

\* The Quadra mounts a volume once for each time it is put on the seat.  With a user
\* who waits, no volume goes there while an older one is on line, whatever folders
\* fit and whether or not a restart settles the volumes, unless the log said that
\* the Mac would not let go (DropBox.cs:12-18, machine.cpp:966-969).
THEOREM NeverCrossing ==
  ASSUME Patient, ~Remounts
  PROVE  Spec => []NeverCrossed
<1> DEFINE Inv == Types /\ Alone /\ Owed /\ Uncrossed
<1>1. Init => Inv
  BY TypesInit, AloneInit, UncrossedInit
<1>2. Uncrossed /\ UNCHANGED vars => Uncrossed'
  BY DEF vars, seatVars, macVars, history, Uncrossed, NeverCrossed, LetGo, Forced
<1>3. Inv /\ [Next]_vars => Inv'
  BY <1>2, TypesStep, TurnsStep, UncrossedStep
<1>4. Inv => NeverCrossed
  BY DEF Uncrossed
<1> QED BY <1>1, <1>3, <1>4, PTL DEF Spec

-----------------------------------------------------------------------------
(* Nothing is lost                                                         *)

LEMMA DisjointStep ==
  ASSUME saved \cap deleted = {}, Next
  PROVE  (saved \cap deleted = {})'
<1> USE DEF history
<1>1. CASE Mount \/ Guest
  BY <1>1 DEF Mount, Guest, GuestSaves, GuestDeletes, GuestFlushes, GuestOpensOrCloses, GuestPutsAway
<1>2. CASE Pump
  BY <1>2 DEF Pump, PumpRefused, PumpUnmounted, PumpStart, PumpTake, PumpPut
<1>3. ASSUME NEW t \in Tasks, Rebuild(t) PROVE saved' = saved /\ deleted' = deleted
  BY <1>3 DEF Rebuild
<1>4. CASE Ui
  BY <1>4 DEF Ui, UiGoesOn, RequestStage, PutAwaySeatVolume, SyncRead, SyncFold, DetachClose, NewMachine, Rejoin,
              AttachPlace, Request, DetachFolderDisk, LoadRom, AttachFolderDisk
<1> QED BY <1>1, <1>2, <1>3, <1>4 DEF Next, Tasks

LEMMA BuiltStep ==
  ASSUME Types, Patient, ~BuildMayFail, Alone, Built, Next
  PROVE  Built'
<1> USE DEF seatVars, hostVars
<1>0. \A g \in Folders : \A volume \in VolumesOf(host[g]) : Carries(volume, host[g])
  BY VolumesCarry DEF Types, HostTypes
<1>1. CASE Mount \/ Guest
  BY <1>1 DEF Mount, Guest, Built, Tasks
<1>2. CASE PumpRefused \/ PumpUnmounted
  BY <1>2 DEF PumpRefused, Abandon, PumpUnmounted, Built, Tasks, Alone, Types, PumpTypes, PumpStates
<1>3. CASE PumpStart
  BY <1>3, PumpStarts DEF PumpStart, InFrame, Built, Alone
<1>4. CASE PumpTake
  BY <1>4 DEF PumpTake, Built, Alone, Active, Tasks
<1>5. CASE PumpPut
  BY <1>5 DEF PumpPut, InFrame, Built, Tasks, Alone, Active
<1>6. ASSUME NEW t \in Tasks, Rebuild(t) PROVE Built'
  <2>1. /\ stage = "Building" /\ ui.pc = "Ready" /\ pump.pc = "Frame"
        /\ \A u \in Tasks : u # t => tasks'[u].pc = "Done"
        /\ tasks[t].folder = folder /\ folder # None
    BY <1>6, OneTask DEF Alone, Active
  <2>2. CASE RebuildTake(t) \/ RebuildSync(t) \/ RebuildCopy(t)
    BY <1>6, <2>1, <2>2, OneTask, TaskSteps DEF RebuildTake, RebuildSync, RebuildCopy, Built
  <2>3. CASE RebuildMove(t)
    <3>1. tasks'[t].pc = "Copy"
      BY <2>1, <2>3, TaskSteps
    <3> QED BY <1>6, <2>1, <2>3, <3>1, OneTask DEF RebuildMove, Built
  <2>4. CASE RebuildBuild(t)
    <3>1. tasks'[t].pc = "Hand" /\ Carries(tasks'[t].next, host[folder])
      BY <1>0, <2>1, <2>4, TaskSteps DEF Types, SeatTypes
    <3> QED BY <1>6, <2>1, <2>4, <3>1, OneTask DEF RebuildBuild, Built
  <2>5. CASE RebuildHand(t)
    BY <1>6, <2>1, <2>5, OneTask, TaskSteps DEF RebuildHand, Built
  <2>6. CASE RebuildStage(t)
    BY <1>6, <2>1, <2>6, OneTask, TaskSteps DEF RebuildStage, Built
  <2> QED BY <1>6, <2>2, <2>3, <2>4, <2>5, <2>6 DEF Rebuild
<1>7. CASE Ui
  <2>0. tasks' = tasks /\ pump' = pump
    BY <1>7 DEF Ui
  <2>1. CASE RequestStage \/ PutAwaySeatVolume \/ SyncRead
    BY <2>0, <2>1, UiSteps, AtRest DEF RequestStage, PutAwaySeatVolume, SyncRead, Built, Alone, Active
  <2>2. CASE SyncFold \/ DetachClose \/ NewMachine
    BY <2>0, <2>2, UiSteps, AtRest DEF SyncFold, DetachClose, NewMachine, Built, Alone, Active
  <2>3. CASE Rejoin \/ AttachPlace
    <3>1. ui'.pc = "Place" => Carries(ui'.image, host[ui'.goal])
      BY <1>0, <2>3, UiSteps, AtRest
    <3> QED BY <2>0, <2>3, <3>1 DEF Rejoin, AttachPlace, Built, Alone, Active
  <2>4. ASSUME NEW wish \in Wishes, Request(wish) PROVE Built'
    BY <2>0, <2>4, UiSteps DEF Request, MayAct, Pending, Built, Alone, Active
  <2>5. CASE DetachFolderDisk \/ LoadRom
    BY <2>0, <2>5, UiSteps DEF DetachFolderDisk, LoadRom, Built
  <2>6. ASSUME NEW f \in Folders, AttachFolderDisk(f) PROVE Built'
    <3>1. Carries(ui'.image, host[ui'.goal])
      BY <1>0, <2>6, UiSteps
    <3> QED BY <2>0, <2>6, <3>1 DEF AttachFolderDisk, Built
  <2> QED BY <1>7, <2>1, <2>2, <2>3, <2>4, <2>5, <2>6 DEF Ui, UiGoesOn
<1> QED BY <1>1, <1>2, <1>3, <1>4, <1>5, <1>6, <1>7 DEF Next, Pump, Tasks

\* While the guest has the volume on line, no one is changing it.
LEMMA OnLine ==
  ASSUME Types, Settles, Alone, Uncrossed, ~Forced, guest.online
  PROVE  /\ ui.pc \in {"Ready", "Asked", "PutAway"} /\ stage \in {"Idle", "WantUnmount"}
         /\ pump.pc \in {"Frame"} /\ folder # None /\ image # None
         /\ Served /\ ~guest.stale
  BY DEF Types, SeatTypes, PumpTypes, PumpStates, UiTypes, UiStates, MacTypes, GuestStates, Alone, Uncrossed,
         NeverCrossed, LetGo, Served

\* The volume is flushed, and it may go off line.
LEMMA FlushIsFaithful ==
  ASSUME Types, ~Forced, Faithful, image' = Flushed \/ image' = image,
         guest' = guest \/ (image' = Flushed /\ ~guest'.online),
         UNCHANGED << folder, host, saved, deleted >>, "unsynced" \in told => "unsynced" \in told'
  PROVE  Faithful'
<1>1. CASE guest.online
  <2>1. Flushed = guest.view /\ guest.view # None
    BY <1>1, NoVolume DEF Flushed, Faithful, Types, MacTypes, GuestStates
  <2> QED BY <1>1, <2>1 DEF Faithful, Live, Ashore
<1>2. CASE ~guest.online
  <2>1. Flushed = image
    BY <1>2 DEF Flushed
  <2> QED BY <1>2, <2>1 DEF Faithful, Live, Ashore
<1> QED BY <1>1, <1>2

LEMMA UnmountIsFaithful ==
  ASSUME Types, ~Remounts, ~Forced, Faithful, Unmounts, UNCHANGED << folder, host, saved, deleted, told >>
  PROVE  Faithful'
<1>1. CASE LooksOffLine
  BY <1>1, FlushIsFaithful DEF Unmounts, macVars
<1>2. CASE ~LooksOffLine
  <2>1. image' = Flushed /\ ~guest'.online
    BY <1>2 DEF Unmounts, Types, MacTypes, GuestStates
  <2> QED BY <2>1, FlushIsFaithful
<1> QED BY <1>1, <1>2

\* What the folder holds and the guest has not deleted the volume holds, so what a
\* sync-back shelves, all of it or not, the folder still holds.
LEMMA FoldIsSound ==
  ASSUME Types, Faithful, Shelved, folder \in Folders, NEW left, Folds(image, folder, left), deleted' = deleted
  PROVE  Shelved' /\ Held(image) \subseteq Held(host'[folder]) \cup LeftOut
<1>0. /\ host \in [Folders -> Volumes] /\ shelf \in [Folders -> Volumes]
      /\ image \in Volumes
  BY DEF Types, HostTypes, MacTypes, Faithful
<1>1. Held(image) \subseteq Held(Back(image)) \cup LeftOut
  BY <1>0, BackCarries
<1>2. /\ Back(image) \subseteq host'[folder] /\ shelf'[folder] \subseteq shelf[folder] \cup host[folder]
      /\ \A g \in Folders \ {folder} : host'[g] = host[g] /\ shelf'[g] = shelf[g]
  BY <1>0 DEF Folds
<1>3. Held(image) \subseteq Held(host'[folder]) \cup LeftOut
  BY <1>1, <1>2, HeldGrows
<1>4. Held(shelf'[folder]) \subseteq Held(shelf[folder]) \cup Held(host[folder])
  <2>1. Held(shelf'[folder]) \subseteq Held(shelf[folder] \cup host[folder])
    BY <1>2, HeldGrows
  <2> QED BY <2>1, HeldSplits
<1>5. Held(shelf'[folder]) \subseteq deleted \cup Held(host'[folder]) \cup LeftOut
  BY <1>3, <1>4 DEF Faithful, Shelved
<1> QED BY <1>2, <1>3, <1>5 DEF Shelved

\* A sync-back of the volume to its folder leaves the guest's work ashore.
LEMMA SyncIsSound ==
  ASSUME Types, saved \cap deleted = {}, folder # None, ~guest.online, Faithful, Shelved,
         SyncBack(image, folder), UNCHANGED << saved, deleted >>
  PROVE  Shelved' /\ Landed'
<1>0. /\ host \in [Folders -> Volumes] /\ folder \in Folders
  BY DEF Types, HostTypes, SeatTypes
<1>1. CASE told' = told /\ \E left \in SUBSET Skipped : Folds(image, folder, left)
  <2>1. PICK left \in SUBSET Skipped : Folds(image, folder, left)
    BY <1>1
  <2>2. Shelved' /\ Held(image) \subseteq Held(host'[folder]) \cup LeftOut
    BY <1>0, <2>1, FoldIsSound
  <2>3. \A g \in Folders \ {folder} : host'[g] = host[g]
    BY <1>0, <2>1 DEF Folds
  <2>4. ASSUME NEW f \in saved \ LeftOut, "unsynced" \notin told PROVE \E g \in Folders : f \in Held(host'[g])
    <3>1. CASE f \in Held(image)
      BY <1>0, <2>2, <2>4, <3>1
    <3>2. CASE f \notin Held(image)
      <4>1. PICK g \in Folders : f \in Held(host[g])
        BY <2>4, <3>2 DEF Faithful, Live, Ashore
      <4>2. f \notin deleted
        BY <2>4
      <4>3. g # folder
        BY <2>4, <3>2, <4>1, <4>2 DEF Faithful
      <4> QED BY <2>3, <4>1, <4>3
    <3> QED BY <3>1, <3>2
  <2> QED BY <1>1, <2>2, <2>4 DEF Landed, Ashore
<1>2. CASE told' = told \cup {"unsynced"} /\ \E left \in SUBSET host[folder] : Folds(image, folder, left)
  BY <1>0, <1>2, FoldIsSound DEF Landed
<1>3. CASE /\ told' = told \cup {"unsynced"} /\ shelf' = shelf
           /\ \E written \in SUBSET Back(image) : host' = [host EXCEPT ![folder] = @ \cup written]
  <2>1. \A g \in Folders : host[g] \subseteq host'[g]
    BY <1>0, <1>3
  <2>2. \A g \in Folders : Held(host[g]) \subseteq Held(host'[g])
    BY <2>1, HeldGrows
  <2>3. Shelved'
    BY <1>3, <2>2 DEF Shelved
  <2> QED BY <1>3, <2>3 DEF Landed
<1> QED BY <1>1, <1>2, <1>3 DEF SyncBack

\* A volume just built goes on the seat.
LEMMA InsertIsFaithful ==
  ASSUME Types, NEW g \in Folders, NEW volume, Carries(volume, host[g]), InsertHardDisk2(volume), folder' = g,
         ~guest.online, UNCHANGED << host, saved, deleted, told >>, Landed
  PROVE  Faithful'
<1>1. volume # None /\ image' = volume /\ ~guest'.online
  BY NoVolume DEF InsertHardDisk2, Carries, Types, MacTypes, GuestStates
<1> QED BY <1>1 DEF Faithful, Ashore, Landed, Carries

LEMMA SoundStep ==
  ASSUME Types, Patient, ~Remounts, Settles, ~BuildMayFail, Alone, Uncrossed, Kept, Next, ~Forced'
  PROVE  Sound'
<1> USE DEF seatVars, hostVars, history
<1>0. /\ ~Forced /\ Sound /\ Built /\ saved \cap deleted = {} /\ Remounts = FALSE
      /\ guest \in GuestStates /\ MacTypes
  BY ForcedStays, FlagAssumption DEF Kept, Types, MacTypes
<1>1. CASE Mount
  <2>1. ui.pc = "Ready" /\ stage = "Idle" /\ folder # None /\ Served /\ Faithful /\ image # None
    BY <1>0, <1>1 DEF Mount, Uncrossed, Served, Sound
  <2>2. Served' /\ Faithful'
    <3>1. CASE guest.online
      BY <1>1, <2>1, <3>1 DEF Mount, Served, Faithful, Live, Ashore
    <3>2. CASE ~guest.online
      BY <1>1, <2>1, <3>2 DEF Mount, Served, Faithful, Live, Ashore
    <3> QED BY <3>1, <3>2
  <2> QED BY <1>0, <1>1, <2>2 DEF Mount, Sound, Shelved, Tasks
<1>2. CASE Guest
  <2>1. GuestRuns
    BY <1>2 DEF Guest, GuestSaves, GuestDeletes, GuestFlushes, GuestOpensOrCloses, GuestPutsAway
  <2>2. Served /\ Faithful /\ image # None /\ guest.online /\ ui.pc # "Fold"
    BY <1>0, <2>1, OnLine DEF GuestRuns, Sound
  <2>3. \A t \in Tasks : tasks[t].pc \notin {"Take", "Sync"}
    BY <1>0, <2>1, OnLine DEF GuestRuns, Alone, Active
  <2>4. Served' /\ deleted \subseteq deleted' /\ shelf' = shelf
    BY <1>2, <2>2 DEF Guest, GuestSaves, GuestDeletes, GuestFlushes, GuestOpensOrCloses, GuestPutsAway, Served, Tasks
  <2>5. Faithful'
    <3> USE DEF Guest
    <3>1. ASSUME NEW f \in Saves, GuestSaves(f) PROVE Faithful'
      <4>1. /\ guest'.view = guest.view \cup {f} /\ guest'.online /\ image' = image /\ saved' = saved \cup {f}
            /\ UNCHANGED << deleted, told >>
        BY <1>0, <2>2, <3>1 DEF GuestSaves, GuestStates
      <4>2. Held(guest.view) \subseteq Held(guest'.view) /\ f \in Held(guest'.view)
        BY <4>1, HeldGrows, HeldWorks DEF Works
      <4> QED BY <1>2, <2>2, <4>1, <4>2 DEF Faithful, Live, Ashore
    <3>2. ASSUME NEW f \in Files, GuestDeletes(f) PROVE Faithful'
      <4>1. /\ guest'.view = guest.view \ {f} /\ guest'.online /\ image' = image /\ saved' = saved \ {Content[f]}
            /\ deleted' = deleted \cup {Content[f]} /\ told' = told
        BY <1>0, <2>2, <3>2 DEF GuestDeletes, GuestStates
      <4>2. Held(guest.view) \subseteq Held(guest'.view) \cup {Content[f]}
        BY <4>1 DEF Held
      <4> QED BY <1>2, <2>2, <4>1, <4>2 DEF Faithful, Live, Ashore
    <3>3. CASE GuestFlushes
      BY <1>0, <1>2, <2>2, <3>3, FlushIsFaithful DEF GuestFlushes
    <3>4. CASE GuestOpensOrCloses
      BY <1>0, <1>2, <2>2, <3>4 DEF GuestOpensOrCloses, GuestStates, Faithful, Live, Ashore
    <3>5. CASE GuestPutsAway
      <4>1. ~guest'.online
        BY <1>0, <3>5 DEF GuestPutsAway, GuestStates
      <4> QED BY <1>0, <1>2, <2>2, <3>5, <4>1, FlushIsFaithful DEF GuestPutsAway
    <3> QED BY <1>2, <3>1, <3>2, <3>3, <3>4, <3>5
  <2> QED BY <1>0, <1>2, <2>2, <2>3, <2>4, <2>5 DEF Guest, Sound, Shelved, Tasks
<1>3. CASE Pump
  <2> USE DEF Pump
  <2>0. /\ ui' = ui /\ ui.pc = "Ready"
        /\ stage # "Building" => \A t \in Tasks : tasks[t].pc = "Done"
    BY <1>3 DEF PumpRefused, PumpUnmounted, PumpStart, PumpTake, PumpPut, Alone, Active
  <2>1. CASE PumpRefused
    <3>1. Served /\ Faithful /\ Served'
      BY <1>0, <2>1 DEF PumpRefused, Abandon, Alone, Served, Sound
    <3>2. Faithful'
      BY <1>0, <2>1, <3>1, FlushIsFaithful DEF PumpRefused, Refuses, Abandon
    <3> QED BY <1>0, <2>0, <2>1, <3>1, <3>2 DEF PumpRefused, Sound, Shelved, Alone, Tasks
  <2>2. CASE PumpUnmounted
    <3>1. Served /\ Faithful /\ Served'
      BY <1>0, <2>2 DEF PumpUnmounted, Alone, Served, Sound
    <3>2. Faithful'
      BY <1>0, <2>2, <3>1, UnmountIsFaithful DEF PumpUnmounted
    <3> QED BY <1>0, <2>0, <2>2, <3>1, <3>2 DEF PumpUnmounted, Sound, Shelved, Alone, Tasks
  <2>3. CASE PumpStart
    <3>1. Served /\ Faithful
      BY <1>0, <2>3 DEF PumpStart, Alone, Served, Sound
    <3>2. Faithful'
      BY <2>3, <3>1 DEF PumpStart, macVars, Faithful, Live, Ashore
    <3> QED BY <1>0, <2>0, <2>3, <3>1, <3>2, PumpStarts DEF PumpStart, macVars, Sound, Shelved, Served, Tasks, Alone
  <2>4. CASE PumpTake
    BY <1>0, <2>0, <2>4 DEF PumpTake, macVars, Sound, Shelved, Landed, Served, Ashore, Tasks
  <2>5. CASE PumpPut
    <3>1. /\ stage = "WantInsert" /\ folder \in Folders /\ ~guest.online /\ ui.pc = "Ready"
          /\ Carries(pump.image, host[folder]) /\ pump.image # None /\ ~Served
      BY <1>0, <2>0, <2>5, NoVolume
      DEF PumpPut, Alone, Uncrossed, LetGo, Built, Carries, Served, Types, SeatTypes
    <3>2. Faithful'
      BY <1>0, <2>5, <3>1, InsertIsFaithful DEF PumpPut, Sound
    <3>3. Served'
      BY <2>5, <3>1, <2>0, FilesAssumption DEF PumpPut, Served
    <3> QED BY <1>0, <2>0, <2>5, <3>1, <3>2, <3>3 DEF PumpPut, Sound, Shelved, Tasks
  <2> QED BY <1>3, <2>1, <2>2, <2>3, <2>4, <2>5
<1>4. ASSUME NEW t \in Tasks, Rebuild(t) PROVE Sound'
  <2>1. /\ stage = "Building" /\ ui.pc = "Ready" /\ ui' = ui /\ ~guest.online
        /\ tasks[t].folder = folder /\ folder \in Folders
        /\ \A u \in Tasks : u # t => tasks[u].pc = "Done" /\ tasks'[u].pc = "Done"
        /\ UNCHANGED << image, guest, saved, deleted >>
    BY <1>0, <1>4, OneTask DEF Alone, Active, Uncrossed, LetGo, Types, SeatTypes
  <2>2. CASE RebuildTake(t)
    <3>1. Served /\ Faithful /\ Served'
      BY <1>0, <2>1, <2>2, TaskSteps, FilesAssumption DEF RebuildTake, Served, Sound
    <3>2. Faithful'
      BY <2>1, <2>2, <3>1 DEF RebuildTake, Faithful, Live, Ashore
    <3>3. told' = told /\ shelf' = shelf /\ host' = host /\ deleted' = deleted /\ saved' = saved /\ image' = image
      BY <2>1, <2>2 DEF RebuildTake, hostVars
    <3>4. \A u \in Tasks : tasks'[u].pc \in {"Take", "Sync"} => tasks'[u].current = image
      BY <1>0, <2>1, <2>2, TaskSteps DEF RebuildTake, Sound
    <3>5. Sound
      BY <1>0
    <3> QED BY <2>1, <3>1, <3>2, <3>3, <3>4, <3>5 DEF Sound, Shelved, Landed, Ashore
  <2>3. CASE RebuildSync(t)
    <3>1. Served /\ Faithful /\ tasks[t].current = image
      BY SMTT(60), <1>0, <2>1, <2>3, TaskSteps, FilesAssumption DEF RebuildSync, Served, Sound
    <3>2. Shelved' /\ Landed'
      BY <1>0, <2>1, <2>3, <3>1, FilesAssumption, SyncIsSound DEF RebuildSync, Sound, Faithful
    <3> QED BY <1>0, <2>1, <2>3, <3>2, TaskSteps DEF RebuildSync, Sound, Served
  <2>4. CASE RebuildMove(t) \/ RebuildCopy(t) \/ RebuildBuild(t) \/ RebuildHand(t) \/ RebuildStage(t)
    <3>1. tasks[t].pc \notin {"Take", "Sync"} /\ tasks'[t].pc \notin {"Take", "Sync"} /\ stage' \in {"Building", "WantInsert"}
      BY <2>1, <2>4, TaskSteps DEF RebuildMove, RebuildCopy, RebuildBuild, RebuildHand, RebuildStage
    <3>2. ~Served /\ ~Served'
      BY <2>1, <3>1 DEF Served
    <3>3. shelf' = shelf /\ ("unsynced" \in told => "unsynced" \in told')
      BY <2>4 DEF RebuildMove, RebuildCopy, RebuildBuild, BuildFails, RebuildHand, RebuildStage
    <3>4. \A g \in Folders : host[g] \subseteq host'[g]
      BY <2>4 DEF RebuildMove, RebuildCopy, RebuildBuild, RebuildHand, RebuildStage, Types, HostTypes
    <3>5. \A g \in Folders : Held(host[g]) \subseteq Held(host'[g])
      BY <3>4, HeldGrows
    <3>6. Shelved' /\ (Landed => Landed')
      BY <1>0, <2>1, <3>3, <3>5 DEF Sound, Shelved, Landed, Ashore
    <3> QED BY <1>0, <2>1, <3>1, <3>2, <3>6 DEF Sound
  <2> QED BY <1>4, <2>2, <2>3, <2>4 DEF Rebuild
<1>5. CASE Ui
  <2>0. tasks' = tasks /\ (ui.pc # "Ready" => stage = "Idle" /\ \A t \in Tasks : tasks[t].pc = "Done")
    BY <1>5 DEF Ui, Alone, Active
  <2>1. CASE RequestStage
    <3>1. Served /\ Faithful /\ Served'
      BY <1>0, <2>0, <2>1, AtRest DEF RequestStage, Alone, Served, Sound
    <3>2. Faithful'
      BY <2>1, <3>1 DEF RequestStage, macVars, Faithful, Live, Ashore
    <3> QED BY <1>0, <2>0, <2>1, <3>1, <3>2, AtRest DEF RequestStage, macVars, Sound, Shelved, Tasks
  <2>2. CASE PutAwaySeatVolume
    <3>1. Served /\ Faithful /\ Served'
      BY <1>0, <2>0, <2>2, UiSteps DEF PutAwaySeatVolume, Alone, Served, Sound
    <3>2. Faithful'
      <4>1. CASE Unmounts /\ told' = told
        BY <1>0, <2>2, <3>1, <4>1, UnmountIsFaithful DEF PutAwaySeatVolume
      <4>2. CASE Refuses /\ told' = told
        BY <1>0, <2>2, <3>1, <4>2, FlushIsFaithful DEF PutAwaySeatVolume, Refuses
      <4> QED BY <2>2, <4>1, <4>2 DEF PutAwaySeatVolume, Forced
    <3> QED BY <1>0, <2>0, <2>2, <3>1, <3>2, UiSteps DEF PutAwaySeatVolume, Sound, Shelved, Tasks
  <2>3. CASE SyncRead
    <3>1. Served /\ Faithful /\ Served'
      BY <1>0, <2>0, <2>3, UiSteps DEF SyncRead, Alone, Served, Sound, Faithful
    <3>2. Faithful'
      BY <2>3, <3>1 DEF SyncRead, macVars, Faithful, Live, Ashore
    <3> QED BY <1>0, <2>0, <2>3, <3>1, <3>2, UiSteps DEF SyncRead, macVars, Sound, Shelved, Tasks
  <2>4. CASE SyncFold
    <3>1. Served /\ Faithful /\ ui.image = image /\ folder # None /\ ~guest.online
      BY <1>0, <2>0, <2>4 DEF SyncFold, Alone, Served, Sound, Uncrossed, LetGo
    <3>2. Shelved' /\ Landed'
      BY <1>0, <2>4, <3>1, SyncIsSound DEF SyncFold, Sound
    <3> QED BY <1>0, <2>0, <2>4, <3>2, UiSteps DEF SyncFold, macVars, Sound, Served, Tasks
  <2>5. CASE DetachClose \/ NewMachine
    <3>1. ~Served /\ ~Served' /\ ui'.pc # "Fold" /\ ui.pc = "Close"
      BY <2>5, UiSteps, AtRest DEF DetachClose, NewMachine, Served
    <3> QED BY <1>0, <2>0, <2>5, <3>1 DEF DetachClose, NewMachine, Sound, Shelved, Landed, Ashore, Tasks
  <2>6. CASE Rejoin
    <3>1. ~Served /\ ~Served' /\ ui'.pc # "Fold"
      BY <2>6, UiSteps DEF Rejoin, Served
    <3> QED BY <1>0, <2>0, <2>6, <3>1, UiSteps DEF Rejoin, macVars, Sound, Shelved, Landed, Ashore, Tasks
  <2>7. CASE AttachPlace
    <3>1. ~Served /\ ui.goal \in Folders /\ Carries(ui.image, host[ui.goal]) /\ ~guest.online /\ ui.pc = "Place"
      BY <1>0, <2>7, UiSteps DEF AttachPlace, Served, Built, Uncrossed, LetGo
    <3>2. Faithful'
      BY <1>0, <2>7, <3>1, InsertIsFaithful DEF AttachPlace, Sound
    <3>3. Served' /\ ui'.pc # "Fold"
      BY <2>0, <2>7, <3>1, UiSteps, AtRest, FilesAssumption DEF AttachPlace, Served
    <3> QED BY <1>0, <2>0, <2>7, <3>1, <3>2, <3>3 DEF AttachPlace, Sound, Shelved, Tasks
  <2>8. ASSUME NEW wish \in Wishes, Request(wish) PROVE Sound'
    <3>1. Served /\ Faithful /\ Served' /\ stage = "Idle"
      BY <1>0, <2>0, <2>8, UiSteps DEF Request, MayAct, Pending, Served, Sound
    <3>2. Faithful'
      BY <2>8, <3>1 DEF Request, macVars, Faithful, Live, Ashore
    <3> QED BY <1>0, <2>0, <2>8, <3>1, <3>2, UiSteps DEF Request, macVars, Sound, Shelved, Tasks
  <2>9. CASE DetachFolderDisk
    <3>1. Served /\ Faithful /\ Served'
      BY <1>0, <2>0, <2>9, UiSteps DEF DetachFolderDisk, MayAct, Pending, Served, Sound
    <3>2. Faithful'
      BY <2>9, <3>1 DEF DetachFolderDisk, macVars, Faithful, Live, Ashore
    <3> QED BY <1>0, <2>0, <2>9, <3>1, <3>2, UiSteps DEF DetachFolderDisk, macVars, Sound, Shelved, Tasks
  <2>10. CASE LoadRom
    <3>1. Served /\ Faithful /\ Served' /\ stage = "Idle"
      BY <1>0, <2>0, <2>10, UiSteps DEF LoadRom, MayAct, Pending, Served, Sound
    <3>2. image' = Flushed /\ guest' = OffLine /\ ~OffLine.online
      BY <2>10 DEF LoadRom, SettleVolumes, OffLine
    <3>3. Faithful'
      BY <1>0, <2>10, <3>1, <3>2, FlushIsFaithful DEF LoadRom
    <3>4. \A t \in Tasks : tasks[t].pc = "Done"
      BY <3>1 DEF Alone, Active
    <3> QED BY <1>0, <2>0, <2>10, <3>1, <3>3, <3>4, UiSteps DEF LoadRom, Sound, Shelved, Tasks
  <2>11. ASSUME NEW f \in Folders, AttachFolderDisk(f) PROVE Sound'
    <3>1. ~Served /\ ~Served' /\ ui'.pc # "Fold"
      BY <2>11, UiSteps DEF AttachFolderDisk, Served
    <3> QED BY <1>0, <2>0, <2>11, <3>1 DEF AttachFolderDisk, macVars, Sound, Shelved, Landed, Ashore, Tasks
  <2> QED BY <1>5, <2>1, <2>2, <2>3, <2>4, <2>5, <2>6, <2>7, <2>8, <2>9, <2>10, <2>11 DEF Ui, UiGoesOn
<1> QED BY <1>1, <1>2, <1>3, <1>4, <1>5 DEF Next, Tasks

LEMMA KeptInit == Init => Kept
  BY FilesAssumption DEF Init, Kept, Built, Sound, Shelved, Landed, Served, NoTask, AtEase, InFrame, Tasks, Held

LEMMA KeptStep ==
  ASSUME Types, Patient, ~Remounts, Settles, ~BuildMayFail, Alone, Uncrossed, Kept, [Next]_vars
  PROVE  Kept'
<1>1. CASE UNCHANGED vars
  BY <1>1 DEF vars, seatVars, macVars, hostVars, history, Kept, Built, Sound, Shelved, Landed, Served, Faithful, Live,
              Ashore, Forced, Tasks
<1>2. CASE Next
  BY <1>2, DisjointStep, BuiltStep, SoundStep DEF Kept
<1> QED BY <1>1, <1>2

\* The volume, the catalog or a folder holds what the guest saved.
LEMMA KeptSuffices ==
  ASSUME Types, Kept, Owed
  PROVE  NothingIsLost
<1>0. NoDropForgotten
  BY DEF NoDropForgotten, Settled, Owed, Filed, Waits, Carried, Tasks
<1>1. CASE Forced
  BY <1>0, <1>1 DEF NothingIsLost, WorkSurvives, NothingShelvedByMistake
<1>2. CASE Sound
  <2>1. WorkSurvives
    BY <1>2 DEF Sound, Landed, Faithful, Live, Ashore, WorkSurvives
  <2> QED BY <1>0, <1>2, <2>1 DEF NothingIsLost, Sound, Shelved, NothingShelvedByMistake
<1> QED BY <1>1, <1>2 DEF Kept

\* On the machine that mounts a volume once and settles its volumes before a restart
\* (the Quadra), with a user who waits and folders that fit their volumes, whatever the
\* conversions call a file: what the guest saved and did not delete is on the volume or
\* in a folder, and what a shelved file holds is deleted by the guest or still in the
\* folder, unless the log says otherwise or the conversions leave it out (LeftOut); no
\* dropped file is forgotten (DropBox.cs:209-270).
THEOREM LosesNothing ==
  ASSUME Patient, ~Remounts, Settles, ~BuildMayFail
  PROVE  Spec => []NothingIsLost
<1> DEFINE Inv == Types /\ Alone /\ Owed /\ Uncrossed /\ Kept
<1>1. Init => Inv
  BY TypesInit, AloneInit, UncrossedInit, KeptInit
<1>2. Uncrossed /\ UNCHANGED vars => Uncrossed'
  BY DEF vars, seatVars, macVars, history, Uncrossed, NeverCrossed, LetGo, Forced
<1>3. Inv /\ [Next]_vars => Inv'
  BY <1>2, TypesStep, TurnsStep, UncrossedStep, KeptStep
<1>4. Inv => NothingIsLost
  BY KeptSuffices
<1> QED BY <1>1, <1>3, <1>4, PTL DEF Spec

-----------------------------------------------------------------------------
(* SlirpTcp: types                                                         *)

LEMMA Space == SeqSpace \in Nat /\ SeqSpace > 0 /\ 0 \in SeqNos /\ IsnStep \in Nat /\ GuestIsn \in SeqNos
  BY SeqAssumption DEF SeqNos

LEMMA ModIsSeqNo == \A a \in Int : a % SeqSpace \in SeqNos
  BY Space DEF SeqNos

LEMMA PlusIsSeqNo == \A a \in SeqNos, n \in Nat : Plus(a, n) \in SeqNos
<1> TAKE a \in SeqNos, n \in Nat
<1>1. a + n \in Int
  BY Space DEF SeqNos
<1> QED
  BY <1>1, ModIsSeqNo DEF Plus

LEMMA BehindIsSeqNo == \A a, b \in SeqNos : Behind(a, b) \in SeqNos
<1> TAKE a, b \in SeqNos
<1>1. a - b \in Int
  BY Space DEF SeqNos
<1> QED
  BY <1>1, ModIsSeqNo DEF Behind

LEMMA SeqNoIsNat == \A a \in SeqNos : a \in Nat
  BY Space DEF SeqNos

LEMMA NoBytes == << >> \in Bytes /\ Len(<< >>) = 0
  BY EmptySeq DEF Bytes

LEMMA MoreBytes ==
  ASSUME NEW a \in Bytes, NEW b \in Bytes
  PROVE  a \o b \in Bytes
  BY ConcatProperties DEF Bytes

LEMMA BytesLen == \A b \in Bytes : Len(b) \in Nat
  BY LenProperties DEF Bytes

LEMMA SegmentTyped ==
  ASSUME NEW from \in Nat, NEW flags \in SUBSET Flags, NEW seq \in SeqNos, NEW ack \in SeqNos,
         NEW data \in Bytes
  PROVE  Segment(from, flags, seq, ack, data) \in Segments
  BY DEF Segment, Segments

LEMMA NoSegmentTyped == NoSegment \in Segments
  BY SegmentTyped, NoBytes, Space DEF NoSegment

LEMMA SendTyped ==
  ASSUME toGuest \in Seq(Segments), dropped \in BOOLEAN,
         NEW i \in Nat, NEW flags \in SUBSET Flags, NEW seq \in SeqNos, NEW ack \in SeqNos,
         NEW data \in Bytes, SendTcpToGuest(i, flags, seq, ack, data)
  PROVE  toGuest' \in Seq(Segments) /\ dropped' \in BOOLEAN
<1>1. Segment(i, flags, seq, ack, data) \in Segments
  BY SegmentTyped
<1>2. CASE Len(toGuest) < RingDepth
  BY <1>1, <1>2, AppendProperties DEF SendTcpToGuest
<1>3. CASE ~(Len(toGuest) < RingDepth)
  BY <1>3 DEF SendTcpToGuest
<1> QED
  BY <1>2, <1>3

LEMMA QuietTyped ==
  ASSUME toGuest \in Seq(Segments), dropped \in BOOLEAN, Quiet
  PROVE  toGuest' \in Seq(Segments) /\ dropped' \in BOOLEAN
  BY DEF Quiet

LEMMA AckTyped ==
  ASSUME toGuest \in Seq(Segments), dropped \in BOOLEAN,
         NEW i \in Nat, NEW f \in FlowStates, Ack(i, f)
  PROVE  toGuest' \in Seq(Segments) /\ dropped' \in BOOLEAN
<1>1. f.ourSeq \in SeqNos /\ f.guestSeq \in SeqNos /\ {"ACK"} \in SUBSET Flags
  BY DEF FlowStates, Flags
<1> QED
  BY <1>1, SendTyped, NoBytes DEF Ack

-----------------------------------------------------------------------------
(* Types: the emulation thread                                             *)

\* The types of what the emulation thread and the pool change.
FlowTypes == flows \in [FlowIds -> FlowStates]
RingTypes == toGuest \in Seq(Segments) /\ dropped \in BOOLEAN

LEMMA NewFlowTyped ==
  ASSUME NEW seg \in Segments, NEW isn \in SeqNos
  PROVE  NewFlow(seg, isn) \in FlowStates
<1>1. Plus(seg.seq, 1) \in SeqNos /\ seg.from \in Nat
  BY PlusIsSeqNo DEF Segments
<1>2. "Connect" \in FlowPcs
  BY DEF FlowPcs
<1> QED
  BY <1>1, <1>2, NoBytes DEF NewFlow, FlowStates

LEMMA OurIsnTyped == \A i \in Nat : OurIsn(i) \in SeqNos
<1> TAKE i \in Nat
<1>1. i * IsnStep \in Int
  BY Space
<1> QED
  BY <1>1, ModIsSeqNo DEF OurIsn

LEMMA SetFlowTyped ==
  ASSUME FlowTypes, NEW i \in FlowIds, NEW f \in FlowStates, flows' = [flows EXCEPT ![i] = f]
  PROVE  FlowTypes'
  BY DEF FlowTypes

LEMMA NotedTyped ==
  ASSUME NEW f \in FlowStates, NEW seg \in Segments
  PROVE  Noted(f, seg) \in FlowStates
<1>1. seg.ack \in SeqNos
  BY DEF Segments
<1> QED
  BY <1>1 DEF Noted, FlowStates

LEMMA WrittenTyped ==
  ASSUME NEW f \in FlowStates, NEW seg \in Segments
  PROVE  Written(f, seg) \in FlowStates
<1>1. seg.data \in Bytes /\ f.wrote \in Bytes /\ f.guestSeq \in SeqNos
  BY DEF Segments, FlowStates
<1>2. f.wrote \o seg.data \in Bytes /\ Plus(f.guestSeq, Len(seg.data)) \in SeqNos
  BY <1>1, MoreBytes, BytesLen, PlusIsSeqNo
<1> DEFINE w == f.wrote \o seg.data
           p == Plus(f.guestSeq, Len(seg.data))
<1>3. Written(f, seg) = [f EXCEPT !.wrote = IF f.open THEN w ELSE @, !.guestSeq = p]
  BY DEF Written
<1>4. w \in Bytes /\ p \in SeqNos
  BY <1>2
<1> HIDE DEF w, p
<1> QED
  BY <1>3, <1>4 DEF FlowStates

LEMMA FinTakenTyped ==
  ASSUME NEW f \in FlowStates
  PROVE  FinTaken(f) \in FlowStates
<1>1. Plus(f.guestSeq, 1) \in SeqNos
  BY PlusIsSeqNo DEF FlowStates
<1> QED
  BY <1>1 DEF FinTaken, FlowStates

NatTypes == nat \in [pc : {"Idle", "Fin", "Close"}, seg : Segments]
TableTypes == used \in 0..MaxFlows /\ table \in {0, used} /\ (nat.pc # "Idle" => table # 0)
RestTypes == load \in Loads /\ disposed \in BOOLEAN /\ client \in ClientStates /\ toNat \in Seq(Segments)

LEMMA TypesAre == TcpTypeOK <=> FlowTypes /\ RingTypes /\ NatTypes /\ TableTypes /\ RestTypes
  BY DEF TcpTypeOK, FlowTypes, RingTypes, NatTypes, TableTypes, RestTypes

LEMMA TypesArePrimed == TcpTypeOK' <=> (FlowTypes /\ RingTypes /\ NatTypes /\ TableTypes /\ RestTypes)'
  BY DEF TcpTypeOK, FlowTypes, RingTypes, NatTypes, TableTypes, RestTypes

\* A flow in the table is one of the flows made.
LEMMA TableIsFlow ==
  ASSUME TableTypes, table # 0
  PROVE  table \in FlowIds /\ table = used /\ table \in Nat
  BY BoundAssumption DEF TableTypes, FlowIds

LEMMA OpenFlowTyped ==
  ASSUME TcpTypeOK, nat.pc = "Idle", table = 0, NEW seg \in Segments, OpenFlow(seg)
  PROVE  (FlowTypes /\ RingTypes /\ NatTypes /\ TableTypes)'
<1>0. FlowTypes /\ RingTypes /\ NatTypes /\ TableTypes /\ RestTypes
  BY TypesAre
<1>1. CASE "SYN" \in seg.flags /\ "ACK" \notin seg.flags /\ used < MaxFlows
  <2>1. used + 1 \in FlowIds /\ used + 1 \in Nat
    BY <1>0, <1>1, BoundAssumption DEF TableTypes, FlowIds
  <2>2. NewFlow(seg, OurIsn(used + 1)) \in FlowStates
    BY <2>1, NewFlowTyped, OurIsnTyped
  <2>3. FlowTypes'
    BY <1>0, <1>1, <2>1, <2>2, SetFlowTyped DEF OpenFlow
  <2>4. RingTypes'
    BY <1>0, <1>1, QuietTyped DEF OpenFlow, RingTypes
  <2>5. nat' = nat /\ used' = used + 1 /\ table' = used + 1
    BY <1>1 DEF OpenFlow
  <2> QED
    BY <1>0, <2>1, <2>3, <2>4, <2>5 DEF NatTypes, TableTypes, FlowIds
<1>2. CASE ~("SYN" \in seg.flags /\ "ACK" \notin seg.flags /\ used < MaxFlows)
  <2>1. UNCHANGED << flows, used, table, nat >> /\ Quiet
    BY <1>2 DEF OpenFlow
  <2>2. RingTypes'
    BY <1>0, <2>1, QuietTyped DEF RingTypes
  <2> QED
    BY <1>0, <2>1, <2>2 DEF FlowTypes, NatTypes, TableTypes
<1> QED
  BY <1>1, <1>2

LEMMA TakeDataTyped ==
  ASSUME TcpTypeOK, table # 0, NEW seg \in Segments, TakeData(table, seg)
  PROVE  (FlowTypes /\ RingTypes /\ NatTypes /\ TableTypes)'
<1>0. FlowTypes /\ RingTypes /\ NatTypes /\ TableTypes /\ RestTypes
  BY TypesAre
<1>1. table \in FlowIds /\ table \in Nat
  BY <1>0, TableIsFlow
<1> DEFINE f == Noted(flows[table], seg)
           g == IF Accepts(f, seg) THEN Written(f, seg) ELSE f
<1>2. f \in FlowStates
  BY <1>0, <1>1, NotedTyped DEF FlowTypes
<1>3. g \in FlowStates
  BY <1>2, WrittenTyped
<1>4. /\ nat' = [pc |-> "Fin", seg |-> seg]
      /\ flows' = [flows EXCEPT ![table] = g]
      /\ Ack(table, g) \/ Quiet
      /\ UNCHANGED << used, table >>
  BY DEF TakeData
<1> HIDE DEF f, g
<1>5. FlowTypes'
  BY <1>0, <1>1, <1>3, <1>4, SetFlowTyped
<1>6. RingTypes'
  BY <1>0, <1>1, <1>3, <1>4, AckTyped, QuietTyped DEF RingTypes
<1> QED
  BY <1>0, <1>4, <1>5, <1>6 DEF NatTypes, TableTypes

LEMMA OnTcpTyped ==
  ASSUME TcpTypeOK, OnTcp
  PROVE  TcpTypeOK'
<1>0. FlowTypes /\ RingTypes /\ NatTypes /\ TableTypes /\ RestTypes
  BY TypesAre
<1>1. Head(toNat) \in Segments /\ Tail(toNat) \in Seq(Segments)
  BY <1>0, HeadTailProperties DEF OnTcp, RestTypes
<1>2. RestTypes'
  BY <1>0, <1>1 DEF OnTcp, RestTypes
<1>3. (FlowTypes /\ RingTypes /\ NatTypes /\ TableTypes)'
  <2>1. CASE table = 0
    BY <1>1, <2>1, OpenFlowTyped DEF OnTcp
  <2>2. CASE table # 0 /\ "RST" \in Head(toNat).flags
    <3>1. /\ flows' = [flows EXCEPT ![table].open = FALSE] /\ table' = 0 /\ Quiet
          /\ UNCHANGED << used, nat >> /\ nat.pc = "Idle"
      BY <2>2 DEF OnTcp, Dispose
    <3>2. table \in FlowIds
      BY <1>0, <2>2, TableIsFlow
    <3>3. [flows[table] EXCEPT !.open = FALSE] \in FlowStates
      BY <1>0, <3>2 DEF FlowTypes, FlowStates
    <3>4. FlowTypes'
      BY <1>0, <3>1, <3>2, <3>3, SetFlowTyped
    <3>5. RingTypes'
      BY <1>0, <3>1, QuietTyped DEF RingTypes
    <3> QED
      BY <1>0, <3>1, <3>4, <3>5 DEF NatTypes, TableTypes
  <2>3. CASE table # 0 /\ "RST" \notin Head(toNat).flags
    BY <1>1, <2>3, TakeDataTyped DEF OnTcp
  <2> QED
    BY <2>1, <2>2, <2>3
<1> QED
  BY <1>2, <1>3, TypesArePrimed

LEMMA OnTcpFinTyped ==
  ASSUME TcpTypeOK, OnTcpFin
  PROVE  TcpTypeOK'
<1>0. FlowTypes /\ RingTypes /\ NatTypes /\ TableTypes /\ RestTypes
  BY TypesAre
<1>1. table # 0 /\ table \in FlowIds /\ table \in Nat
  BY <1>0, TableIsFlow DEF OnTcpFin, TableTypes
<1> DEFINE f == flows[table]
<1>2. f \in FlowStates /\ FinTaken(f) \in FlowStates
  BY <1>0, <1>1, FinTakenTyped DEF FlowTypes
<1>3. FlowTypes' /\ RingTypes'
  <2>1. CASE TakesFin(f, nat.seg)
    <3>1. flows' = [flows EXCEPT ![table] = FinTaken(f)] /\ Ack(table, FinTaken(f))
      BY <2>1 DEF OnTcpFin
    <3> HIDE DEF f
    <3> QED
      BY <1>0, <1>1, <1>2, <3>1, SetFlowTyped, AckTyped DEF RingTypes
  <2>2. CASE ~TakesFin(f, nat.seg)
    <3>1. UNCHANGED flows /\ Quiet
      BY <2>2 DEF OnTcpFin
    <3> QED
      BY <1>0, <3>1, QuietTyped DEF RingTypes, FlowTypes
  <2> QED
    BY <2>1, <2>2
<1>4. /\ nat' = [nat EXCEPT !.pc = "Close"]
      /\ UNCHANGED << load, used, table, disposed, client, toNat >>
  BY DEF OnTcpFin
<1>5. NatTypes' /\ TableTypes' /\ RestTypes'
  BY <1>0, <1>1, <1>4 DEF NatTypes, TableTypes, RestTypes
<1> QED
  BY <1>3, <1>5, TypesArePrimed

LEMMA OnTcpCloseTyped ==
  ASSUME TcpTypeOK, OnTcpClose
  PROVE  TcpTypeOK'
<1>0. FlowTypes /\ RingTypes /\ NatTypes /\ TableTypes /\ RestTypes
  BY TypesAre
<1>1. table # 0 /\ table \in FlowIds
  BY <1>0, TableIsFlow DEF OnTcpClose, TableTypes
<1>2. nat' = [pc |-> "Idle", seg |-> NoSegment] /\ UNCHANGED << load, used, disposed, client, toNat >> /\ Quiet
  BY DEF OnTcpClose
<1>3. FlowTypes' /\ table' \in {0, table}
  <2>1. \/ flows' = [flows EXCEPT ![table].closed = TRUE, ![table].open = FALSE] /\ table' = 0
        \/ UNCHANGED << flows, table >>
    BY DEF OnTcpClose
  <2> DEFINE g == [flows[table] EXCEPT !.closed = TRUE, !.open = FALSE]
  <2>2. g \in FlowStates
    BY <1>0, <1>1 DEF FlowTypes, FlowStates
  <2>3. \/ flows' = [flows EXCEPT ![table] = g] /\ table' = 0
        \/ UNCHANGED << flows, table >>
    BY <1>0, <1>1, <2>1 DEF FlowTypes
  <2> HIDE DEF g
  <2> QED
    BY <1>0, <1>1, <2>2, <2>3, SetFlowTyped DEF FlowTypes
<1>4. RingTypes'
  BY <1>0, <1>2, QuietTyped DEF RingTypes
<1>5. NatTypes' /\ TableTypes' /\ RestTypes'
  BY <1>0, <1>1, <1>2, <1>3, NoSegmentTyped DEF NatTypes, TableTypes, RestTypes
<1> QED
  BY <1>3, <1>4, <1>5, TypesArePrimed

LEMMA ShutdownTyped ==
  ASSUME TcpTypeOK, Shutdown
  PROVE  TcpTypeOK'
<1>0. FlowTypes /\ RingTypes /\ NatTypes /\ TableTypes /\ RestTypes
  BY TypesAre
<1>1. /\ nat.pc = "Idle" /\ disposed' = TRUE /\ table' = 0 /\ UNCHANGED << load, used, nat, client, toNat >> /\ Quiet
      /\ flows' = IF table = 0 THEN flows ELSE [flows EXCEPT ![table].open = FALSE]
  BY DEF Shutdown
<1>2. FlowTypes'
  <2>1. CASE table = 0
    BY <1>0, <1>1, <2>1 DEF FlowTypes
  <2>2. CASE table # 0
    <3>1. table \in FlowIds
      BY <1>0, <2>2, TableIsFlow
    <3> QED
      <4>1. flows[table] \in FlowStates
        BY <1>0, <3>1 DEF FlowTypes
      <4>2. PICK g \in FlowStates : g = [flows[table] EXCEPT !.open = FALSE]
        BY <4>1 DEF FlowStates
      <4>3. flows' = [flows EXCEPT ![table] = g]
        BY <1>1, <2>2, <4>2
      <4> QED
        BY <1>0, <3>1, <4>3 DEF FlowTypes
  <2> QED
    BY <2>1, <2>2
<1>3. RingTypes'
  BY <1>0, <1>1, QuietTyped DEF RingTypes
<1>4. NatTypes' /\ TableTypes' /\ RestTypes'
  BY <1>0, <1>1 DEF NatTypes, TableTypes, RestTypes
<1> QED
  BY <1>2, <1>3, <1>4, TypesArePrimed

-----------------------------------------------------------------------------
(* Types: the pool threads                                                 *)

\* A pool thread's step keeps the types when it keeps its flow's and the ring's.
LEMMA PoolTyped ==
  ASSUME TcpTypeOK, NEW i \in FlowIds, NEW from, NEW f \in FlowStates, Pool(i, from, f), RingTypes'
  PROVE  TcpTypeOK'
<1>0. FlowTypes /\ RingTypes /\ NatTypes /\ TableTypes /\ RestTypes
  BY TypesAre
<1>1. flows' = [flows EXCEPT ![i] = f] /\ UNCHANGED << load, used, table, disposed, nat, client, toNat >>
  BY DEF Pool
<1>2. FlowTypes'
  BY <1>0, <1>1, SetFlowTyped
<1> QED
  BY <1>0, <1>1, <1>2, TypesArePrimed DEF NatTypes, TableTypes, RestTypes

LEMMA FlowTyped ==
  ASSUME TcpTypeOK, NEW i \in FlowIds
  PROVE  /\ flows[i] \in FlowStates /\ i \in Nat
         /\ \A pc \in FlowPcs : At(i, pc) \in FlowStates
         /\ flows[i].ourSeq \in SeqNos /\ flows[i].guestSeq \in SeqNos
         /\ flows[i].buf \in Bytes /\ Len(flows[i].buf) \in Nat /\ flows[i].read \in Nat
<1>1. flows[i] \in FlowStates
  BY TypesAre DEF FlowTypes
<1>2. \A pc \in FlowPcs : At(i, pc) \in FlowStates
  BY <1>1 DEF At, FlowStates
<1> QED
  BY <1>1, <1>2, BytesLen, BoundAssumption DEF FlowStates, FlowIds

LEMMA ReadTyped ==
  ASSUME TcpTypeOK, NEW i \in FlowIds, Read(i)
  PROVE  TcpTypeOK'
<1>1. PICK n \in 1..MaxSegment :
        /\ Pool(i, "Read", [At(i, "Send") EXCEPT !.read = @ + n,
                              !.buf = [k \in 1..n |-> << i, flows[i].read + k >>]])
        /\ Quiet
  BY DEF Read
<1> DEFINE b == [k \in 1..n |-> << i, flows[i].read + k >>]
           f == At(i, "Send")
           r == f.read + n
           g == [f EXCEPT !.read = r, !.buf = b]
<1>2. n \in Nat /\ flows[i].read \in Nat /\ i \in Nat
  BY FlowTyped, WindowAssumption
<1>3. b \in Bytes
  <2>1. \A k \in 1..n : << i, flows[i].read + k >> \in Nat \X Nat
    BY <1>2
  <2> QED
    BY <1>2, <2>1 DEF Bytes
<1>4. f \in FlowStates
  BY FlowTyped DEF FlowPcs
<1>5. Pool(i, "Read", g)
  BY <1>1
<1>6. r \in Nat
  BY <1>2, <1>4 DEF FlowStates
<1> HIDE DEF b, f, r
<1>8. g \in FlowStates
  BY <1>3, <1>4, <1>6 DEF FlowStates
<1>7. RingTypes'
  BY <1>1, TypesAre, QuietTyped DEF RingTypes
<1> HIDE DEF g
<1> QED
  BY <1>5, <1>7, <1>8, PoolTyped

LEMMA FlowEdits ==
  ASSUME NEW a \in FlowStates, NEW d \in SeqNos, NEW fin \in BOOLEAN, Plus(a.ourSeq, 1) \in SeqNos
  PROVE  /\ [a EXCEPT !.stream = TRUE] \in FlowStates
         /\ [a EXCEPT !.closed = TRUE] \in FlowStates
         /\ [a EXCEPT !.finSent = TRUE] \in FlowStates
         /\ [a EXCEPT !.closed = @ \/ fin] \in FlowStates
         /\ [a EXCEPT !.ourSeq = Plus(@, 1)] \in FlowStates
         /\ [a EXCEPT !.ourSeq = d, !.buf = << >>] \in FlowStates
<1> DEFINE p == Plus(a.ourSeq, 1)
<1>1. [a EXCEPT !.ourSeq = Plus(@, 1)] = [a EXCEPT !.ourSeq = p] /\ p \in SeqNos
  BY DEF FlowStates
<1> HIDE DEF p
<1>2. /\ [a EXCEPT !.stream = TRUE] \in FlowStates
      /\ [a EXCEPT !.closed = TRUE] \in FlowStates
      /\ [a EXCEPT !.finSent = TRUE] \in FlowStates
  BY DEF FlowStates
<1>3. [a EXCEPT !.closed = @ \/ fin] \in FlowStates
  BY DEF FlowStates
<1>4. [a EXCEPT !.ourSeq = p] \in FlowStates
  BY <1>1 DEF FlowStates
<1>5. [a EXCEPT !.ourSeq = d, !.buf = << >>] \in FlowStates
  BY NoBytes DEF FlowStates
<1> QED
  BY <1>1, <1>2, <1>3, <1>4, <1>5

LEMMA PoolStepTyped ==
  ASSUME TcpTypeOK, NEW i \in FlowIds, PoolStep(i)
  PROVE  TcpTypeOK'
<1> DEFINE s == flows[i].ourSeq
           f == flows[i]
<1>0. /\ f \in FlowStates /\ i \in Nat /\ \A pc \in FlowPcs : At(i, pc) \in FlowStates
      /\ s \in SeqNos /\ f.guestSeq \in SeqNos /\ f.buf \in Bytes /\ Len(f.buf) \in Nat
  BY FlowTyped
<1>1. Quiet => RingTypes'
  BY TypesAre, QuietTyped DEF RingTypes
<1>2. \A flags \in SUBSET Flags, seq \in SeqNos, data \in Bytes :
        SendTcpToGuest(i, flags, seq, f.guestSeq, data) => RingTypes'
  BY <1>0, TypesAre, SendTyped DEF RingTypes
<1>3. /\ {"RST", "ACK"} \in SUBSET Flags /\ {"SYN", "ACK"} \in SUBSET Flags
      /\ {"FIN", "ACK"} \in SUBSET Flags /\ {"ACK"} \in SUBSET Flags
  BY DEF Flags
<1>4. Plus(s, 1) \in SeqNos /\ AfterData(f) \in SeqNos
  BY <1>0, PlusIsSeqNo DEF AfterData
<1>5. \A pc \in FlowPcs : At(i, pc).ourSeq = s /\ At(i, pc).closed = f.closed
  BY <1>0 DEF At, FlowStates
<1>6. /\ "Refused" \in FlowPcs /\ "SynAck" \in FlowPcs /\ "CountSyn" \in FlowPcs /\ "Pace" \in FlowPcs
      /\ "Read" \in FlowPcs /\ "Count" \in FlowPcs /\ "Finish" \in FlowPcs /\ "CountFin" \in FlowPcs
      /\ "MarkFin" \in FlowPcs /\ "CheckFin" \in FlowPcs /\ "Done" \in FlowPcs
  BY DEF FlowPcs
<1>7. f.guestFinSeen \in BOOLEAN /\ f.closed \in BOOLEAN
  BY <1>0 DEF FlowStates
<1>8. ASSUME NEW pc \in FlowPcs
      PROVE  /\ [At(i, pc) EXCEPT !.stream = TRUE] \in FlowStates
             /\ [At(i, pc) EXCEPT !.closed = TRUE] \in FlowStates
             /\ [At(i, pc) EXCEPT !.finSent = TRUE] \in FlowStates
             /\ [At(i, pc) EXCEPT !.closed = @ \/ f.guestFinSeen] \in FlowStates
             /\ [At(i, pc) EXCEPT !.ourSeq = Plus(@, 1)] \in FlowStates
             /\ [At(i, pc) EXCEPT !.ourSeq = AfterData(f), !.buf = << >>] \in FlowStates
  <2>1. At(i, pc) \in FlowStates /\ At(i, pc).ourSeq = s
    BY <1>0, <1>5
  <2> QED
    BY <1>4, <1>7, <2>1, FlowEdits
<1>9. 0 \in SeqNos /\ << >> \in Bytes
  BY Space, NoBytes
<1>10. ASSUME NEW from, NEW g \in FlowStates, Pool(i, from, g), RingTypes'
       PROVE  TcpTypeOK'
  BY <1>10, PoolTyped
<1> HIDE DEF s, f
<1>11. CASE Connected(i)
  BY <1>1, <1>6, <1>8, <1>10, <1>11 DEF Connected
<1>12. CASE ConnectFails(i)
  BY <1>0, <1>2, <1>3, <1>6, <1>9, <1>10, <1>12 DEF ConnectFails, f
<1>13. CASE Refused(i)
  BY <1>1, <1>6, <1>8, <1>10, <1>13 DEF Refused
<1>14. CASE SendSynAck(i)
  BY <1>0, <1>2, <1>3, <1>6, <1>9, <1>10, <1>14 DEF SendSynAck, f, s
<1>15. CASE CountSyn(i)
  BY <1>1, <1>6, <1>8, <1>10, <1>15 DEF CountSyn
<1>16. CASE Pace(i)
  BY <1>0, <1>1, <1>6, <1>10, <1>16 DEF Pace
<1>17. CASE Read(i)
  BY <1>17, ReadTyped
<1>18. CASE ReadEnds(i)
  BY <1>0, <1>1, <1>6, <1>10, <1>18 DEF ReadEnds
<1>19. CASE SendData(i)
  BY <1>0, <1>2, <1>3, <1>6, <1>10, <1>19 DEF SendData, f, s
<1>20. CASE CountData(i)
  BY <1>1, <1>6, <1>8, <1>10, <1>20 DEF CountData, f
<1>21. CASE SendFin(i)
  BY <1>0, <1>2, <1>3, <1>6, <1>9, <1>10, <1>21 DEF SendFin, f, s
<1>22. CASE CountFin(i)
  BY <1>1, <1>6, <1>8, <1>10, <1>22 DEF CountFin
<1>23. CASE MarkFin(i)
  BY <1>1, <1>6, <1>8, <1>10, <1>23 DEF MarkFin
<1>24. CASE CheckFin(i)
  BY <1>1, <1>6, <1>8, <1>10, <1>24 DEF CheckFin, f
<1> QED
  BY <1>11, <1>12, <1>13, <1>14, <1>15, <1>16, <1>17, <1>18, <1>19, <1>20, <1>21, <1>22, <1>23, <1>24
     DEF PoolStep

-----------------------------------------------------------------------------
(* Types: the guest                                                        *)

LEMMA GuestSendsTyped ==
  ASSUME TcpTypeOK, NEW g \in ClientStates, NEW segs \in Seq(Segments), GuestSends(g, segs), RingTypes'
  PROVE  TcpTypeOK'
<1>0. FlowTypes /\ RingTypes /\ NatTypes /\ TableTypes /\ RestTypes
  BY TypesAre
<1>1. client' = g /\ toNat' = toNat \o segs /\ UNCHANGED << load, flows, used, table, disposed, nat >>
  BY DEF GuestSends
<1>2. toNat' \in Seq(Segments)
  BY <1>0, <1>1, ConcatProperties DEF RestTypes
<1> QED
  BY <1>0, <1>1, <1>2, TypesArePrimed DEF FlowTypes, NatTypes, TableTypes, RestTypes

LEMMA ClientTyped ==
  ASSUME NEW g \in ClientStates
  PROVE  /\ g.connects \in Nat /\ g.iss \in SeqNos /\ g.sent \in Nat /\ g.acked \in Nat /\ g.rcv \in SeqNos
         /\ g.got \in Bytes /\ g.fin \in BOOLEAN /\ g.finAcked \in BOOLEAN /\ g.finRcvd \in BOOLEAN
         /\ FinSeq(g) \in SeqNos /\ \A k \in Nat : DataSeq(g, k) \in SeqNos
  BY PlusIsSeqNo DEF ClientStates, FinSeq, DataSeq

LEMMA One == \A s \in Segments : << s >> \in Seq(Segments)
  BY IsASeq

LEMMA Nothing == << >> \in Seq(Segments)
  BY EmptySeq

LEMMA GuestSegmentsTyped ==
  ASSUME NEW g \in ClientStates
  PROVE  /\ GuestSyn(g) \in Segments /\ GuestAck(g) \in Segments /\ GuestFin(g) \in Segments
         /\ \A k \in Nat : GuestData(g, k) \in Segments
         /\ \A seq \in SeqNos : GuestReset(g, seq) \in Segments
<1>1. /\ g.connects \in Nat /\ g.iss \in SeqNos /\ g.rcv \in SeqNos /\ g.fin \in BOOLEAN
      /\ FinSeq(g) \in SeqNos /\ \A k \in Nat : DataSeq(g, k) \in SeqNos
  BY ClientTyped
<1>2. /\ {"SYN"} \in SUBSET Flags /\ {"ACK"} \in SUBSET Flags /\ {"FIN", "ACK"} \in SUBSET Flags
      /\ {"RST"} \in SUBSET Flags
  BY DEF Flags
<1>3. 0 \in SeqNos /\ << >> \in Bytes
  BY Space, NoBytes
<1>4. \A k \in Nat : << << g.connects, k >> >> \in Bytes
  <2> TAKE k \in Nat
  <2>1. << g.connects, k >> \in Nat \X Nat
    BY <1>1
  <2> QED
    BY <2>1, IsASeq DEF Bytes
<1>5. Plus(FinSeq(g), IF g.fin THEN 1 ELSE 0) \in SeqNos
  BY <1>1, PlusIsSeqNo
<1>6. GuestSyn(g) \in Segments
  BY <1>1, <1>2, <1>3, SegmentTyped DEF GuestSyn
<1>7. GuestAck(g) \in Segments
  BY <1>1, <1>2, <1>3, <1>5, SegmentTyped DEF GuestAck
<1>8. GuestFin(g) \in Segments
  BY <1>1, <1>2, <1>3, SegmentTyped DEF GuestFin
<1>9. \A k \in Nat : GuestData(g, k) \in Segments
  BY <1>1, <1>2, <1>4, SegmentTyped DEF GuestData
<1>10. \A seq \in SeqNos : GuestReset(g, seq) \in Segments
  BY <1>1, <1>2, <1>3, SegmentTyped DEF GuestReset
<1> QED
  BY <1>6, <1>7, <1>8, <1>9, <1>10

LEMMA NewConnectionTyped ==
  ASSUME NEW c \in Nat, NEW r \in Nat
  PROVE  NewConnection(c, r) \in ClientStates
<1>1. GuestIss(c) \in SeqNos
  <2>1. GuestIsn + (c - 1) * IsnStep \in Int
    BY Space DEF SeqNos
  <2> QED
    BY <2>1, ModIsSeqNo DEF GuestIss
<1> QED
  BY <1>1, NoBytes, Space DEF NewConnection, ClientStates

LEMMA AcknowledgedTyped ==
  ASSUME NEW g \in ClientStates, NEW ack \in SeqNos
  PROVE  Acknowledged(g, ack) \in ClientStates
<1> DEFINE n == Behind(ack, Plus(g.iss, 1))
           a == IF n <= g.sent /\ n > g.acked THEN n ELSE IF g.fin /\ n = g.sent + 1 THEN g.sent ELSE g.acked
           b == g.finAcked \/ (g.fin /\ n = g.sent + 1)
<1>1. n \in Nat
  BY ClientTyped, PlusIsSeqNo, BehindIsSeqNo, SeqNoIsNat
<1>2. a \in Nat /\ b \in BOOLEAN
  BY <1>1, ClientTyped
<1>3. Acknowledged(g, ack) = [g EXCEPT !.acked = a, !.finAcked = b]
  BY DEF Acknowledged
<1> HIDE DEF n, a, b
<1> QED
  BY <1>2, <1>3 DEF ClientStates

LEMMA ArrivedTyped ==
  ASSUME NEW g \in ClientStates, NEW seg \in Segments
  PROVE  Arrived(g, seg) \in ClientStates
<1> DEFINE w == g.got \o seg.data
           p == Plus(g.rcv, Len(seg.data))
           q == Plus(g.rcv, 1)
<1>1. w \in Bytes /\ p \in SeqNos /\ q \in SeqNos
  BY ClientTyped, MoreBytes, BytesLen, PlusIsSeqNo DEF Segments
<1>2. Arrived(g, seg) \in {g, [g EXCEPT !.got = w, !.rcv = p], [g EXCEPT !.finRcvd = TRUE, !.rcv = q]}
  BY DEF Arrived
<1> HIDE DEF w, p, q
<1>3. [g EXCEPT !.got = w, !.rcv = p] \in ClientStates /\ [g EXCEPT !.finRcvd = TRUE, !.rcv = q] \in ClientStates
  BY <1>1 DEF ClientStates
<1> QED
  BY <1>2, <1>3

LEMMA ClosedTyped == \A g \in ClientStates : [g EXCEPT !.st = "Closed"] \in ClientStates
  BY DEF ClientStates

LEMMA AnswerTyped ==
  ASSUME TcpTypeOK, NEW g \in ClientStates, NEW seg \in Segments, RingTypes', Answer(g, seg)
  PROVE  TcpTypeOK'
<1>1. seg.ack \in SeqNos
  BY DEF Segments
<1>2. << GuestReset(g, seg.ack) >> \in Seq(Segments) /\ << >> \in Seq(Segments)
  BY <1>1, GuestSegmentsTyped, One, Nothing
<1> QED
  BY <1>2, GuestSendsTyped DEF Answer

LEMMA HandshakeTyped ==
  ASSUME TcpTypeOK, NEW g \in ClientStates, NEW seg \in Segments, RingTypes', Handshake(g, seg)
  PROVE  TcpTypeOK'
<1> DEFINE p == Plus(seg.seq, 1)
           o == [g EXCEPT !.st = "Open", !.rcv = p]
<1>1. p \in SeqNos
  BY PlusIsSeqNo DEF Segments
<1>2. \/ GuestSends([g EXCEPT !.st = "Closed"], << >>) \/ GuestSends(o, << GuestAck(o) >>)
      \/ GuestSends(g, << >>)
  BY DEF Handshake
<1> HIDE DEF p
<1>3. o \in ClientStates
  BY <1>1 DEF ClientStates
<1> HIDE DEF o
<1>4. << GuestAck(o) >> \in Seq(Segments)
  BY <1>3, GuestSegmentsTyped, One
<1> QED
  BY <1>2, <1>3, <1>4, ClosedTyped, Nothing, GuestSendsTyped

LEMMA ReceiveTyped ==
  ASSUME TcpTypeOK, NEW g \in ClientStates, NEW seg \in Segments, RingTypes', Receive(g, seg)
  PROVE  TcpTypeOK'
<1> DEFINE h == Arrived(Acknowledged(g, seg.ack), seg)
<1>1. h \in ClientStates
  BY AcknowledgedTyped, ArrivedTyped DEF Segments
<1>2. Settle(h) \in ClientStates
  BY <1>1, ClosedTyped DEF Settle
<1>3. << GuestAck(h) >> \in Seq(Segments)
  BY <1>1, GuestSegmentsTyped, One
<1>4. \/ GuestSends([g EXCEPT !.st = "Closed"], << >>) \/ GuestSends(g, << >>)
      \/ GuestSends(Settle(h), << GuestAck(h) >>) \/ GuestSends(Settle(h), << >>)
  BY DEF Receive
<1> HIDE DEF h
<1> QED
  BY <1>2, <1>3, <1>4, ClosedTyped, Nothing, GuestSendsTyped

LEMMA GuestReceiveTyped ==
  ASSUME TcpTypeOK, GuestReceive
  PROVE  TcpTypeOK'
<1>1. toGuest \in Seq(Segments) /\ toGuest # << >> /\ toGuest' = Tail(toGuest) /\ client \in ClientStates
  BY TypesAre DEF GuestReceive, RingTypes, RestTypes
<1>2. Head(toGuest) \in Segments /\ RingTypes'
  BY <1>1, HeadTailProperties, TypesAre DEF GuestReceive, RingTypes
<1> QED
  BY <1>1, <1>2, AnswerTyped, HandshakeTyped, ReceiveTyped DEF GuestReceive

LEMMA OldestTyped == \A g \in ClientStates : Oldest(g) \in Seq(Segments)
<1> TAKE g \in ClientStates
<1>1. g.acked + 1 \in Nat
  BY ClientTyped
<1>2. Oldest(g) \in {<< GuestSyn(g) >>, << GuestData(g, g.acked + 1) >>, << GuestFin(g) >>, << >>}
  BY DEF Oldest
<1> QED
  BY <1>1, <1>2, GuestSegmentsTyped, One, Nothing

LEMMA GuestStepTyped ==
  ASSUME TcpTypeOK, GuestStep
  PROVE  TcpTypeOK'
<1>0. client \in ClientStates /\ client.connects \in Nat /\ client.retries \in Nat /\ client.sent \in Nat
  BY TypesAre DEF RestTypes, ClientStates
<1>1. Quiet => RingTypes'
  BY TypesAre, QuietTyped DEF RingTypes
<1>2. CASE GuestConnect
  <2> DEFINE g == NewConnection(client.connects + 1, client.retries)
  <2>1. GuestSends(g, << GuestSyn(g) >>) /\ Quiet
    BY <1>2 DEF GuestConnect
  <2>2. g \in ClientStates
    BY <1>0, NewConnectionTyped
  <2> HIDE DEF g
  <2> QED
    BY <1>1, <2>1, <2>2, GuestSegmentsTyped, One, GuestSendsTyped
<1>3. CASE GuestWrite
  <2> DEFINE n == client.sent + 1
             g == [client EXCEPT !.sent = n]
  <2>1. GuestSends(g, << GuestData(g, g.sent) >>) /\ Quiet
    BY <1>3 DEF GuestWrite
  <2>2. n \in Nat
    BY <1>0
  <2> HIDE DEF n
  <2>3. g \in ClientStates /\ g.sent \in Nat
    BY <1>0, <2>2 DEF ClientStates
  <2> HIDE DEF g
  <2> QED
    BY <1>1, <2>1, <2>3, GuestSegmentsTyped, One, GuestSendsTyped
<1>4. CASE GuestClose
  <2>1. GuestSends([client EXCEPT !.fin = TRUE], << GuestFin(client) >>) /\ Quiet
    BY <1>4 DEF GuestClose
  <2>2. [client EXCEPT !.fin = TRUE] \in ClientStates
    BY <1>0 DEF ClientStates
  <2> QED
    BY <1>0, <1>1, <2>1, <2>2, GuestSegmentsTyped, One, GuestSendsTyped
<1>5. CASE GuestRetransmit
  <2> DEFINE n == client.retries + 1
  <2>1. GuestSends([client EXCEPT !.retries = n], Oldest(client)) /\ Quiet
    BY <1>5 DEF GuestRetransmit
  <2>2. n \in Nat
    BY <1>0
  <2> HIDE DEF n
  <2>3. [client EXCEPT !.retries = n] \in ClientStates
    BY <1>0, <2>2 DEF ClientStates
  <2> QED
    BY <1>0, <1>1, <2>1, <2>3, OldestTyped, GuestSendsTyped
<1>6. CASE GuestAbort
  <2>1. GuestSends([client EXCEPT !.st = "Closed"], << GuestReset(client, FinSeq(client)) >>) /\ Quiet
    BY <1>6 DEF GuestAbort
  <2>2. FinSeq(client) \in SeqNos
    BY <1>0, ClientTyped
  <2> QED
    BY <1>0, <1>1, <2>1, <2>2, ClosedTyped, GuestSegmentsTyped, One, GuestSendsTyped
<1>7. CASE GuestReceive
  BY <1>7, GuestReceiveTyped
<1> QED
  BY <1>2, <1>3, <1>4, <1>5, <1>6, <1>7 DEF GuestStep

-----------------------------------------------------------------------------

LEMMA InitTyped == TcpInit => TcpTypeOK
<1> SUFFICES ASSUME TcpInit
             PROVE  TcpTypeOK
  OBVIOUS
<1>1. NewFlow(NoSegment, 0) \in FlowStates
  BY NewFlowTyped, NoSegmentTyped, Space
<1>2. FlowTypes
  BY <1>1 DEF TcpInit, FlowTypes
<1>3. client \in ClientStates
  BY NoBytes, Space DEF TcpInit, ClientStates
<1>4. nat \in [pc : {"Idle", "Fin", "Close"}, seg : Segments] /\ nat.pc = "Idle"
  BY NoSegmentTyped DEF TcpInit, Idle
<1>5. RingTypes /\ RestTypes
  BY <1>3, Nothing DEF TcpInit, RingTypes, RestTypes
<1>6. 0 \in 0..MaxFlows
  BY BoundAssumption
<1>7. TableTypes
  BY <1>4, <1>6 DEF TcpInit, TableTypes
<1> QED
  BY <1>2, <1>4, <1>5, <1>7, TypesAre DEF NatTypes

LEMMA NextTyped == TcpTypeOK /\ [TcpNext]_tcpVars => TcpTypeOK'
<1> SUFFICES ASSUME TcpTypeOK, [TcpNext]_tcpVars
             PROVE  TcpTypeOK'
  OBVIOUS
<1>1. CASE UNCHANGED tcpVars
  BY <1>1 DEF tcpVars, TcpTypeOK
<1>2. CASE TcpNext
  BY <1>2, OnTcpTyped, OnTcpFinTyped, OnTcpCloseTyped, ShutdownTyped, PoolStepTyped, GuestStepTyped DEF TcpNext
<1> QED
  BY <1>1, <1>2

\* Every flow, segment and counter keeps its type, only the newest flow is ever in the table, and
\* OnTcp never handles a segment of a flow that has left it (SlirpNat.cs:277-309).
THEOREM TcpTypeCorrect == TcpSpec => []TcpTypeOK
  BY InitTyped, NextTyped, PTL DEF TcpSpec

-----------------------------------------------------------------------------
(* The inductive invariant of the streams                                  *)

Base(i) == i * IsnStep

\* Position p of the guest's connection c.
GuestPos(c, p) == (GuestIsn + (c - 1) * IsnStep + p) % SeqSpace

FinPcs == {"CountFin", "MarkFin", "CheckFin", "Done"}

\* Where a flow has sent to: its count lags between the send and the update.
SentTo(f) == f.ourSeq + (CASE f.pc \in {"CountSyn", "CountFin"} -> 1
                           [] f.pc = "Count" -> Len(f.buf)
                           [] OTHER -> 0)

\* Where each step of the pool thread has the flow's count.
Counts(i, f) ==
  /\ f.read <= load.remoteBytes
  /\ f.pc \in {"Connect", "Refused", "SynAck", "CountSyn"} => f.ourSeq = Base(i) /\ f.read = 0
  /\ f.pc \in {"Pace", "Read", "Finish", "CountFin"} => f.ourSeq = Base(i) + 1 + f.read
  /\ f.pc \in {"Send", "Count"} =>
       /\ Len(f.buf) \in 1..MaxSegment /\ Len(f.buf) <= f.read
       /\ f.ourSeq = Base(i) + 1 + f.read - Len(f.buf)
       /\ f.buf = [k \in 1..Len(f.buf) |-> << i, f.read - Len(f.buf) + k >>]
  /\ f.pc \in {"MarkFin", "CheckFin"} => f.ourSeq = Base(i) + 2 + f.read
  /\ f.pc = "Done" => f.ourSeq = IF f.stream THEN Base(i) + 2 + f.read ELSE Base(i)
  /\ f.pc \in {"Connect", "Refused"} => ~f.stream
  /\ f.pc \notin {"Connect", "Refused", "Done"} => f.stream

\* The guest's acks stay behind what was sent and within the window when it was checked.
Paced(i, f) ==
  /\ Base(i) <= f.guestAcked /\ f.guestAcked <= SentTo(f)
  /\ f.pc \in {"Read", "Send", "Count"} => f.ourSeq <= f.guestAcked + Window
  /\ f.pc = "Pace" => f.ourSeq <= f.guestAcked + Window + MaxSegment

InStep(i, f) == Counts(i, f) /\ Paced(i, f)

IsData(s) == s.data # << >>
Byte(s) == s.data[1][2]
Fin(s) == "FIN" \in s.flags
Syn(s) == "SYN" \in s.flags
Acks(s) == "ACK" \in s.flags

\* The guest's segments that OnTcp has not seen or is looking at.
In(q) == {q[k] : k \in 1..Len(q)}
Queued == In(toNat)
Unseen == Queued \cup (IF nat.pc = "Fin" THEN {nat.seg} ELSE {})

\* What a guest's segment is: a SYN, a byte, a FIN after the last byte, an ack or a reset.
Formed(s) ==
  /\ s.from <= client.connects
  /\ s.from >= 1 \/ s.flags = {"RST"}
  /\ \/ s.flags = {"SYN"} /\ s.data = << >> /\ s.seq = GuestPos(s.from, 0)
     \/ /\ s.flags = {"ACK"} /\ IsData(s) /\ s.data = << << s.from, Byte(s) >> >>
        /\ Byte(s) \in 1..load.guestBytes
        /\ s.seq = GuestPos(s.from, Byte(s))
        /\ s.from = client.connects => Byte(s) <= client.sent
     \/ /\ s.flags = {"FIN", "ACK"} /\ s.data = << >>
        /\ \E m \in 0..load.guestBytes :
             /\ s.seq = GuestPos(s.from, m + 1)
             /\ s.from = client.connects => client.fin /\ client.sent = m
             /\ \A d \in Unseen : IsData(d) /\ d.from = s.from => Byte(d) <= m
     \/ s.flags = {"ACK"} /\ s.data = << >>
     \/ s.flags = {"RST"} /\ s.data = << >>

\* What a flow has written is its connection's stream so far; nothing follows a FIN.
Writes(f) ==
  /\ f.conn \in 1..client.connects /\ f.wrote = Stream(f.conn, Len(f.wrote)) /\ Len(f.wrote) <= load.guestBytes
  /\ f.guestSeq = GuestPos(f.conn, Len(f.wrote) + IF f.guestFinSeen THEN 2 ELSE 1)
  /\ f.shut => f.guestFinSeen
  /\ f.guestFinSeen =>
       /\ \A d \in Unseen : IsData(d) /\ d.from = f.conn => Byte(d) <= Len(f.wrote)
       /\ f.conn = client.connects => client.fin /\ client.sent = Len(f.wrote)

\* The guest connects again only after everything else it has sent on the connection.
Later(c) == /\ \A s \in Queued : Syn(s) => s.from > c
            /\ client.st = "SynSent" => client.connects > c

\* No SYN of its connection is left behind a flow that is over.
Over(i) == LET f == flows[i]
           IN  (i # table /\ f.stream /\ ~disposed) \/ f.guestFinSeen => Later(f.conn)

\* What segment s of the guest and a later one t have to do with each other.
Before(s, t) == /\ s.from <= t.from
                /\ Syn(t) /\ ~Syn(s) => s.from < t.from
                /\ Acks(s) /\ Acks(t) /\ s.from = t.from => s.ack <= t.ack

Ordered(q) == \A k, l \in 1..Len(q) : k < l => Before(q[k], q[l])

InOrder ==
  /\ Ordered(toNat)
  /\ \A s \in Queued : ~Syn(s) /\ client.st = "SynSent" => s.from < client.connects
  /\ nat.pc = "Fin" /\ ~Syn(nat.seg) => Later(nat.seg.from)

\* A flow is closed once the guest has finished too, or when there was no connection.
ClosedWell(f) == f.closed => f.guestFinSeen \/ (~f.stream /\ (f.open => f.pc = "Done"))

FlowsInOrder ==
  /\ \A i \in 1..used : \A s \in Queued : flows[i].conn <= s.from
  /\ \A i, j \in 1..used : j < i /\ flows[j].stream => flows[j].conn < flows[i].conn
  /\ \A i \in 1..used : flows[i].open <=> table = i
  /\ \A i \in 1..used : ClosedWell(flows[i])

\* An ack in flight is of a stream of its connection, ahead of every ack noted.
AckOf(s) ==
  /\ \E j \in 1..used : /\ flows[j].stream /\ flows[j].conn = s.from
                        /\ Base(j) < s.ack /\ s.ack <= SentTo(flows[j])
  /\ \A i \in 1..used : flows[i].conn = s.from => flows[i].guestAcked <= s.ack
  /\ s.from = client.connects => s.ack <= client.rcv

ClientAcks ==
  \A i \in 1..used : flows[i].conn = client.connects =>
    /\ client.st = "SynSent" => flows[i].guestAcked = Base(i)
    /\ client.st = "Open" => flows[i].guestAcked <= client.rcv

\* The guest g receives the stream of flow j, which is f.
Follows(f, g, j) ==
  /\ f.stream /\ f.conn = g.connects
  /\ g.got = Stream(j, Len(g.got)) /\ Len(g.got) <= f.read
  /\ g.rcv = Base(j) + Len(g.got) + IF g.finRcvd THEN 2 ELSE 1
  /\ g.rcv <= SentTo(f)
  /\ g.finRcvd => Len(g.got) = f.read /\ f.pc \in FinPcs

GuestOK(g) ==
  /\ g.connects <= load.connects /\ g.sent <= load.guestBytes /\ g.acked <= g.sent
  /\ g.st # "Closed" => g.connects >= 1
  /\ g.connects >= 1 => g.iss = GuestPos(g.connects, 0)
  /\ g.st = "SynSent" => g.got = << >> /\ ~g.finRcvd /\ ~g.fin
  /\ g.st = "Open" \/ g.got # << >> \/ g.finRcvd =>
       \E j \in 1..used : Follows(flows[j], g, j)

ClientOK == GuestOK(client)

\* A segment to the guest is what its flow f sent, at its place.
SynOf(f, s) == /\ f.stream /\ s.seq = Base(s.from) /\ SentTo(f) > Base(s.from)
               /\ \E p \in 1..(IsnStep - 1) : s.ack = GuestPos(f.conn, p)
DataOf(f, s) == /\ f.stream
                /\ \E p \in 0..f.read :
                     /\ s.seq = Base(s.from) + 1 + p /\ p + Len(s.data) <= f.read
                     /\ s.seq + Len(s.data) <= SentTo(f)
                     /\ s.data = [k \in 1..Len(s.data) |-> << s.from, p + k >>]
FinOf(f, s) == f.stream /\ f.pc \in FinPcs /\ s.seq = Base(s.from) + 1 + f.read

Sends(f, s) == (Syn(s) => SynOf(f, s)) /\ (IsData(s) => DataOf(f, s)) /\ (Fin(s) => FinOf(f, s))

Delivers(s) == s.from \in 1..used /\ Sends(flows[s.from], s)

FlowsHold == \A i \in 1..used : InStep(i, flows[i]) /\ Writes(flows[i]) /\ Over(i)
AllFormed == \A s \in Unseen : Formed(s)
AllAcks == \A s \in Queued : Acks(s) => AckOf(s)
AllDeliver == \A s \in In(toGuest) : Delivers(s)

StreamInv == FlowsHold /\ AllFormed /\ AllAcks /\ AllDeliver /\ InOrder /\ FlowsInOrder /\ ClientAcks /\ ClientOK

-----------------------------------------------------------------------------
(* Sequence numbers                                                        *)

\* Multiplication keeps order.
LEMMA Times ==
  ASSUME NEW a \in Int, NEW b \in Int, NEW n \in Nat, a <= b
  PROVE  a * n \in Int /\ b * n \in Int /\ a * n <= b * n
<1>1. (b - a) * n >= 0
  BY SMT
<1>2. (b - a) * n = b * n - a * n
  BY SMT
<1> QED
  BY <1>1, <1>2

LEMMA OneMore == \A a \in Int, n \in Nat : (a + 1) * n = a * n + n
  BY SMT

LEMMA ModSmall == \A a \in Int : 0 <= a /\ a < SeqSpace => a % SeqSpace = a
  BY Space

LEMMA DivMod ==
  ASSUME NEW a \in Int
  PROVE  \E q \in Int, r \in SeqNos : r = a % SeqSpace /\ a = SeqSpace * q + r
<1> DEFINE r == a % SeqSpace
           q == a \div SeqSpace
<1>1. r \in SeqNos /\ q \in Int /\ a = SeqSpace * q + r
  BY Space DEF SeqNos
<1>2. r = a % SeqSpace
  OBVIOUS
<1> HIDE DEF r, q
<1> QED
  BY <1>1, <1>2

LEMMA ModUnique ==
  ASSUME NEW x \in Int, NEW k \in Int, NEW u \in SeqNos, x = SeqSpace * k + u
  PROVE  x % SeqSpace = u
<1> DEFINE q == x \div SeqSpace
           r == x % SeqSpace
<1>1. q \in Int /\ r \in SeqNos /\ x = SeqSpace * q + r
  BY Space DEF SeqNos
<1> HIDE DEF q, r
<1>2. SeqSpace \in Nat /\ u \in Nat /\ r \in Nat /\ u < SeqSpace /\ r < SeqSpace
  BY <1>1, Space DEF SeqNos
<1>3. SeqSpace * k - SeqSpace * q = SeqSpace * (k - q)
  BY <1>1, <1>2
<1>4. SeqSpace * (k - q) = r - u
  BY <1>1, <1>2, <1>3
<1>5. k - q = 0
  <2>1. CASE k - q >= 1
    <3>1. (k - q) * SeqSpace >= 1 * SeqSpace
      BY <1>1, <1>2, <2>1, Times
    <3> QED
      BY <1>1, <1>2, <1>4, <3>1
  <2>2. CASE k - q <= -1
    <3>1. (k - q) * SeqSpace <= (-1) * SeqSpace
      BY <1>1, <1>2, <2>2, Times
    <3> QED
      BY <1>1, <1>2, <1>4, <3>1
  <2> QED
    BY <1>1, <2>1, <2>2
<1>6. r = u
  BY <1>1, <1>2, <1>4, <1>5
<1> QED
  BY <1>6 DEF r

LEMMA ModPlus ==
  ASSUME NEW a \in Int, NEW n \in Int
  PROVE  ((a % SeqSpace) + n) % SeqSpace = (a + n) % SeqSpace
<1> DEFINE r == a % SeqSpace
           q == a \div SeqSpace
           u == (r + n) % SeqSpace
           v == (r + n) \div SeqSpace
<1>1. r \in SeqNos /\ q \in Int /\ a = SeqSpace * q + r
  BY Space DEF SeqNos
<1> HIDE DEF r, q
<1>2. u \in SeqNos /\ v \in Int /\ r + n = SeqSpace * v + u
  BY <1>1, Space DEF SeqNos
<1> HIDE DEF u, v
<1>3. SeqSpace * (q + v) = SeqSpace * q + SeqSpace * v
  BY <1>1, <1>2, Space
<1>4. a + n = SeqSpace * (q + v) + u
  BY <1>1, <1>2, <1>3, Space DEF SeqNos
<1>5. (a + n) % SeqSpace = u
  BY <1>1, <1>2, <1>4, ModUnique
<1> QED
  BY <1>5 DEF u, r

\* Two numbers less than a lap apart are the same if they are the same position.
LEMMA ModApart ==
  ASSUME NEW x \in Int, NEW y \in Int, x <= y, y - x < SeqSpace, x % SeqSpace = y % SeqSpace
  PROVE  x = y
<1>2. PICK k \in Int, r \in SeqNos : r = x % SeqSpace /\ x = SeqSpace * k + r
  BY DivMod
<1>3. PICK l \in Int, t \in SeqNos : t = y % SeqSpace /\ y = SeqSpace * l + t
  BY DivMod
<1>1. r \in SeqNos /\ k \in Int /\ l \in Int /\ x = SeqSpace * k + r /\ y = SeqSpace * l + r
  BY <1>2, <1>3
<1>4. SeqSpace * (l - k) = SeqSpace * l - SeqSpace * k
  BY <1>1, Space
<1>5. SeqSpace * (l - k) = y - x
  BY <1>1, <1>4, Space DEF SeqNos
<1>6. l - k <= 0
  <2>1. CASE l - k >= 1
    <3>1. (l - k) * SeqSpace >= 1 * SeqSpace
      BY <1>1, <2>1, Times, Space
    <3> QED
      BY <1>1, <1>5, <3>1, Space
  <2> QED
    BY <1>1, <2>1
<1>7. (l - k) * SeqSpace <= 0 * SeqSpace
  BY <1>1, <1>6, Times, Space
<1> QED
  BY <1>1, <1>5, <1>7, Space

\* The bytes of a connection lie between its start and the next one's.
LEMMA GuestLies ==
  ASSUME NEW c \in Nat, NEW d \in Nat, NEW p \in Nat, NEW q \in Nat, p < IsnStep, q < IsnStep,
         c >= 1, d >= 1, (c + 1) * IsnStep <= SeqSpace, (d + 1) * IsnStep <= SeqSpace,
         GuestPos(c, p) = GuestPos(d, q)
  PROVE  c = d /\ p = q
<1> DEFINE x == (c - 1) * IsnStep + p
           y == (d - 1) * IsnStep + q
<1>0. IsnStep \in Nat /\ SeqSpace \in Nat /\ GuestIsn \in Int
  BY Space DEF SeqNos
<1>1. /\ (c - 1) * IsnStep \in Int /\ (d - 1) * IsnStep \in Int
      /\ 0 <= (c - 1) * IsnStep /\ 0 <= (d - 1) * IsnStep
      /\ (c - 1) * IsnStep + IsnStep <= c * IsnStep /\ c * IsnStep <= (c + 1) * IsnStep
      /\ (d - 1) * IsnStep + IsnStep <= d * IsnStep /\ d * IsnStep <= (d + 1) * IsnStep
      /\ c * IsnStep \in Int /\ d * IsnStep \in Int
  <2>1. \A e \in Nat : e >= 1 => /\ (e - 1) * IsnStep \in Int /\ 0 <= (e - 1) * IsnStep
                                 /\ (e - 1) * IsnStep + IsnStep = e * IsnStep
                                 /\ e * IsnStep <= (e + 1) * IsnStep /\ e * IsnStep \in Int
    <3> TAKE e \in Nat
    <3> HAVE e >= 1
    <3>1. 0 * IsnStep <= (e - 1) * IsnStep /\ (e - 1) * IsnStep \in Int
      BY <1>0, Times
    <3>2. ((e - 1) + 1) * IsnStep = (e - 1) * IsnStep + IsnStep
      BY <1>0, OneMore
    <3>3. e * IsnStep <= (e + 1) * IsnStep /\ e * IsnStep \in Int
      BY <1>0, Times
    <3>4. (e - 1) + 1 = e /\ 0 * IsnStep = 0
      BY <1>0
    <3> QED
      BY <3>1, <3>2, <3>3, <3>4
  <2> QED
    BY <2>1
<1>2. x \in Int /\ y \in Int /\ 0 <= x /\ 0 <= y /\ x < SeqSpace /\ y < SeqSpace
  BY <1>0, <1>1
<1>3. GuestPos(c, p) = (GuestIsn + x) % SeqSpace /\ GuestPos(d, q) = (GuestIsn + y) % SeqSpace
  <2>1. GuestIsn + (c - 1) * IsnStep + p = GuestIsn + x /\ GuestIsn + (d - 1) * IsnStep + q = GuestIsn + y
    BY <1>0, <1>1
  <2> QED
    BY <2>1 DEF GuestPos
<1>4. x = y
  <2> DEFINE gx == GuestIsn + x
             gy == GuestIsn + y
  <2>0. gx % SeqSpace = gy % SeqSpace
    BY <1>3
  <2> HIDE DEF x, y
  <2>1. gx \in Int /\ gy \in Int /\ gx - gy = x - y /\ gy - gx = y - x /\ gx % SeqSpace = gy % SeqSpace
    BY <1>0, <1>2, <2>0
  <2>2. (gx <= gy /\ gy - gx < SeqSpace) \/ (gy <= gx /\ gx - gy < SeqSpace)
    BY <1>0, <1>2, <2>1
  <2> HIDE DEF gx, gy
  <2>3. gx = gy
    BY <2>1, <2>2, ModApart
  <2> QED
    BY <1>2, <2>1, <2>3
<1>5. c = d
  <2>1. ASSUME NEW a \in Nat, NEW b \in Nat, a >= 1, a < b
        PROVE  (a - 1) * IsnStep + IsnStep <= (b - 1) * IsnStep
    <3>1. a * IsnStep <= (b - 1) * IsnStep
      BY <1>0, <2>1, Times
    <3>2. ((a - 1) + 1) * IsnStep = (a - 1) * IsnStep + IsnStep /\ (a - 1) + 1 = a
      BY <1>0, OneMore
    <3> QED
      BY <3>1, <3>2
  <2>2. CASE c < d
    <3>1. (c - 1) * IsnStep + IsnStep <= (d - 1) * IsnStep
      BY <2>1, <2>2
    <3> QED
      BY <1>0, <1>1, <1>4, <3>1
  <2>3. CASE d < c
    <3>1. (d - 1) * IsnStep + IsnStep <= (c - 1) * IsnStep
      BY <2>1, <2>3
    <3> QED
      BY <1>0, <1>1, <1>4, <3>1
  <2> QED
    BY <2>2, <2>3
<1> QED
  BY <1>0, <1>1, <1>4, <1>5

LEMMA GuestPosNext ==
  ASSUME NEW c \in Nat, NEW p \in Int, NEW n \in Nat
  PROVE  /\ GuestPos(c, p) \in SeqNos /\ GuestIss(c) = GuestPos(c, 0)
         /\ Plus(GuestPos(c, p), n) = GuestPos(c, p + n)
<1> DEFINE b == GuestIsn + (c - 1) * IsnStep
<1>1. b \in Int
  BY Space DEF SeqNos
<1>2. /\ GuestPos(c, p) = (b + p) % SeqSpace /\ GuestPos(c, p + n) = (b + (p + n)) % SeqSpace
      /\ GuestIss(c) = b % SeqSpace /\ GuestPos(c, 0) = (b + 0) % SeqSpace
  BY DEF GuestPos, GuestIss
<1> HIDE DEF b
<1>3. b + p \in Int /\ (b + p) + n = b + (p + n) /\ b + 0 = b
  BY <1>1
<1>4. (((b + p) % SeqSpace) + n) % SeqSpace = ((b + p) + n) % SeqSpace
  BY <1>3, ModPlus
<1> QED
  BY <1>2, <1>3, <1>4, ModIsSeqNo DEF Plus

\* Our sequence numbers do not wrap.
LEMMA BaseLies ==
  ASSUME ShortConnections, NEW i \in FlowIds
  PROVE  /\ Base(i) \in Nat /\ Base(i) + IsnStep <= SeqSpace /\ OurIsn(i) = Base(i)
         /\ \A p \in 0..(IsnStep - 1), n \in Nat : p + n < IsnStep => Plus(Base(i) + p, n) = Base(i) + p + n
<1>0. IsnStep \in Nat /\ SeqSpace \in Nat /\ SeqSpace > 0 /\ i \in Nat /\ MaxFlows \in Nat /\ 1 <= i /\ i <= MaxFlows
  BY Space, BoundAssumption DEF FlowIds
<1>1. i * IsnStep \in Int /\ 0 * IsnStep <= i * IsnStep /\ 0 * IsnStep = 0
  BY <1>0, Times
<1>2. i * IsnStep <= MaxFlows * IsnStep /\ MaxFlows * IsnStep \in Int
  BY <1>0, Times
<1>3. (MaxFlows + 1) * IsnStep = MaxFlows * IsnStep + IsnStep
  BY <1>0, OneMore
<1>4. Base(i) \in Nat /\ Base(i) + IsnStep <= SeqSpace
  BY <1>0, <1>1, <1>2, <1>3 DEF Base, ShortConnections
<1>5. Base(i) < SeqSpace \/ IsnStep = 0
  BY <1>0, <1>4
<1>6. OurIsn(i) = Base(i)
  <2>1. CASE IsnStep = 0
    BY <1>0, <1>1, <2>1, ModSmall DEF OurIsn, Base
  <2>2. CASE IsnStep # 0
    BY <1>0, <1>4, <1>5, <2>2, ModSmall DEF OurIsn, Base
  <2> QED
    BY <2>1, <2>2
<1>7. ASSUME NEW p \in 0..(IsnStep - 1), NEW n \in Nat, p + n < IsnStep
      PROVE  Plus(Base(i) + p, n) = Base(i) + p + n
  <2> DEFINE x == Base(i) + p + n
  <2>1. x \in Int /\ 0 <= x /\ x < SeqSpace
    BY <1>0, <1>4, <1>7
  <2>2. Plus(Base(i) + p, n) = x % SeqSpace
    BY DEF Plus
  <2> QED
    BY <2>1, <2>2, ModSmall
<1> QED
  BY <1>4, <1>6, <1>7

LEMMA BasesApart ==
  ASSUME NEW i \in Nat, NEW j \in Nat, NEW p \in Nat, NEW q \in Nat, p < IsnStep, q < IsnStep,
         Base(i) + p = Base(j) + q
  PROVE  i = j /\ p = q
<1>0. IsnStep \in Nat
  BY Space
<1>1. ASSUME NEW a \in Nat, NEW b \in Nat, a < b
      PROVE  a * IsnStep + IsnStep <= b * IsnStep /\ a * IsnStep \in Int /\ b * IsnStep \in Int
  <2>1. (a + 1) * IsnStep <= b * IsnStep /\ b * IsnStep \in Int
    BY <1>0, <1>1, Times
  <2>2. (a + 1) * IsnStep = a * IsnStep + IsnStep /\ a * IsnStep \in Int
    BY <1>0, OneMore
  <2> QED
    BY <2>1, <2>2
<1>2. ~(i < j)
  BY <1>0, <1>1 DEF Base
<1>3. ~(j < i)
  BY <1>0, <1>1 DEF Base
<1>4. i = j
  BY <1>2, <1>3
<1>5. Base(i) \in Int
  BY <1>0 DEF Base
<1> QED
  BY <1>4, <1>5

-----------------------------------------------------------------------------
(* Queues                                                                  *)

LEMMA QueueTail ==
  ASSUME NEW q \in Seq(Segments), q # << >>
  PROVE  /\ Head(q) \in In(q) /\ In(Tail(q)) \subseteq In(q) /\ In(q) \subseteq Segments
         /\ Ordered(q) => Ordered(Tail(q)) /\ \A s \in In(Tail(q)) : Before(Head(q), s)
<1> DEFINE t == Tail(q)
<1>1. Len(q) \in Nat /\ Len(q) >= 1 /\ Head(q) = q[1] /\ \A k \in 1..Len(q) : q[k] \in Segments
  BY HeadTailProperties, LenProperties, ElementOfSeq, EmptySeq
<1>2. Len(t) = Len(q) - 1 /\ \A k \in 1..Len(t) : t[k] = q[k + 1] /\ k + 1 \in 1..Len(q) /\ k \in Nat
  BY <1>1, HeadTailProperties
<1> HIDE DEF t
<1>3. In(t) \subseteq In(q) /\ Head(q) \in In(q) /\ In(q) \subseteq Segments
  BY <1>1, <1>2 DEF In
<1>4. ASSUME Ordered(q)
      PROVE  Ordered(t) /\ \A s \in In(t) : Before(Head(q), s)
  <2>1. \A k, l \in 1..Len(t) : k < l => Before(t[k], t[l])
    <3> SUFFICES ASSUME NEW k \in 1..Len(t), NEW l \in 1..Len(t), k < l
                 PROVE  Before(t[k], t[l])
      OBVIOUS
    <3>1. k + 1 < l + 1
      OBVIOUS
    <3> QED
      BY <1>2, <1>4, <3>1 DEF Ordered
  <2>2. \A k \in 1..Len(t) : Before(Head(q), t[k])
    <3> TAKE k \in 1..Len(t)
    <3>1. 1 \in 1..Len(q) /\ k + 1 \in 1..Len(q) /\ 1 < k + 1
      BY <1>1, <1>2
    <3> QED
      BY <1>1, <1>2, <1>4, <3>1 DEF Ordered
  <2> QED
    BY <2>1, <2>2 DEF Ordered, In
<1> QED
  BY <1>3, <1>4 DEF t

LEMMA QueueAdd ==
  ASSUME NEW q \in Seq(Segments), NEW s \in Segments
  PROVE  /\ In(q \o << s >>) = In(q) \cup {s} /\ In(Append(q, s)) = In(q) \cup {s}
         /\ Ordered(q) /\ (\A t \in In(q) : Before(t, s)) => Ordered(q \o << s >>)
<1> DEFINE u == q \o << s >>
<1>1. << s >> \in Seq(Segments) /\ Len(<< s >>) = 1 /\ << s >>[1] = s
  BY IsASeq
<1>2. Len(q) \in Nat
  BY LenProperties
<1>3. /\ Len(u) = Len(q) + 1 /\ (\A k \in 1..Len(q) : u[k] = q[k]) /\ u[Len(q) + 1] = s
  BY <1>1, <1>2, ConcatProperties
<1>4. Append(q, s) = u
  BY AppendIsConcat
<1> HIDE DEF u
<1>5. In(u) = In(q) \cup {s}
  <2>1. \A k \in 1..Len(u) : k \in 1..Len(q) \/ k = Len(q) + 1
    BY <1>2, <1>3
  <2>2. In(u) \subseteq In(q) \cup {s}
    BY <1>3, <2>1 DEF In
  <2>3. \A k \in 1..Len(q) : k \in 1..Len(u)
    BY <1>2, <1>3
  <2>4. Len(q) + 1 \in 1..Len(u)
    BY <1>2, <1>3
  <2>5. In(q) \subseteq In(u) /\ s \in In(u)
    BY <1>3, <2>3, <2>4 DEF In
  <2> QED
    BY <2>2, <2>5
<1>6. ASSUME Ordered(q), \A t \in In(q) : Before(t, s)
      PROVE  Ordered(u)
  <2> SUFFICES ASSUME NEW k \in 1..Len(u), NEW l \in 1..Len(u), k < l
               PROVE  Before(u[k], u[l])
    BY DEF Ordered
  <2>1. k \in 1..Len(q) /\ u[k] = q[k]
    BY <1>2, <1>3
  <2>2. CASE l \in 1..Len(q)
    BY <1>3, <1>6, <2>1, <2>2 DEF Ordered
  <2>3. CASE l \notin 1..Len(q)
    <3>1. u[l] = s
      BY <1>2, <1>3, <2>3
    <3> QED
      BY <1>6, <2>1, <3>1 DEF In
  <2> QED
    BY <2>2, <2>3
<1> QED
  BY <1>4, <1>5, <1>6 DEF u

LEMMA QueueSame ==
  ASSUME NEW q \in Seq(Segments)
  PROVE  q \o << >> = q
  BY ConcatEmptySeq

-----------------------------------------------------------------------------
(* The pool threads                                                        *)

\* What is true of all steps: what a flow has sent only grows, and ends with its FIN.
SentGrows(f, g) ==
  /\ g.conn = f.conn /\ (f.stream => g.stream) /\ f.read <= g.read /\ SentTo(f) <= SentTo(g)
  /\ (f.stream /\ f.pc \in FinPcs => g.pc \in FinPcs /\ g.read = f.read)

SentGrown == used <= used' /\ \A j \in 1..used : SentGrows(flows[j], flows'[j])

\* What a pool thread does to its flow.
Grows(f, g) ==
  /\ SentGrows(f, g) /\ (g.open <=> f.open) /\ g.wrote = f.wrote /\ g.guestSeq = f.guestSeq
  /\ (g.guestFinSeen <=> f.guestFinSeen) /\ g.guestAcked = f.guestAcked /\ (g.shut <=> f.shut)
  /\ (g.stream => f.stream \/ f.open)
  /\ (ClosedWell(f) => ClosedWell(g))

Grown == \A j \in 1..used : Grows(flows[j], flows'[j])

LEMMA SentToIsInt == \A f \in FlowStates : SentTo(f) \in Nat /\ SentTo(f) >= f.ourSeq /\ f.ourSeq \in Nat
<1> TAKE f \in FlowStates
<1>1. f.ourSeq \in Nat /\ Len(f.buf) \in Nat
  BY SeqNoIsNat, BytesLen DEF FlowStates
<1> QED
  BY <1>1 DEF SentTo

\* A flow made so far is a flow.
LEMMA MadeIsFlow ==
  ASSUME TcpTypeOK, NEW i \in 1..used
  PROVE  i \in FlowIds /\ i \in Nat /\ flows[i] \in FlowStates /\ used \in Nat /\ used <= MaxFlows
  BY BoundAssumption DEF TcpTypeOK, FlowIds

LEMMA GrownWritesOver ==
  ASSUME TcpTypeOK, TcpTypeOK', FlowsHold, FlowsInOrder, Grown,
         \A i \in 1..used : InStep(i, flows[i]) => InStep(i, flows'[i]),
         UNCHANGED << load, used, table, disposed, nat, client, toNat >>
  PROVE  FlowsHold'
<1> SUFFICES ASSUME NEW i \in 1..used
             PROVE  InStep(i, flows[i])' /\ Writes(flows[i])' /\ Over(i)'
  BY DEF FlowsHold
<1> DEFINE f == flows[i]
           g == flows'[i]
<1>1. InStep(i, f) /\ Writes(f) /\ Over(i) /\ Grows(f, g)
  BY DEF FlowsHold, Grown
<1>2. InStep(i, g)
  BY <1>1
<1>3. (InStep(i, flows[i]))'
  BY <1>2 DEF InStep, Counts, Paced
<1>4. Unseen' = Unseen /\ Queued' = Queued
  BY DEF Unseen, Queued
<1>5. /\ g.conn = f.conn /\ g.wrote = f.wrote /\ g.guestSeq = f.guestSeq
      /\ (g.guestFinSeen <=> f.guestFinSeen) /\ (g.shut <=> f.shut) /\ (g.stream => f.stream \/ f.open)
  BY <1>1 DEF Grows, SentGrows
<1>6. Writes(flows[i])'
  <2>0. flows[i]' = g /\ client' = client /\ load' = load
    OBVIOUS
  <2> HIDE DEF g
  <2>1. f.guestFinSeen \in BOOLEAN /\ g.guestFinSeen \in BOOLEAN
    BY <2>0, MadeIsFlow DEF TcpTypeOK, FlowStates, g, FlowIds
  <2>2. g.guestFinSeen = f.guestFinSeen
    BY <1>5, <2>1
  <2>3. Writes(f)
    BY <1>1
  <2> HIDE DEF f
  <2> QED
    BY <1>4, <1>5, <2>0, <2>2, <2>3 DEF Writes
<1>7. f.open => i = table
  BY DEF FlowsInOrder
<1>8. Over(i)'
  BY <1>1, <1>4, <1>5, <1>7 DEF Over, Later
<1> QED
  BY <1>3, <1>6, <1>8

LEMMA QueueIsTyped ==
  ASSUME TcpTypeOK
  PROVE  Queued \subseteq Segments /\ Unseen \subseteq Segments
<1>1. Queued \subseteq Segments
  BY ElementOfSeq DEF TcpTypeOK, Queued, In
<1> QED
  BY <1>1 DEF TcpTypeOK, Unseen

LEMMA GrownAcks ==
  ASSUME TcpTypeOK, TcpTypeOK', AllAcks, Grown, UNCHANGED << load, used, table, disposed, nat, client, toNat >>
  PROVE  AllAcks'
<1>1. Queued' = Queued /\ used' = used
  BY DEF Queued
<1> SUFFICES ASSUME NEW s \in Queued, Acks(s)
             PROVE  AckOf(s)'
  BY <1>1 DEF AllAcks
<1>2. AckOf(s)
  BY DEF AllAcks
<1>3. PICK j \in 1..used : /\ flows[j].stream /\ flows[j].conn = s.from
                           /\ Base(j) < s.ack /\ s.ack <= SentTo(flows[j])
  BY <1>2 DEF AckOf
<1>4. Grows(flows[j], flows'[j])
  BY DEF Grown
<1>5. s.ack \in Nat /\ SentTo(flows[j]) \in Nat /\ SentTo(flows'[j]) \in Nat
  <2>1. s \in Segments
    BY QueueIsTyped
  <2> QED
    BY <2>1, <1>1, MadeIsFlow, SentToIsInt, SeqNoIsNat DEF Segments, TcpTypeOK
<1>6. flows'[j].stream /\ flows'[j].conn = s.from /\ s.ack <= SentTo(flows'[j])
  BY <1>3, <1>4, <1>5 DEF Grows, SentGrows
<1>7. \A i \in 1..used : flows'[i].conn = s.from => flows'[i].guestAcked <= s.ack
  BY <1>2 DEF AckOf, Grown, Grows, SentGrows
<1>8. s.from = client.connects => s.ack <= client.rcv
  BY <1>2 DEF AckOf
<1>9. \E k \in 1..used : /\ flows'[k].stream /\ flows'[k].conn = s.from
                         /\ Base(k) < s.ack /\ s.ack <= SentTo(flows'[k])
  BY <1>3, <1>6
<1>10. used' = used /\ client' = client
  OBVIOUS
<1> QED
  BY <1>7, <1>8, <1>9, <1>10 DEF AckOf, SentTo, Base

\* What was true of a segment, an ack or the guest stays true as flows send more.
LEMMA SendsKept ==
  ASSUME NEW f \in FlowStates, NEW g \in FlowStates, SentGrows(f, g), NEW s \in Segments, s.from \in FlowIds,
         Sends(f, s)
  PROVE  Sends(g, s)
<1>0. /\ SentTo(f) \in Nat /\ SentTo(g) \in Nat /\ f.read \in Nat /\ g.read \in Nat /\ Base(s.from) \in Int
      /\ s.seq \in Nat /\ Len(s.data) \in Nat
  BY SentToIsInt, Space, SeqNoIsNat, BytesLen, BoundAssumption DEF FlowStates, Base, FlowIds, Segments
<1>1. /\ g.conn = f.conn /\ (f.stream => g.stream) /\ f.read <= g.read /\ SentTo(f) <= SentTo(g)
      /\ (f.stream /\ f.pc \in FinPcs => g.pc \in FinPcs /\ g.read = f.read)
  BY DEF SentGrows
<1>2. Syn(s) => SynOf(g, s)
  BY <1>0, <1>1 DEF Sends, SynOf
<1>3. Fin(s) => FinOf(g, s)
  BY <1>1 DEF Sends, FinOf
<1>4. ASSUME IsData(s)
      PROVE  DataOf(g, s)
  <2>1. f.stream
    BY <1>4 DEF Sends, DataOf
  <2>2. PICK p \in 0..f.read : /\ s.seq = Base(s.from) + 1 + p /\ p + Len(s.data) <= f.read
                               /\ s.seq + Len(s.data) <= SentTo(f)
                               /\ s.data = [k \in 1..Len(s.data) |-> << s.from, p + k >>]
    BY <1>4 DEF Sends, DataOf
  <2> DEFINE n == Len(s.data)
             q == s.seq
             m == f.read
             k == SentTo(f)
  <2>3. p \in 0..m /\ p + n <= m /\ q + n <= k /\ n \in Nat /\ m \in Nat
    BY <1>0, <2>2
  <2>4. m <= g.read /\ k <= SentTo(g) /\ q \in Nat /\ k \in Nat
    BY <1>0, <1>1
  <2> HIDE DEF n, q, m, k
  <2>5. p \in 0..g.read /\ p + n <= g.read /\ q + n <= SentTo(g)
    BY <1>0, <2>3, <2>4
  <2> QED
    BY <1>1, <2>1, <2>2, <2>5 DEF DataOf, n, q
<1> QED
  BY <1>2, <1>3, <1>4 DEF Sends

LEMMA DeliversKept ==
  ASSUME TcpTypeOK, TcpTypeOK', SentGrown
  PROVE  \A s \in Segments : Delivers(s) => Delivers(s)'
<1> SUFFICES ASSUME NEW s \in Segments, Delivers(s)
             PROVE  Delivers(s)'
  OBVIOUS
<1>1. s.from \in 1..used /\ Sends(flows[s.from], s)
  BY DEF Delivers
<1>2. s.from \in FlowIds /\ flows[s.from] \in FlowStates /\ flows'[s.from] \in FlowStates /\ s.from \in 1..used'
  BY <1>1, MadeIsFlow, BoundAssumption DEF TcpTypeOK, SentGrown, FlowIds
<1>3. SentGrows(flows[s.from], flows'[s.from])
  BY <1>1 DEF SentGrown
<1>4. Sends(flows'[s.from], s)
  BY <1>1, <1>2, <1>3, SendsKept
<1>5. (Sends(flows[s.from], s))' <=> Sends(flows'[s.from], s)
  BY DEF Sends, SynOf, DataOf, FinOf, SentTo
<1> QED
  BY <1>2, <1>4, <1>5 DEF Delivers

LEMMA FollowsKept ==
  ASSUME NEW f \in FlowStates, NEW f1 \in FlowStates, SentGrows(f, f1), NEW g \in ClientStates, NEW j \in Nat,
         Follows(f, g, j)
  PROVE  Follows(f1, g, j)
<1>1. /\ SentTo(f) \in Nat /\ SentTo(f1) \in Nat /\ f.read \in Nat /\ f1.read \in Nat /\ g.rcv \in Nat
      /\ Len(g.got) \in Nat
  BY SentToIsInt, ClientTyped, SeqNoIsNat, BytesLen DEF FlowStates
<1>2. /\ f1.conn = f.conn /\ (f.stream => f1.stream) /\ f.read <= f1.read /\ SentTo(f) <= SentTo(f1)
      /\ (f.stream /\ f.pc \in FinPcs => f1.pc \in FinPcs /\ f1.read = f.read)
  BY DEF SentGrows
<1> QED
  BY <1>1, <1>2 DEF Follows

LEMMA ClientFollows ==
  ASSUME TcpTypeOK, TcpTypeOK', ClientOK, SentGrown, UNCHANGED << load, client >>
  PROVE  ClientOK'
<1>1. client' = client /\ load' = load /\ client \in ClientStates
  BY DEF TcpTypeOK
<1>2. ASSUME client.st = "Open" \/ client.got # << >> \/ client.finRcvd
      PROVE  \E j \in 1..used' : Follows(flows'[j], client, j)
  <2>1. PICK j \in 1..used : Follows(flows[j], client, j)
    BY <1>2 DEF ClientOK, GuestOK
  <2>2. j \in Nat /\ flows[j] \in FlowStates /\ flows'[j] \in FlowStates /\ j \in 1..used'
    <3>1. j \in FlowIds /\ j \in Nat /\ used \in Nat /\ used' \in Nat /\ used <= used' /\ j <= used /\ 1 <= j
      BY MadeIsFlow, BoundAssumption DEF TcpTypeOK, SentGrown
    <3>2. j \in 1..used'
      BY <3>1
    <3> QED
      BY <3>1, <3>2 DEF TcpTypeOK
  <2>3. Follows(flows'[j], client, j)
    BY <1>1, <2>1, <2>2, FollowsKept DEF SentGrown
  <2> QED
    BY <2>2, <2>3
<1>3. \A j : (Follows(flows[j], client, j))' <=> Follows(flows'[j], client', j)
  BY DEF Follows, SentTo
<1> QED
  BY <1>1, <1>2, <1>3 DEF ClientOK, GuestOK

\* What is in the ring is as flows sent it.
LEMMA DeliverIs == AllDeliver' <=> \A s \in In(toGuest') : s.from \in 1..used' /\ Sends(flows'[s.from], s)
  BY DEF AllDeliver, Delivers, Sends, SynOf, DataOf, FinOf, SentTo, In, Base, GuestPos, Syn, IsData, Fin

LEMMA RingIsTyped ==
  ASSUME TcpTypeOK
  PROVE  In(toGuest) \subseteq Segments
  BY ElementOfSeq DEF TcpTypeOK, In

LEMMA QuietDelivers ==
  ASSUME TcpTypeOK, TcpTypeOK', SentGrown, AllDeliver, In(toGuest') \subseteq In(toGuest)
  PROVE  AllDeliver'
<1> SUFFICES ASSUME NEW s \in In(toGuest')
             PROVE  s.from \in 1..used' /\ Sends(flows'[s.from], s)
  BY DeliverIs
<1>1. s \in Segments /\ Delivers(s)
  BY RingIsTyped DEF AllDeliver
<1>2. Delivers(s)'
  BY <1>1, DeliversKept
<1>3. (Sends(flows[s.from], s))' <=> Sends(flows'[s.from], s)
  BY DEF Sends, SynOf, DataOf, FinOf, SentTo
<1> QED
  BY <1>2, <1>3 DEF Delivers

LEMMA SendDelivers ==
  ASSUME TcpTypeOK, TcpTypeOK', SentGrown, AllDeliver, NEW i \in 1..used', NEW flags \in SUBSET Flags,
         NEW seq \in SeqNos, NEW ack \in SeqNos, NEW data \in Bytes, i \in Nat,
         SendTcpToGuest(i, flags, seq, ack, data), Sends(flows'[i], Segment(i, flags, seq, ack, data))
  PROVE  AllDeliver'
<1> DEFINE s == Segment(i, flags, seq, ack, data)
<1>1. s \in Segments /\ s.from = i
  BY SegmentTyped DEF Segment
<1>2. toGuest \in Seq(Segments)
  BY DEF TcpTypeOK
<1>3. In(toGuest') \subseteq In(toGuest) \cup {s}
  BY <1>1, <1>2, QueueAdd DEF SendTcpToGuest
<1>4. \A t \in In(toGuest) : t.from \in 1..used' /\ Sends(flows'[t.from], t)
  <2> SUFFICES ASSUME NEW t \in In(toGuest)
               PROVE  t.from \in 1..used' /\ Sends(flows'[t.from], t)
    OBVIOUS
  <2>1. t \in Segments /\ Delivers(t)
    BY RingIsTyped DEF AllDeliver
  <2>2. Delivers(t)'
    BY <2>1, DeliversKept
  <2>3. (Sends(flows[t.from], t))' <=> Sends(flows'[t.from], t)
    BY DEF Sends, SynOf, DataOf, FinOf, SentTo
  <2> QED
    BY <2>2, <2>3 DEF Delivers
<1> HIDE DEF s
<1>5. s.from \in 1..used' /\ Sends(flows'[s.from], s)
  BY <1>1 DEF s
<1> QED
  BY <1>3, <1>4, <1>5, DeliverIs

LEMMA GrowsSelf == \A f \in FlowStates : Grows(f, f) /\ SentGrows(f, f)
<1> TAKE f \in FlowStates
<1>1. SentTo(f) \in Nat /\ f.read \in Nat
  BY SentToIsInt DEF FlowStates
<1> QED
  BY <1>1 DEF Grows, SentGrows

LEMMA PoolKeeps ==
  ASSUME TcpTypeOK, TcpTypeOK', StreamInv, NEW i \in 1..used, NEW from, NEW g \in FlowStates,
         Pool(i, from, g), Grows(flows[i], g), InStep(i, g), AllDeliver'
  PROVE  StreamInv'
<1>0. /\ flows' = [flows EXCEPT ![i] = g] /\ UNCHANGED << load, used, table, disposed, nat, client, toNat >>
  BY DEF Pool
<1>1. \A j \in 1..used : j \in FlowIds /\ flows[j] \in FlowStates /\ flows'[j] = IF j = i THEN g ELSE flows[j]
  BY <1>0, MadeIsFlow DEF TcpTypeOK
<1>2. Grown
  BY <1>1, GrowsSelf DEF Grown
<1>3. SentGrown
  BY <1>0, <1>2, MadeIsFlow, BoundAssumption DEF SentGrown, Grown, Grows, TcpTypeOK
<1>4. \A j \in 1..used : InStep(j, flows[j]) => InStep(j, flows'[j])
  BY <1>1
<1>5. FlowsHold'
  BY <1>0, <1>2, <1>4, GrownWritesOver DEF StreamInv
<1>6. AllAcks'
  BY <1>0, <1>2, GrownAcks DEF StreamInv
<1>7. ClientOK'
  BY <1>0, <1>3, ClientFollows DEF StreamInv
<1>8. Unseen' = Unseen /\ Queued' = Queued
  BY <1>0 DEF Unseen, Queued
<1>9. AllFormed'
  BY <1>0, <1>8 DEF StreamInv, AllFormed, Formed
<1>10. InOrder'
  BY <1>0, <1>8 DEF StreamInv, InOrder, Later
<1>11. ClientAcks'
  BY <1>0, <1>2 DEF StreamInv, ClientAcks, Grown, Grows, SentGrows
<1>12. FlowsInOrder'
  <2>0. FlowsInOrder /\ used' = used /\ table' = table /\ used \in Nat /\ table \in {0, used}
    BY <1>0, BoundAssumption DEF StreamInv, TcpTypeOK
  <2>1. \A j \in 1..used : /\ flows'[j].conn = flows[j].conn /\ (flows'[j].open <=> flows[j].open)
                           /\ (flows'[j].guestFinSeen <=> flows[j].guestFinSeen)
                           /\ (flows'[j].stream => flows[j].stream \/ flows[j].open)
                           /\ (ClosedWell(flows[j]) => ClosedWell(flows'[j]))
    BY <1>2 DEF Grown, Grows, SentGrows
  <2>2. \A k \in 1..used : \A s \in Queued : flows'[k].conn <= s.from
    BY <2>0, <2>1 DEF FlowsInOrder
  <2>3. \A k, j \in 1..used : j < k /\ flows'[j].stream => flows'[j].conn < flows'[k].conn
    <3> SUFFICES ASSUME NEW k \in 1..used, NEW j \in 1..used, j < k, flows'[j].stream
                 PROVE  flows[j].conn < flows[k].conn
      BY <2>1
    <3>1. ~flows[j].open
      BY <2>0 DEF FlowsInOrder
    <3> QED
      BY <2>0, <2>1, <3>1 DEF FlowsInOrder
  <2>4. \A k \in 1..used : flows'[k].open <=> table = k
    BY <2>0, <2>1 DEF FlowsInOrder
  <2>5. \A k \in 1..used : ClosedWell(flows'[k])
    BY <2>0, <2>1 DEF FlowsInOrder
  <2>6. \A k \in 1..used : ClosedWell(flows'[k]) <=> (ClosedWell(flows[k]))'
    BY DEF ClosedWell
  <2> QED
    BY <1>8, <2>0, <2>2, <2>3, <2>4, <2>5, <2>6 DEF FlowsInOrder
<1> QED
  BY <1>5, <1>6, <1>7, <1>9, <1>10, <1>11, <1>12 DEF StreamInv

-----------------------------------------------------------------------------
(* Each step of a pool thread                                              *)

\* The fields no pool thread writes.
SameGuestSide(f, g) ==
  /\ g.conn = f.conn /\ (g.open <=> f.open) /\ g.wrote = f.wrote /\ g.guestSeq = f.guestSeq
  /\ (g.guestFinSeen <=> f.guestFinSeen) /\ g.guestAcked = f.guestAcked /\ (g.shut <=> f.shut)

\* The numbers of a flow's own side.
LEMMA Numbers ==
  ASSUME ShortConnections, TcpTypeOK, NEW i \in FlowIds, NEW f \in FlowStates
  PROVE  /\ f.ourSeq \in Nat /\ f.read \in Nat /\ f.guestAcked \in Nat /\ Len(f.buf) \in Nat
         /\ Base(i) \in Nat /\ Base(i) + IsnStep <= SeqSpace /\ SeqSpace \in Nat /\ IsnStep \in Nat
         /\ load.remoteBytes \in Nat /\ load.remoteBytes + 2 < IsnStep
         /\ Window \in Nat /\ MaxSegment \in Nat /\ MaxSegment >= 1
         /\ SentTo(f) \in Nat
<1>1. load.remoteBytes \in Nat /\ load.remoteBytes + 2 < IsnStep
  BY LoadAssumption DEF TcpTypeOK, ShortConnections
<1>2. f.ourSeq \in Nat /\ f.read \in Nat /\ f.guestAcked \in Nat /\ Len(f.buf) \in Nat
  BY SeqNoIsNat, BytesLen DEF FlowStates
<1> QED
  BY <1>1, <1>2, BaseLies, SentToIsInt, Space, WindowAssumption

\* The flow's count after n more.
LEMMA CountOf ==
  ASSUME ShortConnections, TcpTypeOK, NEW i \in FlowIds, NEW f \in FlowStates, NEW n \in Nat,
         Base(i) <= f.ourSeq, f.ourSeq + n <= Base(i) + 2 + load.remoteBytes
  PROVE  Plus(f.ourSeq, n) = f.ourSeq + n
<1> DEFINE x == f.ourSeq + n
<1>1. x \in Int /\ 0 <= x /\ x < SeqSpace
  BY SMTT(60), Numbers
<1> QED
  BY <1>1, ModSmall DEF Plus

\* A step that only moves on.
LEMMA MoveOn ==
  ASSUME ShortConnections, TcpTypeOK, NEW i \in FlowIds, NEW f \in FlowStates, NEW g \in FlowStates,
         InStep(i, f), SameGuestSide(f, g), g.read = f.read, g.buf = f.buf,
         \/ /\ f.pc = "Connect" /\ g.pc = "SynAck" /\ f.open /\ g.stream /\ g.ourSeq = f.ourSeq
            /\ (g.closed <=> f.closed)
         \/ /\ f.pc = "Connect" /\ g.pc = "Refused" /\ ~g.stream /\ g.ourSeq = f.ourSeq /\ (g.closed <=> f.closed)
         \/ /\ f.pc = "Refused" /\ g.pc = "Done" /\ ~g.stream /\ g.ourSeq = f.ourSeq
  PROVE  Grows(f, g) /\ InStep(i, g)
<1>1. /\ f.ourSeq \in Nat /\ f.read \in Nat /\ f.guestAcked \in Nat /\ Base(i) \in Nat
      /\ Window \in Nat /\ MaxSegment \in Nat /\ g.ourSeq \in Nat
  BY Numbers
<1>2. Counts(i, f) /\ Paced(i, f)
  BY DEF InStep
<1>3. ~f.stream /\ f.ourSeq = Base(i) /\ f.read = 0
  BY <1>2 DEF Counts
<1>4. SentTo(f) = f.ourSeq /\ SentTo(g) = g.ourSeq
  BY <1>1 DEF SentTo
<1>5. f.guestAcked = Base(i)
  BY <1>1, <1>2, <1>3, <1>4 DEF Paced
<1>6. Grows(f, g)
  BY <1>1, <1>3, <1>4 DEF Grows, SentGrows, SameGuestSide, ClosedWell
<1>7. g.ourSeq = Base(i) /\ g.read = 0 /\ g.guestAcked = Base(i)
  BY <1>3, <1>5 DEF SameGuestSide
<1>8. Counts(i, g)
  BY <1>2, <1>3, <1>7 DEF Counts
<1>9. Paced(i, g)
  BY <1>1, <1>4, <1>7 DEF Paced
<1> QED
  BY <1>6, <1>8, <1>9 DEF InStep

\* From the SYN-ACK to the first read, and from the FIN to the end: the count moves by one.
LEMMA CountMoves ==
  ASSUME ShortConnections, TcpTypeOK, NEW i \in FlowIds, NEW f \in FlowStates, NEW g \in FlowStates,
         InStep(i, f), SameGuestSide(f, g), g.read = f.read, g.buf = f.buf, (g.stream <=> f.stream),
         \/ f.pc = "SynAck" /\ g.pc = "CountSyn" /\ g.ourSeq = f.ourSeq /\ (g.closed <=> f.closed)
         \/ f.pc = "CountSyn" /\ g.pc = "Pace" /\ g.ourSeq = Plus(f.ourSeq, 1) /\ (g.closed <=> f.closed)
         \/ f.pc = "Finish" /\ g.pc = "CountFin" /\ g.ourSeq = f.ourSeq /\ (g.closed <=> f.closed)
         \/ f.pc = "CountFin" /\ g.pc = "MarkFin" /\ g.ourSeq = Plus(f.ourSeq, 1) /\ (g.closed <=> f.closed)
         \/ f.pc = "MarkFin" /\ g.pc = "CheckFin" /\ g.ourSeq = f.ourSeq /\ (g.closed <=> f.closed)
         \/ /\ f.pc = "CheckFin" /\ g.pc = "Done" /\ g.ourSeq = f.ourSeq
            /\ (g.closed <=> f.closed \/ f.guestFinSeen)
  PROVE  Grows(f, g) /\ InStep(i, g)
<1>1. /\ f.ourSeq \in Nat /\ f.read \in Nat /\ f.guestAcked \in Nat /\ Base(i) \in Nat
      /\ Window \in Nat /\ MaxSegment \in Nat /\ g.ourSeq \in Nat /\ MaxSegment >= 1 /\ load.remoteBytes \in Nat
  BY Numbers
<1>2. Counts(i, f) /\ Paced(i, f)
  BY DEF InStep
<1>3. f.stream /\ g.stream /\ f.read <= load.remoteBytes
  BY <1>2 DEF Counts
<1>4. f.pc \in {"CountSyn", "CountFin"} => Plus(f.ourSeq, 1) = f.ourSeq + 1
  <2>1. f.pc \in {"CountSyn", "CountFin"} => Base(i) <= f.ourSeq /\ f.ourSeq + 1 <= Base(i) + 2 + load.remoteBytes
    BY SMTT(60), <1>1, <1>2 DEF Counts
  <2> QED
    BY <2>1, CountOf
<1>5. /\ f.pc \in {"CountSyn", "CountFin"} => SentTo(f) = f.ourSeq + 1
      /\ f.pc \notin {"CountSyn", "CountFin"} => SentTo(f) = f.ourSeq
      /\ g.pc \in {"CountSyn", "CountFin"} => SentTo(g) = g.ourSeq + 1
      /\ g.pc \notin {"CountSyn", "CountFin"} => SentTo(g) = g.ourSeq
  BY <1>1 DEF SentTo
<1>6. SentTo(f) <= SentTo(g)
  BY <1>1, <1>4, <1>5
<1>7. SentGrows(f, g)
  BY <1>1, <1>3, <1>6 DEF SentGrows, SameGuestSide, FinPcs
<1>8. ClosedWell(f) => ClosedWell(g)
  BY <1>3 DEF ClosedWell, SameGuestSide
<1>9. Grows(f, g)
  BY <1>3, <1>7, <1>8 DEF Grows, SameGuestSide
<1>10. Counts(i, g)
  <2>1. g.pc \in {"CountSyn", "Pace"} => g.read = 0 /\ g.ourSeq = IF g.pc = "Pace" THEN Base(i) + 1 ELSE Base(i)
    BY <1>1, <1>2, <1>4 DEF Counts
  <2>2. g.pc = "CountFin" => g.ourSeq = Base(i) + 1 + g.read
    BY <1>2 DEF Counts
  <2>3. g.pc \in {"MarkFin", "CheckFin", "Done"} => g.ourSeq = Base(i) + 2 + g.read
    <3>1. f.pc = "CountFin" => f.ourSeq = Base(i) + 1 + f.read
      BY <1>2 DEF Counts
    <3>2. f.pc \in {"MarkFin", "CheckFin"} => f.ourSeq = Base(i) + 2 + f.read
      BY <1>2 DEF Counts
    <3> QED
      BY <1>1, <1>4, <3>1, <3>2
  <2>4. g.pc \in {"CountSyn", "Pace", "CountFin", "MarkFin", "CheckFin", "Done"} /\ g.read <= load.remoteBytes
    BY <1>3
  <2> QED
    BY <1>1, <1>3, <2>1, <2>2, <2>3, <2>4 DEF Counts
<1>11. Paced(i, g)
  <2>1. g.guestAcked = f.guestAcked /\ Base(i) <= f.guestAcked /\ f.guestAcked <= SentTo(f)
    BY <1>2 DEF Paced, SameGuestSide
  <2>2. g.guestAcked <= SentTo(g) /\ SentTo(f) \in Nat /\ SentTo(g) \in Nat
    BY <1>1, <1>6, <2>1, SentToIsInt
  <2>3. g.pc = "Pace" => g.ourSeq = Base(i) + 1
    BY <1>2, <1>4 DEF Counts
  <2> QED
    BY <1>1, <2>1, <2>2, <2>3 DEF Paced
<1> QED
  BY <1>9, <1>10, <1>11 DEF InStep

\* The guest's acks are not ahead: the unsigned difference is the difference.
LEMMA BehindIs ==
  ASSUME ShortConnections, TcpTypeOK, NEW i \in FlowIds, NEW f \in FlowStates, InStep(i, f), f.pc = "Pace"
  PROVE  Behind(f.ourSeq, f.guestAcked) = f.ourSeq - f.guestAcked /\ f.ourSeq >= f.guestAcked
<1> DEFINE x == f.ourSeq - f.guestAcked
<1>1. /\ f.ourSeq \in Nat /\ f.read \in Nat /\ f.guestAcked \in Nat /\ Base(i) \in Nat
      /\ load.remoteBytes \in Nat /\ load.remoteBytes + 2 < IsnStep /\ Base(i) + IsnStep <= SeqSpace
      /\ IsnStep \in Nat /\ SeqSpace \in Nat
  BY Numbers
<1>2. f.ourSeq = Base(i) + 1 + f.read /\ f.read <= load.remoteBytes
  BY DEF InStep, Counts
<1>3. SentTo(f) = f.ourSeq
  BY <1>1 DEF SentTo
<1>4. Base(i) <= f.guestAcked /\ f.guestAcked <= f.ourSeq
  BY <1>3 DEF InStep, Paced
<1>5. x \in Int /\ 0 <= x /\ x < SeqSpace
  BY <1>1, <1>2, <1>4
<1> QED
  BY <1>1, <1>4, <1>5, ModSmall DEF Behind

LEMMA LastByte ==
  \A b, r, l, m, q \in Nat : q = b + 1 + r - l /\ l <= r /\ r <= m => b <= q /\ q + l <= b + 2 + m
  OBVIOUS

LEMMA CountedData ==
  ASSUME ShortConnections, TcpTypeOK, NEW i \in FlowIds, NEW f \in FlowStates, InStep(i, f), f.pc = "Count"
  PROVE  AfterData(f) = f.ourSeq + Len(f.buf)
<1> DEFINE b == Base(i)
           r == f.read
           l == Len(f.buf)
           m == load.remoteBytes
           q == f.ourSeq
<1>1. b \in Nat /\ r \in Nat /\ l \in Nat /\ m \in Nat /\ q \in Nat
  BY Numbers
<1>2. q = b + 1 + r - l /\ l <= r /\ r <= m
  BY DEF InStep, Counts
<1> HIDE DEF b, r, l, m, q
<1>3. b <= q /\ q + l <= b + 2 + m
  BY <1>1, <1>2, LastByte
<1>4. Base(i) <= f.ourSeq /\ f.ourSeq + Len(f.buf) <= Base(i) + 2 + load.remoteBytes /\ Len(f.buf) \in Nat
  BY <1>1, <1>3 DEF b, r, l, m, q
<1> QED
  BY <1>4, CountOf DEF AfterData

\* The receive loop: the window is checked, bytes are read, sent and counted.
LEMMA LoopMoves ==
  ASSUME ShortConnections, TcpTypeOK, NEW i \in FlowIds, NEW f \in FlowStates, NEW g \in FlowStates,
         InStep(i, f), SameGuestSide(f, g), (g.stream <=> f.stream), (g.closed <=> f.closed),
         \/ /\ f.pc = "Pace" /\ g.pc = "Read" /\ MayRead(f)
            /\ g.ourSeq = f.ourSeq /\ g.read = f.read /\ g.buf = f.buf
         \/ /\ f.pc = "Read" /\ g.pc = "Finish" /\ g.ourSeq = f.ourSeq /\ g.read = f.read /\ g.buf = f.buf
         \/ /\ f.pc = "Read" /\ g.pc = "Send" /\ g.ourSeq = f.ourSeq
            /\ \E n \in 1..MaxSegment :
                 /\ f.read + n <= load.remoteBytes /\ g.read = f.read + n
                 /\ g.buf = [k \in 1..n |-> << i, f.read + k >>]
         \/ /\ f.pc = "Send" /\ g.pc = "Count" /\ g.ourSeq = f.ourSeq /\ g.read = f.read /\ g.buf = f.buf
         \/ f.pc = "Count" /\ g.pc = "Pace" /\ g.ourSeq = AfterData(f) /\ g.read = f.read
  PROVE  Grows(f, g) /\ InStep(i, g)
<1>1. /\ f.ourSeq \in Nat /\ f.read \in Nat /\ f.guestAcked \in Nat /\ Base(i) \in Nat /\ g.read \in Nat
      /\ Window \in Nat /\ MaxSegment \in Nat /\ g.ourSeq \in Nat /\ MaxSegment >= 1 /\ load.remoteBytes \in Nat
      /\ Len(f.buf) \in Nat /\ Len(g.buf) \in Nat /\ SentTo(f) \in Nat /\ SentTo(g) \in Nat
  BY Numbers
<1>2. Counts(i, f) /\ Paced(i, f)
  BY DEF InStep
<1>3. f.stream /\ g.stream /\ f.read <= load.remoteBytes
  BY <1>2 DEF Counts
<1>4. /\ f.pc = "Count" => SentTo(f) = f.ourSeq + Len(f.buf)
      /\ f.pc # "Count" => SentTo(f) = f.ourSeq
      /\ g.pc = "Count" => SentTo(g) = g.ourSeq + Len(g.buf)
      /\ g.pc # "Count" => SentTo(g) = g.ourSeq
  <2>1. \A h \in {f, g} : h.pc \in {"Pace", "Read", "Send", "Count", "Finish"} => h.ourSeq + 0 = h.ourSeq
    BY <1>1
  <2>2. /\ f.pc \in {"Pace", "Read", "Send", "Count"} /\ g.pc \in {"Pace", "Read", "Send", "Count", "Finish"}
    OBVIOUS
  <2> QED
    BY ONLY <1>1, <2>1, <2>2 DEF SentTo
<1>5. f.pc = "Count" => AfterData(f) = f.ourSeq + Len(f.buf)
  BY CountedData
<1>6. SentTo(f) <= SentTo(g) /\ f.read <= g.read
  <2>1. CASE f.pc = "Read" /\ g.pc = "Send"
    <3>1. PICK n \in 1..MaxSegment : g.read = f.read + n /\ g.ourSeq = f.ourSeq
      BY <2>1
    <3> QED
      BY <1>1, <1>4, <2>1, <3>1
  <2>2. CASE ~(f.pc = "Read" /\ g.pc = "Send")
    BY <1>1, <1>4, <1>5, <2>2
  <2> QED
    BY <2>1, <2>2
<1>7. SentGrows(f, g)
  BY <1>1, <1>3, <1>6 DEF SentGrows, SameGuestSide, FinPcs
<1>8. ClosedWell(f) => ClosedWell(g)
  BY <1>3 DEF ClosedWell, SameGuestSide
<1>9. Grows(f, g)
  BY <1>3, <1>7, <1>8 DEF Grows, SameGuestSide
<1>10. Counts(i, g)
  <2>1. CASE f.pc = "Pace" \/ g.pc = "Finish"
    BY <1>1, <1>2, <1>3, <2>1 DEF Counts
  <2>2. CASE f.pc = "Send"
    <3>1. g.read = f.read /\ g.buf = f.buf /\ g.ourSeq = f.ourSeq /\ g.pc = "Count"
      BY <2>2
    <3> QED
      BY <1>2, <1>3, <2>2, <3>1 DEF Counts
  <2>3. CASE f.pc = "Count"
    <3>1. f.ourSeq = Base(i) + 1 + f.read - Len(f.buf) /\ g.ourSeq = f.ourSeq + Len(f.buf) /\ g.pc = "Pace"
          /\ g.read = f.read
      BY <1>2, <1>5, <2>3 DEF Counts
    <3>2. g.ourSeq = Base(i) + 1 + g.read
      BY <1>1, <3>1
    <3> QED
      BY <1>3, <3>1, <3>2 DEF Counts
  <2>4. CASE f.pc = "Read" /\ g.pc = "Send"
    <3>1. PICK n \in 1..MaxSegment : /\ f.read + n <= load.remoteBytes /\ g.read = f.read + n
                                     /\ g.buf = [k \in 1..n |-> << i, f.read + k >>]
      BY <2>4
    <3>2. Len(g.buf) = n /\ n \in Nat
      BY <1>1, <3>1
    <3>3. g.read - n = f.read /\ n <= g.read
      BY <1>1, <3>1, <3>2
    <3>4. g.buf = [k \in 1..Len(g.buf) |-> << i, g.read - Len(g.buf) + k >>]
      BY <3>1, <3>2, <3>3
    <3>5. f.ourSeq = Base(i) + 1 + f.read /\ g.ourSeq = f.ourSeq
      BY <1>2, <2>4 DEF Counts
    <3>6. g.ourSeq = Base(i) + 1 + g.read - Len(g.buf)
      BY <1>1, <3>1, <3>2, <3>5
    <3> QED
      BY <1>3, <2>4, <3>1, <3>2, <3>3, <3>4, <3>6 DEF Counts
  <2> QED
    BY <2>1, <2>2, <2>3, <2>4
<1>11. Paced(i, g)
  <2>1. g.guestAcked = f.guestAcked /\ Base(i) <= f.guestAcked /\ f.guestAcked <= SentTo(f)
    BY <1>2 DEF Paced, SameGuestSide
  <2>2. g.guestAcked <= SentTo(g)
    BY <1>1, <1>6, <2>1
  <2>3. f.pc \in {"Read", "Send", "Count"} => f.ourSeq <= f.guestAcked + Window
    BY <1>2 DEF Paced
  <2>4. g.pc = "Read" => g.ourSeq <= f.guestAcked + Window
    BY <1>1, BehindIs DEF MayRead
  <2>5. g.pc = "Pace" => g.ourSeq <= f.guestAcked + Window + MaxSegment
    <3> SUFFICES ASSUME g.pc = "Pace"
                 PROVE  g.ourSeq <= f.guestAcked + Window + MaxSegment
      OBVIOUS
    <3>1. f.pc = "Count" /\ g.ourSeq = f.ourSeq + Len(f.buf) /\ Len(f.buf) <= MaxSegment
      BY <1>1, <1>2, <1>5 DEF Counts
    <3> QED
      BY ONLY <1>1, <2>3, <3>1
  <2> QED
    BY <1>1, <2>1, <2>2, <2>3, <2>4, <2>5 DEF Paced
<1> QED
  BY <1>9, <1>10, <1>11 DEF InStep

\* What a pool thread's step makes of its flow.
LEMMA PoolIs ==
  ASSUME TcpTypeOK, TcpTypeOK', StreamInv, NEW i \in 1..used, NEW from, NEW g, Pool(i, from, g)
  PROVE  /\ flows[i].pc = from /\ flows'[i] = g /\ g \in FlowStates /\ flows[i] \in FlowStates
         /\ i \in FlowIds /\ i \in Nat /\ InStep(i, flows[i]) /\ Writes(flows[i]) /\ used' = used
<1>1. i \in FlowIds /\ i \in Nat /\ flows[i] \in FlowStates
  BY MadeIsFlow
<1>2. flows[i].pc = from /\ flows' = [flows EXCEPT ![i] = g] /\ used' = used
  BY DEF Pool
<1>3. flows'[i] = g /\ flows'[i] \in FlowStates
  BY <1>1, <1>2 DEF TcpTypeOK
<1> QED
  BY <1>1, <1>2, <1>3 DEF StreamInv, FlowsHold

LEMMA PoolGrown ==
  ASSUME TcpTypeOK, TcpTypeOK', StreamInv, NEW i \in 1..used, NEW from, NEW g, Pool(i, from, g),
         SentGrows(flows[i], g)
  PROVE  SentGrown
<1>1. flows' = [flows EXCEPT ![i] = g] /\ used' = used /\ used \in Nat
  BY BoundAssumption DEF Pool, TcpTypeOK
<1>2. ASSUME NEW j \in 1..used
      PROVE  SentGrows(flows[j], flows'[j])
  <2>1. j \in FlowIds /\ flows[j] \in FlowStates /\ flows'[j] = IF j = i THEN g ELSE flows[j]
    BY <1>1, MadeIsFlow DEF TcpTypeOK
  <2> QED
    BY <2>1, GrowsSelf
<1> QED
  BY <1>1, <1>2 DEF SentGrown

LEMMA PoolMoves ==
  ASSUME TcpTypeOK, TcpTypeOK', StreamInv, NEW i \in 1..used, NEW from, NEW g, Pool(i, from, g),
         Grows(flows[i], g), InStep(i, g), Quiet
  PROVE  StreamInv'
<1>1. SentGrown
  BY PoolGrown DEF Grows
<1>2. In(toGuest') \subseteq In(toGuest)
  BY DEF Quiet
<1>3. AllDeliver'
  BY <1>1, <1>2, QuietDelivers DEF StreamInv
<1> QED
  BY <1>3, PoolIs, PoolKeeps

LEMMA PoolSends ==
  ASSUME TcpTypeOK, TcpTypeOK', StreamInv, NEW i \in 1..used, NEW from, NEW g, Pool(i, from, g),
         Grows(flows[i], g), InStep(i, g), NEW flags \in SUBSET Flags, NEW seq \in SeqNos,
         NEW ack \in SeqNos, NEW data \in Bytes, SendTcpToGuest(i, flags, seq, ack, data),
         Sends(g, Segment(i, flags, seq, ack, data))
  PROVE  StreamInv'
<1>1. SentGrown
  BY PoolGrown DEF Grows
<1>2. i \in 1..used' /\ i \in Nat /\ flows'[i] = g /\ g \in FlowStates
  BY PoolIs
<1>3. Sends(flows'[i], Segment(i, flags, seq, ack, data))
  BY <1>2
<1>4. AllDeliver'
  BY <1>1, <1>2, <1>3, SendDelivers DEF StreamInv
<1> QED
  BY <1>2, <1>4, PoolKeeps

LEMMA ConnectKeeps ==
  ASSUME ShortConnections, TcpTypeOK, TcpTypeOK', StreamInv, NEW i \in 1..used,
         Connected(i) \/ ConnectFails(i) \/ Refused(i)
  PROVE  StreamInv'
<1> DEFINE f == flows[i]
<1>0. f \in FlowStates /\ i \in FlowIds /\ InStep(i, f) /\ f.guestSeq \in SeqNos
  BY MadeIsFlow DEF StreamInv, FlowsHold, FlowStates
<1>1. CASE Connected(i)
  <2> DEFINE g == [At(i, "SynAck") EXCEPT !.stream = TRUE]
  <2>1. Pool(i, "Connect", g) /\ Quiet /\ f.open
    BY <1>1 DEF Connected
  <2>2. g \in FlowStates /\ f.pc = "Connect"
    BY <2>1, PoolIs
  <2>3. /\ SameGuestSide(f, g) /\ g.read = f.read /\ g.buf = f.buf /\ g.pc = "SynAck" /\ g.stream
        /\ g.ourSeq = f.ourSeq /\ (g.closed <=> f.closed)
    BY <1>0 DEF At, FlowStates, SameGuestSide
  <2> HIDE DEF g
  <2>4. Grows(f, g) /\ InStep(i, g)
    BY <1>0, <2>1, <2>2, <2>3, MoveOn
  <2> QED
    BY <2>1, <2>4, PoolMoves
<1>2. CASE ConnectFails(i)
  <2> DEFINE g == At(i, "Refused")
             s == Segment(i, {"RST", "ACK"}, 0, f.guestSeq, << >>)
  <2>1. Pool(i, "Connect", g) /\ SendTcpToGuest(i, {"RST", "ACK"}, 0, f.guestSeq, << >>)
    BY <1>2 DEF ConnectFails
  <2>2. g \in FlowStates /\ f.pc = "Connect"
    BY <2>1, PoolIs
  <2>3. /\ SameGuestSide(f, g) /\ g.read = f.read /\ g.buf = f.buf /\ g.pc = "Refused" /\ g.stream = f.stream
        /\ g.ourSeq = f.ourSeq /\ (g.closed <=> f.closed)
    BY <1>0 DEF At, FlowStates, SameGuestSide
  <2> HIDE DEF g
  <2>4. ~f.stream
    BY <1>0, <2>2 DEF InStep, Counts
  <2>5. Grows(f, g) /\ InStep(i, g)
    BY <1>0, <2>1, <2>2, <2>3, <2>4, MoveOn
  <2>6. Sends(g, s)
    BY DEF Sends, Segment, Syn, IsData, Fin
  <2>7. {"RST", "ACK"} \in SUBSET Flags /\ 0 \in SeqNos /\ << >> \in Bytes
    BY Space, NoBytes DEF Flags
  <2> QED
    BY <1>0, <2>1, <2>5, <2>6, <2>7, PoolSends
<1>3. CASE Refused(i)
  <2> DEFINE g == [At(i, "Done") EXCEPT !.closed = TRUE]
  <2>1. Pool(i, "Refused", g) /\ Quiet
    BY <1>3 DEF Refused
  <2>2. g \in FlowStates /\ f.pc = "Refused"
    BY <2>1, PoolIs
  <2>3. /\ SameGuestSide(f, g) /\ g.read = f.read /\ g.buf = f.buf /\ g.pc = "Done" /\ g.stream = f.stream
        /\ g.ourSeq = f.ourSeq
    BY <1>0 DEF At, FlowStates, SameGuestSide
  <2> HIDE DEF g
  <2>4. ~f.stream
    BY <1>0, <2>2 DEF InStep, Counts
  <2>5. Grows(f, g) /\ InStep(i, g)
    BY <1>0, <2>1, <2>2, <2>3, <2>4, MoveOn
  <2> QED
    BY <2>1, <2>5, PoolMoves
<1> QED
  BY <1>1, <1>2, <1>3

\* What the flow has acknowledged is a position of its connection.
LEMMA GuestSeqIs ==
  ASSUME ShortConnections, TcpTypeOK, NEW f \in FlowStates, Writes(f)
  PROVE  \E p \in 1..(IsnStep - 1) : f.guestSeq = GuestPos(f.conn, p)
<1>1. load.guestBytes \in Nat /\ load.guestBytes + 2 < IsnStep /\ IsnStep \in Nat
  BY LoadAssumption, Space DEF TcpTypeOK, ShortConnections
<1>2. Len(f.wrote) \in Nat
  BY BytesLen DEF FlowStates
<1> DEFINE p == Len(f.wrote) + IF f.guestFinSeen THEN 2 ELSE 1
<1>3. f.guestSeq = GuestPos(f.conn, p) /\ Len(f.wrote) <= load.guestBytes
  BY DEF Writes
<1>4. p \in 1..(IsnStep - 1)
  <2>1. p = Len(f.wrote) + 2 \/ p = Len(f.wrote) + 1
    OBVIOUS
  <2> HIDE DEF p
  <2> QED
    BY <1>1, <1>2, <1>3, <2>1
<1> QED
  BY <1>3, <1>4

LEMMA SynAckKeeps ==
  ASSUME ShortConnections, TcpTypeOK, TcpTypeOK', StreamInv, NEW i \in 1..used,
         SendSynAck(i) \/ CountSyn(i)
  PROVE  StreamInv'
<1> DEFINE f == flows[i]
<1>0. /\ f \in FlowStates /\ i \in FlowIds /\ InStep(i, f) /\ f.guestSeq \in SeqNos /\ f.ourSeq \in SeqNos
      /\ f.buf \in Bytes
  BY MadeIsFlow DEF StreamInv, FlowsHold, FlowStates
<1>1. CASE SendSynAck(i)
  <2> DEFINE g == At(i, "CountSyn")
             s == Segment(i, {"SYN", "ACK"}, f.ourSeq, f.guestSeq, << >>)
  <2>1. Pool(i, "SynAck", g) /\ SendTcpToGuest(i, {"SYN", "ACK"}, f.ourSeq, f.guestSeq, << >>)
    BY <1>1 DEF SendSynAck
  <2>2. g \in FlowStates /\ f.pc = "SynAck"
    BY <2>1, PoolIs
  <2>3. /\ SameGuestSide(f, g) /\ g.read = f.read /\ g.buf = f.buf /\ g.pc = "CountSyn" /\ g.stream = f.stream
        /\ g.ourSeq = f.ourSeq /\ (g.closed <=> f.closed)
    BY <1>0 DEF At, FlowStates, SameGuestSide
  <2> HIDE DEF g
  <2>4. Grows(f, g) /\ InStep(i, g)
    BY <1>0, <2>1, <2>2, <2>3, CountMoves
  <2>5. /\ f.stream /\ f.ourSeq = Base(i) /\ SentTo(g) = f.ourSeq + 1 /\ Base(i) \in Nat
        /\ \E p \in 1..(IsnStep - 1) : f.guestSeq = GuestPos(g.conn, p)
    <3>1. f.stream /\ f.ourSeq = Base(i)
      BY <1>0, <2>2 DEF InStep, Counts
    <3>2. SentTo(g) = f.ourSeq + 1 /\ Base(i) \in Nat
      BY <1>0, <2>2, <2>3, Numbers DEF SentTo
    <3>3. Writes(f)
      BY DEF StreamInv, FlowsHold
    <3> QED
      BY <1>0, <2>3, <3>1, <3>2, <3>3, GuestSeqIs DEF SameGuestSide
  <2>8. s.from = i /\ s.seq = f.ourSeq /\ s.ack = f.guestSeq /\ s.data = << >> /\ s.flags = {"SYN", "ACK"}
    BY DEF Segment
  <2> HIDE DEF s
  <2>9. SynOf(g, s) /\ ~IsData(s) /\ ~Fin(s)
    BY <2>3, <2>5, <2>8 DEF SynOf, IsData, Fin
  <2>6. Sends(g, Segment(i, {"SYN", "ACK"}, f.ourSeq, f.guestSeq, << >>))
    BY <2>9 DEF Sends, s
  <2>7. {"SYN", "ACK"} \in SUBSET Flags /\ << >> \in Bytes
    BY NoBytes DEF Flags
  <2> QED
    BY <1>0, <2>1, <2>4, <2>6, <2>7, PoolSends
<1>2. CASE CountSyn(i)
  <2> DEFINE g == [At(i, "Pace") EXCEPT !.ourSeq = Plus(@, 1)]
  <2>1. Pool(i, "CountSyn", g) /\ Quiet
    BY <1>2 DEF CountSyn
  <2>2. g \in FlowStates /\ f.pc = "CountSyn"
    BY <2>1, PoolIs
  <2>3. /\ SameGuestSide(f, g) /\ g.read = f.read /\ g.buf = f.buf /\ g.pc = "Pace" /\ g.stream = f.stream
        /\ g.ourSeq = Plus(f.ourSeq, 1) /\ (g.closed <=> f.closed)
    BY <1>0 DEF At, FlowStates, SameGuestSide
  <2> HIDE DEF g
  <2>4. Grows(f, g) /\ InStep(i, g)
    BY <1>0, <2>1, <2>2, <2>3, CountMoves
  <2> QED
    BY <2>1, <2>4, PoolMoves
<1> QED
  BY <1>1, <1>2

LEMMA FinKeeps ==
  ASSUME ShortConnections, TcpTypeOK, TcpTypeOK', StreamInv, NEW i \in 1..used,
         SendFin(i) \/ CountFin(i) \/ MarkFin(i) \/ CheckFin(i)
  PROVE  StreamInv'
<1> DEFINE f == flows[i]
<1>0. /\ f \in FlowStates /\ i \in FlowIds /\ InStep(i, f) /\ f.guestSeq \in SeqNos /\ f.ourSeq \in SeqNos
      /\ f.buf \in Bytes
  BY MadeIsFlow DEF StreamInv, FlowsHold, FlowStates
<1>1. CASE SendFin(i)
  <2> DEFINE g == At(i, "CountFin")
             s == Segment(i, {"FIN", "ACK"}, f.ourSeq, f.guestSeq, << >>)
  <2>1. Pool(i, "Finish", g) /\ SendTcpToGuest(i, {"FIN", "ACK"}, f.ourSeq, f.guestSeq, << >>)
    BY <1>1 DEF SendFin
  <2>2. g \in FlowStates /\ f.pc = "Finish"
    BY <2>1, PoolIs
  <2>3. /\ SameGuestSide(f, g) /\ g.read = f.read /\ g.buf = f.buf /\ g.pc = "CountFin" /\ g.stream = f.stream
        /\ g.ourSeq = f.ourSeq /\ (g.closed <=> f.closed)
    BY <1>0 DEF At, FlowStates, SameGuestSide
  <2> HIDE DEF g
  <2>4. Grows(f, g) /\ InStep(i, g)
    BY <1>0, <2>1, <2>2, <2>3, CountMoves
  <2>5. f.stream /\ f.ourSeq = Base(i) + 1 + f.read
    BY <1>0, <2>2 DEF InStep, Counts
  <2>8. s.from = i /\ s.seq = f.ourSeq /\ s.data = << >> /\ s.flags = {"FIN", "ACK"}
    BY DEF Segment
  <2> HIDE DEF s
  <2>9. FinOf(g, s) /\ ~IsData(s) /\ ~Syn(s)
    BY <2>3, <2>5, <2>8 DEF FinOf, FinPcs, IsData, Syn
  <2>6. Sends(g, Segment(i, {"FIN", "ACK"}, f.ourSeq, f.guestSeq, << >>))
    BY <2>9 DEF Sends, s
  <2>7. {"FIN", "ACK"} \in SUBSET Flags /\ << >> \in Bytes
    BY NoBytes DEF Flags
  <2> QED
    BY <1>0, <2>1, <2>4, <2>6, <2>7, PoolSends
<1>2. CASE CountFin(i)
  <2> DEFINE g == [At(i, "MarkFin") EXCEPT !.ourSeq = Plus(@, 1)]
  <2>1. Pool(i, "CountFin", g) /\ Quiet
    BY <1>2 DEF CountFin
  <2>2. g \in FlowStates /\ f.pc = "CountFin"
    BY <2>1, PoolIs
  <2>3. /\ SameGuestSide(f, g) /\ g.read = f.read /\ g.buf = f.buf /\ g.pc = "MarkFin" /\ g.stream = f.stream
        /\ g.ourSeq = Plus(f.ourSeq, 1) /\ (g.closed <=> f.closed)
    BY <1>0 DEF At, FlowStates, SameGuestSide
  <2> HIDE DEF g
  <2>4. Grows(f, g) /\ InStep(i, g)
    BY <1>0, <2>1, <2>2, <2>3, CountMoves
  <2> QED
    BY <2>1, <2>4, PoolMoves
<1>3. CASE MarkFin(i)
  <2> DEFINE g == [At(i, "CheckFin") EXCEPT !.finSent = TRUE]
  <2>1. Pool(i, "MarkFin", g) /\ Quiet
    BY <1>3 DEF MarkFin
  <2>2. g \in FlowStates /\ f.pc = "MarkFin"
    BY <2>1, PoolIs
  <2>3. /\ SameGuestSide(f, g) /\ g.read = f.read /\ g.buf = f.buf /\ g.pc = "CheckFin" /\ g.stream = f.stream
        /\ g.ourSeq = f.ourSeq /\ (g.closed <=> f.closed)
    BY <1>0 DEF At, FlowStates, SameGuestSide
  <2> HIDE DEF g
  <2>4. Grows(f, g) /\ InStep(i, g)
    BY <1>0, <2>1, <2>2, <2>3, CountMoves
  <2> QED
    BY <2>1, <2>4, PoolMoves
<1>4. CASE CheckFin(i)
  <2> DEFINE g == [At(i, "Done") EXCEPT !.closed = @ \/ f.guestFinSeen]
  <2>1. Pool(i, "CheckFin", g) /\ Quiet
    BY <1>4 DEF CheckFin
  <2>2. g \in FlowStates /\ f.pc = "CheckFin"
    BY <2>1, PoolIs
  <2>3. /\ SameGuestSide(f, g) /\ g.read = f.read /\ g.buf = f.buf /\ g.pc = "Done" /\ g.stream = f.stream
        /\ g.ourSeq = f.ourSeq /\ (g.closed <=> f.closed \/ f.guestFinSeen)
    BY <1>0 DEF At, FlowStates, SameGuestSide
  <2> HIDE DEF g
  <2>4. Grows(f, g) /\ InStep(i, g)
    BY <1>0, <2>1, <2>2, <2>3, CountMoves
  <2> QED
    BY <2>1, <2>4, PoolMoves
<1> QED
  BY <1>1, <1>2, <1>3, <1>4

LEMMA LoopKeeps ==
  ASSUME ShortConnections, TcpTypeOK, TcpTypeOK', StreamInv, NEW i \in 1..used,
         Pace(i) \/ Read(i) \/ ReadEnds(i) \/ SendData(i) \/ CountData(i)
  PROVE  StreamInv'
<1> DEFINE f == flows[i]
<1>0. /\ f \in FlowStates /\ i \in FlowIds /\ InStep(i, f) /\ f.guestSeq \in SeqNos /\ f.ourSeq \in SeqNos
      /\ f.buf \in Bytes
  BY MadeIsFlow DEF StreamInv, FlowsHold, FlowStates
<1>1. CASE Pace(i)
  <2> DEFINE g == At(i, "Read")
  <2>1. Pool(i, "Pace", g) /\ Quiet /\ MayRead(f)
    BY <1>1 DEF Pace
  <2>2. g \in FlowStates /\ f.pc = "Pace"
    BY <2>1, PoolIs
  <2>3. /\ SameGuestSide(f, g) /\ g.read = f.read /\ g.buf = f.buf /\ g.pc = "Read" /\ g.stream = f.stream
        /\ g.ourSeq = f.ourSeq /\ (g.closed <=> f.closed)
    BY <1>0 DEF At, FlowStates, SameGuestSide
  <2> HIDE DEF g
  <2>4. Grows(f, g) /\ InStep(i, g)
    BY <1>0, <2>1, <2>2, <2>3, LoopMoves
  <2> QED
    BY <2>1, <2>4, PoolMoves
<1>2. CASE Read(i)
  <2>1. PICK n \in 1..MaxSegment :
          /\ f.read + n <= load.remoteBytes /\ Quiet
          /\ Pool(i, "Read", [At(i, "Send") EXCEPT !.read = @ + n, !.buf = [k \in 1..n |-> << i, f.read + k >>]])
    BY <1>2 DEF Read
  <2> DEFINE b == [k \in 1..n |-> << i, f.read + k >>]
             g == [At(i, "Send") EXCEPT !.read = @ + n, !.buf = b]
  <2>2. Pool(i, "Read", g) /\ Quiet
    BY <2>1
  <2>3. g \in FlowStates /\ f.pc = "Read"
    BY <2>2, PoolIs
  <2> HIDE DEF b
  <2>4. /\ SameGuestSide(f, g) /\ g.read = f.read + n /\ g.buf = b /\ g.pc = "Send" /\ g.stream = f.stream
        /\ g.ourSeq = f.ourSeq /\ (g.closed <=> f.closed)
    BY <1>0 DEF At, FlowStates, SameGuestSide
  <2> HIDE DEF g
  <2>5. \E m \in 1..MaxSegment : /\ f.read + m <= load.remoteBytes /\ g.read = f.read + m
                                 /\ g.buf = [k \in 1..m |-> << i, f.read + k >>]
    BY <2>1, <2>4 DEF b
  <2>6. Grows(f, g) /\ InStep(i, g)
    BY <1>0, <2>3, <2>4, <2>5, LoopMoves
  <2> QED
    BY <2>2, <2>6, PoolMoves
<1>3. CASE ReadEnds(i)
  <2> DEFINE g == At(i, "Finish")
  <2>1. Pool(i, "Read", g) /\ Quiet
    BY <1>3 DEF ReadEnds
  <2>2. g \in FlowStates /\ f.pc = "Read"
    BY <2>1, PoolIs
  <2>3. /\ SameGuestSide(f, g) /\ g.read = f.read /\ g.buf = f.buf /\ g.pc = "Finish" /\ g.stream = f.stream
        /\ g.ourSeq = f.ourSeq /\ (g.closed <=> f.closed)
    BY <1>0 DEF At, FlowStates, SameGuestSide
  <2> HIDE DEF g
  <2>4. Grows(f, g) /\ InStep(i, g)
    BY <1>0, <2>1, <2>2, <2>3, LoopMoves
  <2> QED
    BY <2>1, <2>4, PoolMoves
<1>4. CASE SendData(i)
  <2> DEFINE g == At(i, "Count")
             s == Segment(i, {"ACK"}, f.ourSeq, f.guestSeq, f.buf)
  <2>1. Pool(i, "Send", g) /\ SendTcpToGuest(i, {"ACK"}, f.ourSeq, f.guestSeq, f.buf)
    BY <1>4 DEF SendData
  <2>2. g \in FlowStates /\ f.pc = "Send"
    BY <2>1, PoolIs
  <2>3. /\ SameGuestSide(f, g) /\ g.read = f.read /\ g.buf = f.buf /\ g.pc = "Count" /\ g.stream = f.stream
        /\ g.ourSeq = f.ourSeq /\ (g.closed <=> f.closed)
    BY <1>0 DEF At, FlowStates, SameGuestSide
  <2> HIDE DEF g
  <2>4. Grows(f, g) /\ InStep(i, g)
    BY <1>0, <2>1, <2>2, <2>3, LoopMoves
  <2> DEFINE n == Len(f.buf)
             p == f.read - n
  <2>5. /\ f.stream /\ f.ourSeq = Base(i) + 1 + f.read - n /\ n <= f.read
        /\ f.buf = [k \in 1..n |-> << i, p + k >>]
    BY <1>0, <2>2 DEF InStep, Counts
  <2>8. s.from = i /\ s.seq = f.ourSeq /\ s.data = f.buf /\ s.flags = {"ACK"} /\ Len(s.data) = n
    BY DEF Segment
  <2>9. n \in Nat /\ f.read \in Nat /\ f.ourSeq \in Nat /\ Base(i) \in Nat /\ SentTo(g) = g.ourSeq + Len(g.buf)
    BY <1>0, <2>2, <2>3, Numbers DEF SentTo
  <2>10. p \in 0..f.read /\ f.ourSeq = Base(i) + 1 + p /\ p + n <= f.read /\ f.ourSeq + n <= SentTo(g)
    <3>0. f.ourSeq = Base(i) + 1 + f.read - n /\ n <= f.read /\ p = f.read - n
      BY <2>5
    <3>1. f.ourSeq = Base(i) + 1 + p /\ p + n = f.read /\ p \in 0..f.read
      <4> HIDE DEF p, n
      <4> QED
        BY ONLY <2>9, <3>0, SMTT(60)
    <3>2. f.ourSeq + n = SentTo(g)
      BY ONLY <2>3, <2>9
    <3> QED
      BY ONLY <2>9, <3>1, <3>2
  <2> HIDE DEF s, n, p
  <2>11. DataOf(g, s)
    <3>1. /\ s.seq = Base(s.from) + 1 + p /\ p + Len(s.data) <= g.read /\ p \in 0..g.read
          /\ s.seq + Len(s.data) <= SentTo(g)
      BY <2>3, <2>8, <2>10
    <3>2. s.data = [k \in 1..Len(s.data) |-> << s.from, p + k >>]
      BY <2>5, <2>8
    <3> QED
      BY <2>3, <2>5, <3>1, <3>2 DEF DataOf
  <2>12. ~Syn(s) /\ ~Fin(s)
    BY <2>8 DEF Syn, Fin
  <2>6. Sends(g, Segment(i, {"ACK"}, f.ourSeq, f.guestSeq, f.buf))
    BY <2>11, <2>12 DEF Sends, s
  <2>7. {"ACK"} \in SUBSET Flags /\ << >> \in Bytes
    BY NoBytes DEF Flags
  <2> QED
    BY <1>0, <2>1, <2>4, <2>6, <2>7, PoolSends
<1>5. CASE CountData(i)
  <2> DEFINE g == [At(i, "Pace") EXCEPT !.ourSeq = AfterData(f), !.buf = << >>]
  <2>1. Pool(i, "Count", g) /\ Quiet
    BY <1>5 DEF CountData
  <2>2. g \in FlowStates /\ f.pc = "Count"
    BY <2>1, PoolIs
  <2>3. /\ SameGuestSide(f, g) /\ g.read = f.read /\ g.pc = "Pace" /\ g.stream = f.stream
        /\ g.ourSeq = AfterData(f) /\ (g.closed <=> f.closed)
    BY <1>0 DEF At, FlowStates, SameGuestSide
  <2> HIDE DEF g
  <2>4. Grows(f, g) /\ InStep(i, g)
    BY <1>0, <2>1, <2>2, <2>3, LoopMoves
  <2> QED
    BY <2>1, <2>4, PoolMoves
<1> QED
  BY <1>1, <1>2, <1>3, <1>4, <1>5

LEMMA PoolStepKeeps ==
  ASSUME ShortConnections, TcpTypeOK, TcpTypeOK', StreamInv, NEW i \in FlowIds, PoolStep(i)
  PROVE  StreamInv'
<1>1. i <= used
  BY DEF PoolStep, Connected, ConnectFails, Refused, SendSynAck, CountSyn, Pace, Read, ReadEnds, SendData,
         CountData, SendFin, CountFin, MarkFin, CheckFin, Pool
<1>2. i \in 1..used
  BY <1>1, BoundAssumption DEF FlowIds, TcpTypeOK
<1> QED
  BY <1>2, ConnectKeeps, SynAckKeeps, FinKeeps, LoopKeeps DEF PoolStep

-----------------------------------------------------------------------------
(* The emulation thread                                                    *)

\* The fields that only the pool thread writes.
SameOurSide(f, g) ==
  /\ g.pc = f.pc /\ g.ourSeq = f.ourSeq /\ g.read = f.read /\ g.buf = f.buf /\ (g.stream <=> f.stream)
  /\ g.conn = f.conn

\* What is written and acknowledged stays.
SameWrites(f, g) ==
  /\ g.conn = f.conn /\ g.wrote = f.wrote /\ g.guestSeq = f.guestSeq /\ g.guestFinSeen = f.guestFinSeen
  /\ g.shut = f.shut

LEMMA OurSideHolds ==
  ASSUME NEW i, NEW f \in FlowStates, NEW g \in FlowStates, SameOurSide(f, g)
  PROVE  /\ SentTo(g) = SentTo(f) /\ SentGrows(f, g) /\ (Counts(i, f) => Counts(i, g))
         /\ g.guestAcked = f.guestAcked /\ InStep(i, f) => InStep(i, g)
<1>1. SentTo(g) = SentTo(f)
  BY DEF SameOurSide, SentTo
<1>2. Counts(i, f) => Counts(i, g)
  BY DEF SameOurSide, Counts
<1>3. SentTo(f) \in Nat /\ f.read \in Nat
  BY SentToIsInt DEF FlowStates
<1>4. SentGrows(f, g)
  BY <1>1, <1>3 DEF SameOurSide, SentGrows
<1>5. g.guestAcked = f.guestAcked /\ Paced(i, f) => Paced(i, g)
  BY <1>1 DEF SameOurSide, Paced
<1> QED
  BY <1>1, <1>2, <1>4, <1>5 DEF InStep

\* What holds of the rest when the emulation thread changes only its own fields of the flows.
LEMMA EmuFrame ==
  ASSUME TcpTypeOK, TcpTypeOK', StreamInv, SentGrown, UNCHANGED << load, client >>, Unseen' \subseteq Unseen,
         Quiet \/ \E i \in 1..used', f \in FlowStates : Ack(i, f)
  PROVE  AllDeliver' /\ ClientOK' /\ AllFormed'
<1>1. AllDeliver'
  <2>1. CASE Quiet
    <3>1. In(toGuest') \subseteq In(toGuest)
      BY <2>1 DEF Quiet
    <3> QED
      BY <3>1, QuietDelivers DEF StreamInv
  <2>2. CASE \E i \in 1..used', f \in FlowStates : Ack(i, f)
    <3>1. PICK i \in 1..used', f \in FlowStates : Ack(i, f)
      BY <2>2
    <3>2. /\ i \in Nat /\ {"ACK"} \in SUBSET Flags /\ f.ourSeq \in SeqNos /\ f.guestSeq \in SeqNos
          /\ << >> \in Bytes
      BY NoBytes, BoundAssumption DEF TcpTypeOK, Flags, FlowStates
    <3>3. SendTcpToGuest(i, {"ACK"}, f.ourSeq, f.guestSeq, << >>)
      BY <3>1 DEF Ack
    <3>4. Sends(flows'[i], Segment(i, {"ACK"}, f.ourSeq, f.guestSeq, << >>))
      BY DEF Sends, Segment, Syn, IsData, Fin
    <3> QED
      BY <3>2, <3>3, <3>4, SendDelivers DEF StreamInv
  <2> QED
    BY <2>1, <2>2
<1>2. ClientOK'
  BY ClientFollows DEF StreamInv
<1>3. AllFormed'
  <2> SUFFICES ASSUME NEW s \in Unseen'
               PROVE  Formed(s)'
    BY DEF AllFormed
  <2>1. Formed(s) /\ client' = client /\ load' = load
    BY DEF StreamInv, AllFormed
  <2> QED
    BY <2>1 DEF Formed
<1> QED
  BY <1>1, <1>2, <1>3

LEMMA LaterKept ==
  ASSUME UNCHANGED client, Queued' \subseteq Queued, NEW c, Later(c)
  PROVE  Later(c)'
  BY DEF Later

LEMMA WritesKept ==
  ASSUME UNCHANGED << load, client >>, Unseen' \subseteq Unseen, NEW i, Writes(flows[i]),
         SameWrites(flows[i], flows'[i])
  PROVE  Writes(flows[i])'
<1> DEFINE f == flows[i]
           g == flows'[i]
<1>1. flows[i]' = g /\ client' = client /\ load' = load
  OBVIOUS
<1>2. Writes(f) /\ SameWrites(f, g)
  OBVIOUS
<1> HIDE DEF f, g
<1> QED
  BY <1>1, <1>2 DEF Writes, SameWrites

\* A flow's part of the invariant survives when nothing of what it is about moves.
LEMMA QuietFlows ==
  ASSUME TcpTypeOK, TcpTypeOK', StreamInv, UNCHANGED << load, client, used >>, Queued' \subseteq Queued,
         \A j \in 1..used : SameOurSide(flows[j], flows'[j]) /\ flows'[j].guestAcked = flows[j].guestAcked
  PROVE  SentGrown /\ AllAcks' /\ ClientAcks' /\ \A j \in 1..used : InStep(j, flows[j])'
<1>1. \A j \in 1..used : /\ j \in FlowIds /\ flows[j] \in FlowStates /\ flows'[j] \in FlowStates
                         /\ InStep(j, flows[j])
  BY MadeIsFlow DEF TcpTypeOK, StreamInv, FlowsHold
<1>2. \A j \in 1..used : /\ SentTo(flows'[j]) = SentTo(flows[j]) /\ SentGrows(flows[j], flows'[j])
                         /\ InStep(j, flows'[j])
  BY <1>1, OurSideHolds
<1>3. SentGrown
  BY <1>2, BoundAssumption DEF SentGrown, TcpTypeOK
<1>4. \A j \in 1..used : InStep(j, flows[j])'
  <2> TAKE j \in 1..used
  <2>1. InStep(j, flows'[j]) /\ load' = load
    BY <1>2
  <2> QED
    BY <2>1 DEF InStep, Counts, Paced, SentTo, Base
<1>5. \A j \in 1..used : /\ flows'[j].stream = flows[j].stream /\ flows'[j].conn = flows[j].conn
                         /\ flows'[j].guestAcked = flows[j].guestAcked
  BY <1>1 DEF SameOurSide, FlowStates
<1>6. AllAcks'
  <2> SUFFICES ASSUME NEW s \in Queued', Acks(s)
               PROVE  AckOf(s)'
    BY DEF AllAcks
  <2>1. AckOf(s)
    BY DEF StreamInv, AllAcks
  <2>2. /\ \E j \in 1..used : /\ flows'[j].stream /\ flows'[j].conn = s.from
                              /\ Base(j) < s.ack /\ s.ack <= SentTo(flows'[j])
        /\ \A j \in 1..used : flows'[j].conn = s.from => flows'[j].guestAcked <= s.ack
        /\ s.from = client.connects => s.ack <= client.rcv
    BY <1>2, <1>5, <2>1 DEF AckOf
  <2>3. used' = used /\ client' = client
    OBVIOUS
  <2> QED
    BY <2>2, <2>3 DEF AckOf, SentTo, Base
<1>7. ClientAcks'
  <2>1. ClientAcks /\ used' = used /\ client' = client
    BY DEF StreamInv
  <2> QED
    BY <1>5, <2>1 DEF ClientAcks
<1> QED
  BY <1>3, <1>4, <1>6, <1>7

\* What a queued segment that is no SYN says of the ones behind it.
LEMMA HeadIsLate ==
  ASSUME TcpTypeOK, InOrder, toNat # << >>, NEW h, h = Head(toNat), ~Syn(h), toNat' = Tail(toNat), UNCHANGED client
  PROVE  Later(h.from)'
<1>1. h \in Queued /\ Queued' \subseteq Queued /\ \A s \in In(Tail(toNat)) : Before(h, s)
  BY QueueTail DEF TcpTypeOK, Queued, InOrder
<1>2. Queued' = In(Tail(toNat))
  BY DEF Queued
<1>3. client.st = "SynSent" => h.from < client.connects
  BY <1>1 DEF InOrder
<1>4. client.connects \in Nat /\ h.from \in Nat /\ \A s \in In(Tail(toNat)) : s.from \in Nat
  BY <1>1, <1>2, QueueIsTyped, ClientTyped DEF TcpTypeOK, Segments
<1>5. \A s \in Queued' : Syn(s) => s.from > h.from
  BY <1>1, <1>2, <1>4 DEF Before
<1>6. client'.st = "SynSent" => client'.connects > h.from
  BY <1>3, <1>4
<1> QED
  BY <1>5, <1>6 DEF Later

LEMMA EarlierIsLate ==
  ASSUME TcpTypeOK, NEW c \in Nat, NEW d \in Nat, d <= c, Later(c)
  PROVE  Later(d)
<1>1. client.connects \in Nat /\ \A s \in Queued : s.from \in Nat
  BY QueueIsTyped, ClientTyped DEF TcpTypeOK, Segments
<1> QED
  BY <1>1 DEF Later

LEMMA FlowsKeepOrder ==
  ASSUME TcpTypeOK, TcpTypeOK', StreamInv, UNCHANGED used, Queued' \subseteq Queued,
         \A j \in 1..used : SameOurSide(flows[j], flows'[j]),
         \A j \in 1..used : flows'[j].open <=> table' = j,
         \A j \in 1..used : ClosedWell(flows'[j])
  PROVE  FlowsInOrder'
<1>0. FlowsInOrder /\ used' = used
  BY DEF StreamInv
<1>1. \A j \in 1..used : flows'[j].conn = flows[j].conn /\ (flows'[j].stream <=> flows[j].stream)
  BY DEF SameOurSide
<1>2. \A k \in 1..used : \A s \in Queued' : flows'[k].conn <= s.from
  BY <1>0, <1>1 DEF FlowsInOrder
<1>3. \A k, j \in 1..used : j < k /\ flows'[j].stream => flows'[j].conn < flows'[k].conn
  BY <1>0, <1>1 DEF FlowsInOrder
<1>4. \A k \in 1..used : ClosedWell(flows'[k]) <=> (ClosedWell(flows[k]))'
  BY DEF ClosedWell
<1> QED
  BY <1>0, <1>2, <1>3, <1>4 DEF FlowsInOrder

LEMMA EmuKeeps ==
  ASSUME TcpTypeOK, TcpTypeOK', StreamInv, UNCHANGED << load, client, used >>, Quiet,
         Queued' \subseteq Queued, Unseen' \subseteq Unseen, InOrder',
         \A j \in 1..used : /\ SameOurSide(flows[j], flows'[j]) /\ SameWrites(flows[j], flows'[j])
                            /\ flows'[j].guestAcked = flows[j].guestAcked,
         \A j \in 1..used : flows'[j].open <=> table' = j,
         \A j \in 1..used : ClosedWell(flows'[j]),
         \A j \in 1..used : Over(j)'
  PROVE  StreamInv'
<1>1. SentGrown /\ AllAcks' /\ ClientAcks' /\ \A j \in 1..used : InStep(j, flows[j])'
  BY QuietFlows
<1>2. AllDeliver' /\ ClientOK' /\ AllFormed'
  BY <1>1, EmuFrame
<1>3. \A j \in 1..used : Writes(flows[j])'
  BY WritesKept DEF StreamInv, FlowsHold
<1>4. FlowsHold'
  BY <1>1, <1>3 DEF FlowsHold
<1>5. FlowsInOrder'
  BY FlowsKeepOrder
<1> QED
  BY <1>1, <1>2, <1>4, <1>5 DEF StreamInv

LEMMA FlowSelf == \A f : SameOurSide(f, f) /\ SameWrites(f, f)
  BY DEF SameOurSide, SameWrites

\* The queue without its head is in order.
LEMMA TailInOrder ==
  ASSUME TcpTypeOK, InOrder, toNat # << >>, toNat' = Tail(toNat), UNCHANGED client
  PROVE  /\ Queued' \subseteq Queued /\ Ordered(toNat')
         /\ \A s \in Queued' : ~Syn(s) /\ client'.st = "SynSent" => s.from < client'.connects
<1>1. Queued' \subseteq Queued /\ Ordered(toNat')
  BY QueueTail DEF TcpTypeOK, Queued, InOrder
<1> QED
  BY <1>1 DEF InOrder

\* A segment the emulation thread drops.
LEMMA DropKeeps ==
  ASSUME TcpTypeOK, TcpTypeOK', StreamInv, nat.pc = "Idle", toNat # << >>, toNat' = Tail(toNat),
         UNCHANGED << load, client, used, flows, table, nat, disposed >>, Quiet
  PROVE  StreamInv'
<1>1. InOrder /\ FlowsInOrder /\ FlowsHold
  BY DEF StreamInv
<1>2. Queued' \subseteq Queued /\ Unseen' \subseteq Unseen /\ Ordered(toNat')
  BY <1>1, TailInOrder DEF Unseen
<1>3. InOrder'
  BY <1>1, <1>2, TailInOrder DEF InOrder
<1>4. \A j \in 1..used : ClosedWell(flows'[j]) /\ (flows'[j].open <=> table' = j)
  BY <1>1 DEF FlowsInOrder
<1>5. \A j \in 1..used : Over(j)'
  BY <1>1, <1>2 DEF FlowsHold, Over, Later
<1>6. \A j \in 1..used : /\ SameOurSide(flows[j], flows'[j]) /\ SameWrites(flows[j], flows'[j])
                         /\ flows'[j].guestAcked = flows[j].guestAcked
  BY FlowSelf
<1> QED
  BY <1>2, <1>3, <1>4, <1>5, <1>6, EmuKeeps

\* The guest resets the connection.
LEMMA ResetKeeps ==
  ASSUME TcpTypeOK, TcpTypeOK', StreamInv, nat.pc = "Idle", toNat # << >>, toNat' = Tail(toNat),
         UNCHANGED << load, client, used, nat, disposed >>, Quiet, table # 0,
         "RST" \in Head(toNat).flags, Dispose(table)
  PROVE  StreamInv'
<1> DEFINE g == [flows[table] EXCEPT !.open = FALSE]
<1>1. InOrder /\ FlowsInOrder /\ FlowsHold /\ table = used /\ table \in 1..used /\ table \in FlowIds
  BY TableIsFlow, TypesAre, BoundAssumption DEF StreamInv, FlowIds, TcpTypeOK
<1>2. Queued' \subseteq Queued /\ Unseen' \subseteq Unseen /\ Ordered(toNat')
  BY <1>1, TailInOrder DEF Unseen
<1>3. InOrder'
  BY <1>1, <1>2, TailInOrder DEF InOrder
<1>4. /\ table' = 0 /\ flows[table] \in FlowStates
      /\ \A j \in 1..used : flows'[j] = IF j = table THEN g ELSE flows[j]
  BY <1>1, MadeIsFlow DEF Dispose, TcpTypeOK
<1>5. \A j \in 1..used : /\ SameOurSide(flows[j], flows'[j]) /\ SameWrites(flows[j], flows'[j])
                         /\ flows'[j].guestAcked = flows[j].guestAcked
                         /\ flows'[j].closed = flows[j].closed
  BY <1>4, FlowSelf DEF FlowStates, SameOurSide, SameWrites
<1>6. g.open = FALSE
  BY <1>4 DEF FlowStates
<1> HIDE DEF g
<1>7. \A j \in 1..used : flows'[j].open <=> table' = j
  BY <1>1, <1>4, <1>6 DEF FlowsInOrder
<1>8. \A j \in 1..used : ClosedWell(flows'[j])
  BY <1>1, <1>5, <1>7, <1>4 DEF FlowsInOrder, ClosedWell, SameOurSide, SameWrites
<1>9. PICK h \in Segments : h = Head(toNat) /\ h \in Queued
  BY QueueTail DEF TcpTypeOK, Queued
<1>10. ~Syn(h) /\ flows[table].conn <= h.from
  <2>1. Formed(h)
    BY <1>9 DEF StreamInv, AllFormed, Unseen
  <2>2. "RST" \in h.flags
    BY <1>9
  <2>3. h.flags = {"RST"}
    BY <2>1, <2>2 DEF Formed
  <2>4. flows[table].conn <= h.from
    BY <1>1, <1>9 DEF FlowsInOrder
  <2> QED
    BY <2>3, <2>4 DEF Syn
<1>11. Later(h.from)'
  BY <1>1, <1>9, <1>10, HeadIsLate
<1>12. \A j \in 1..used : Over(j)'
  <2> TAKE j \in 1..used
  <2>1. CASE j = table
    <3>1. flows'[j].conn <= h.from /\ flows'[j].conn \in Nat /\ h.from \in Nat
      BY <1>1, <1>4, <1>5, <1>10, <2>1 DEF SameOurSide, FlowStates, Segments
    <3>2. \A s \in Queued' : s.from \in Nat
      BY <1>2, QueueIsTyped DEF Segments
    <3>3. client'.connects \in Nat
      BY DEF TcpTypeOK, ClientStates
    <3>4. Later(flows[j].conn)'
      BY <1>11, <3>1, <3>2, <3>3 DEF Later
    <3> QED
      BY <3>4 DEF Over
  <2>2. CASE j # table
    <3>1. flows'[j] = flows[j] /\ Over(j) /\ disposed' = disposed
      BY <1>1, <1>4, <2>2 DEF FlowsHold
    <3> QED
      BY <1>2, <2>2, <3>1 DEF Over, Later
  <2> QED
    BY <2>1, <2>2
<1> QED
  BY <1>2, <1>3, <1>5, <1>7, <1>8, <1>12, EmuKeeps

\* The end of OnTcp: the flow leaves the table once both sides have finished.
LEMMA CloseKeeps ==
  ASSUME TcpTypeOK, TcpTypeOK', StreamInv, OnTcpClose
  PROVE  StreamInv'
<1> DEFINE f == flows[table]
           g == [f EXCEPT !.closed = TRUE, !.open = FALSE]
<1>0. /\ nat.pc = "Close" /\ nat'.pc = "Idle" /\ Quiet
      /\ UNCHANGED << load, used, disposed, client, toNat >>
  BY DEF OnTcpClose
<1>1. InOrder /\ FlowsInOrder /\ FlowsHold /\ table = used /\ table \in 1..used /\ table \in FlowIds /\ table # 0
  BY <1>0, TableIsFlow, TypesAre, BoundAssumption DEF StreamInv, FlowIds, TcpTypeOK
<1>2. Queued' = Queued /\ Unseen' = Queued /\ Unseen = Queued
  BY <1>0 DEF Unseen, Queued
<1>3. InOrder'
  BY <1>0, <1>1, <1>2 DEF InOrder
<1>4. f \in FlowStates /\ \A j \in 1..used : j \in FlowIds /\ j # 0
  BY <1>1, MadeIsFlow
<1>5. CASE UNCHANGED << flows, table >>
  <2>1. \A j \in 1..used : ClosedWell(flows'[j]) /\ (flows'[j].open <=> table' = j)
    BY <1>1, <1>5 DEF FlowsInOrder
  <2>2. \A j \in 1..used : Over(j)'
    BY <1>0, <1>1, <1>2, <1>5 DEF FlowsHold, Over, Later
  <2>3. \A j \in 1..used : /\ SameOurSide(flows[j], flows'[j]) /\ SameWrites(flows[j], flows'[j])
                           /\ flows'[j].guestAcked = flows[j].guestAcked
    BY <1>5, FlowSelf
  <2> QED
    BY <1>0, <1>2, <1>3, <2>1, <2>2, <2>3, EmuKeeps
<1>6. CASE /\ (f.finSent /\ f.guestFinSeen) \/ f.closed
           /\ flows' = [flows EXCEPT ![table].closed = TRUE, ![table].open = FALSE] /\ table' = 0
  <2>1. \A j \in 1..used : flows'[j] = IF j = table THEN g ELSE flows[j]
    BY <1>1, <1>4, <1>6 DEF TcpTypeOK
  <2>2. SameOurSide(f, g) /\ SameWrites(f, g) /\ g.guestAcked = f.guestAcked /\ g.open = FALSE
    BY <1>4 DEF FlowStates, SameOurSide, SameWrites
  <2> HIDE DEF g
  <2>3. \A j \in 1..used : /\ SameOurSide(flows[j], flows'[j]) /\ SameWrites(flows[j], flows'[j])
                           /\ flows'[j].guestAcked = flows[j].guestAcked
    BY <2>1, <2>2, FlowSelf
  <2>4. \A j \in 1..used : flows'[j].open <=> table' = j
    BY <1>1, <1>4, <1>6, <2>1, <2>2 DEF FlowsInOrder
  <2>5. f.guestFinSeen \/ ~f.stream
    BY <1>1, <1>6 DEF FlowsInOrder, ClosedWell
  <2>6. ClosedWell(g)
    BY <2>2, <2>5 DEF ClosedWell, SameOurSide, SameWrites
  <2>7. \A j \in 1..used : ClosedWell(flows'[j])
    BY <1>1, <2>1, <2>6 DEF FlowsInOrder
  <2>8. \A j \in 1..used : Over(j)'
    <3> TAKE j \in 1..used
    <3>1. CASE j = table
      <4>1. /\ flows'[j].guestFinSeen = f.guestFinSeen /\ (flows'[j].stream <=> f.stream)
            /\ flows'[j].conn = f.conn
        BY <2>1, <2>2, <3>1 DEF SameOurSide, SameWrites
      <4>2. f.guestFinSeen => Later(f.conn)
        BY <1>1 DEF FlowsHold, Over
      <4> QED
        BY <1>0, <1>2, <2>5, <4>1, <4>2 DEF Over, Later
    <3>2. CASE j # table
      <4>1. flows'[j] = flows[j] /\ Over(j)
        BY <1>1, <2>1, <3>2 DEF FlowsHold
      <4> QED
        BY <1>0, <1>2, <3>2, <4>1 DEF Over, Later
    <3> QED
      BY <3>1, <3>2
  <2> QED
    BY <1>0, <1>2, <1>3, <2>3, <2>4, <2>7, <2>8, EmuKeeps
<1> QED
  BY <1>5, <1>6 DEF OnTcpClose

\* The user switches networking off.
LEMMA ShutdownKeeps ==
  ASSUME TcpTypeOK, TcpTypeOK', StreamInv, Shutdown
  PROVE  StreamInv'
<1>0. /\ nat.pc = "Idle" /\ Quiet /\ table' = 0 /\ disposed' = TRUE
      /\ UNCHANGED << load, used, nat, client, toNat >>
      /\ flows' = IF table = 0 THEN flows ELSE [flows EXCEPT ![table].open = FALSE]
  BY DEF Shutdown
<1>1. InOrder /\ FlowsInOrder /\ FlowsHold
  BY DEF StreamInv
<1>2. Queued' = Queued /\ Unseen' = Unseen
  BY <1>0 DEF Unseen, Queued
<1>3. InOrder'
  BY <1>0, <1>1, <1>2 DEF InOrder, Later
<1>4. \A j \in 1..used : j \in FlowIds /\ flows[j] \in FlowStates /\ j # 0
  BY MadeIsFlow, BoundAssumption DEF TcpTypeOK
<1>5. \A j \in 1..used : flows'[j] = IF j = table THEN [flows[j] EXCEPT !.open = FALSE] ELSE flows[j]
  BY <1>0, <1>4 DEF TcpTypeOK
<1>6. \A j \in 1..used : /\ SameOurSide(flows[j], flows'[j]) /\ SameWrites(flows[j], flows'[j])
                         /\ flows'[j].guestAcked = flows[j].guestAcked /\ flows'[j].closed = flows[j].closed
                         /\ flows'[j].open = FALSE
  <2> TAKE j \in 1..used
  <2>1. CASE j = table
    <3>1. flows'[j] = [flows[j] EXCEPT !.open = FALSE] /\ flows[j] \in FlowStates
      BY <1>4, <1>5, <2>1
    <3> QED
      BY <3>1 DEF FlowStates, SameOurSide, SameWrites
  <2>2. CASE j # table
    <3>1. flows'[j] = flows[j] /\ ~flows[j].open /\ flows[j] \in FlowStates
      BY <1>1, <1>4, <1>5, <2>2 DEF FlowsInOrder
    <3> QED
      BY <3>1 DEF SameOurSide, SameWrites, FlowStates
  <2> QED
    BY <2>1, <2>2
<1>7. \A j \in 1..used : flows'[j].open <=> table' = j
  BY <1>0, <1>4, <1>6
<1>8. \A j \in 1..used : ClosedWell(flows'[j])
  BY <1>1, <1>6 DEF FlowsInOrder, ClosedWell, SameOurSide, SameWrites
<1>9. \A j \in 1..used : Over(j)'
  <2> TAKE j \in 1..used
  <2>1. Over(j) /\ SameWrites(flows[j], flows'[j])
    BY <1>1, <1>6 DEF FlowsHold
  <2> QED
    BY <1>0, <1>2, <2>1 DEF Over, Later, SameWrites
<1> QED
  BY <1>0, <1>2, <1>3, <1>6, <1>7, <1>8, <1>9, EmuKeeps

\* Two positions of the guest's connections have the same number only if they are the same.
LEMMA SamePlace ==
  ASSUME ShortConnections, TcpTypeOK, ClientOK, NEW c \in 1..client.connects, NEW d \in 1..client.connects,
         NEW p \in 0..(load.guestBytes + 2), NEW q \in 0..(load.guestBytes + 2), GuestPos(c, p) = GuestPos(d, q)
  PROVE  c = d /\ p = q
<1>1. /\ load.guestBytes \in Nat /\ load.guestBytes + 2 < IsnStep /\ IsnStep \in Nat /\ SeqSpace \in Nat
      /\ load.connects \in Nat /\ (load.connects + 1) * IsnStep <= SeqSpace
      /\ client.connects \in Nat /\ client.connects <= load.connects
  BY LoadAssumption, Space DEF TcpTypeOK, ShortConnections, ClientOK, GuestOK, ClientStates
<1>2. \A e \in 1..client.connects : e \in Nat /\ e >= 1 /\ (e + 1) * IsnStep <= SeqSpace
  <2> TAKE e \in 1..client.connects
  <2>1. e \in Nat /\ e >= 1 /\ e + 1 <= load.connects + 1 /\ e + 1 \in Int /\ load.connects + 1 \in Int
    BY <1>1
  <2>2. (e + 1) * IsnStep <= (load.connects + 1) * IsnStep /\ (e + 1) * IsnStep \in Int
        /\ (load.connects + 1) * IsnStep \in Int
    BY <1>1, <2>1, Times
  <2> QED
    BY <1>1, <2>1, <2>2
<1>3. p \in Nat /\ q \in Nat /\ p < IsnStep /\ q < IsnStep
  BY <1>1
<1>4. /\ c \in Nat /\ d \in Nat /\ c >= 1 /\ d >= 1
      /\ (c + 1) * IsnStep <= SeqSpace /\ (d + 1) * IsnStep <= SeqSpace
  BY <1>2
<1> QED
  BY <1>3, <1>4, GuestLies

\* The FIN of a flow's connection comes after all of its bytes.
LEMMA FinIsOf ==
  ASSUME ShortConnections, TcpTypeOK, ClientOK, NEW f \in FlowStates, Writes(f), NEW s \in Segments, Formed(s),
         TakesFin(f, s)
  PROVE  /\ s.from = f.conn /\ ~Syn(s) /\ f.guestSeq = GuestPos(f.conn, Len(f.wrote) + 1)
         /\ f.conn = client.connects => client.fin /\ client.sent = Len(f.wrote)
         /\ \A d \in Unseen : IsData(d) /\ d.from = f.conn => Byte(d) <= Len(f.wrote)
<1>1. /\ "FIN" \in s.flags /\ ~f.guestFinSeen /\ Plus(s.seq, Len(s.data)) = f.guestSeq
  BY DEF TakesFin
<1>2. /\ s.flags = {"FIN", "ACK"} /\ s.data = << >> /\ s.from <= client.connects /\ s.from >= 1
      /\ \E m \in 0..load.guestBytes :
           /\ s.seq = GuestPos(s.from, m + 1)
           /\ s.from = client.connects => client.fin /\ client.sent = m
           /\ \A d \in Unseen : IsData(d) /\ d.from = s.from => Byte(d) <= m
  BY <1>1 DEF Formed, IsData
<1>3. PICK m \in 0..load.guestBytes :
        /\ s.seq = GuestPos(s.from, m + 1)
        /\ s.from = client.connects => client.fin /\ client.sent = m
        /\ \A d \in Unseen : IsData(d) /\ d.from = s.from => Byte(d) <= m
  BY <1>2
<1>4. /\ s.from \in Nat /\ client.connects \in Nat /\ load.guestBytes \in Nat /\ Len(f.wrote) \in Nat
      /\ f.conn \in Nat /\ Len(<< >>) = 0
  BY LoadAssumption, BytesLen, NoBytes DEF TcpTypeOK, ClientStates, FlowStates, Segments
<1>5. /\ f.conn \in 1..client.connects /\ Len(f.wrote) <= load.guestBytes
      /\ f.guestSeq = GuestPos(f.conn, Len(f.wrote) + 1)
  BY <1>1 DEF Writes
<1>6. GuestPos(s.from, m + 1) = GuestPos(f.conn, Len(f.wrote) + 1)
  <2> DEFINE x == m + 1
  <2>0. x \in Int /\ x + 0 = x /\ 0 \in Nat
    BY <1>4
  <2> HIDE DEF x
  <2>2. Plus(GuestPos(s.from, x), 0) = GuestPos(s.from, x + 0)
    BY <1>4, <2>0, GuestPosNext
  <2>1. Plus(GuestPos(s.from, m + 1), 0) = GuestPos(s.from, m + 1)
    BY <2>0, <2>2 DEF x
  <2> QED
    BY <1>1, <1>2, <1>3, <1>4, <1>5, <2>1
<1> DEFINE l == Len(f.wrote)
<1>7. /\ s.from \in 1..client.connects /\ m + 1 \in 0..(load.guestBytes + 2)
      /\ l + 1 \in 0..(load.guestBytes + 2) /\ l \in Nat
  BY SMTT(60), <1>2, <1>4, <1>5
<1>8. s.from = f.conn /\ m + 1 = l + 1
  BY <1>5, <1>6, <1>7, SamePlace
<1>9. m = l
  BY <1>7, <1>8
<1> QED
  BY <1>2, <1>3, <1>5, <1>8, <1>9 DEF Syn

\* The middle of OnTcp: the guest's FIN.
LEMMA GuestFinKeeps ==
  ASSUME ShortConnections, TcpTypeOK, TcpTypeOK', StreamInv, OnTcpFin
  PROVE  StreamInv'
<1> DEFINE f == flows[table]
           g == FinTaken(f)
<1>0. /\ nat.pc = "Fin" /\ nat'.pc = "Close" /\ nat.seg \in Segments
      /\ UNCHANGED << load, used, table, disposed, client, toNat >>
  BY DEF OnTcpFin, TcpTypeOK
<1>1. /\ InOrder /\ FlowsInOrder /\ FlowsHold /\ ClientOK /\ AllFormed
      /\ table = used /\ table \in 1..used /\ table \in FlowIds /\ table # 0
  BY <1>0, TableIsFlow, TypesAre, BoundAssumption DEF StreamInv, FlowIds, TcpTypeOK
<1>2. Queued' = Queued /\ Unseen' = Queued /\ Queued \subseteq Unseen /\ nat.seg \in Unseen
  BY <1>0 DEF Unseen, Queued
<1>3. InOrder'
  BY <1>0, <1>1, <1>2 DEF InOrder
<1>4. f \in FlowStates /\ \A j \in 1..used : j \in FlowIds
  BY <1>1, MadeIsFlow
<1>5. CASE ~TakesFin(f, nat.seg)
  <2>0. UNCHANGED flows /\ Quiet
    BY <1>5 DEF OnTcpFin
  <2>1. \A j \in 1..used : ClosedWell(flows'[j]) /\ (flows'[j].open <=> table' = j)
    BY <1>0, <1>1, <2>0 DEF FlowsInOrder
  <2>2. \A j \in 1..used : Over(j)'
    BY <1>0, <1>1, <1>2, <2>0 DEF FlowsHold, Over, Later
  <2>3. \A j \in 1..used : /\ SameOurSide(flows[j], flows'[j]) /\ SameWrites(flows[j], flows'[j])
                           /\ flows'[j].guestAcked = flows[j].guestAcked
    BY <2>0, FlowSelf
  <2> QED
    BY <1>0, <1>2, <1>3, <2>0, <2>1, <2>2, <2>3, EmuKeeps
<1>6. CASE TakesFin(f, nat.seg)
  <2>0. flows' = [flows EXCEPT ![table] = g] /\ Ack(table, g)
    BY <1>6 DEF OnTcpFin
  <2>1. \A j \in 1..used : flows'[j] = IF j = table THEN g ELSE flows[j]
    BY <1>1, <1>4, <2>0 DEF TcpTypeOK
  <2>2. /\ SameOurSide(f, g) /\ g.guestAcked = f.guestAcked /\ (g.open <=> f.open) /\ g.wrote = f.wrote
        /\ g.guestFinSeen /\ g.guestSeq = Plus(f.guestSeq, 1) /\ g.conn = f.conn
    BY <1>4 DEF FlowStates, SameOurSide, FinTaken
  <2>3. g \in FlowStates
    BY <1>4, FinTakenTyped
  <2> HIDE DEF g
  <2>4. Writes(f) /\ Formed(nat.seg)
    BY <1>1, <1>2 DEF FlowsHold, AllFormed
  <2>5. /\ nat.seg.from = f.conn /\ ~Syn(nat.seg) /\ f.guestSeq = GuestPos(f.conn, Len(f.wrote) + 1)
        /\ f.conn = client.connects => client.fin /\ client.sent = Len(f.wrote)
        /\ \A d \in Unseen : IsData(d) /\ d.from = f.conn => Byte(d) <= Len(f.wrote)
    BY <1>0, <1>1, <1>4, <1>6, <2>4, FinIsOf
  <2>6. \A j \in 1..used : /\ SameOurSide(flows[j], flows'[j])
                           /\ flows'[j].guestAcked = flows[j].guestAcked
    BY <2>1, <2>2, FlowSelf
  <2>7. SentGrown /\ AllAcks' /\ ClientAcks' /\ \A j \in 1..used : InStep(j, flows[j])'
    BY <1>0, <1>2, <2>6, QuietFlows
  <2>8. AllDeliver' /\ ClientOK' /\ AllFormed'
    <3>1. table \in 1..used'
      BY <1>0, <1>1
    <3> QED
      BY <1>0, <1>2, <2>0, <2>3, <2>7, <3>1, EmuFrame
  <2>9. ClosedWell(g)
    BY <2>2 DEF ClosedWell
  <2>10. FlowsInOrder'
    <3>1. \A j \in 1..used : (flows'[j].open <=> table' = j) /\ ClosedWell(flows'[j])
      BY <1>0, <1>1, <2>1, <2>2, <2>9 DEF FlowsInOrder
    <3> QED
      BY <1>0, <1>2, <2>6, <3>1, FlowsKeepOrder
  <2>11. \A j \in 1..used : Writes(flows[j])'
    <3> TAKE j \in 1..used
    <3>1. CASE j = table
      <4>1. flows'[j] = g /\ flows[j]' = g /\ client' = client /\ load' = load
        BY <1>0, <2>1, <3>1
      <4>2. Plus(GuestPos(f.conn, Len(f.wrote) + 1), 1) = GuestPos(f.conn, (Len(f.wrote) + 1) + 1)
        <5>1. Len(f.wrote) \in Nat /\ f.conn \in Nat /\ Len(f.wrote) + 1 \in Int
          BY <1>4, BytesLen DEF FlowStates
        <5> QED
          BY <5>1, GuestPosNext
      <4>3. g.guestSeq = GuestPos(g.conn, Len(g.wrote) + 2)
        <5>1. Len(f.wrote) \in Nat /\ (Len(f.wrote) + 1) + 1 = Len(f.wrote) + 2
          BY <1>4, BytesLen DEF FlowStates
        <5> QED
          BY <2>2, <2>5, <4>2, <5>1
      <4>4. /\ g.conn \in 1..client.connects /\ g.wrote = Stream(g.conn, Len(g.wrote))
            /\ Len(g.wrote) <= load.guestBytes
        BY <2>2, <2>4 DEF Writes
      <4>5. /\ \A d \in Unseen' : IsData(d) /\ d.from = g.conn => Byte(d) <= Len(g.wrote)
            /\ g.conn = client.connects => client.fin /\ client.sent = Len(g.wrote)
        BY <1>2, <2>2, <2>5
      <4> QED
        BY <2>2, <4>1, <4>3, <4>4, <4>5 DEF Writes
    <3>2. CASE j # table
      <4>1. flows'[j] = flows[j] /\ Writes(flows[j])
        BY <1>1, <2>1, <3>2 DEF FlowsHold
      <4> QED
        BY <1>0, <1>2, <4>1, FlowSelf, WritesKept
    <3> QED
      BY <3>1, <3>2
  <2>12. \A j \in 1..used : Over(j)'
    <3> TAKE j \in 1..used
    <3>1. CASE j = table
      <4>1. flows'[j].conn = nat.seg.from
        BY <2>1, <2>2, <2>5, <3>1
      <4>2. Later(nat.seg.from)
        BY <1>0, <1>1, <2>5 DEF InOrder
      <4> QED
        BY <1>0, <1>2, <4>1, <4>2 DEF Over, Later
    <3>2. CASE j # table
      <4>1. flows'[j] = flows[j] /\ Over(j)
        BY <1>1, <2>1, <3>2 DEF FlowsHold
      <4> QED
        BY <1>0, <1>2, <4>1 DEF Over, Later
    <3> QED
      BY <3>1, <3>2
  <2>13. FlowsHold'
    BY <1>0, <2>7, <2>11, <2>12 DEF FlowsHold
  <2> QED
    BY <1>3, <2>7, <2>8, <2>10, <2>13 DEF StreamInv
<1> QED
  BY <1>5, <1>6

\* A stream with its next byte.
LEMMA StreamIs ==
  ASSUME NEW i \in Nat, NEW n \in Nat
  PROVE  /\ Stream(i, n) \in Seq(Nat \X Nat) /\ Len(Stream(i, n)) = n
         /\ \A k \in 1..n : Stream(i, n)[k] = << i, k >>
<1>1. \A k \in 1..n : << i, k >> \in Nat \X Nat
  OBVIOUS
<1>2. [k \in 1..n |-> << i, k >>] \in Seq(Nat \X Nat)
  BY <1>1
<1>3. Len([k \in 1..n |-> << i, k >>]) = n
  OBVIOUS
<1> QED
  BY <1>2, <1>3 DEF Stream

LEMMA StreamNext ==
  ASSUME NEW i \in Nat, NEW n \in Nat
  PROVE  Stream(i, n) \o << << i, n + 1 >> >> = Stream(i, n + 1)
<1> DEFINE a == Stream(i, n)
           x == << i, n + 1 >>
           b == << x >>
           c == Stream(i, n + 1)
<1>1. a \in Seq(Nat \X Nat) /\ Len(a) = n /\ \A k \in 1..n : a[k] = << i, k >>
  BY StreamIs
<1>2. n + 1 \in Nat /\ x \in Nat \X Nat
  OBVIOUS
<1>3. c \in Seq(Nat \X Nat) /\ Len(c) = n + 1 /\ \A k \in 1..(n + 1) : c[k] = << i, k >>
  BY <1>2, StreamIs
<1>4. c[n + 1] = x
  BY <1>3
<1> HIDE DEF a, c, x
<1>5. b \in Seq(Nat \X Nat) /\ Len(b) = 1 /\ b[1] = x
  BY <1>2, IsASeq
<1>6. Append(a, x) = a \o b
  BY <1>1, <1>2, AppendIsConcat
<1>7. /\ Append(a, x) \in Seq(Nat \X Nat) /\ Len(Append(a, x)) = n + 1
      /\ \A k \in 1..n : Append(a, x)[k] = a[k]
      /\ Append(a, x)[n + 1] = x
  BY <1>1, <1>2, AppendProperties
<1>8. \A k \in 1..(n + 1) : k \in 1..n \/ k = n + 1
  OBVIOUS
<1>9. \A k \in 1..(n + 1) : Append(a, x)[k] = c[k]
  BY <1>1, <1>3, <1>4, <1>7, <1>8
<1>10. Append(a, x) = c
  BY <1>3, <1>7, <1>9, SeqEqual
<1> QED
  BY <1>6, <1>10 DEF a, c, x

\* The bytes a connected flow accepts are its connection's next byte.
LEMMA AcceptsNext ==
  ASSUME ShortConnections, TcpTypeOK, ClientOK, NEW f \in FlowStates, Writes(f), NEW s \in Segments, Formed(s),
         s \in Unseen, Accepts(f, s)
  PROVE  /\ ~f.guestFinSeen /\ s.data = << << f.conn, Len(f.wrote) + 1 >> >> /\ Len(f.wrote) < load.guestBytes
         /\ Len(s.data) = 1 /\ f.guestSeq = GuestPos(f.conn, Len(f.wrote) + 1) /\ Len(f.wrote) \in Nat
<1> DEFINE l == Len(f.wrote)
           p == l + IF f.guestFinSeen THEN 2 ELSE 1
           b == Byte(s)
<1>1. IsData(s) /\ s.seq = f.guestSeq
  BY DEF Accepts, IsData
<1>2. /\ s.from <= client.connects /\ s.from >= 1 /\ s.data = << << s.from, b >> >>
      /\ b \in 1..load.guestBytes /\ s.seq = GuestPos(s.from, b)
  BY <1>1 DEF Formed, IsData
<1>3. /\ s.from \in Nat /\ client.connects \in Nat /\ load.guestBytes \in Nat /\ l \in Nat /\ f.conn \in Nat
  BY LoadAssumption, BytesLen DEF TcpTypeOK, ClientStates, FlowStates, Segments
<1>4. f.conn \in 1..client.connects /\ l <= load.guestBytes /\ f.guestSeq = GuestPos(f.conn, p)
  BY DEF Writes
<1>5. p = l + 2 \/ p = l + 1
  OBVIOUS
<1>6. f.guestFinSeen => p = l + 2 /\ (IsData(s) /\ s.from = f.conn => b <= l)
  BY DEF Writes
<1>7. ~f.guestFinSeen => p = l + 1
  OBVIOUS
<1> HIDE DEF l, p, b
<1>8. s.from \in 1..client.connects /\ b \in 0..(load.guestBytes + 2) /\ p \in 0..(load.guestBytes + 2)
  BY <1>2, <1>3, <1>4, <1>5
<1>9. s.from = f.conn /\ b = p
  <2>1. GuestPos(s.from, b) = GuestPos(f.conn, p)
    BY <1>1, <1>2, <1>4
  <2> QED
    BY <1>4, <1>8, <2>1, SamePlace
<1>10. ~f.guestFinSeen
  BY <1>1, <1>3, <1>6, <1>9
<1>11. b = l + 1 /\ l < load.guestBytes /\ f.guestSeq = GuestPos(f.conn, l + 1)
  BY <1>2, <1>3, <1>4, <1>7, <1>9, <1>10
<1>12. s.data = << << f.conn, l + 1 >> >>
  BY <1>2, <1>9, <1>11
<1> QED
  BY <1>3, <1>10, <1>11, <1>12 DEF l

LEMMA WrittenWell ==
  ASSUME ShortConnections, TcpTypeOK, ClientOK, NEW f \in FlowStates, Writes(f), NEW s \in Segments, Formed(s),
         s \in Unseen, Accepts(f, s), f.open, NEW g, g = Written(f, s)
  PROVE  /\ g.conn = f.conn /\ g.wrote = Stream(g.conn, Len(g.wrote)) /\ Len(g.wrote) <= load.guestBytes
         /\ g.guestSeq = GuestPos(g.conn, Len(g.wrote) + 1) /\ ~g.guestFinSeen /\ ~g.shut
<1> DEFINE l == Len(f.wrote)
<1>1. /\ ~f.guestFinSeen /\ s.data = << << f.conn, l + 1 >> >> /\ l < load.guestBytes
      /\ Len(s.data) = 1 /\ f.guestSeq = GuestPos(f.conn, l + 1) /\ l \in Nat
  BY AcceptsNext
<1>2. f.wrote = Stream(f.conn, l) /\ ~f.shut /\ f.conn \in Nat
  BY <1>1 DEF Writes, FlowStates
<1>3. /\ g.conn = f.conn /\ g.wrote = f.wrote \o s.data /\ g.guestSeq = Plus(f.guestSeq, 1)
      /\ (g.guestFinSeen <=> f.guestFinSeen) /\ (g.shut <=> f.shut)
  BY <1>1 DEF Written, FlowStates
<1> HIDE DEF l
<1>4. g.wrote = Stream(f.conn, l + 1) /\ Len(g.wrote) = l + 1
  <2>1. l + 1 \in Nat
    BY <1>1
  <2>2. g.wrote = Stream(f.conn, l) \o << << f.conn, l + 1 >> >>
    BY <1>1, <1>2, <1>3
  <2>3. Stream(f.conn, l) \o << << f.conn, l + 1 >> >> = Stream(f.conn, l + 1)
    BY <1>1, <1>2, StreamNext
  <2>4. Len(Stream(f.conn, l + 1)) = l + 1
    BY <1>2, <2>1, StreamIs
  <2> QED
    BY <2>2, <2>3, <2>4
<1>5. Plus(GuestPos(f.conn, l + 1), 1) = GuestPos(f.conn, (l + 1) + 1)
  <2>1. l + 1 \in Int
    BY <1>1
  <2> QED
    BY <1>2, <2>1, GuestPosNext
<1>6. l + 1 <= load.guestBytes
  <2>1. load.guestBytes \in Nat
    BY LoadAssumption DEF TcpTypeOK
  <2> QED
    BY <1>1, <2>1
<1> QED
  BY <1>1, <1>2, <1>3, <1>4, <1>5, <1>6

\* An ack for the flow in the table is of that flow's stream.
LEMMA AckIsOfTable ==
  ASSUME TcpTypeOK, StreamInv, table # 0, NEW s \in Queued, Acks(s)
  PROVE  /\ flows[table].conn = s.from /\ Base(table) < s.ack /\ s.ack <= SentTo(flows[table])
         /\ flows[table].guestAcked <= s.ack
         /\ s.from = client.connects => s.ack <= client.rcv
<1>1. FlowsInOrder /\ AckOf(s)
  BY DEF StreamInv, AllAcks
<1>2. table = used /\ table \in 1..used /\ used \in Nat
  BY TableIsFlow, TypesAre, BoundAssumption DEF FlowIds, TcpTypeOK
<1>3. PICK j \in 1..used : flows[j].stream /\ flows[j].conn = s.from /\ Base(j) < s.ack /\ s.ack <= SentTo(flows[j])
  BY <1>1 DEF AckOf
<1>4. flows[table].conn <= s.from
  BY <1>1, <1>2 DEF FlowsInOrder
<1>5. flows[table].conn \in Nat /\ flows[j].conn \in Nat
  BY <1>2, MadeIsFlow DEF FlowStates
<1>6. j = table
  <2>1. j < table => flows[j].conn < flows[table].conn
    BY <1>1, <1>2, <1>3 DEF FlowsInOrder
  <2> QED
    BY <1>2, <1>3, <1>4, <1>5, <2>1
<1>7. flows[table].conn = s.from
  BY <1>3, <1>6
<1> QED
  BY <1>1, <1>2, <1>3, <1>6, <1>7 DEF AckOf

LEMMA NotedPaces ==
  ASSUME ShortConnections, TcpTypeOK, NEW i \in FlowIds, NEW f \in FlowStates, NEW g \in FlowStates,
         InStep(i, f), SameOurSide(f, g), f.guestAcked <= g.guestAcked, g.guestAcked <= SentTo(f)
  PROVE  InStep(i, g)
<1>1. Counts(i, g) /\ SentTo(g) = SentTo(f)
  BY OurSideHolds DEF InStep
<1>2. /\ f.guestAcked \in Nat /\ g.guestAcked \in Nat /\ Base(i) \in Nat /\ Window \in Nat /\ MaxSegment \in Nat
      /\ f.ourSeq \in Nat
  BY Numbers
<1>3. Paced(i, g)
  <2>1. g.ourSeq = f.ourSeq /\ g.pc = f.pc
    BY DEF SameOurSide
  <2>2. /\ Base(i) <= f.guestAcked
        /\ f.pc \in {"Read", "Send", "Count"} => f.ourSeq <= f.guestAcked + Window
        /\ f.pc = "Pace" => f.ourSeq <= f.guestAcked + Window + MaxSegment
    BY DEF InStep, Paced
  <2> QED
    BY <1>1, <1>2, <2>1, <2>2 DEF Paced
<1> QED
  BY <1>1, <1>3 DEF InStep

\* The first part of OnTcp: the ack is noted, data in order is written.
LEMMA TakeDataKeeps ==
  ASSUME ShortConnections, TcpTypeOK, TcpTypeOK', StreamInv, nat.pc = "Idle", toNat # << >>, toNat' = Tail(toNat),
         UNCHANGED << load, disposed, client >>, table # 0, NEW s, s = Head(toNat), "RST" \notin s.flags,
         TakeData(table, s)
  PROVE  StreamInv'
<1> DEFINE f == flows[table]
           n == Noted(f, s)
           g == IF Accepts(n, s) THEN Written(n, s) ELSE n
<1>0. /\ flows' = [flows EXCEPT ![table] = g] /\ UNCHANGED << used, table >>
      /\ nat'.pc = "Fin" /\ nat'.seg = s /\ (Ack(table, g) \/ Quiet)
  BY DEF TakeData
<1>1. /\ InOrder /\ FlowsInOrder /\ FlowsHold /\ ClientOK /\ AllFormed /\ AllAcks /\ ClientAcks
      /\ table = used /\ table \in 1..used /\ table \in FlowIds /\ used \in Nat
  BY TableIsFlow, TypesAre, BoundAssumption DEF StreamInv, FlowIds, TcpTypeOK
<1>2. /\ Queued' \subseteq Queued /\ s \in Queued /\ s \in Segments /\ Unseen = Queued
      /\ Unseen' \subseteq Unseen /\ \A t \in Queued' : Before(s, t) /\ t \in Segments
  <2>1. /\ s \in Queued /\ Queued' = In(Tail(toNat)) /\ Queued \subseteq Segments
        /\ In(Tail(toNat)) \subseteq Queued /\ \A t \in In(Tail(toNat)) : Before(s, t)
    BY <1>1, QueueTail, QueueIsTyped DEF TcpTypeOK, Queued, InOrder
  <2>2. Unseen = Queued /\ Unseen' = Queued' \cup {s}
    BY <1>0 DEF Unseen
  <2> QED
    BY <2>1, <2>2
<1>3. f \in FlowStates /\ n \in FlowStates /\ g \in FlowStates /\ InStep(table, f) /\ Writes(f) /\ Over(table) /\ f.open
  <2>1. f \in FlowStates /\ InStep(table, f) /\ Writes(f) /\ Over(table) /\ f.open
    BY <1>1, MadeIsFlow DEF FlowsHold, FlowsInOrder
  <2>2. n \in FlowStates
    BY <1>2, <2>1, NotedTyped
  <2> QED
    BY <1>2, <2>1, <2>2, WrittenTyped
<1>4. Formed(s)
  BY <1>1, <1>2 DEF AllFormed
<1>5. \A j \in 1..used : flows'[j] = IF j = table THEN g ELSE flows[j]
  <2>1. \A j \in 1..used : j \in FlowIds
    BY MadeIsFlow
  <2> QED
    BY <1>0, <2>1 DEF TcpTypeOK
<1>6. /\ SameOurSide(f, n) /\ SameWrites(f, n) /\ (n.open <=> f.open) /\ (n.closed <=> f.closed)
      /\ n.guestAcked = IF Acks(s) THEN s.ack ELSE f.guestAcked
  BY <1>3 DEF FlowStates, Noted, SameOurSide, SameWrites, Acks
<1>7. /\ SameOurSide(n, g) /\ (g.open <=> n.open) /\ (g.closed <=> n.closed) /\ g.guestAcked = n.guestAcked
      /\ (g.guestFinSeen <=> n.guestFinSeen)
  BY <1>3 DEF FlowStates, Written, SameOurSide
<1>8. Writes(n)
  BY <1>3, <1>6 DEF Writes, SameWrites
<1>9. Accepts(n, s) => /\ g.conn = n.conn /\ g.wrote = Stream(g.conn, Len(g.wrote)) /\ Len(g.wrote) <= load.guestBytes
                       /\ g.guestSeq = GuestPos(g.conn, Len(g.wrote) + 1) /\ ~g.guestFinSeen /\ ~g.shut
  <2> SUFFICES ASSUME Accepts(n, s)
               PROVE  /\ g.conn = n.conn /\ g.wrote = Stream(g.conn, Len(g.wrote)) /\ Len(g.wrote) <= load.guestBytes
                      /\ g.guestSeq = GuestPos(g.conn, Len(g.wrote) + 1) /\ ~g.guestFinSeen /\ ~g.shut
    OBVIOUS
  <2>1. g = Written(n, s) /\ n.open /\ s \in Unseen
    BY <1>2, <1>3, <1>6
  <2> HIDE DEF n, g
  <2> QED
    BY <1>1, <1>2, <1>3, <1>4, <1>8, <2>1, WrittenWell
<1>10. ~Accepts(n, s) => g = n
  OBVIOUS
<1> HIDE DEF f, n, g
<1>11. Acks(s) => /\ f.conn = s.from /\ s.ack <= SentTo(f) /\ f.guestAcked <= s.ack
                  /\ (s.from = client.connects => s.ack <= client.rcv)
  BY <1>2, AckIsOfTable DEF f
<1>12. /\ SameOurSide(f, g) /\ g.guestAcked = (IF Acks(s) THEN s.ack ELSE f.guestAcked) /\ g.conn = f.conn
       /\ (g.open <=> f.open) /\ (g.closed <=> f.closed) /\ (g.guestFinSeen <=> f.guestFinSeen)
       /\ (g.stream <=> f.stream)
  BY <1>6, <1>7 DEF SameOurSide, SameWrites
<1>13. InStep(table, g) /\ SentTo(g) = SentTo(f)
  <2>1. f.guestAcked \in Nat /\ SentTo(f) \in Nat /\ f.guestAcked <= SentTo(f)
    BY <1>1, <1>3, Numbers DEF InStep, Paced
  <2>2. f.guestAcked <= g.guestAcked /\ g.guestAcked <= SentTo(f)
    BY <1>11, <1>12, <2>1
  <2> QED
    BY <1>1, <1>3, <1>12, <2>2, NotedPaces, OurSideHolds
<1>14. \A j \in 1..used : /\ SameOurSide(flows[j], flows'[j]) /\ SentTo(flows'[j]) = SentTo(flows[j])
                          /\ SentGrows(flows[j], flows'[j])
  <2> TAKE j \in 1..used
  <2>1. SameOurSide(flows[j], flows'[j])
    BY <1>5, <1>12, FlowSelf DEF f
  <2>2. flows[j] \in FlowStates /\ flows'[j] \in FlowStates
    BY MadeIsFlow DEF TcpTypeOK
  <2> QED
    BY <2>1, <2>2, OurSideHolds
<1>15. SentGrown
  BY <1>0, <1>1, <1>14 DEF SentGrown
<1>16. AllDeliver' /\ ClientOK' /\ AllFormed'
  <2>1. table \in 1..used'
    BY <1>0, <1>1
  <2> QED
    BY <1>0, <1>2, <1>3, <1>15, <2>1, EmuFrame
<1>17. InOrder'
  <2>1. InOrder' <=> /\ Ordered(toNat')
                     /\ \A t \in Queued' : ~Syn(t) /\ client'.st = "SynSent" => t.from < client'.connects
                     /\ ~Syn(nat'.seg) => Later(nat.seg.from)'
    BY <1>0 DEF InOrder
  <2>2. ~Syn(s) => Later(s.from)'
    BY <1>1, HeadIsLate
  <2>3. ~Syn(s) => Later(nat.seg.from)'
    BY <1>0, <2>2 DEF Later
  <2> QED
    BY <1>0, <1>1, <2>1, <2>3, TailInOrder
<1>18. FlowsInOrder'
  <2>1. \A j \in 1..used : flows'[j].open <=> table' = j
    BY <1>0, <1>1, <1>5, <1>12 DEF FlowsInOrder, f
  <2>2. ClosedWell(f) => ClosedWell(g)
    BY <1>12 DEF ClosedWell, SameOurSide
  <2>3. \A j \in 1..used : ClosedWell(flows'[j])
    BY <1>1, <1>5, <2>2 DEF FlowsInOrder, f
  <2> QED
    BY <1>0, <1>2, <1>14, <2>1, <2>3, FlowsKeepOrder
<1>19. AllAcks'
  <2> SUFFICES ASSUME NEW t \in Queued', Acks(t)
               PROVE  AckOf(t)'
    BY DEF AllAcks
  <2>1. AckOf(t)
    BY <1>1, <1>2 DEF AllAcks
  <2>2. \E j \in 1..used : /\ flows'[j].stream /\ flows'[j].conn = t.from
                           /\ Base(j) < t.ack /\ t.ack <= SentTo(flows'[j])
    BY <1>14, <2>1 DEF AckOf, SameOurSide
  <2>3. \A j \in 1..used : flows'[j].conn = t.from => flows'[j].guestAcked <= t.ack
    <3> SUFFICES ASSUME NEW j \in 1..used, flows'[j].conn = t.from
                 PROVE  flows'[j].guestAcked <= t.ack
      OBVIOUS
    <3>1. CASE j = table /\ Acks(s)
      <4>1. g.guestAcked = s.ack /\ s.from = t.from
        BY <1>5, <1>11, <1>12, <3>1
      <4>2. s.ack <= t.ack
        BY <1>2, <3>1, <4>1 DEF Before
      <4> QED
        BY <1>5, <3>1, <4>1, <4>2
    <3>2. CASE ~(j = table /\ Acks(s))
      <4>1. flows'[j].guestAcked = flows[j].guestAcked /\ flows'[j].conn = flows[j].conn
        BY <1>5, <1>12, <3>2 DEF f
      <4> QED
        BY <2>1, <4>1 DEF AckOf
    <3> QED
      BY <3>1, <3>2
  <2>4. t.from = client.connects => t.ack <= client.rcv
    BY <2>1 DEF AckOf
  <2>5. used' = used /\ client' = client
    BY <1>0
  <2> QED
    BY <2>2, <2>3, <2>4, <2>5 DEF AckOf, SentTo, Base
<1>20. ClientAcks'
  <2>1. client.st = "SynSent" /\ f.conn = client.connects => ~Acks(s)
    <3> SUFFICES ASSUME client.st = "SynSent", f.conn = client.connects, Acks(s)
                 PROVE  FALSE
      OBVIOUS
    <3>1. ~Syn(s)
      BY <1>4 DEF Formed, Acks, Syn
    <3>2. s.from < client.connects /\ s.from = client.connects
      BY <1>1, <1>2, <1>11, <3>1 DEF InOrder
    <3> QED
      BY <3>2 DEF TcpTypeOK, ClientStates
  <2>2. client.st = "Open" /\ f.conn = client.connects => g.guestAcked <= client.rcv
    BY <1>1, <1>11, <1>12 DEF ClientAcks, f
  <2>3. ClientAcks /\ used' = used /\ client' = client
    BY <1>0, <1>1
  <2>4. \A j \in 1..used : flows'[j].conn = client.connects =>
          /\ client.st = "SynSent" => flows'[j].guestAcked = Base(j)
          /\ client.st = "Open" => flows'[j].guestAcked <= client.rcv
    <3> TAKE j \in 1..used
    <3>1. CASE j = table
      <4>1. flows'[j] = g /\ flows[j] = f
        BY <1>5, <3>1 DEF f
      <4> QED
        BY <1>12, <2>1, <2>2, <2>3, <4>1 DEF ClientAcks
    <3>2. CASE j # table
      BY <1>5, <2>3, <3>2 DEF ClientAcks
    <3> QED
      BY <3>1, <3>2
  <2> QED
    BY <2>3, <2>4 DEF ClientAcks, Base
<1>21. \A j \in 1..used : InStep(j, flows[j])'
  <2> TAKE j \in 1..used
  <2>1. InStep(j, flows'[j]) /\ load' = load
    BY <1>1, <1>5, <1>13 DEF FlowsHold
  <2> QED
    BY <2>1 DEF InStep, Counts, Paced, SentTo, Base
<1>22. \A j \in 1..used : Writes(flows[j])'
  <2> TAKE j \in 1..used
  <2>1. CASE j = table /\ Accepts(n, s)
    <3>1. flows'[j] = g /\ client' = client /\ load' = load
      BY <1>5, <2>1
    <3>2. g.conn \in 1..client.connects
      BY <1>3, <1>12 DEF Writes
    <3> QED
      BY <1>9, <2>1, <3>1, <3>2 DEF Writes
  <2>2. CASE j = table /\ ~Accepts(n, s)
    <3>1. Writes(flows[j]) /\ SameWrites(flows[j], flows'[j])
      BY <1>3, <1>5, <1>6, <1>10, <2>2 DEF f
    <3> QED
      BY <1>2, <3>1, WritesKept
  <2>3. CASE j # table
    <3>1. Writes(flows[j]) /\ SameWrites(flows[j], flows'[j])
      BY <1>1, <1>5, <2>3, FlowSelf DEF FlowsHold
    <3> QED
      BY <1>2, <3>1, WritesKept
  <2> QED
    BY <2>1, <2>2, <2>3
<1>23. \A j \in 1..used : Over(j)'
  <2> TAKE j \in 1..used
  <2>1. Over(j) /\ table' = table /\ disposed' = disposed /\ client' = client
    BY <1>0, <1>1 DEF FlowsHold
  <2>2. /\ flows'[j].conn = flows[j].conn /\ (flows'[j].stream <=> flows[j].stream)
        /\ (flows'[j].guestFinSeen <=> flows[j].guestFinSeen)
    BY <1>5, <1>12 DEF f
  <2> QED
    BY <1>2, <2>1, <2>2 DEF Over, Later
<1>24. FlowsHold'
  BY <1>0, <1>21, <1>22, <1>23 DEF FlowsHold
<1> QED
  BY <1>16, <1>17, <1>18, <1>19, <1>20, <1>24 DEF StreamInv

\* A flow that has just been made.
LEMMA NewFlowHolds ==
  ASSUME ShortConnections, TcpTypeOK, ClientOK, NEW i \in FlowIds, NEW s \in Segments, Formed(s), Syn(s),
         NEW f, f = NewFlow(s, OurIsn(i))
  PROVE  /\ InStep(i, f) /\ f.conn = s.from /\ f.conn \in 1..client.connects /\ f.wrote = << >>
         /\ f.guestSeq = GuestPos(f.conn, 1) /\ ~f.guestFinSeen /\ ~f.shut /\ ~f.stream /\ ~f.closed /\ f.open
         /\ f.guestAcked = Base(i)
<1>1. s.from <= client.connects /\ s.from >= 1 /\ s.seq = GuestPos(s.from, 0)
  BY DEF Formed, Syn
<1>2. s.from \in Nat /\ client.connects \in Nat
  BY DEF TcpTypeOK, ClientStates, Segments
<1>3. /\ f.pc = "Connect" /\ f.ourSeq = OurIsn(i) /\ f.guestSeq = Plus(s.seq, 1) /\ f.guestAcked = OurIsn(i)
      /\ f.conn = s.from /\ f.read = 0 /\ f.wrote = << >> /\ f.open
      /\ ~f.guestFinSeen /\ ~f.shut /\ ~f.stream /\ ~f.closed
  BY DEF NewFlow
<1>4. Plus(GuestPos(s.from, 0), 1) = GuestPos(s.from, 1)
  <2> DEFINE x == 0
             y == 1
  <2>1. x \in Int /\ y \in Nat /\ x + y = y
    OBVIOUS
  <2> HIDE DEF x, y
  <2>2. Plus(GuestPos(s.from, x), y) = GuestPos(s.from, x + y)
    BY <1>2, <2>1, GuestPosNext
  <2> QED
    BY <2>1, <2>2 DEF x, y
<1>5. OurIsn(i) = Base(i) /\ Base(i) \in Nat /\ load.remoteBytes \in Nat
  BY BaseLies, LoadAssumption DEF TcpTypeOK
<1>6. SentTo(f) = Base(i)
  BY <1>3, <1>5 DEF SentTo
<1>7. Counts(i, f)
  BY <1>3, <1>5 DEF Counts
<1>8. Paced(i, f)
  BY <1>3, <1>5, <1>6 DEF Paced
<1> QED
  BY <1>1, <1>2, <1>3, <1>4, <1>5, <1>7, <1>8 DEF InStep

\* Every connected flow is of an earlier connection than a SYN for a key without a flow.
LEMMA SynIsLater ==
  ASSUME TcpTypeOK, StreamInv, table = 0, ~disposed, NEW s \in Queued, Syn(s), NEW j \in 1..used, flows[j].stream
  PROVE  flows[j].conn < s.from
<1>1. Over(j) /\ j # table
  BY BoundAssumption DEF StreamInv, FlowsHold, TcpTypeOK
<1>2. Later(flows[j].conn)
  BY <1>1 DEF Over
<1>3. s.from \in Nat /\ flows[j].conn \in Nat
  BY QueueIsTyped, MadeIsFlow DEF Segments, FlowStates
<1> QED
  BY <1>2, <1>3 DEF Later

LEMMA OpenKeeps ==
  ASSUME ShortConnections, TcpTypeOK, TcpTypeOK', StreamInv, nat.pc = "Idle", toNat # << >>, toNat' = Tail(toNat),
         UNCHANGED << load, disposed, client >>, ~disposed, table = 0, NEW s, s = Head(toNat),
         Syn(s), ~Acks(s), used < MaxFlows, OpenFlow(s)
  PROVE  StreamInv'
<1> DEFINE i == used + 1
           f == NewFlow(s, OurIsn(i))
<1>0. flows' = [flows EXCEPT ![i] = f] /\ used' = i /\ table' = i /\ nat' = nat /\ Quiet
  BY DEF OpenFlow, Syn, Acks
<1>1. /\ InOrder /\ FlowsInOrder /\ FlowsHold /\ ClientOK /\ AllFormed /\ AllAcks /\ ClientAcks
      /\ used \in Nat /\ i \in FlowIds /\ i \in Nat
  BY BoundAssumption DEF StreamInv, FlowIds, TcpTypeOK
<1>2. /\ Queued' \subseteq Queued /\ s \in Queued /\ s \in Segments /\ Unseen = Queued
      /\ Unseen' \subseteq Unseen /\ \A t \in Queued' : Before(s, t) /\ t \in Segments
  <2>1. /\ s \in Queued /\ Queued' = In(Tail(toNat)) /\ Queued \subseteq Segments
        /\ In(Tail(toNat)) \subseteq Queued /\ \A t \in In(Tail(toNat)) : Before(s, t)
    BY <1>1, QueueTail, QueueIsTyped DEF TcpTypeOK, Queued, InOrder
  <2>2. Unseen = Queued /\ Unseen' = Queued'
    BY <1>0 DEF Unseen
  <2> QED
    BY <2>1, <2>2
<1>3. Formed(s)
  BY <1>1, <1>2 DEF AllFormed
<1>4. /\ InStep(i, f) /\ f.conn = s.from /\ f.conn \in 1..client.connects /\ f.wrote = << >>
      /\ f.guestSeq = GuestPos(f.conn, 1) /\ ~f.guestFinSeen /\ ~f.shut /\ ~f.stream /\ ~f.closed /\ f.open
      /\ f.guestAcked = Base(i)
  BY <1>1, <1>2, <1>3, NewFlowHolds
<1>5. /\ flows'[i] = f /\ \A j \in 1..used : j \in FlowIds /\ flows'[j] = flows[j] /\ flows[j] \in FlowStates
  <2>1. \A j \in 1..used : j \in FlowIds /\ flows[j] \in FlowStates /\ j # i
    BY <1>1, MadeIsFlow
  <2> QED
    BY <1>0, <1>1, <2>1 DEF TcpTypeOK
<1>6. \A j \in 1..used' : j \in 1..used \/ j = i
  BY <1>0, <1>1
<1>7. \A j \in 1..used : j # i /\ j \in 1..used' /\ j < i
  BY <1>0, <1>1
<1>8. \A j \in 1..used : flows[j].stream => flows[j].conn < s.from
  BY <1>2, SynIsLater
<1>9. s.from \in Nat /\ \A j \in 1..used : flows[j].conn \in Nat
  BY <1>2, <1>5 DEF Segments, FlowStates
<1> HIDE DEF i, f
<1>10. SentGrown
  BY <1>0, <1>1, <1>5, <1>7, GrowsSelf DEF SentGrown, i
<1>11. AllDeliver' /\ ClientOK' /\ AllFormed'
  BY <1>0, <1>2, <1>10, EmuFrame
<1>12. InOrder'
  BY <1>0, <1>1, TailInOrder DEF InOrder
<1>13. FlowsInOrder'
  <2>1. \A j \in 1..used' : \A t \in Queued' : flows'[j].conn <= t.from
    <3> TAKE j \in 1..used'
    <3> TAKE t \in Queued'
    <3>1. CASE j = i
      BY <1>2, <1>4, <1>5, <3>1 DEF Before
    <3>2. CASE j \in 1..used
      BY <1>1, <1>2, <1>5, <3>2 DEF FlowsInOrder
    <3> QED
      BY <1>6, <3>1, <3>2
  <2>2. \A k, j \in 1..used' : j < k /\ flows'[j].stream => flows'[j].conn < flows'[k].conn
    <3> SUFFICES ASSUME NEW k \in 1..used', NEW j \in 1..used', j < k, flows'[j].stream
                 PROVE  flows'[j].conn < flows'[k].conn
      OBVIOUS
    <3>1. j \in 1..used
      BY <1>4, <1>5, <1>6
    <3>2. CASE k = i
      BY <1>4, <1>5, <1>8, <3>1, <3>2
    <3>3. CASE k \in 1..used
      BY <1>1, <1>5, <3>1, <3>3 DEF FlowsInOrder
    <3> QED
      BY <1>6, <3>2, <3>3
  <2>3. \A j \in 1..used' : flows'[j].open <=> table' = j
    <3> TAKE j \in 1..used'
    <3>1. CASE j = i
      BY <1>0, <1>4, <1>5, <3>1
    <3>2. CASE j \in 1..used
      <4>1. ~flows[j].open
        <5>1. j # 0
          BY <1>1, <3>2
        <5> QED
          BY <1>1, <3>2, <5>1 DEF FlowsInOrder
      <4> QED
        BY <1>0, <1>5, <1>7, <3>2, <4>1
    <3> QED
      BY <1>6, <3>1, <3>2
  <2>4. \A j \in 1..used' : ClosedWell(flows'[j])
    BY <1>1, <1>4, <1>5, <1>6 DEF FlowsInOrder, ClosedWell
  <2>5. \A j : ClosedWell(flows'[j]) <=> (ClosedWell(flows[j]))'
    BY DEF ClosedWell
  <2> QED
    BY <2>1, <2>2, <2>3, <2>4, <2>5 DEF FlowsInOrder
<1>14. AllAcks'
  <2> SUFFICES ASSUME NEW t \in Queued', Acks(t)
               PROVE  AckOf(t)'
    BY DEF AllAcks
  <2>1. AckOf(t)
    BY <1>1, <1>2 DEF AllAcks
  <2>2. PICK j \in 1..used : flows[j].stream /\ flows[j].conn = t.from /\ Base(j) < t.ack /\ t.ack <= SentTo(flows[j])
    BY <2>1 DEF AckOf
  <2>3. t.from # s.from
    BY <1>8, <1>9, <2>2
  <2>4. \A k \in 1..used' : flows'[k].conn = t.from => flows'[k].guestAcked <= t.ack
    BY <1>4, <1>5, <1>6, <2>1, <2>3 DEF AckOf
  <2>5. \E k \in 1..used' : /\ flows'[k].stream /\ flows'[k].conn = t.from
                            /\ Base(k) < t.ack /\ t.ack <= SentTo(flows'[k])
    BY <1>5, <1>7, <2>2
  <2>6. t.from = client.connects => t.ack <= client.rcv
    BY <2>1 DEF AckOf
  <2>7. client' = client
    OBVIOUS
  <2> QED
    BY <2>4, <2>5, <2>6, <2>7 DEF AckOf, SentTo, Base
<1>15. ClientAcks'
  <2>1. f.conn = client.connects => client.st # "Open"
    <3> SUFFICES ASSUME f.conn = client.connects, client.st = "Open"
                 PROVE  FALSE
      OBVIOUS
    <3>1. PICK j \in 1..used : Follows(flows[j], client, j)
      BY <1>1 DEF ClientOK, GuestOK
    <3>2. flows[j].stream /\ flows[j].conn = client.connects
      BY <3>1 DEF Follows
    <3> QED
      BY <1>4, <1>8, <1>9, <3>2
  <2>2. \A j \in 1..used' : flows'[j].conn = client.connects =>
          /\ client.st = "SynSent" => flows'[j].guestAcked = Base(j)
          /\ client.st = "Open" => flows'[j].guestAcked <= client.rcv
    <3> TAKE j \in 1..used'
    <3>1. CASE j = i
      BY <1>4, <1>5, <2>1, <3>1
    <3>2. CASE j \in 1..used
      BY <1>1, <1>5, <3>2 DEF ClientAcks
    <3> QED
      BY <1>6, <3>1, <3>2
  <2>3. client' = client
    OBVIOUS
  <2> QED
    BY <2>2, <2>3 DEF ClientAcks, Base
<1>16. FlowsHold'
  <2> SUFFICES ASSUME NEW j \in 1..used'
               PROVE  InStep(j, flows[j])' /\ Writes(flows[j])' /\ Over(j)'
    BY DEF FlowsHold
  <2>1. InStep(j, flows[j])'
    <3>1. InStep(j, flows'[j]) /\ load' = load
      BY <1>1, <1>4, <1>5, <1>6 DEF FlowsHold
    <3> QED
      BY <3>1 DEF InStep, Counts, Paced, SentTo, Base
  <2>2. Writes(flows[j])'
    <3>1. CASE j = i
      <4>1. /\ flows[j]' = f /\ client' = client /\ load' = load /\ load.guestBytes \in Nat
            /\ Len(<< >>) = 0 /\ 0 + 1 = 1 /\ << >> = Stream(f.conn, 0)
        BY <1>5, <3>1, LoadAssumption, NoBytes DEF TcpTypeOK, Stream
      <4>2. f.wrote = Stream(f.conn, Len(f.wrote)) /\ f.guestSeq = GuestPos(f.conn, Len(f.wrote) + 1)
            /\ Len(f.wrote) <= load.guestBytes
        BY <1>4, <4>1
      <4> QED
        BY <1>4, <4>1, <4>2 DEF Writes
    <3>2. CASE j \in 1..used
      <4>1. Writes(flows[j]) /\ SameWrites(flows[j], flows'[j])
        BY <1>1, <1>5, <3>2, FlowSelf DEF FlowsHold
      <4> QED
        BY <1>2, <4>1, WritesKept
    <3> QED
      BY <1>6, <3>1, <3>2
  <2>3. Over(j)'
    <3>1. CASE j = i
      BY <1>0, <1>4, <1>5, <3>1 DEF Over
    <3>2. CASE j \in 1..used
      <4>1. Over(j) /\ flows'[j] = flows[j] /\ j # table
        BY <1>1, <1>5, <3>2 DEF FlowsHold
      <4> QED
        BY <1>2, <4>1 DEF Over, Later
    <3> QED
      BY <1>6, <3>1, <3>2
  <2> QED
    BY <2>1, <2>2, <2>3
<1> QED
  BY <1>11, <1>12, <1>13, <1>14, <1>15, <1>16 DEF StreamInv

LEMMA OnTcpKeeps ==
  ASSUME ShortConnections, TcpTypeOK, TcpTypeOK', StreamInv, OnTcp
  PROVE  StreamInv'
<1> DEFINE s == Head(toNat)
<1>1. /\ nat.pc = "Idle" /\ toNat # << >> /\ ~disposed /\ toNat' = Tail(toNat)
      /\ UNCHANGED << load, disposed, client >>
      /\ IF table = 0 THEN OpenFlow(s)
         ELSE IF "RST" \in s.flags THEN Dispose(table) /\ UNCHANGED << used, nat >> /\ Quiet
         ELSE TakeData(table, s)
  BY DEF OnTcp
<1>2. CASE table = 0 /\ Syn(s) /\ ~Acks(s) /\ used < MaxFlows
  BY <1>1, <1>2, OpenKeeps
<1>3. CASE table = 0 /\ ~(Syn(s) /\ ~Acks(s) /\ used < MaxFlows)
  <2>1. OpenFlow(s)
    BY <1>1, <1>3
  <2>2. UNCHANGED << flows, used, table, nat >> /\ Quiet
    BY <1>3, <2>1 DEF OpenFlow, Syn, Acks
  <2> QED
    BY <1>1, <2>2, DropKeeps
<1>4. CASE table # 0 /\ "RST" \in s.flags
  BY <1>1, <1>4, ResetKeeps
<1>5. CASE table # 0 /\ "RST" \notin s.flags
  BY <1>1, <1>5, TakeDataKeeps
<1> QED
  BY <1>2, <1>3, <1>4, <1>5

-----------------------------------------------------------------------------
(* The guest                                                               *)

\* The guest leaves the flows alone.
LEMMA GuestFrame ==
  ASSUME TcpTypeOK, TcpTypeOK', StreamInv, UNCHANGED << load, flows, used >>, In(toGuest') \subseteq In(toGuest),
         NEW g, client' = g, GuestOK(g)
  PROVE  AllDeliver' /\ ClientOK' /\ \A i \in 1..used : InStep(i, flows[i])'
<1>1. \A j \in 1..used : SentGrows(flows[j], flows'[j])
  BY MadeIsFlow, GrowsSelf
<1>2. SentGrown
  BY <1>1, BoundAssumption DEF SentGrown, TcpTypeOK
<1>3. AllDeliver'
  BY <1>2, QuietDelivers DEF StreamInv
<1>4. ClientOK'
  BY DEF ClientOK, GuestOK, Follows, SentTo
<1>5. \A i \in 1..used : InStep(i, flows[i])'
  <2> TAKE i \in 1..used
  <2>1. InStep(i, flows[i])
    BY DEF StreamInv, FlowsHold
  <2> QED
    BY <2>1 DEF InStep, Counts, Paced, SentTo, Base
<1> QED
  BY <1>3, <1>4, <1>5

\* What a segment that the guest g sends on its connection must be.
LEMMA QueueOne ==
  ASSUME TcpTypeOK, StreamInv, NEW g \in ClientStates, NEW s \in Segments, toNat' = toNat \o << s >>, nat' = nat,
         s.from = client.connects, (Syn(s) => client.st = "SynSent"), (Acks(s) => s.ack = g.rcv),
         (client.st # "SynSent" => client.rcv <= g.rcv)
  PROVE  Queued' = Queued \cup {s} /\ Unseen' = Unseen \cup {s} /\ Ordered(toNat')
<1>0. InOrder /\ AllFormed /\ AllAcks
  BY DEF StreamInv
<1>1. Queued' = Queued \cup {s} /\ (Ordered(toNat) /\ (\A t \in Queued : Before(t, s)) => Ordered(toNat'))
  BY QueueAdd DEF TcpTypeOK, Queued
<1>2. Unseen' = Unseen \cup {s}
  BY <1>1 DEF Unseen
<1>3. ASSUME NEW t \in Queued
      PROVE  Before(t, s)
  <2>1. t \in Segments /\ Formed(t) /\ (Acks(t) => AckOf(t)) /\ t \in Unseen
    BY <1>0, QueueIsTyped DEF AllFormed, AllAcks, Unseen
  <2>2. /\ t.from \in Nat /\ client.connects \in Nat /\ t.ack \in Nat /\ client.rcv \in Nat /\ g.rcv \in Nat
    BY <2>1, SeqNoIsNat DEF TcpTypeOK, ClientStates, Segments
  <2>3. t.from <= s.from
    BY <2>1 DEF Formed
  <2>4. ~Syn(t) /\ client.st = "SynSent" => t.from < client.connects
    BY <1>0 DEF InOrder
  <2>5. Acks(t) => ~Syn(t)
    BY <2>1 DEF Formed, Acks, Syn
  <2>6. Acks(t) /\ t.from = client.connects => t.ack <= client.rcv
    BY <2>1 DEF AckOf
  <2> QED
    BY <2>2, <2>3, <2>4, <2>5, <2>6 DEF Before
<1> QED
  BY <1>0, <1>1, <1>2, <1>3 DEF InOrder

\* A step of the guest that stays on its connection and sends the segments in N.
LEMMA GuestKeeps ==
  ASSUME TcpTypeOK, TcpTypeOK', StreamInv, NEW g \in ClientStates, NEW N, N \subseteq Segments, client' = g,
         UNCHANGED << load, flows, used, table, disposed, nat >>, In(toGuest') \subseteq In(toGuest),
         Queued' = Queued \cup N, Unseen' = Unseen \cup N, Ordered(toNat'), GuestOK(g),
         g.connects = client.connects, client.sent <= g.sent, (client.fin => g.fin /\ g.sent = client.sent),
         (g.st = "SynSent" => client.st = "SynSent"), (client.st # "SynSent" => client.rcv <= g.rcv),
         (g.st = "Open" => \A i \in 1..used : flows[i].conn = client.connects => flows[i].guestAcked <= g.rcv),
         \A s \in N : /\ s.from = client.connects /\ (Syn(s) => client.st = "SynSent") /\ Formed(s)'
                      /\ (g.st = "SynSent" => Syn(s)) /\ (IsData(s) => Byte(s) <= g.sent)
                      /\ (Acks(s) => AckOf(s)')
  PROVE  StreamInv'
<1>0. /\ InOrder /\ FlowsInOrder /\ FlowsHold /\ ClientOK /\ AllFormed /\ AllAcks /\ ClientAcks
      /\ client.connects \in Nat /\ client.sent \in Nat /\ g.sent \in Nat /\ client.rcv \in Nat /\ g.rcv \in Nat
  BY SeqNoIsNat DEF StreamInv, TcpTypeOK, ClientStates
<1>1. AllDeliver' /\ ClientOK' /\ \A i \in 1..used : InStep(i, flows[i])'
  BY GuestFrame
<1>2. \A t \in Queued : t \in Segments /\ t.from \in Nat /\ t.ack \in Nat
  BY QueueIsTyped, SeqNoIsNat DEF Segments
<1>3. \A j \in 1..used : flows[j].conn \in Nat /\ flows[j].conn <= client.connects /\ Writes(flows[j]) /\ Over(j)
  <2> TAKE j \in 1..used
  <2>1. Writes(flows[j]) /\ Over(j)
    BY <1>0 DEF FlowsHold
  <2>2. flows[j].conn \in 1..client.connects
    BY <2>1 DEF Writes
  <2> QED
    BY <1>0, <2>1, <2>2
<1>4. ASSUME NEW c, Later(c)
      PROVE  /\ \A s \in Queued' : Syn(s) => s.from > c
             /\ g.st = "SynSent" => g.connects > c
  BY <1>0, <1>4 DEF Later
<1>5. \A j \in 1..used : Over(j)'
  <2> TAKE j \in 1..used
  <2>1. (j # table /\ flows[j].stream /\ ~disposed) \/ flows[j].guestFinSeen => Later(flows[j].conn)
    BY <1>3 DEF Over
  <2>2. Later(flows[j].conn) => Later(flows[j].conn)'
    BY <1>4 DEF Later
  <2> QED
    BY <2>1, <2>2 DEF Over
<1>6. \A j \in 1..used : Writes(flows[j])'
  <2> TAKE j \in 1..used
  <2>1. flows[j]' = flows[j] /\ load' = load /\ client' = g
    OBVIOUS
  <2>2. ASSUME flows[j].guestFinSeen
        PROVE  /\ \A d \in Unseen' : IsData(d) /\ d.from = flows[j].conn => Byte(d) <= Len(flows[j].wrote)
               /\ flows[j].conn = g.connects => g.fin /\ g.sent = Len(flows[j].wrote)
    <3>1. /\ \A d \in Unseen : IsData(d) /\ d.from = flows[j].conn => Byte(d) <= Len(flows[j].wrote)
          /\ flows[j].conn = client.connects => client.fin /\ client.sent = Len(flows[j].wrote)
      BY <1>3, <2>2 DEF Writes
    <3> QED
      BY <1>0, <3>1
  <2>3. Writes(flows[j])
    BY <1>3
  <2> QED
    BY <2>1, <2>2, <2>3 DEF Writes
<1>7. FlowsHold'
  BY <1>1, <1>5, <1>6 DEF FlowsHold
<1>8. AllFormed'
  <2> SUFFICES ASSUME NEW t \in Unseen, t \notin N
               PROVE  Formed(t)'
    BY DEF AllFormed
  <2>1. Formed(t) /\ client' = g /\ load' = load /\ t.from \in Nat
    BY <1>0, QueueIsTyped DEF AllFormed, Segments
  <2>2. CASE t.flags = {"FIN", "ACK"} /\ t.data = << >>
    <3>1. PICK m \in 0..load.guestBytes :
             /\ t.seq = GuestPos(t.from, m + 1)
             /\ t.from = client.connects => client.fin /\ client.sent = m
             /\ \A d \in Unseen : IsData(d) /\ d.from = t.from => Byte(d) <= m
      BY <2>1, <2>2 DEF Formed, IsData
    <3>2. /\ t.from = g.connects => g.fin /\ g.sent = m
          /\ \A d \in Unseen' : IsData(d) /\ d.from = t.from => Byte(d) <= m
      BY <1>0, <3>1
    <3>3. \E k \in 0..load.guestBytes :
             /\ t.seq = GuestPos(t.from, k + 1)
             /\ t.from = g.connects => g.fin /\ g.sent = k
             /\ \A d \in Unseen' : IsData(d) /\ d.from = t.from => Byte(d) <= k
      BY <3>1, <3>2
    <3> QED
      BY <2>1, <2>2, <3>3 DEF Formed
  <2>3. CASE t.flags = {"ACK"} /\ IsData(t)
    <3>1. /\ t.data = << << t.from, Byte(t) >> >> /\ Byte(t) \in 1..load.guestBytes
          /\ t.seq = GuestPos(t.from, Byte(t)) /\ (t.from = client.connects => Byte(t) <= client.sent)
      BY <2>1, <2>3 DEF Formed, IsData
    <3>2. load.guestBytes \in Nat
      BY LoadAssumption DEF TcpTypeOK
    <3>3. t.from = g.connects => Byte(t) <= g.sent
      BY <1>0, <3>1, <3>2
    <3> QED
      BY <2>1, <2>3, <3>1, <3>3 DEF Formed
  <2>4. CASE t.data = << >> /\ t.flags # {"FIN", "ACK"}
    BY <2>1, <2>4 DEF Formed, IsData
  <2> QED
    BY <2>1, <2>2, <2>3, <2>4 DEF Formed, IsData
<1>9. AllAcks'
  <2> SUFFICES ASSUME NEW t \in Queued, t \notin N, Acks(t)
               PROVE  AckOf(t)'
    BY DEF AllAcks
  <2>1. AckOf(t) /\ Formed(t)
    BY <1>0 DEF AllAcks, AllFormed, Unseen
  <2>2. client.st = "SynSent" => t.from < client.connects
    <3>1. ~Syn(t)
      BY <2>1 DEF Formed, Acks, Syn
    <3> QED
      BY <1>0, <3>1 DEF InOrder
  <2>3. t.from = g.connects => t.ack <= g.rcv
    BY <1>0, <1>2, <2>1, <2>2 DEF AckOf
  <2>4. flows' = flows /\ used' = used /\ client' = g
    OBVIOUS
  <2> QED
    BY <2>1, <2>3, <2>4 DEF AckOf, SentTo, Base
<1>10. InOrder'
  <2>1. \A s \in Queued' : ~Syn(s) /\ g.st = "SynSent" => s.from < g.connects
    BY <1>0 DEF InOrder
  <2>2. nat.pc = "Fin" /\ ~Syn(nat.seg) => Later(nat.seg.from)'
    <3>1. nat.pc = "Fin" /\ ~Syn(nat.seg) => Later(nat.seg.from)
      BY <1>0 DEF InOrder
    <3>2. Later(nat.seg.from) => Later(nat.seg.from)'
      BY <1>4 DEF Later
    <3> QED
      BY <3>1, <3>2
  <2> QED
    BY <2>1, <2>2 DEF InOrder
<1>11. FlowsInOrder'
  <2>1. \A i \in 1..used : \A s \in Queued' : flows[i].conn <= s.from
    BY <1>0, <1>3 DEF FlowsInOrder
  <2> QED
    BY <1>0, <2>1 DEF FlowsInOrder, ClosedWell
<1>12. ClientAcks'
  BY <1>0 DEF ClientAcks, Base
<1> QED
  BY <1>1, <1>7, <1>8, <1>9, <1>10, <1>11, <1>12 DEF StreamInv

\* A step of the guest that sends nothing.
LEMMA GuestQuiet ==
  ASSUME TcpTypeOK, TcpTypeOK', StreamInv, NEW g \in ClientStates, GuestSends(g, << >>),
         In(toGuest') \subseteq In(toGuest), GuestOK(g),
         g.connects = client.connects, g.sent = client.sent, g.fin = client.fin,
         (g.st = "SynSent" => client.st = "SynSent"), (client.st # "SynSent" => client.rcv <= g.rcv),
         (g.st = "Open" => \A i \in 1..used : flows[i].conn = client.connects => flows[i].guestAcked <= g.rcv)
  PROVE  StreamInv'
<1>1. client' = g /\ toNat' = toNat /\ UNCHANGED << load, flows, used, table, disposed, nat >>
  BY QueueSame DEF GuestSends, TcpTypeOK
<1>2. Queued' = Queued \cup {} /\ Unseen' = Unseen \cup {} /\ Ordered(toNat')
  BY <1>1 DEF Queued, Unseen, StreamInv, InOrder
<1>3. client.sent <= g.sent
  BY DEF TcpTypeOK, ClientStates
<1> DEFINE N == {}
<1>4. N \subseteq Segments /\ Queued' = Queued \cup N /\ Unseen' = Unseen \cup N /\ Ordered(toNat')
  BY <1>2
<1>5. \A t \in N : /\ t.from = client.connects /\ (Syn(t) => client.st = "SynSent") /\ Formed(t)'
                   /\ (g.st = "SynSent" => Syn(t)) /\ (IsData(t) => Byte(t) <= g.sent)
                   /\ (Acks(t) => AckOf(t)')
  OBVIOUS
<1>6. /\ g.connects = client.connects /\ client.sent <= g.sent
      /\ client.fin => g.fin /\ g.sent = client.sent
  BY <1>3
<1> HIDE DEF N
<1> QED
  BY <1>1, <1>4, <1>5, <1>6, GuestKeeps

\* A step of the guest that sends one segment.
LEMMA GuestSays ==
  ASSUME TcpTypeOK, TcpTypeOK', StreamInv, NEW g \in ClientStates, NEW s \in Segments, GuestSends(g, << s >>),
         In(toGuest') \subseteq In(toGuest), GuestOK(g),
         g.connects = client.connects, client.sent <= g.sent, (client.fin => g.fin /\ g.sent = client.sent),
         (g.st = "SynSent" => client.st = "SynSent"), (client.st # "SynSent" => client.rcv <= g.rcv),
         (g.st = "Open" \/ Acks(s) =>
            \A i \in 1..used : flows[i].conn = client.connects => flows[i].guestAcked <= g.rcv),
         s.from = client.connects, (Syn(s) => client.st = "SynSent"), (g.st = "SynSent" => Syn(s)),
         (IsData(s) => Byte(s) <= g.sent),
         (Acks(s) => s.ack = g.rcv /\ \E j \in 1..used : Follows(flows[j], g, j)),
         Queued' = Queued \cup {s} /\ Unseen' = Unseen \cup {s} => Formed(s)'
  PROVE  StreamInv'
<1>1. client' = g /\ toNat' = toNat \o << s >> /\ UNCHANGED << load, flows, used, table, disposed, nat >>
  BY DEF GuestSends
<1>2. Queued' = Queued \cup {s} /\ Unseen' = Unseen \cup {s} /\ Ordered(toNat')
  BY <1>1, QueueOne
<1>3. Acks(s) => AckOf(s)'
  <2> SUFFICES ASSUME Acks(s)
               PROVE  AckOf(s)'
    OBVIOUS
  <2>1. PICK j \in 1..used : Follows(flows[j], g, j)
    OBVIOUS
  <2>2. /\ flows[j].stream /\ flows[j].conn = g.connects /\ g.rcv <= SentTo(flows[j])
        /\ g.rcv = Base(j) + Len(g.got) + IF g.finRcvd THEN 2 ELSE 1
    BY <2>1 DEF Follows
  <2>3. j \in Nat /\ Len(g.got) \in Nat /\ Base(j) \in Int
    BY MadeIsFlow, ClientTyped, BytesLen, Space DEF Base
  <2>4. Base(j) < g.rcv
    BY <2>2, <2>3
  <2>5. \E k \in 1..used : /\ flows[k].stream /\ flows[k].conn = s.from /\ Base(k) < s.ack /\ s.ack <= SentTo(flows[k])
    BY <2>2, <2>4
  <2>6. \A i \in 1..used : flows[i].conn = s.from => flows[i].guestAcked <= s.ack
    OBVIOUS
  <2>7. s.ack <= g.rcv
    BY SeqNoIsNat DEF ClientStates
  <2> QED
    BY <1>1, <2>5, <2>6, <2>7 DEF AckOf, SentTo, Base
<1> DEFINE N == {s}
<1>4. N \subseteq Segments /\ Queued' = Queued \cup N /\ Unseen' = Unseen \cup N
  BY <1>2
<1>5. \A t \in N : /\ t.from = client.connects /\ (Syn(t) => client.st = "SynSent") /\ Formed(t)'
                   /\ (g.st = "SynSent" => Syn(t)) /\ (IsData(t) => Byte(t) <= g.sent)
                   /\ (Acks(t) => AckOf(t)')
  BY <1>2, <1>3
<1> HIDE DEF N
<1>6. g.st = "Open" => \A i \in 1..used : flows[i].conn = client.connects => flows[i].guestAcked <= g.rcv
  OBVIOUS
<1> QED
  BY <1>1, <1>2, <1>4, <1>5, <1>6, GuestKeeps

\* The places of the guest's own segments.
LEMMA GuestPlaces ==
  ASSUME TcpTypeOK, NEW g \in ClientStates, g.iss = GuestPos(g.connects, 0)
  PROVE  /\ \A k \in Nat : DataSeq(g, k) = GuestPos(g.connects, k)
         /\ FinSeq(g) = GuestPos(g.connects, g.sent + 1)
<1>1. g.connects \in Nat /\ g.sent \in Nat
  BY ClientTyped
<1>2. ASSUME NEW k \in Nat
      PROVE  Plus(g.iss, k) = GuestPos(g.connects, k)
  <2> DEFINE x == 0
  <2>1. x \in Int /\ x + k = k /\ g.iss = GuestPos(g.connects, x)
    OBVIOUS
  <2> HIDE DEF x
  <2>2. Plus(GuestPos(g.connects, x), k) = GuestPos(g.connects, x + k)
    BY <1>1, <2>1, GuestPosNext
  <2> QED
    BY <2>1, <2>2
<1>3. g.sent + 1 \in Nat
  BY <1>1
<1> QED
  BY <1>2, <1>3 DEF DataSeq, FinSeq

LEMMA ClientIs ==
  ASSUME TcpTypeOK, StreamInv
  PROVE  /\ client \in ClientStates /\ GuestOK(client) /\ client.connects \in Nat /\ client.sent \in Nat
         /\ client.acked \in Nat /\ client.rcv \in Nat /\ client.retries \in Nat /\ load.guestBytes \in Nat
         /\ client.sent <= load.guestBytes /\ client.acked <= client.sent
         /\ (client.st # "Closed" => client.connects >= 1 /\ client.iss = GuestPos(client.connects, 0))
         /\ (client.st = "Open" =>
               /\ \E j \in 1..used : Follows(flows[j], client, j)
               /\ \A i \in 1..used : flows[i].conn = client.connects => flows[i].guestAcked <= client.rcv)
         /\ (\A d \in Unseen : IsData(d) /\ d.from = client.connects => Byte(d) <= client.sent)
<1>1. client \in ClientStates /\ load.guestBytes \in Nat
  BY LoadAssumption DEF TcpTypeOK
<1>2. /\ client.connects \in Nat /\ client.sent \in Nat /\ client.acked \in Nat /\ client.rcv \in Nat
      /\ client.retries \in Nat
  BY <1>1, SeqNoIsNat DEF ClientStates
<1>3. GuestOK(client)
  BY DEF StreamInv, ClientOK
<1>4. client.sent <= load.guestBytes /\ client.acked <= client.sent
      /\ (client.st # "Closed" => client.connects >= 1 /\ client.iss = GuestPos(client.connects, 0))
      /\ (client.st = "Open" => \E j \in 1..used : Follows(flows[j], client, j))
  BY <1>3 DEF GuestOK
<1>5. client.st = "Open" => \A i \in 1..used : flows[i].conn = client.connects => flows[i].guestAcked <= client.rcv
  BY DEF StreamInv, ClientAcks
<1>6. \A d \in Unseen : IsData(d) /\ d.from = client.connects => Byte(d) <= client.sent
  BY DEF StreamInv, AllFormed, Formed, IsData
<1> QED
  BY <1>1, <1>2, <1>3, <1>4, <1>5, <1>6

\* The guest writes another byte.
LEMMA WriteKeeps ==
  ASSUME TcpTypeOK, TcpTypeOK', StreamInv, GuestWrite
  PROVE  StreamInv'
<1>0. /\ client \in ClientStates /\ client.connects \in Nat /\ client.sent \in Nat /\ client.rcv \in Nat
      /\ client.acked <= client.sent /\ client.acked \in Nat /\ load.guestBytes \in Nat
  BY ClientIs
<1>1. client.st = "Open" /\ ~client.fin /\ client.sent < load.guestBytes /\ Quiet
  BY DEF GuestWrite
<1>2. PICK n \in 1..load.guestBytes : n = client.sent + 1 /\ n \in Nat
  BY <1>0, <1>1
<1>3. PICK g \in ClientStates : g = [client EXCEPT !.sent = n]
  BY <1>0, <1>2 DEF ClientStates
<1>4. /\ g.connects = client.connects /\ g.sent = n /\ g.fin = client.fin /\ g.st = client.st
      /\ g.rcv = client.rcv /\ g.iss = client.iss /\ g.acked = client.acked /\ g.got = client.got
      /\ g.finRcvd = client.finRcvd
  BY <1>0, <1>3 DEF ClientStates
<1>5. PICK s \in Segments : s = GuestData(g, n)
  BY <1>2, GuestSegmentsTyped
<1>6. GuestSends(g, << s >>)
  BY <1>2, <1>3, <1>4, <1>5 DEF GuestWrite
<1>7. /\ s.from = client.connects /\ s.flags = {"ACK"} /\ s.ack = client.rcv
      /\ s.data = << << client.connects, n >> >> /\ s.seq = DataSeq(g, n) /\ IsData(s) /\ Byte(s) = n
  BY <1>4, <1>5 DEF GuestData, Segment, IsData, Byte
<1>8. s.seq = GuestPos(client.connects, n)
  BY <1>1, <1>2, <1>4, <1>7, ClientIs, GuestPlaces
<1>9. \E j \in 1..used : Follows(flows[j], g, j)
  BY <1>1, <1>4, ClientIs DEF Follows
<1>10. GuestOK(g)
  <2>1. GuestOK(client) /\ client.acked <= n /\ n <= load.guestBytes
    BY <1>0, <1>2, ClientIs
  <2> QED
    BY <1>1, <1>4, <1>9, <2>1 DEF GuestOK
<1>11. client' = g /\ load' = load
  BY <1>6 DEF GuestSends
<1>12. Formed(s)'
  <2>1. s.from <= client'.connects /\ s.from >= 1
    BY <1>0, <1>1, <1>4, <1>7, <1>11, ClientIs
  <2>2. IsData(s) /\ s.data = << << s.from, Byte(s) >> >> /\ Byte(s) \in 1..load'.guestBytes
        /\ s.seq = GuestPos(s.from, Byte(s)) /\ Byte(s) <= client'.sent
    BY <1>2, <1>4, <1>7, <1>8, <1>11
  <2> QED
    BY <1>7, <2>1, <2>2 DEF Formed, IsData, Byte, GuestPos
<1>13. In(toGuest') \subseteq In(toGuest)
  BY <1>1 DEF Quiet
<1>14. /\ ~Syn(s) /\ client.rcv <= g.rcv /\ client.sent <= g.sent /\ Byte(s) <= g.sent /\ ~client.fin
       /\ s.ack = g.rcv /\ client.st = "Open" /\ g.st = "Open"
  BY <1>0, <1>1, <1>2, <1>4, <1>7 DEF Syn
<1>15. \A i \in 1..used : flows[i].conn = client.connects => flows[i].guestAcked <= g.rcv
  BY <1>1, <1>4, ClientIs
<1> QED
  BY <1>4, <1>6, <1>7, <1>9, <1>10, <1>12, <1>13, <1>14, <1>15, GuestSays

\* The guest's FIN follows its last byte.
LEMMA FinFormed ==
  ASSUME TcpTypeOK, TcpTypeOK', NEW s, s.from = client'.connects, s.from >= 1, s.flags = {"FIN", "ACK"},
         s.data = << >>, s.seq = GuestPos(s.from, client'.sent + 1), client'.fin, client'.sent <= load'.guestBytes,
         Unseen' = Unseen \cup {s}, \A d \in Unseen : IsData(d) /\ d.from = s.from => Byte(d) <= client'.sent
  PROVE  Formed(s)'
<1>1. client'.sent \in Nat /\ load'.guestBytes \in Nat /\ s.from <= client'.connects
  <2>1. client' \in ClientStates /\ load' \in Loads
    BY DEF TcpTypeOK
  <2>2. client'.sent \in Nat /\ client'.connects \in Nat
    BY <2>1 DEF ClientStates
  <2> QED
    BY <2>1, <2>2, LoadAssumption
<1>2. \A d \in Unseen' : IsData(d) /\ d.from = s.from => Byte(d) <= client'.sent
  BY DEF IsData
<1>3. \E m \in 0..load'.guestBytes :
        /\ s.seq = GuestPos(s.from, m + 1)
        /\ s.from = client'.connects => client'.fin /\ client'.sent = m
        /\ \A d \in Unseen' : IsData(d) /\ d.from = s.from => Byte(d) <= m
  <2>1. client'.sent \in 0..load'.guestBytes
    BY <1>1
  <2> QED
    BY <1>2, <2>1
<1> QED
  BY <1>1, <1>3 DEF Formed, GuestPos, IsData, Byte

\* The guest closes its side.
LEMMA GuestCloseKeeps ==
  ASSUME TcpTypeOK, TcpTypeOK', StreamInv, GuestClose
  PROVE  StreamInv'
<1>0. /\ client \in ClientStates /\ client.connects \in Nat /\ client.sent \in Nat /\ client.rcv \in Nat
  BY ClientIs
<1>1. client.st = "Open" /\ ~client.fin /\ Quiet
  BY DEF GuestClose
<1>2. PICK g \in ClientStates : g = [client EXCEPT !.fin = TRUE]
  BY <1>0 DEF ClientStates
<1>3. /\ g.connects = client.connects /\ g.sent = client.sent /\ g.fin /\ g.st = client.st
      /\ g.rcv = client.rcv /\ g.iss = client.iss /\ g.acked = client.acked /\ g.got = client.got
      /\ g.finRcvd = client.finRcvd
  BY <1>0, <1>2 DEF ClientStates
<1>4. PICK s \in Segments : s = GuestFin(client)
  BY <1>0, GuestSegmentsTyped
<1>5. GuestSends(g, << s >>)
  BY <1>2, <1>4 DEF GuestClose
<1>6. /\ s.from = client.connects /\ s.flags = {"FIN", "ACK"} /\ s.ack = client.rcv /\ s.data = << >>
      /\ s.seq = FinSeq(client)
  BY <1>4 DEF GuestFin, Segment
<1>7. s.seq = GuestPos(s.from, client.sent + 1) /\ s.from >= 1
  BY <1>0, <1>1, <1>6, ClientIs, GuestPlaces
<1>8. \E j \in 1..used : Follows(flows[j], g, j)
  BY <1>1, <1>3, ClientIs DEF Follows
<1>9. GuestOK(g)
  <2>1. GuestOK(client)
    BY ClientIs
  <2> QED
    BY <1>1, <1>3, <1>8, <2>1 DEF GuestOK
<1>10. client' = g /\ load' = load
  BY <1>5 DEF GuestSends
<1>11. Unseen' = Unseen \cup {s} => Formed(s)'
  BY <1>3, <1>6, <1>7, <1>10, ClientIs, FinFormed
<1>12. In(toGuest') \subseteq In(toGuest)
  BY <1>1 DEF Quiet
<1>13. /\ ~Syn(s) /\ ~IsData(s) /\ client.rcv <= g.rcv /\ client.sent <= g.sent /\ s.ack = g.rcv
       /\ client.st = "Open" /\ g.st = "Open"
  BY <1>0, <1>1, <1>3, <1>6 DEF Syn, IsData
<1>14. \A i \in 1..used : flows[i].conn = client.connects => flows[i].guestAcked <= g.rcv
  BY <1>1, <1>3, ClientIs
<1> QED
  BY <1>3, <1>5, <1>6, <1>8, <1>9, <1>11, <1>12, <1>13, <1>14, GuestSays

\* The guest gives up the connection.
LEMMA AbortKeeps ==
  ASSUME TcpTypeOK, TcpTypeOK', StreamInv, GuestAbort
  PROVE  StreamInv'
<1>0. client \in ClientStates /\ client.connects \in Nat /\ client.sent \in Nat /\ client.rcv \in Nat
  BY ClientIs
<1>1. client.st # "Closed" /\ Quiet
  BY DEF GuestAbort
<1>2. PICK g \in ClientStates : g = [client EXCEPT !.st = "Closed"]
  BY <1>0, ClosedTyped
<1>3. /\ g.connects = client.connects /\ g.sent = client.sent /\ g.fin = client.fin /\ g.st = "Closed"
      /\ g.rcv = client.rcv /\ g.iss = client.iss /\ g.acked = client.acked /\ g.got = client.got
      /\ g.finRcvd = client.finRcvd
  BY <1>0, <1>2 DEF ClientStates
<1>4. PICK s \in Segments : s = GuestReset(client, FinSeq(client))
  BY <1>0, ClientTyped, GuestSegmentsTyped
<1>5. GuestSends(g, << s >>)
  BY <1>2, <1>4 DEF GuestAbort
<1>6. s.from = client.connects /\ s.flags = {"RST"} /\ s.data = << >>
  BY <1>4 DEF GuestReset, Segment
<1>7. GuestOK(g)
  <2>1. GuestOK(client)
    BY ClientIs
  <2>2. \A j : Follows(flows[j], client, j) => Follows(flows[j], g, j)
    BY <1>3 DEF Follows
  <2> QED
    BY <1>3, <2>1, <2>2 DEF GuestOK
<1>8. client' = g
  BY <1>5 DEF GuestSends
<1>9. Formed(s)'
  BY <1>0, <1>3, <1>6, <1>8 DEF Formed, IsData
<1>10. In(toGuest') \subseteq In(toGuest)
  BY <1>1 DEF Quiet
<1>11. ~Syn(s) /\ ~IsData(s) /\ ~Acks(s) /\ client.rcv <= g.rcv /\ client.sent <= g.sent
  BY <1>0, <1>3, <1>6 DEF Syn, IsData, Acks
<1> QED
  BY <1>3, <1>5, <1>6, <1>7, <1>9, <1>10, <1>11, GuestSays

\* The guest sends its SYN, its oldest byte or its FIN again.
LEMMA RetransmitKeeps ==
  ASSUME TcpTypeOK, TcpTypeOK', StreamInv, GuestRetransmit
  PROVE  StreamInv'
<1>0. /\ client \in ClientStates /\ client.connects \in Nat /\ client.sent \in Nat /\ client.rcv \in Nat
      /\ client.acked \in Nat /\ client.acked <= client.sent /\ client.sent <= load.guestBytes
      /\ load.guestBytes \in Nat /\ client.retries \in Nat
  BY ClientIs
<1>1. Oldest(client) # << >> /\ Quiet
  BY DEF GuestRetransmit
<1>2. PICK g \in ClientStates : g = [client EXCEPT !.retries = @ + 1]
  <2> DEFINE n == client.retries + 1
  <2>1. n \in Nat
    BY <1>0
  <2>2. [client EXCEPT !.retries = @ + 1] = [client EXCEPT !.retries = n]
    BY <1>0 DEF ClientStates
  <2> HIDE DEF n
  <2>3. [client EXCEPT !.retries = n] \in ClientStates
    BY <1>0, <2>1 DEF ClientStates
  <2> QED
    BY <2>2, <2>3
<1>3. /\ g.connects = client.connects /\ g.sent = client.sent /\ g.fin = client.fin /\ g.st = client.st
      /\ g.rcv = client.rcv /\ g.iss = client.iss /\ g.acked = client.acked /\ g.got = client.got
      /\ g.finRcvd = client.finRcvd
  BY <1>0, <1>2 DEF ClientStates
<1>4. \A s : Oldest(client) = << s >> => GuestSends(g, << s >>)
  BY <1>2 DEF GuestRetransmit
<1>5. \A j : Follows(flows[j], client, j) => Follows(flows[j], g, j)
  BY <1>3 DEF Follows
<1>6. GuestOK(g)
  <2>1. GuestOK(client)
    BY ClientIs
  <2> QED
    BY <1>3, <1>5, <2>1 DEF GuestOK
<1>7. In(toGuest') \subseteq In(toGuest)
  BY <1>1 DEF Quiet
<1>8. client.rcv <= g.rcv /\ client.sent <= g.sent
  BY <1>0, <1>3
<1>9. CASE client.st = "SynSent"
  <2>1. PICK s \in Segments : s = GuestSyn(client)
    BY <1>0, GuestSegmentsTyped
  <2>2. GuestSends(g, << s >>)
    BY <1>4, <1>9, <2>1 DEF Oldest
  <2>3. s.from = client.connects /\ s.flags = {"SYN"} /\ s.data = << >> /\ s.seq = client.iss
    BY <2>1 DEF GuestSyn, Segment
  <2>4. s.from >= 1 /\ s.seq = GuestPos(s.from, 0) /\ client' = g
    BY <1>9, <2>2, <2>3, ClientIs DEF GuestSends
  <2>5. Formed(s)'
    BY <1>0, <1>3, <2>3, <2>4 DEF Formed, IsData, GuestPos
  <2>6. Syn(s) /\ ~IsData(s) /\ ~Acks(s) /\ g.st = "SynSent"
    BY <1>3, <1>9, <2>3 DEF Syn, IsData, Acks
  <2> QED
    BY <1>3, <1>6, <1>7, <1>8, <1>9, <2>2, <2>3, <2>5, <2>6, GuestSays
<1>10. CASE client.st = "Open" /\ client.acked < client.sent
  <2>1. PICK k \in 1..load.guestBytes : k = client.acked + 1 /\ k \in Nat /\ k <= client.sent
    BY <1>0, <1>10
  <2>2. PICK s \in Segments : s = GuestData(client, k)
    BY <1>0, <2>1, GuestSegmentsTyped
  <2>3. GuestSends(g, << s >>)
    BY <1>0, <1>4, <1>10, <2>1, <2>2 DEF Oldest
  <2>4. /\ s.from = client.connects /\ s.flags = {"ACK"} /\ s.ack = client.rcv
        /\ s.data = << << client.connects, k >> >> /\ s.seq = DataSeq(client, k) /\ IsData(s) /\ Byte(s) = k
    BY <2>2 DEF GuestData, Segment, IsData, Byte
  <2>5. s.seq = GuestPos(client.connects, k) /\ s.from >= 1
    BY <1>0, <1>10, <2>1, <2>4, ClientIs, GuestPlaces
  <2>6. client' = g /\ load' = load
    BY <2>3 DEF GuestSends
  <2>7. Formed(s)'
    <3>1. s.from <= client'.connects /\ s.from >= 1
      BY <1>0, <1>3, <2>4, <2>5, <2>6
    <3>2. IsData(s) /\ s.data = << << s.from, Byte(s) >> >> /\ Byte(s) \in 1..load'.guestBytes
          /\ s.seq = GuestPos(s.from, Byte(s)) /\ Byte(s) <= client'.sent
      BY <1>3, <2>1, <2>4, <2>5, <2>6
    <3> QED
      BY <2>4, <3>1, <3>2 DEF Formed, IsData, Byte, GuestPos
  <2>8. ~Syn(s) /\ s.ack = g.rcv /\ Byte(s) <= g.sent /\ g.st = "Open" /\ \E j \in 1..used : Follows(flows[j], g, j)
    BY <1>3, <1>5, <1>10, <2>1, <2>4, ClientIs DEF Syn
  <2>9. \A i \in 1..used : flows[i].conn = client.connects => flows[i].guestAcked <= g.rcv
    BY <1>3, <1>10, ClientIs
  <2> QED
    BY <1>3, <1>6, <1>7, <1>8, <1>10, <2>3, <2>4, <2>7, <2>8, <2>9, GuestSays
<1>11. CASE client.st = "Open" /\ client.acked = client.sent /\ client.fin /\ ~client.finAcked
  <2>1. PICK s \in Segments : s = GuestFin(client)
    BY <1>0, GuestSegmentsTyped
  <2>2. GuestSends(g, << s >>)
    BY <1>0, <1>4, <1>11, <2>1 DEF Oldest
  <2>3. /\ s.from = client.connects /\ s.flags = {"FIN", "ACK"} /\ s.ack = client.rcv /\ s.data = << >>
        /\ s.seq = FinSeq(client)
    BY <2>1 DEF GuestFin, Segment
  <2>4. s.seq = GuestPos(s.from, client.sent + 1) /\ s.from >= 1
    BY <1>0, <1>11, <2>3, ClientIs, GuestPlaces
  <2>5. client' = g /\ load' = load
    BY <2>2 DEF GuestSends
  <2>6. Unseen' = Unseen \cup {s} => Formed(s)'
    BY <1>0, <1>3, <1>11, <2>3, <2>4, <2>5, ClientIs, FinFormed
  <2>7. ~Syn(s) /\ ~IsData(s) /\ s.ack = g.rcv /\ g.st = "Open" /\ \E j \in 1..used : Follows(flows[j], g, j)
    BY <1>3, <1>5, <1>11, <2>3, ClientIs DEF Syn, IsData
  <2>8. \A i \in 1..used : flows[i].conn = client.connects => flows[i].guestAcked <= g.rcv
    BY <1>3, <1>11, ClientIs
  <2> QED
    BY <1>3, <1>6, <1>7, <1>8, <1>11, <2>2, <2>3, <2>6, <2>7, <2>8, GuestSays
<1> QED
  BY <1>1, <1>9, <1>10, <1>11 DEF Oldest

\* The guest opens its next connection.
LEMMA GuestConnectKeeps ==
  ASSUME TcpTypeOK, TcpTypeOK', StreamInv, GuestConnect
  PROVE  StreamInv'
<1>0. /\ InOrder /\ FlowsInOrder /\ FlowsHold /\ ClientOK /\ AllFormed /\ AllAcks /\ ClientAcks
      /\ client \in ClientStates /\ client.connects \in Nat /\ client.retries \in Nat /\ load.guestBytes \in Nat
      /\ load.connects \in Nat
  BY ClientIs, LoadAssumption DEF StreamInv, TcpTypeOK
<1>1. client.st = "Closed" /\ client.connects < load.connects /\ Quiet
  BY DEF GuestConnect
<1>2. PICK c \in Nat : c = client.connects + 1
  BY <1>0
<1>3. PICK g \in ClientStates : g = NewConnection(c, client.retries)
  BY <1>0, NewConnectionTyped
<1>4. /\ g.st = "SynSent" /\ g.connects = c /\ g.iss = GuestIss(c) /\ g.sent = 0 /\ g.acked = 0 /\ ~g.fin
      /\ g.got = << >> /\ ~g.finRcvd
  BY <1>3 DEF NewConnection
<1>5. PICK s \in Segments : s = GuestSyn(g)
  BY GuestSegmentsTyped
<1>6. /\ client' = g /\ toNat' = toNat \o << s >> /\ UNCHANGED << load, flows, used, table, disposed, nat >>
  BY <1>2, <1>3, <1>5 DEF GuestConnect, GuestSends
<1>7. s.from = c /\ s.flags = {"SYN"} /\ s.data = << >> /\ s.seq = GuestIss(c)
  BY <1>4, <1>5 DEF GuestSyn, Segment
<1>8. s.seq = GuestPos(s.from, 0)
  <2>1. 0 \in Int
    OBVIOUS
  <2> QED
    BY <1>7, <2>1, GuestPosNext
<1>9. Syn(s) /\ ~IsData(s) /\ ~Acks(s) /\ c > client.connects /\ c >= 1
  BY <1>0, <1>2, <1>7 DEF Syn, IsData, Acks
<1>10. \A t \in Queued : /\ t \in Segments /\ t.from \in Nat /\ t.from < c
  <2> TAKE t \in Queued
  <2>1. t \in Segments /\ Formed(t)
    BY <1>0, QueueIsTyped DEF AllFormed, Unseen
  <2>2. t.from \in Nat /\ t.from <= client.connects
    BY <2>1 DEF Segments, Formed
  <2> QED
    BY <1>0, <1>2, <2>1, <2>2
<1>11. Queued' = Queued \cup {s} /\ Unseen' = Unseen \cup {s} /\ Ordered(toNat')
  <2>1. \A t \in Queued : Before(t, s)
    BY <1>7, <1>9, <1>10 DEF Before
  <2>2. Queued' = Queued \cup {s} /\ Ordered(toNat')
    BY <1>0, <1>6, <2>1, QueueAdd DEF TcpTypeOK, Queued, InOrder
  <2> QED
    BY <1>6, <2>2 DEF Unseen
<1>12. GuestOK(g)
  <2>1. c <= load.connects /\ g.iss = GuestPos(c, 0)
    BY <1>0, <1>1, <1>2, <1>4, <1>7, <1>8
  <2>2. /\ g.acked <= g.sent /\ g.sent <= load.guestBytes /\ g.connects <= load.connects
        /\ g.iss = GuestPos(g.connects, 0) /\ g.connects >= 1
        /\ ~(g.st = "Open" \/ g.got # << >> \/ g.finRcvd)
    BY <1>0, <1>4, <1>9, <2>1
  <2> QED
    BY <1>4, <2>2 DEF GuestOK
<1>13. In(toGuest') \subseteq In(toGuest)
  BY <1>1 DEF Quiet
<1>14. AllDeliver' /\ ClientOK' /\ \A i \in 1..used : InStep(i, flows[i])'
  BY <1>6, <1>12, <1>13, GuestFrame
<1>15. \A j \in 1..used : flows[j].conn \in Nat /\ flows[j].conn < c /\ Writes(flows[j]) /\ Over(j)
  <2> TAKE j \in 1..used
  <2>1. Writes(flows[j]) /\ Over(j)
    BY <1>0 DEF FlowsHold
  <2>2. flows[j].conn \in 1..client.connects
    BY <2>1 DEF Writes
  <2> QED
    BY <1>0, <1>9, <2>1, <2>2
<1>16. \A j \in 1..used : Over(j)'
  <2> TAKE j \in 1..used
  <2>1. (j # table /\ flows[j].stream /\ ~disposed) \/ flows[j].guestFinSeen => Later(flows[j].conn)
    BY <1>15 DEF Over
  <2>2. Later(flows[j].conn) => Later(flows[j].conn)'
    BY <1>4, <1>6, <1>7, <1>11, <1>15 DEF Later
  <2> QED
    BY <1>6, <2>1, <2>2 DEF Over
<1>17. \A j \in 1..used : Writes(flows[j])'
  <2> TAKE j \in 1..used
  <2>1. flows[j]' = flows[j] /\ load' = load /\ client' = g /\ Writes(flows[j])
    BY <1>6, <1>15
  <2>2. flows[j].conn \in 1..g.connects /\ flows[j].conn # g.connects
    <3>1. flows[j].conn \in 1..client.connects
      BY <2>1 DEF Writes
    <3> QED
      BY <1>0, <1>4, <1>9, <1>15, <3>1
  <2>3. flows[j].guestFinSeen =>
          \A d \in Unseen' : IsData(d) /\ d.from = flows[j].conn => Byte(d) <= Len(flows[j].wrote)
    BY <1>9, <1>11, <2>1 DEF Writes
  <2> QED
    BY <2>1, <2>2, <2>3 DEF Writes
<1>18. FlowsHold'
  BY <1>6, <1>14, <1>16, <1>17 DEF FlowsHold
<1>19. AllFormed'
  <2>1. Formed(s)'
    BY <1>4, <1>6, <1>7, <1>8, <1>9 DEF Formed, IsData, GuestPos
  <2>2. ASSUME NEW t \in Unseen
        PROVE  Formed(t)'
    <3>1. Formed(t) /\ client' = g /\ load' = load /\ t.from \in Nat /\ t.from <= client.connects
      BY <1>0, <1>6, QueueIsTyped DEF AllFormed, Segments, Formed
    <3>2. t.from <= g.connects /\ t.from # g.connects
      BY <1>0, <1>4, <1>9, <3>1
    <3>3. \A m : (\A d \in Unseen : IsData(d) /\ d.from = t.from => Byte(d) <= m)
                   => \A d \in Unseen' : IsData(d) /\ d.from = t.from => Byte(d) <= m
      BY <1>9, <1>11
    <3> QED
      BY <3>1, <3>2, <3>3 DEF Formed
  <2> QED
    BY <1>11, <2>1, <2>2 DEF AllFormed
<1>20. AllAcks'
  <2> SUFFICES ASSUME NEW t \in Queued, Acks(t)
               PROVE  AckOf(t)'
    BY <1>9, <1>11 DEF AllAcks
  <2>1. AckOf(t) /\ t.from # g.connects
    BY <1>0, <1>4, <1>10 DEF AllAcks
  <2> QED
    BY <1>6, <2>1 DEF AckOf, SentTo, Base
<1>21. InOrder'
  <2>1. \A t \in Queued' : ~Syn(t) /\ g.st = "SynSent" => t.from < g.connects
    BY <1>4, <1>9, <1>10, <1>11
  <2>2. nat.pc = "Fin" /\ ~Syn(nat.seg) => Later(nat.seg.from)'
    <3> SUFFICES ASSUME nat.pc = "Fin", ~Syn(nat.seg)
                 PROVE  Later(nat.seg.from)'
      OBVIOUS
    <3>1. Later(nat.seg.from) /\ Formed(nat.seg) /\ nat.seg.from \in Nat
      BY <1>0 DEF InOrder, AllFormed, Unseen, TcpTypeOK, Segments
    <3>2. nat.seg.from < c
      BY <1>0, <1>9, <3>1 DEF Formed
    <3> QED
      BY <1>4, <1>6, <1>7, <1>11, <3>1, <3>2 DEF Later
  <2> QED
    BY <1>6, <1>11, <2>1, <2>2 DEF InOrder
<1>22. FlowsInOrder'
  <2>1. \A i \in 1..used : \A t \in Queued' : flows[i].conn <= t.from
    BY <1>0, <1>7, <1>11, <1>15 DEF FlowsInOrder
  <2> QED
    BY <1>0, <1>6, <2>1 DEF FlowsInOrder, ClosedWell
<1>23. ClientAcks'
  BY <1>4, <1>6, <1>15 DEF ClientAcks
<1> QED
  BY <1>14, <1>18, <1>19, <1>20, <1>21, <1>22, <1>23 DEF StreamInv

-----------------------------------------------------------------------------
(* What the guest receives                                                 *)

\* Bases grow with the flows.
LEMMA BaseGrows == \A i, j \in Nat : i <= j => Base(i) <= Base(j) /\ Base(i) \in Nat /\ Base(j) \in Nat
<1> SUFFICES ASSUME NEW i \in Nat, NEW j \in Nat, i <= j
             PROVE  Base(i) <= Base(j) /\ Base(i) \in Nat /\ Base(j) \in Nat
  OBVIOUS
<1>1. 0 * IsnStep <= i * IsnStep /\ i * IsnStep <= j * IsnStep /\ i * IsnStep \in Int /\ j * IsnStep \in Int
  BY Times, Space
<1>2. 0 * IsnStep = 0
  BY Space
<1> QED
  BY <1>1, <1>2 DEF Base

\* A reset to a segment for a connection that is gone.
LEMMA AnswerKeeps ==
  ASSUME TcpTypeOK, TcpTypeOK', StreamInv, In(toGuest') \subseteq In(toGuest), client.st = "Closed",
         NEW seg \in Segments, Answer(client, seg)
  PROVE  StreamInv'
<1>0. /\ client \in ClientStates /\ client.connects \in Nat /\ client.sent \in Nat /\ client.rcv \in Nat
      /\ GuestOK(client)
  BY ClientIs
<1>1. CASE "RST" \in seg.flags
  <2>1. GuestSends(client, << >>)
    BY <1>1 DEF Answer
  <2> QED
    BY <1>0, <2>1, GuestQuiet
<1>2. CASE "RST" \notin seg.flags
  <2>1. PICK s \in Segments : s = GuestReset(client, seg.ack)
    BY <1>0, GuestSegmentsTyped DEF Segments
  <2>2. GuestSends(client, << s >>)
    BY <1>2, <2>1 DEF Answer
  <2>3. s.from = client.connects /\ s.flags = {"RST"} /\ s.data = << >>
    BY <2>1 DEF GuestReset, Segment
  <2>4. client' = client
    BY <2>2 DEF GuestSends
  <2>5. Formed(s)'
    BY <1>0, <2>3, <2>4 DEF Formed, IsData
  <2>6. ~Syn(s) /\ ~IsData(s) /\ ~Acks(s) /\ client.rcv <= client.rcv /\ client.sent <= client.sent
    BY <1>0, <2>3 DEF Syn, IsData, Acks
  <2> QED
    BY <1>0, <2>2, <2>3, <2>5, <2>6, GuestSays
<1> QED
  BY <1>1, <1>2

\* A SYN-ACK that acknowledges the guest's SYN is the newest connection's flow's.
LEMMA SynAckIsOurs ==
  ASSUME ShortConnections, TcpTypeOK, StreamInv, client.st = "SynSent", NEW s \in Segments, Delivers(s), Syn(s),
         s.ack = Plus(client.iss, 1)
  PROVE  /\ s.from \in 1..used /\ flows[s.from].stream /\ flows[s.from].conn = client.connects
         /\ s.seq = Base(s.from) /\ SentTo(flows[s.from]) > Base(s.from)
         /\ \A i \in 1..used : flows[i].conn = client.connects => i <= s.from
<1> DEFINE f == flows[s.from]
<1>1. s.from \in 1..used /\ SynOf(f, s)
  BY DEF Delivers, Sends
<1>2. PICK p \in 1..(IsnStep - 1) : s.ack = GuestPos(f.conn, p)
  BY <1>1 DEF SynOf
<1>3. f.stream /\ s.seq = Base(s.from) /\ SentTo(f) > Base(s.from)
  BY <1>1 DEF SynOf
<1>4. /\ client \in ClientStates /\ client.connects \in Nat /\ client.connects >= 1
      /\ client.iss = GuestPos(client.connects, 0)
  BY ClientIs
<1>5. s.ack = GuestPos(client.connects, 1)
  BY <1>4, GuestPlaces DEF DataSeq
<1>6. Writes(f) /\ f.conn \in 1..client.connects
  BY <1>1 DEF StreamInv, FlowsHold, Writes
<1>7. \A e \in 1..client.connects : e \in Nat /\ e >= 1 /\ (e + 1) * IsnStep <= SeqSpace
  <2> TAKE e \in 1..client.connects
  <2>1. /\ client.connects <= load.connects /\ load.connects \in Nat /\ SeqSpace \in Nat /\ IsnStep \in Nat
        /\ (load.connects + 1) * IsnStep <= SeqSpace
    BY LoadAssumption, Space DEF TcpTypeOK, ShortConnections, StreamInv, ClientOK, GuestOK
  <2>2. e \in Nat /\ e >= 1 /\ e + 1 <= load.connects + 1 /\ e + 1 \in Int /\ load.connects + 1 \in Int
    BY <1>4, <2>1
  <2>3. (e + 1) * IsnStep <= (load.connects + 1) * IsnStep /\ (e + 1) * IsnStep \in Int
        /\ (load.connects + 1) * IsnStep \in Int
    BY <2>1, <2>2, Times
  <2> QED
    BY <2>1, <2>2, <2>3
<1>8. IsnStep \in Nat /\ p \in Nat /\ p < IsnStep /\ 1 < IsnStep /\ p >= 1
  <2>1. load.guestBytes \in Nat /\ load.guestBytes + 2 < IsnStep /\ IsnStep \in Nat
    BY LoadAssumption, Space DEF TcpTypeOK, ShortConnections
  <2> QED
    BY <1>2, <2>1
<1>9. f.conn = client.connects
  <2> DEFINE c == f.conn
             d == client.connects
             q == 1
  <2>1. /\ c \in Nat /\ d \in Nat /\ c >= 1 /\ d >= 1 /\ (c + 1) * IsnStep <= SeqSpace
        /\ (d + 1) * IsnStep <= SeqSpace /\ q \in Nat /\ q < IsnStep /\ GuestPos(c, p) = GuestPos(d, q)
    BY <1>2, <1>4, <1>5, <1>6, <1>7, <1>8
  <2> HIDE DEF c, d, q
  <2>2. c = d
    BY <1>8, <2>1, GuestLies
  <2> QED
    BY <2>2 DEF c, d
<1>10. \A i \in 1..used : flows[i].conn = client.connects => i <= s.from
  <2> SUFFICES ASSUME NEW i \in 1..used, flows[i].conn = client.connects, s.from < i
               PROVE  FALSE
    BY <1>1, BoundAssumption DEF TcpTypeOK
  <2>1. f.conn < flows[i].conn
    BY <1>1, <1>3 DEF StreamInv, FlowsInOrder
  <2> QED
    BY <1>4, <1>9, <2>1
<1> QED
  BY <1>1, <1>3, <1>9, <1>10

\* The guest g acknowledges what it has.
LEMMA AckKeeps ==
  ASSUME TcpTypeOK, TcpTypeOK', StreamInv, NEW g \in ClientStates, GuestSends(g, << GuestAck(g) >>),
         In(toGuest') \subseteq In(toGuest), GuestOK(g), g.st # "SynSent", client.st # "Closed",
         g.connects = client.connects, g.sent = client.sent, g.fin = client.fin,
         (client.st # "SynSent" => client.rcv <= g.rcv),
         \A i \in 1..used : flows[i].conn = client.connects => flows[i].guestAcked <= g.rcv,
         \E j \in 1..used : Follows(flows[j], g, j)
  PROVE  StreamInv'
<1>0. client.connects \in Nat /\ client.connects >= 1 /\ client.sent \in Nat
  BY ClientIs
<1>1. PICK s \in Segments : s = GuestAck(g)
  BY GuestSegmentsTyped
<1>2. GuestSends(g, << s >>)
  BY <1>1
<1>3. s.from = client.connects /\ s.flags = {"ACK"} /\ s.data = << >> /\ s.ack = g.rcv
  BY <1>1 DEF GuestAck, Segment
<1>4. client' = g
  BY <1>2 DEF GuestSends
<1>5. Formed(s)'
  BY <1>0, <1>3, <1>4 DEF Formed, IsData
<1>6. ~Syn(s) /\ ~IsData(s) /\ client.sent <= g.sent
  BY <1>0, <1>3 DEF Syn, IsData
<1> QED
  BY <1>2, <1>3, <1>5, <1>6, GuestSays

\* The guest's SYN is answered.
LEMMA HandshakeKeeps ==
  ASSUME ShortConnections, TcpTypeOK, TcpTypeOK', StreamInv, In(toGuest') \subseteq In(toGuest), client.st = "SynSent",
         NEW seg \in Segments, Delivers(seg), Handshake(client, seg)
  PROVE  StreamInv'
<1>0. /\ client \in ClientStates /\ client.connects \in Nat /\ client.sent \in Nat /\ client.rcv \in Nat
      /\ GuestOK(client) /\ client.connects >= 1 /\ client.acked <= client.sent
  BY ClientIs
<1>1. client.got = << >> /\ ~client.finRcvd /\ ~client.fin
  BY <1>0 DEF GuestOK
<1>2. CASE seg.ack = Plus(client.iss, 1) /\ "RST" \in seg.flags
  <2>1. PICK g \in ClientStates : g = [client EXCEPT !.st = "Closed"]
    BY <1>0, ClosedTyped
  <2>2. /\ g.connects = client.connects /\ g.sent = client.sent /\ g.fin = client.fin /\ g.st = "Closed"
        /\ g.got = client.got /\ (g.finRcvd <=> client.finRcvd) /\ g.acked = client.acked /\ g.iss = client.iss
    BY <1>0, <2>1 DEF ClientStates
  <2>3. GuestOK(g)
    BY <1>0, <1>1, <2>2 DEF GuestOK
  <2>4. GuestSends(g, << >>)
    BY <1>2, <2>1 DEF Handshake
  <2> QED
    BY <2>2, <2>3, <2>4, GuestQuiet
<1>3. CASE seg.ack = Plus(client.iss, 1) /\ "RST" \notin seg.flags /\ "SYN" \in seg.flags
  <2> DEFINE j == seg.from
             f == flows[j]
  <2>1. /\ j \in 1..used /\ f.stream /\ f.conn = client.connects /\ seg.seq = Base(j) /\ SentTo(f) > Base(j)
        /\ \A i \in 1..used : flows[i].conn = client.connects => i <= j
    BY <1>3, SynAckIsOurs DEF Syn
  <2>2. j \in FlowIds /\ f \in FlowStates /\ f.read \in Nat /\ Base(j) \in Nat /\ SentTo(f) \in Nat /\ j \in Nat
    BY <2>1, MadeIsFlow, Numbers DEF FlowIds
  <2>3. PICK r \in SeqNos : r = Plus(seg.seq, 1)
    BY PlusIsSeqNo DEF Segments
  <2>4. r = Base(j) + 1
    <3> DEFINE x == 0
               y == 1
    <3>1. IsnStep \in Nat /\ 1 < IsnStep
      BY <2>2, Numbers
    <3>2. x \in 0..(IsnStep - 1) /\ y \in Nat /\ x + y < IsnStep /\ x + y = 1 /\ Base(j) + x = Base(j)
      BY <2>2, <3>1
    <3>3. r = Plus(Base(j) + x, y)
      BY <2>1, <2>3, <3>2
    <3> HIDE DEF x, y
    <3>4. Plus(Base(j) + x, y) = Base(j) + x + y
      BY <2>2, <3>2, BaseLies
    <3>5. Base(j) + x + y = Base(j) + 1
      BY <3>2 DEF y
    <3> QED
      BY <3>3, <3>4, <3>5
  <2>5. PICK g \in ClientStates : g = [client EXCEPT !.st = "Open", !.rcv = r]
    BY <1>0 DEF ClientStates
  <2>6. /\ g.connects = client.connects /\ g.sent = client.sent /\ g.fin = client.fin /\ g.st = "Open"
        /\ g.got = << >> /\ ~g.finRcvd /\ g.acked = client.acked /\ g.iss = client.iss /\ g.rcv = r
    BY <1>0, <1>1, <2>5 DEF ClientStates
  <2>7. GuestSends(g, << GuestAck(g) >>)
    BY <1>3, <2>3, <2>5 DEF Handshake
  <2>8. Follows(f, g, j)
    <3>1. Len(g.got) = 0
      BY <2>6
    <3>2. << >> = Stream(j, 0)
      <4> DEFINE z == 0
      <4>1. z \in Nat
        OBVIOUS
      <4> HIDE DEF z
      <4>2. Stream(j, z) \in Seq(Nat \X Nat) /\ Len(Stream(j, z)) = z
        BY <2>2, <4>1, StreamIs
      <4> QED
        BY <4>2, EmptySeq DEF z
    <3> QED
      BY <2>1, <2>2, <2>4, <2>6, <3>1, <3>2 DEF Follows
  <2>9. GuestOK(g)
    BY <1>0, <1>1, <2>1, <2>6, <2>8 DEF GuestOK
  <2>10. \A i \in 1..used : flows[i].conn = client.connects => flows[i].guestAcked <= g.rcv
    <3> SUFFICES ASSUME NEW i \in 1..used, flows[i].conn = client.connects
                 PROVE  flows[i].guestAcked <= g.rcv
      OBVIOUS
    <3>1. flows[i].guestAcked = Base(i)
      BY DEF StreamInv, ClientAcks
    <3>2. i \in Nat /\ i <= j
      BY <2>1
    <3>3. Base(i) <= Base(j) /\ Base(i) \in Nat
      BY <2>2, <3>2, BaseGrows
    <3> QED
      BY <2>2, <2>4, <2>6, <3>1, <3>3
  <2> QED
    BY <2>1, <2>6, <2>7, <2>8, <2>9, <2>10, AckKeeps
<1>4. CASE GuestSends(client, << >>)
  <2>1. client.rcv <= client.rcv
    BY <1>0
  <2> QED
    BY <1>0, <1>4, <2>1, GuestQuiet
<1> QED
  BY <1>2, <1>3, <1>4 DEF Handshake

\* A stream goes on with its next bytes.
LEMMA StreamMore ==
  ASSUME NEW i \in Nat, NEW n \in Nat, NEW m \in Nat
  PROVE  Stream(i, n) \o [k \in 1..m |-> << i, n + k >>] = Stream(i, n + m)
<1> DEFINE a == Stream(i, n)
           b == [k \in 1..m |-> << i, n + k >>]
           c == Stream(i, n + m)
<1>1. a \in Seq(Nat \X Nat) /\ Len(a) = n /\ \A k \in 1..n : a[k] = << i, k >>
  BY StreamIs
<1>2. c \in Seq(Nat \X Nat) /\ Len(c) = n + m /\ \A k \in 1..(n + m) : c[k] = << i, k >>
  <2>1. n + m \in Nat
    OBVIOUS
  <2> QED
    BY <2>1, StreamIs
<1>3. b \in Seq(Nat \X Nat) /\ Len(b) = m /\ \A k \in 1..m : b[k] = << i, n + k >>
  <2>1. \A k \in 1..m : << i, n + k >> \in Nat \X Nat
    OBVIOUS
  <2> QED
    BY <2>1
<1> HIDE DEF a, b, c
<1>4. /\ a \o b \in Seq(Nat \X Nat) /\ Len(a \o b) = n + m
      /\ \A k \in 1..(n + m) : (a \o b)[k] = IF k <= n THEN a[k] ELSE b[k - n]
  BY <1>1, <1>3, ConcatProperties
<1>5. \A k \in 1..(n + m) : (a \o b)[k] = c[k]
  <2> TAKE k \in 1..(n + m)
  <2>1. CASE k <= n
    <3>1. k \in 1..n
      BY <2>1
    <3> QED
      BY <1>1, <1>2, <1>4, <2>1, <3>1
  <2>2. CASE ~(k <= n)
    <3>1. PICK l \in 1..m : l = k - n /\ n + l = k
      BY <2>2
    <3>2. (a \o b)[k] = b[l]
      BY <1>4, <2>2, <3>1
    <3>3. b[l] = << i, n + l >>
      BY <1>3
    <3>4. b[l] = << i, k >>
      BY <3>1, <3>3
    <3> QED
      BY <1>2, <3>2, <3>4
  <2> QED
    BY <2>1, <2>2
<1>6. a \o b = c
  BY <1>2, <1>4, <1>5, SeqEqual
<1> QED
  BY <1>6 DEF a, b, c

\* An ack moves only what the guest knows to be acknowledged.
LEMMA AcknowledgedIs ==
  ASSUME TcpTypeOK, NEW g \in ClientStates, NEW a \in SeqNos, NEW h, h = Acknowledged(g, a)
  PROVE  /\ h.st = g.st /\ h.connects = g.connects /\ h.iss = g.iss /\ h.sent = g.sent /\ h.fin = g.fin
         /\ h.rcv = g.rcv /\ h.got = g.got /\ h.finRcvd = g.finRcvd /\ h.retries = g.retries
         /\ (g.acked <= g.sent => h.acked <= h.sent)
<1> DEFINE n == Behind(a, Plus(g.iss, 1))
           v == IF n <= g.sent /\ n > g.acked THEN n ELSE IF g.fin /\ n = g.sent + 1 THEN g.sent ELSE g.acked
           w == g.finAcked \/ (g.fin /\ n = g.sent + 1)
<1>1. h = [g EXCEPT !.acked = v, !.finAcked = w]
  BY DEF Acknowledged
<1>2. g.acked <= g.sent => v <= g.sent
  BY DEF ClientStates
<1> HIDE DEF v, w
<1> QED
  BY <1>1, <1>2 DEF ClientStates

\* Where a connected flow whose FIN is out has sent to.
LEMMA FinSent ==
  ASSUME NEW i, NEW f \in FlowStates, Counts(i, f), f.stream, f.pc \in FinPcs, Base(i) \in Nat, f.ourSeq \in Nat,
         f.read \in Nat
  PROVE  SentTo(f) = Base(i) + 2 + f.read
<1>1. CASE f.pc = "CountFin"
  <2>1. f.ourSeq = Base(i) + 1 + f.read
    BY <1>1 DEF Counts
  <2>2. SentTo(f) = f.ourSeq + 1
    BY <1>1 DEF SentTo
  <2> QED
    BY <2>1, <2>2
<1>2. CASE f.pc \in {"MarkFin", "CheckFin", "Done"}
  <2>1. f.ourSeq = Base(i) + 2 + f.read
    BY <1>2 DEF Counts
  <2>2. SentTo(f) = f.ourSeq + 0
    BY <1>2 DEF SentTo
  <2> QED
    BY <2>1, <2>2
<1> QED
  BY <1>1, <1>2 DEF FinPcs

\* What a segment in order adds to the stream the guest receives.
LEMMA ArrivedFollows ==
  ASSUME ShortConnections, TcpTypeOK, FlowsHold, NEW j \in 1..used, NEW g \in ClientStates,
         Follows(flows[j], g, j), NEW s \in Segments, Delivers(s), NEW t, t = Arrived(g, s)
  PROVE  /\ t.st = g.st /\ t.connects = g.connects /\ t.iss = g.iss /\ t.sent = g.sent /\ t.fin = g.fin
         /\ t.acked = g.acked /\ g.rcv <= t.rcv /\ Follows(flows[j], t, j)
<1> DEFINE f == flows[j]
           i == s.from
           e == flows[i]
<1>0. /\ j \in FlowIds /\ f \in FlowStates /\ j \in Nat /\ f.read \in Nat /\ Base(j) \in Nat /\ SentTo(f) \in Nat
      /\ IsnStep \in Nat /\ load.remoteBytes \in Nat /\ load.remoteBytes + 2 < IsnStep
      /\ Len(g.got) \in Nat /\ g.rcv \in Nat /\ g.connects \in Nat
  BY MadeIsFlow, Numbers, ClientTyped, BytesLen, SeqNoIsNat DEF FlowIds, ClientStates
<1>1. i \in 1..used /\ Sends(e, s)
  BY DEF Delivers
<1>2. /\ i \in FlowIds /\ e \in FlowStates /\ i \in Nat /\ e.read \in Nat /\ Base(i) \in Nat /\ SentTo(e) \in Nat
      /\ Len(s.data) \in Nat
  BY <1>1, MadeIsFlow, Numbers, BytesLen DEF FlowIds, Segments
<1>3. Counts(j, f) /\ Counts(i, e) /\ f.read <= load.remoteBytes /\ e.read <= load.remoteBytes
  BY <1>1 DEF FlowsHold, InStep, Counts
<1>l. PICK l \in Nat : l = Len(g.got)
  BY <1>0
<1>n. PICK n \in Nat : n = Len(s.data)
  BY <1>2
<1>z. PICK z \in {1, 2} : z = IF g.finRcvd THEN 2 ELSE 1
  OBVIOUS
<1>4. /\ f.stream /\ f.conn = g.connects /\ g.got = Stream(j, l) /\ l <= f.read
      /\ g.rcv = Base(j) + l + z
      /\ g.rcv <= SentTo(f) /\ (g.finRcvd => l = f.read /\ f.pc \in FinPcs)
  BY <1>l, <1>z DEF Follows
<1>r. f.read + 2 < IsnStep /\ e.read + 2 < IsnStep
  <2> DEFINE m == load.remoteBytes
             a == f.read
             b == e.read
  <2>1. m \in Nat /\ a \in Nat /\ b \in Nat /\ a <= m /\ b <= m /\ m + 2 < IsnStep /\ IsnStep \in Nat
    BY <1>0, <1>2, <1>3
  <2> HIDE DEF m, a, b
  <2>2. a + 2 < IsnStep /\ b + 2 < IsnStep
    BY <2>1
  <2> QED
    BY <2>2 DEF a, b
<1>m. z \in Nat /\ z <= 2 /\ (z = 2 => g.finRcvd) /\ (z = 1 => ~g.finRcvd) /\ (z = 2 => l = f.read)
  BY <1>z, <1>4
<1>5. PICK q \in Nat : q = l + z /\ g.rcv = Base(j) + q /\ q < IsnStep
  <2>1. l + z \in Nat /\ l + z < IsnStep
    <3> DEFINE a == f.read
    <3>1. a \in Nat /\ l <= a /\ z <= 2 /\ z \in Nat /\ a + 2 < IsnStep /\ IsnStep \in Nat
      BY <1>0, <1>r, <1>4, <1>m
    <3> HIDE DEF a
    <3> QED
      BY ONLY <3>1
  <2>2. Base(j) + l + z = Base(j) + (l + z)
    BY <1>0, <1>m
  <2> QED
    BY <1>4, <2>1, <2>2
<1>6. CASE t = g
  BY <1>0, <1>6
<1>7. CASE s.seq = g.rcv /\ s.data # << >>
  <2>1. PICK p \in 0..e.read :
          /\ s.seq = Base(i) + 1 + p /\ p + n <= e.read /\ s.seq + n <= SentTo(e)
          /\ s.data = [k \in 1..n |-> << i, p + k >>]
    BY <1>1, <1>7, <1>n DEF Sends, IsData, DataOf
  <2>2. n >= 1
    BY <1>7, <1>n, EmptySeq DEF Segments, Bytes
  <2>3. PICK o \in Nat : o = p + 1 /\ o < IsnStep /\ o + n < IsnStep /\ Base(i) + o = g.rcv
    <3>1. p \in Nat /\ p + 1 \in Nat /\ p + 1 + n < IsnStep /\ p + 1 < IsnStep
      <4> DEFINE a == e.read
      <4>1. a \in Nat /\ p \in 0..a /\ p + n <= a /\ n >= 1 /\ a + 2 < IsnStep /\ IsnStep \in Nat
        BY <1>0, <1>2, <1>r, <2>1, <2>2
      <4> HIDE DEF a
      <4> QED
        BY <4>1
    <3>2. Base(i) + (p + 1) = Base(i) + 1 + p
      BY <1>2, <3>1
    <3> QED
      BY <1>7, <2>1, <3>1, <3>2
  <2>4. i = j /\ o = q
    <3>1. i \in Nat /\ j \in Nat /\ o < IsnStep /\ q < IsnStep /\ Base(i) + o = Base(j) + q
      BY <1>0, <1>2, <1>5, <2>3
    <3> HIDE DEF i, f, e
    <3> QED
      BY <3>1, BasesApart
  <2>5. ~g.finRcvd /\ p = l /\ z = 1
    <3>1. p + 1 = l + z /\ p \in Nat /\ p + n <= f.read
      BY <1>2, <1>5, <2>1, <2>3, <2>4
    <3>2. z # 2
      BY <1>0, <1>m, <2>2, <3>1
    <3> QED
      BY <1>m, <3>1, <3>2
  <2>6. PICK r \in SeqNos : r = Plus(g.rcv, n)
    BY PlusIsSeqNo DEF ClientStates
  <2>7. r = g.rcv + n
    <3>1. o \in 0..(IsnStep - 1)
      BY <1>0, <2>3
    <3>2. Plus(Base(i) + o, n) = Base(i) + o + n
      BY <1>2, <2>3, <3>1, BaseLies
    <3> QED
      BY <2>3, <2>6, <3>2
  <2>8. PICK b : b = g.got \o s.data
    OBVIOUS
  <2>9. b = Stream(j, l + n)
    <3>1. s.data = [k \in 1..n |-> << j, l + k >>]
      BY <2>1, <2>4, <2>5
    <3>2. Stream(j, l) \o [k \in 1..n |-> << j, l + k >>] = Stream(j, l + n)
      <4>1. j \in Nat /\ l \in Nat /\ n \in Nat
        BY <1>0
      <4> HIDE DEF i, f, e
      <4> QED
        BY ONLY <4>1, StreamMore
    <3> QED
      BY <1>4, <2>8, <3>1, <3>2
  <2>10. Len(b) = l + n
    <3>1. l + n \in Nat /\ j \in Nat
      BY <1>0
    <3> HIDE DEF i, f, e
    <3> QED
      BY <2>9, <3>1, StreamIs
  <2>11. t = [g EXCEPT !.got = b, !.rcv = r]
    BY <1>7, <1>n, <2>6, <2>8 DEF Arrived
  <2>12. /\ t.st = g.st /\ t.connects = g.connects /\ t.iss = g.iss /\ t.sent = g.sent /\ t.fin = g.fin
         /\ t.acked = g.acked /\ t.got = b /\ t.rcv = r /\ t.finRcvd = g.finRcvd
    BY <2>11 DEF ClientStates
  <2>13. Len(b) <= f.read /\ r <= SentTo(f) /\ g.rcv <= r /\ r = Base(j) + Len(b) + 1
    <3>1. l + n <= f.read
      BY <2>1, <2>4, <2>5
    <3>2. g.rcv + n <= SentTo(f)
      BY <1>7, <2>1, <2>4
    <3>3. g.rcv <= g.rcv + n /\ Base(j) + l + z + n = Base(j) + (l + n) + 1
      BY <1>0, <2>5
    <3> QED
      BY <1>4, <2>7, <2>10, <3>1, <3>2, <3>3
  <2>14. Follows(f, t, j)
    BY <1>4, <2>5, <2>9, <2>10, <2>12, <2>13 DEF Follows
  <2> QED
    BY <2>12, <2>13, <2>14
<1>8. CASE s.seq = g.rcv /\ s.data = << >> /\ "FIN" \in s.flags
  <2>1. e.stream /\ e.pc \in FinPcs /\ s.seq = Base(i) + 1 + e.read
    BY <1>1, <1>8 DEF Sends, Fin, FinOf
  <2>2. PICK o \in Nat : o = e.read + 1 /\ o < IsnStep /\ o + 1 < IsnStep /\ Base(i) + o = g.rcv
    <3>1. e.read + 1 \in Nat /\ e.read + 1 < IsnStep /\ e.read + 1 + 1 < IsnStep
          /\ Base(i) + (e.read + 1) = Base(i) + 1 + e.read
      <4> DEFINE a == e.read
                 b == Base(i)
      <4>1. a \in Nat /\ b \in Nat /\ a + 2 < IsnStep /\ IsnStep \in Nat
        BY <1>0, <1>2, <1>r
      <4> HIDE DEF a, b
      <4>2. /\ a + 1 \in Nat /\ a + 1 < IsnStep /\ a + 1 + 1 < IsnStep
            /\ b + (a + 1) = b + 1 + a
        BY <4>1
      <4> QED
        BY <4>2 DEF a, b
    <3> QED
      BY <1>8, <2>1, <3>1
  <2>3. i = j /\ o = q
    <3>1. i \in Nat /\ j \in Nat /\ o < IsnStep /\ q < IsnStep /\ Base(i) + o = Base(j) + q
      BY <1>0, <1>2, <1>5, <2>2
    <3> HIDE DEF i, f, e
    <3> QED
      BY <3>1, BasesApart
  <2>4. ~g.finRcvd /\ l = f.read /\ z = 1
    <3>1. f.read + 1 = l + z
      BY <1>5, <2>2, <2>3
    <3>2. z # 2
      BY <1>0, <1>m, <3>1
    <3> QED
      BY <1>0, <1>m, <3>1, <3>2
  <2>5. PICK r \in SeqNos : r = Plus(g.rcv, 1)
    BY PlusIsSeqNo DEF ClientStates
  <2>6. r = g.rcv + 1
    <3> DEFINE y == 1
    <3>1. o \in 0..(IsnStep - 1) /\ y \in Nat /\ o + y < IsnStep /\ r = Plus(Base(i) + o, y)
      BY <1>0, <2>2, <2>5
    <3> HIDE DEF y
    <3>2. Plus(Base(i) + o, y) = Base(i) + o + y
      BY <1>2, <3>1, BaseLies
    <3> QED
      BY <2>2, <3>1, <3>2 DEF y
  <2>7. t = [g EXCEPT !.finRcvd = TRUE, !.rcv = r]
    BY <1>8, <2>5 DEF Arrived
  <2>8. /\ t.st = g.st /\ t.connects = g.connects /\ t.iss = g.iss /\ t.sent = g.sent /\ t.fin = g.fin
        /\ t.acked = g.acked /\ t.got = g.got /\ t.rcv = r /\ t.finRcvd
    BY <2>7 DEF ClientStates
  <2>9. SentTo(f) = Base(j) + 2 + f.read
    BY <1>0, <1>3, <1>4, <2>1, <2>3, FinSent, Numbers
  <2>10. r = Base(j) + l + 2 /\ r <= SentTo(f) /\ g.rcv <= r
    <3>1. r = Base(j) + l + 2 /\ g.rcv <= r
      BY <1>0, <1>4, <2>4, <2>6, SMTT(60)
    <3>2. r <= SentTo(f)
      BY <1>0, <2>4, <2>9, <3>1
    <3> QED
      BY <3>1, <3>2
  <2>11. Follows(f, t, j)
    BY <1>4, <1>l, <2>1, <2>3, <2>4, <2>8, <2>10 DEF Follows
  <2> QED
    BY <2>8, <2>10, <2>11
<1> QED
  BY <1>6, <1>7, <1>8 DEF Arrived

\* An open connection receives a segment.
LEMMA ReceiveKeeps ==
  ASSUME ShortConnections, TcpTypeOK, TcpTypeOK', StreamInv, In(toGuest') \subseteq In(toGuest), client.st = "Open",
         NEW seg \in Segments, Delivers(seg), Receive(client, seg)
  PROVE  StreamInv'
<1>0. /\ client \in ClientStates /\ client.connects \in Nat /\ client.sent \in Nat /\ client.rcv \in Nat
      /\ GuestOK(client) /\ client.connects >= 1 /\ client.acked <= client.sent /\ client.acked \in Nat
      /\ \A i \in 1..used : flows[i].conn = client.connects => flows[i].guestAcked <= client.rcv
  BY ClientIs
<1>1. PICK j \in 1..used : Follows(flows[j], client, j)
  BY ClientIs
<1>2. CASE "RST" \in seg.flags
  <2>1. PICK g \in ClientStates : /\ g = IF seg.seq = client.rcv THEN [client EXCEPT !.st = "Closed"] ELSE client
    BY <1>0, ClosedTyped
  <2>2. /\ g.connects = client.connects /\ g.sent = client.sent /\ g.fin = client.fin /\ g.st \in {"Closed", "Open"}
        /\ g.got = client.got /\ g.finRcvd = client.finRcvd /\ g.acked = client.acked /\ g.iss = client.iss
        /\ g.rcv = client.rcv
    BY <1>0, <2>1 DEF ClientStates
  <2>3. Follows(flows[j], g, j)
    BY <1>1, <2>2 DEF Follows
  <2>4. GuestOK(g)
    BY <1>0, <2>2, <2>3 DEF GuestOK
  <2>5. GuestSends(g, << >>)
    BY <1>2, <2>1 DEF Receive
  <2>6. client.rcv <= g.rcv
    BY <1>0, <2>2
  <2> QED
    BY <1>0, <2>2, <2>4, <2>5, <2>6, GuestQuiet
<1>3. CASE "RST" \notin seg.flags
  <2>1. seg.ack \in SeqNos
    BY DEF Segments
  <2>2. PICK a \in ClientStates : a = Acknowledged(client, seg.ack)
    BY <1>0, <2>1, AcknowledgedTyped
  <2>3. PICK h \in ClientStates : h = Arrived(a, seg)
    BY ArrivedTyped
  <2>4. PICK g \in ClientStates : g = Settle(h)
    BY ClosedTyped DEF Settle
  <2>5. /\ a.st = "Open" /\ a.connects = client.connects /\ a.iss = client.iss /\ a.sent = client.sent
        /\ a.fin = client.fin /\ a.rcv = client.rcv /\ a.got = client.got /\ a.finRcvd = client.finRcvd
        /\ a.acked <= a.sent
    BY <1>0, <2>1, <2>2, AcknowledgedIs
  <2>6. Follows(flows[j], a, j)
    BY <1>1, <2>5 DEF Follows
  <2>7. FlowsHold
    BY DEF StreamInv
  <2>8. /\ h.st = a.st /\ h.connects = a.connects /\ h.iss = a.iss /\ h.sent = a.sent /\ h.fin = a.fin
        /\ h.acked = a.acked /\ a.rcv <= h.rcv /\ Follows(flows[j], h, j)
    BY <2>3, <2>6, <2>7, ArrivedFollows
  <2>9. /\ g.connects = h.connects /\ g.iss = h.iss /\ g.sent = h.sent /\ g.fin = h.fin /\ g.acked = h.acked
        /\ g.rcv = h.rcv /\ g.got = h.got /\ g.finRcvd = h.finRcvd /\ g.st \in {"Open", "Closed"}
    BY <2>4, <2>5, <2>8 DEF Settle, ClientStates
  <2>10. Follows(flows[j], g, j)
    BY <2>8, <2>9 DEF Follows
  <2>11. GuestOK(g)
    BY <1>0, <2>5, <2>8, <2>9, <2>10 DEF GuestOK
  <2>12. client.rcv <= g.rcv
    BY <2>5, <2>8, <2>9
  <2>13. \A i \in 1..used : flows[i].conn = client.connects => flows[i].guestAcked <= g.rcv
    <3> SUFFICES ASSUME NEW i \in 1..used, flows[i].conn = client.connects
                 PROVE  flows[i].guestAcked <= g.rcv
      OBVIOUS
    <3>1. flows[i].guestAcked <= client.rcv
      BY <1>0
    <3>2. flows[i].guestAcked \in Nat /\ g.rcv \in Nat
      BY MadeIsFlow, SeqNoIsNat DEF FlowStates, ClientStates
    <3> QED
      BY <1>0, <2>12, <3>1, <3>2
  <2>14. GuestAck(g) = GuestAck(h)
    BY <2>9 DEF GuestAck, FinSeq
  <2>15. GuestSends(g, << >>) \/ GuestSends(g, << GuestAck(g) >>)
    BY <1>3, <2>2, <2>3, <2>4, <2>14 DEF Receive
  <2>16. g.connects = client.connects /\ g.sent = client.sent /\ g.fin = client.fin /\ g.st # "SynSent"
    BY <2>5, <2>8, <2>9
  <2>17. CASE GuestSends(g, << >>)
    BY <2>11, <2>12, <2>13, <2>16, <2>17, GuestQuiet
  <2>18. CASE GuestSends(g, << GuestAck(g) >>)
    BY <2>10, <2>11, <2>12, <2>13, <2>16, <2>18, AckKeeps
  <2> QED
    BY <2>15, <2>17, <2>18
<1> QED
  BY <1>2, <1>3

LEMMA GuestReceiveKeeps ==
  ASSUME ShortConnections, TcpTypeOK, TcpTypeOK', StreamInv, GuestReceive
  PROVE  StreamInv'
<1>1. toGuest \in Seq(Segments) /\ toGuest # << >> /\ toGuest' = Tail(toGuest)
  BY DEF TcpTypeOK, GuestReceive
<1>2. Head(toGuest) \in In(toGuest) /\ In(toGuest') \subseteq In(toGuest) /\ In(toGuest) \subseteq Segments
  BY <1>1, QueueTail
<1>3. PICK s \in Segments : s = Head(toGuest) /\ Delivers(s)
  BY <1>2 DEF StreamInv, AllDeliver
<1>4. CASE client.st = "Closed" /\ Answer(client, s)
  BY <1>2, <1>4, AnswerKeeps
<1>5. CASE client.st = "SynSent" /\ Handshake(client, s)
  BY <1>2, <1>3, <1>5, HandshakeKeeps
<1>6. CASE client.st = "Open" /\ Receive(client, s)
  BY <1>2, <1>3, <1>6, ReceiveKeeps
<1> QED
  BY <1>3, <1>4, <1>5, <1>6 DEF GuestReceive

-----------------------------------------------------------------------------
(* The theorem                                                             *)

LEMMA StreamInit == TcpInit => StreamInv
<1> SUFFICES ASSUME TcpInit
             PROVE  StreamInv
  OBVIOUS
<1>1. /\ load \in Loads /\ load.connects \in Nat /\ load.guestBytes \in Nat
  BY LoadAssumption DEF TcpInit
<1>2. toNat = << >> /\ toGuest = << >> /\ used = 0 /\ nat.pc = "Idle"
  BY DEF TcpInit, Idle
<1>3. In(toNat) = {} /\ In(toGuest) = {}
  BY <1>2 DEF In
<1>4. 1..used = {} /\ Unseen = {} /\ Queued = {}
  BY <1>2, <1>3 DEF Unseen, Queued
<1>5. Ordered(toNat)
  BY <1>2 DEF Ordered
<1>6. ClientOK
  BY <1>1 DEF TcpInit, ClientOK, GuestOK
<1>7. InOrder
  BY <1>2, <1>4, <1>5 DEF InOrder
<1> QED
  BY <1>3, <1>4, <1>6, <1>7 DEF StreamInv, FlowsHold, AllFormed, AllAcks, AllDeliver, FlowsInOrder, ClientAcks

LEMMA StreamNothing ==
  ASSUME StreamInv, UNCHANGED tcpVars
  PROVE  StreamInv'
<1>1. /\ load' = load /\ flows' = flows /\ used' = used /\ table' = table /\ disposed' = disposed
      /\ nat' = nat /\ client' = client /\ toNat' = toNat /\ toGuest' = toGuest
  BY DEF tcpVars
<1>2. Queued' = Queued /\ Unseen' = Unseen
  BY <1>1 DEF Queued, Unseen
<1>3. FlowsHold'
  <2> SUFFICES ASSUME NEW i \in 1..used
               PROVE  InStep(i, flows[i])' /\ Writes(flows[i])' /\ Over(i)'
    BY <1>1 DEF FlowsHold
  <2>1. InStep(i, flows[i]) /\ Writes(flows[i]) /\ Over(i)
    BY DEF StreamInv, FlowsHold
  <2>2. InStep(i, flows[i])'
    BY <1>1, <2>1 DEF InStep, Counts, Paced, SentTo, Base
  <2>3. Writes(flows[i])'
    BY <1>1, <1>2, <2>1 DEF Writes
  <2>4. Over(i)'
    BY <1>1, <1>2, <2>1 DEF Over, Later
  <2> QED
    BY <2>2, <2>3, <2>4
<1>4. AllFormed'
  BY <1>1, <1>2 DEF StreamInv, AllFormed, Formed
<1>5. AllAcks'
  BY <1>1, <1>2 DEF StreamInv, AllAcks, AckOf, SentTo, Base
<1>6. AllDeliver'
  <2> SUFFICES ASSUME NEW s \in In(toGuest)
               PROVE  s.from \in 1..used /\ Sends(flows[s.from], s)'
    BY <1>1 DEF AllDeliver, Delivers
  <2>1. s.from \in 1..used /\ Sends(flows[s.from], s)
    BY DEF StreamInv, AllDeliver, Delivers
  <2>2. SentTo(flows[s.from])' = SentTo(flows[s.from])
    BY <1>1 DEF SentTo
  <2>3. SynOf(flows[s.from], s) => SynOf(flows[s.from], s)'
    BY <1>1, <2>2 DEF SynOf, Base, GuestPos
  <2>4. DataOf(flows[s.from], s) => DataOf(flows[s.from], s)'
    BY <1>1, <2>2 DEF DataOf, Base
  <2>5. FinOf(flows[s.from], s) => FinOf(flows[s.from], s)'
    BY <1>1 DEF FinOf, Base
  <2> QED
    BY <2>1, <2>3, <2>4, <2>5 DEF Sends
<1>7. InOrder' /\ FlowsInOrder' /\ ClientAcks'
  BY <1>1, <1>2 DEF StreamInv, InOrder, Ordered, FlowsInOrder, ClosedWell, ClientAcks, Later
<1>8. ClientOK'
  BY <1>1 DEF StreamInv, ClientOK, GuestOK, Follows, SentTo, Base
<1> QED
  BY <1>3, <1>4, <1>5, <1>6, <1>7, <1>8 DEF StreamInv

LEMMA StreamStep ==
  ASSUME ShortConnections, TcpTypeOK, StreamInv, [TcpNext]_tcpVars
  PROVE  StreamInv'
<1>1. TcpTypeOK'
  BY NextTyped
<1>2. CASE UNCHANGED tcpVars
  BY <1>2, StreamNothing
<1>3. CASE OnTcp \/ OnTcpFin \/ OnTcpClose \/ Shutdown
  BY <1>1, <1>3, OnTcpKeeps, GuestFinKeeps, CloseKeeps, ShutdownKeeps
<1>4. ASSUME NEW i \in FlowIds, PoolStep(i)
      PROVE  StreamInv'
  BY <1>1, <1>4, PoolStepKeeps
<1>5. CASE GuestStep
  BY <1>1, <1>5, GuestConnectKeeps, WriteKeeps, GuestCloseKeeps, RetransmitKeeps, AbortKeeps, GuestReceiveKeeps
     DEF GuestStep
<1> QED
  BY <1>2, <1>3, <1>4, <1>5 DEF TcpNext

\* The inductive invariant says what each side has of the other's stream.
LEMMA StreamSound ==
  ASSUME ShortConnections, TcpTypeOK, StreamInv
  PROVE  StreamsAreSound
<1>1. client.got # << >> \/ client.finRcvd => \E j \in 1..used : Follows(flows[j], client, j)
  BY DEF StreamInv, ClientOK, GuestOK
<1>2. ReceivesOneStream
  BY <1>1 DEF ReceivesOneStream, Follows
<1>3. EndIsTheEnd
  BY <1>1 DEF EndIsTheEnd, Follows
<1>4. WritesOneStream
  BY DEF StreamInv, FlowsHold, Writes, WritesOneStream
<1>5. PacingIsSane
  <2> SUFFICES ASSUME NEW i \in 1..used, flows[i].pc = "Pace"
               PROVE  Behind(flows[i].ourSeq, flows[i].guestAcked) <= Window + MaxSegment
    BY DEF PacingIsSane
  <2>1. i \in FlowIds /\ flows[i] \in FlowStates
    BY MadeIsFlow
  <2>2. InStep(i, flows[i])
    BY DEF StreamInv, FlowsHold
  <2>3. Behind(flows[i].ourSeq, flows[i].guestAcked) = flows[i].ourSeq - flows[i].guestAcked
    BY <2>1, <2>2, BehindIs
  <2>4. flows[i].ourSeq <= flows[i].guestAcked + Window + MaxSegment
    BY <2>2 DEF InStep, Paced
  <2>5. /\ flows[i].ourSeq \in Nat /\ flows[i].guestAcked \in Nat /\ Window \in Nat /\ MaxSegment \in Nat
    BY <2>1, Numbers
  <2> QED
    BY <2>3, <2>4, <2>5
<1> QED
  BY <1>2, <1>3, <1>4, <1>5 DEF StreamsAreSound

\* As long as no connection carries as many bytes as its sequence number is away from the next:
\* whatever is dropped, sent again, reset or still in a late pool thread's hands, the guest
\* receives a prefix of one socket's stream and its end only when it has it all, the remote host
\* a prefix of what the guest sent on one connection, all of it when the socket is shut down for
\* sending, and the count that paces the receive loop never wraps (SlirpNat.cs:300, 363-414).
THEOREM StreamsStaySound ==
  ASSUME ShortConnections
  PROVE  TcpSpec => []StreamsAreSound
<1>1. TcpInit => TcpTypeOK /\ StreamInv
  BY InitTyped, StreamInit
<1>2. TcpTypeOK /\ StreamInv /\ [TcpNext]_tcpVars => (TcpTypeOK /\ StreamInv)'
  BY NextTyped, StreamStep
<1>3. TcpTypeOK /\ StreamInv => StreamsAreSound
  BY StreamSound
<1> QED
  BY <1>1, <1>2, <1>3, PTL DEF TcpSpec
=============================================================================
