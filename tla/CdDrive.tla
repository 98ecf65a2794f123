------------------------------ MODULE CdDrive ------------------------------
(***************************************************************************)
(* A CD and its drive between the front end, the core and the guest, on    *)
(* three machines.  On the Classic the guest's own Apple driver talks to   *)
(* the SCSI target (scsicd.hpp) over the bus, and the host puts discs in   *)
(* and takes them out at once.  On the Quadra and the IIfx the machine     *)
(* installs a driver of its own when the System is up, mounts a disc and   *)
(* unmounts it before it is taken out, all at the second tick              *)
(* (quadra.cpp:1128, iifx.cpp:849), whatever the guest is doing then.      *)
(*                                                                         *)
(* A disc is a name; where its partition starts and what its blocks hold   *)
(* follow from the name.  The guest's System and Apple's driver are        *)
(* external.  Its memory allocations succeed.  A machine started afresh by *)
(* the front end is a new behaviour.                                       *)
(***************************************************************************)
EXTENDS Integers

CONSTANTS
  Discs,          \* images the drive accepts
  HfsDiscs,       \* those the guest can mount
  InstallTries,   \* 30: seconds the machine tries to install its driver
  MountTries,     \* 15: seconds it tries to mount a disc
  UnmountTries,   \* 20: refusals before the disc is taken all the same
  MaskedFor,      \* tries an application may meet with disk events masked
  MaxClicks,      \* bound: what the user does
  MaxRestarts     \* bound: restarts of the guest

None == "none"

ASSUME CdAssumption ==
  /\ HfsDiscs \subseteq Discs /\ None \notin Discs
  /\ {InstallTries, MountTries, UnmountTries} \subseteq Nat \ {0}
  /\ MaskedFor \in 0..(MountTries - 1)
  /\ {MaxClicks, MaxRestarts} \subseteq Nat

Machines == {"classic", "quadra", "iifx"}
Sizes == {512, 2048}

VARIABLES
  setup,     \* the machine, and whether its user waits for the drive to be empty
  seat,      \* the SCSI target: ScsiCdRom's fields
  core,      \* the machine's cd fields: driver, work due and tries
  guest,     \* the System: how far it is up, its drive queue, volume and events
  driver,    \* Apple's driver on the Classic: what it does next, its block size
  asked,     \* the disc the staged eject was for and the refusals it has met
  clicks, restarts

vars == << setup, seat, core, guest, driver, asked, clicks, restarts >>

Hooked == setup.machine # "classic"

-----------------------------------------------------------------------------
(* The target                                                              *)

\* ScsiCdRom::insert and eject: both latch the unit attention.
PutInQuietly(s, d) == [s EXCEPT !.disc = d, !.blocks = 2048]    \* Mutant: no unit attention.
PutIn(s, d) == [s EXCEPT !.disc = d, !.blocks = 2048, !.attention = TRUE]
TakeOut(s) == [s EXCEPT !.disc = None, !.attention = TRUE]

LatchedButReads(s, op) == s.attention /\ op \notin {"inquiry", "read"}    \* Mutant: reads go through.
Latched(s, op) == s.attention /\ op # "inquiry"

\* ScsiCdRom::executeImpl, what it answers and what it changes.
Answer(s, op) ==
  IF Latched(s, op) THEN "attention"
  ELSE IF op \in {"ready", "read"} /\ s.disc = None THEN "empty"
  ELSE IF op = "eject" /\ s.locked THEN "prevented"
  ELSE "good"

Perform(s, op) ==
  CASE op = "select" -> [s EXCEPT !.selecting = TRUE]
    [] op \in {"prevent", "allow"} -> [s EXCEPT !.locked = (op = "prevent")]
    [] op = "eject" /\ ~s.locked /\ s.disc # None -> TakeOut(s)
    [] OTHER -> s

ExecuteForgetful(s, op) ==    \* Mutant: an INQUIRY clears the attention it does not report.
  IF s.attention THEN [s EXCEPT !.attention = FALSE] ELSE Perform(s, op)

Execute(s, op) == IF Latched(s, op) THEN [s EXCEPT !.attention = FALSE] ELSE Perform(s, op)

\* acceptWrite: the parameter list of a MODE SELECT.
AcceptWrite(s, size) == IF s.selecting THEN [s EXCEPT !.selecting = FALSE, !.blocks = size] ELSE s

-----------------------------------------------------------------------------
(* The second tick                                                         *)

SystemUp(g) == g.phase # "down"

\* The gates the work shares: nothing in flight, no file operation, no interrupt.
Settled(g) == SystemUp(g) /\ g.doing = "idle"

\* volumeMountedFor, and _MountVol with the machine's own Prime behind it.
Mounted(g) == g.vol # None
Prime(s) == s.disc
MountVol(g, s) ==
  IF g.drive /\ ~Mounted(g) /\ Prime(s) \in HfsDiscs THEN [g EXCEPT !.vol = Prime(s)] ELSE g

\* installCdDriver.
Installing(c, g) == seat.attached /\ ~c.driver /\ Settled(g)
Fits(c, g) == c.installTries < InstallTries /\ g.phase \in {"started", "apps"}

InstallCore(c, g) ==
  IF ~Installing(c, g) THEN c
  ELSE IF Fits(c, g)
  THEN [c EXCEPT !.installTries = @ + 1, !.driver = TRUE, !.mountDue = seat.disc # None, !.mountTries = 0]
  ELSE [c EXCEPT !.installTries = IF @ > InstallTries THEN @ ELSE @ + 1]

InstallGuest(c, g) == IF Installing(c, g) /\ Fits(c, g) THEN [g EXCEPT !.drive = TRUE] ELSE g

\* completeCdEject: the unmount is skipped, not put off, in a file operation.
Unmounting(c, g) == c.driver /\ Settled(g) /\ Mounted(g)

Taken(c, g, kept) ==
  /\ core' = [c EXCEPT !.ejectDue = FALSE, !.ejectTries = IF kept THEN @ ELSE 0, !.mountDue = FALSE]
  /\ guest' = IF Unmounting(c, g) /\ ~g.open THEN [g EXCEPT !.vol = None] ELSE g
  /\ seat' = TakeOut(seat)
  /\ asked' = [disc |-> None, refusals |-> 0]

Refused(c, g) ==
  /\ core' = [c EXCEPT !.ejectTries = @ + 1]
  /\ guest' = g
  /\ asked' = [asked EXCEPT !.refusals = @ + 1]
  /\ UNCHANGED seat

\* Mutants: one refusal too many; refusals carried over to the next eject.
CompleteEjectLate(c, g) == IF Unmounting(c, g) /\ g.open /\ c.ejectTries < UnmountTries THEN Refused(c, g) ELSE Taken(c, g, FALSE)
CompleteEjectTired(c, g) == IF Unmounting(c, g) /\ g.open /\ c.ejectTries + 1 < UnmountTries THEN Refused(c, g) ELSE Taken(c, g, TRUE)

CompleteEject(c, g) ==
  IF Unmounting(c, g) /\ g.open /\ c.ejectTries + 1 < UnmountTries THEN Refused(c, g) ELSE Taken(c, g, FALSE)

\* mountCdVolume: the Quadra mounts, the IIfx posts an event once an application
\* runs.  The event is refused while the application masks it.
Mountable(c, g) == c.driver /\ Settled(g)
OutOfTries(c) == c.mountTries + 1 > MountTries

MountDirectly(c, g) ==
  /\ guest' = MountVol(g, seat)
  /\ core' = [c EXCEPT !.mountTries = @ + 1, !.mountDue = ~Mounted(guest')]

PostOnce(c, g) ==    \* Mutant: an event refused is not posted again.
  \E taken \in BOOLEAN :
    /\ taken \/ c.mountTries < MaskedFor
    /\ guest' = [g EXCEPT !.posted = @ \/ taken]
    /\ core' = [c EXCEPT !.mountTries = @ + 1, !.mountDue = FALSE]

PostEvent(c, g) ==
  \E taken \in BOOLEAN :
    /\ taken \/ c.mountTries < MaskedFor
    /\ guest' = [g EXCEPT !.posted = @ \/ taken]
    /\ core' = [c EXCEPT !.mountTries = @ + 1, !.mountDue = ~taken]

MountVolume(c, g) ==
  /\ \/ /\ ~Mountable(c, g)
        /\ core' = c /\ guest' = g
     \/ /\ Mountable(c, g) /\ (Mounted(g) \/ OutOfTries(c))
        /\ core' = [c EXCEPT !.mountDue = FALSE, !.mountTries = IF Mounted(g) THEN @ ELSE @ + 1]
        /\ guest' = g
     \/ /\ Mountable(c, g) /\ ~Mounted(g) /\ ~OutOfTries(c)
        /\ IF setup.machine = "iifx" /\ g.phase = "apps" THEN PostEvent(c, g) ELSE MountDirectly(c, g)
  /\ UNCHANGED << seat, asked >>

\* A trap the machine injects runs the guest, and the clock, inside it: a tick
\* there does nothing.
Second ==
  /\ Hooked
  /\ guest.doing # "nested"
  /\ LET c == InstallCore(core, guest)
         g == InstallGuest(core, guest)
     IN CASE c.ejectDue -> CompleteEject(c, g)
          [] ~c.ejectDue /\ c.mountDue -> MountVolume(c, g)
          [] OTHER -> core' = c /\ guest' = g /\ UNCHANGED << seat, asked >>
  /\ UNCHANGED << setup, driver, clicks, restarts >>

-----------------------------------------------------------------------------
(* The user                                                                *)

Click == clicks < MaxClicks /\ clicks' = clicks + 1 /\ UNCHANGED << setup, guest, driver, restarts >>

DueAsBefore(c) == [c EXCEPT !.mountDue = TRUE]    \* Mutant: the last disc's tries count.
Due(c) == [c EXCEPT !.mountDue = TRUE, !.mountTries = 0]

\* InsertCd: the menu offers it with a disc in the drive, too.
Insert(d) ==
  /\ Click
  /\ setup.waits => seat.disc = None /\ ~core.ejectDue
  /\ seat' = PutIn([seat EXCEPT !.attached = TRUE], d)
  /\ core' = IF Hooked THEN Due(core) ELSE core
  /\ UNCHANGED asked

\* ejectCd: at once on the Classic, staged elsewhere.
Staged ==
  IF seat.disc = None THEN UNCHANGED << core, asked >>
  ELSE /\ core' = [core EXCEPT !.ejectDue = TRUE]
       /\ asked' = IF core.ejectDue THEN asked ELSE [disc |-> seat.disc, refusals |-> 0]

Eject ==
  /\ Click
  /\ IF Hooked THEN Staged /\ UNCHANGED seat
     ELSE seat' = TakeOut(seat) /\ UNCHANGED << core, asked >>

\* SetCdRomAttached: detaching ejects, except on the Classic.
Attach(on) ==
  /\ Click
  /\ seat.attached # on
  /\ seat' = [seat EXCEPT !.attached = on]
  /\ IF Hooked /\ ~on THEN Staged ELSE UNCHANGED << core, asked >>

-----------------------------------------------------------------------------
(* The System                                                              *)

Guest == UNCHANGED << setup, asked, clicks, restarts >>

Boot ==
  /\ guest.phase # "apps"
  /\ guest' = [guest EXCEPT !.phase = CASE @ = "down" -> "starting" [] @ = "starting" -> "started" [] OTHER -> "apps"]
  /\ UNCHANGED << seat, core, driver >> /\ Guest

\* What the second tick finds the processor doing.
Turn(doing) ==
  /\ Hooked /\ SystemUp(guest) /\ guest.doing # doing
  /\ guest.doing = "idle" \/ doing = "idle"
  /\ guest' = [guest EXCEPT !.doing = doing]
  /\ UNCHANGED << seat, core, driver >> /\ Guest

Idle == guest.doing = "idle" /\ guest.phase = "apps"

OpenClose(open) ==
  /\ Idle /\ Mounted(guest) /\ guest.open # open
  /\ guest' = [guest EXCEPT !.open = open]
  /\ UNCHANGED << seat, core, driver >> /\ Guest

\* The front application takes the disk-inserted event and the ROM mounts.
TakeEvent ==
  /\ Idle /\ guest.posted
  /\ guest' = MountVol([guest EXCEPT !.posted = FALSE], seat)
  /\ UNCHANGED << seat, core, driver >> /\ Guest

\* The Trash: the volume goes off line, then the driver is asked to eject
\* (serveCdCtlStatus, csCode 7, which leaves the work due alone).
PutAway ==
  /\ Hooked /\ Idle /\ Mounted(guest) /\ ~guest.open
  /\ guest' = [guest EXCEPT !.vol = None]
  /\ UNCHANGED << seat, core, driver >> /\ Guest

GuestEject ==
  /\ Idle /\ guest.drive /\ ~Mounted(guest)
  /\ seat' = TakeOut(seat)
  /\ UNCHANGED << core, guest, driver >> /\ Guest

\* A restart forgets the drive queue and its driver; the machine does not.
Restart ==
  /\ SystemUp(guest) /\ guest.doing = "idle"
  /\ restarts < MaxRestarts /\ restarts' = restarts + 1
  /\ guest' = [phase |-> "down", doing |-> "idle", drive |-> FALSE, vol |-> None, open |-> FALSE, posted |-> FALSE]
  /\ driver' = [pc |-> "poll", size |-> 0]
  /\ UNCHANGED << setup, seat, core, asked, clicks >>

-----------------------------------------------------------------------------
(* Apple's driver on the Classic                                           *)

\* A command, its answer, and where a good answer leads: anything else means that
\* there is no disc, or another one, and the driver starts again.
Command(op, next, good) ==
  /\ ~Hooked /\ guest.phase = "apps" /\ seat.attached
  /\ seat' = Execute(seat, op)
  /\ IF Answer(seat, op) \in {"attention", "empty"}
     THEN /\ driver' = [pc |-> "poll", size |-> 0]
          /\ guest' = [guest EXCEPT !.vol = None, !.open = FALSE]
     ELSE driver' = [driver EXCEPT !.pc = next] /\ guest' = good
  /\ UNCHANGED core /\ Guest

Poll == driver.pc = "poll" /\ Command("ready", IF Mounted(guest) THEN "poll" ELSE "select", guest)
Select == driver.pc = "select" /\ Command("select", "data", guest)

SendSize ==
  /\ ~Hooked /\ driver.pc = "data"
  /\ driver' = [pc |-> "prevent", size |-> 512]
  /\ seat' = AcceptWrite(seat, 512)
  /\ UNCHANGED << core, guest >> /\ Guest

Prevent == driver.pc = "prevent" /\ Command("prevent", "mount", guest)

ReadCatalog ==
  driver.pc = "mount" /\ Command("read", "poll", IF seat.disc \in HfsDiscs THEN [guest EXCEPT !.vol = seat.disc] ELSE guest)

ReadFile == driver.pc = "poll" /\ Mounted(guest) /\ Command("read", "poll", guest)

Unmount ==
  /\ ~Hooked /\ driver.pc = "poll" /\ Mounted(guest) /\ ~guest.open
  /\ guest' = [guest EXCEPT !.vol = None]
  /\ driver' = [driver EXCEPT !.pc = "allow"]
  /\ UNCHANGED << seat, core >> /\ Guest

Allow == driver.pc = "allow" /\ Command("allow", "eject", guest)

LoadEject == driver.pc = "eject" /\ Command("eject", "poll", guest)

\* A program that scans the bus, and one that sends an eject past the driver.
ProgramScan == driver.pc = "poll" /\ Command("inquiry", "poll", guest)
ProgramEject == driver.pc = "poll" /\ Command("eject", "poll", guest)

-----------------------------------------------------------------------------
Init ==
  /\ setup \in {s \in [machine : Machines, waits : BOOLEAN] : s.machine = "classic" => ~s.waits}
  /\ seat = [disc |-> None, attached |-> FALSE, attention |-> FALSE, blocks |-> 2048, selecting |-> FALSE, locked |-> FALSE]
  /\ core = [driver |-> FALSE, mountDue |-> FALSE, mountTries |-> 0, ejectDue |-> FALSE, ejectTries |-> 0, installTries |-> 0]
  /\ guest = [phase |-> "down", doing |-> "idle", drive |-> FALSE, vol |-> None, open |-> FALSE, posted |-> FALSE]
  /\ driver = [pc |-> "poll", size |-> 0]
  /\ asked = [disc |-> None, refusals |-> 0]
  /\ clicks = 0 /\ restarts = 0

DriverStep == Poll \/ Select \/ SendSize \/ Prevent \/ ReadCatalog \/ Allow \/ LoadEject

Next ==
  \/ Second
  \/ \E d \in Discs : Insert(d)
  \/ Eject
  \/ \E on \in BOOLEAN : Attach(on)
  \/ Boot \/ TakeEvent \/ PutAway \/ GuestEject \/ Restart
  \/ \E doing \in {"idle", "file", "nested"} : Turn(doing)
  \/ \E open \in BOOLEAN : OpenClose(open)
  \/ DriverStep \/ ReadFile \/ Unmount \/ ProgramScan \/ ProgramEject

\* The clock ticks in idle moments again and again; the guest gets on with what
\* it has begun.
Fairness ==
  /\ SF_vars(guest.doing = "idle" /\ Second)
  /\ WF_vars(Turn("idle")) /\ WF_vars(Boot) /\ SF_vars(TakeEvent) /\ WF_vars(DriverStep)

Spec == Init /\ [][Next]_vars /\ Fairness

-----------------------------------------------------------------------------
(* Properties                                                              *)

CdTypeOK ==
  /\ setup \in [machine : Machines, waits : BOOLEAN]
  /\ seat \in [disc : Discs \cup {None}, attached : BOOLEAN, attention : BOOLEAN,
               blocks : Sizes, selecting : BOOLEAN, locked : BOOLEAN]
  /\ core \in [driver : BOOLEAN, mountDue : BOOLEAN, mountTries : 0..(MountTries + 1), ejectDue : BOOLEAN,
               ejectTries : 0..(UnmountTries - 1), installTries : 0..(InstallTries + 1)]
  /\ guest \in [phase : {"down", "starting", "started", "apps"}, doing : {"idle", "file", "nested"},
                drive : BOOLEAN, vol : HfsDiscs \cup {None}, open : BOOLEAN, posted : BOOLEAN]
  /\ driver \in [pc : {"poll", "select", "data", "prevent", "mount", "allow", "eject"}, size : Sizes \cup {0}]
  /\ asked \in [disc : Discs \cup {None}, refusals : 0..(UnmountTries - 1)]
  /\ clicks \in 0..MaxClicks /\ restarts \in 0..MaxRestarts

\* On the bus nothing is read blindly: a read that will be answered finds the disc
\* of the volume on line, in blocks of the size the driver counts in.
HeardOnTheBus ==
  ~Hooked /\ Answer(seat, "read") = "good" =>
    /\ Mounted(guest) => guest.vol = seat.disc
    /\ driver.size # 0 => driver.size = seat.blocks

\* A disc leaves when the guest has put its volume away and ejects it, or when the
\* host asks for that very disc; the host takes a volume on line away only in the
\* middle of a file operation or after UnmountTries refusals.  (A user who does not
\* wait can replace a disc, or meet the eject staged for the last one.)
LeavesAsAsked ==
  seat.disc # None /\ seat'.disc # seat.disc =>
    \/ ~Mounted(guest) /\ guest' = guest /\ core' = core /\ clicks' = clicks
    \/ ~setup.waits /\ clicks' # clicks
    \/ /\ core.ejectDue /\ (setup.waits => asked.disc = seat.disc)
       /\ Mounted(guest') => guest.doing = "file" \/ asked.refusals = UnmountTries - 1

\* Both, of every step and the state it reaches (scsicd.hpp's unit attention and
\* prevention, completeCdEject of both machines).
DiscsStayTrue == [][HeardOnTheBus' /\ LeavesAsAsked]_vars

\* The machine gave its driver up, or the guest forgot it in a restart: no disc
\* is mounted any more (cdInstallTries_ and cdDrvr_ are never reset).
NoDriver == IF core.driver THEN ~guest.drive ELSE core.installTries > InstallTries

\* A staged eject ends.  A disc the guest can mount comes on line, unless it is
\* taken out first, another volume is still on line or the driver is lost.
DiscsAreServed ==
  /\ core.ejectDue ~> ~core.ejectDue
  /\ \A d \in HfsDiscs :
       Hooked /\ seat.disc = d /\ core.mountDue ~> Mounted(guest) \/ seat.disc # d \/ NoDriver
  /\ \A d \in HfsDiscs :
       ~Hooked /\ seat.disc = d /\ seat.attached ~> guest.vol = d \/ seat.disc # d \/ ~seat.attached

\* Not so: the unmount does not come first when the second finds a file operation
\* or an interrupt (quadra.cpp:2840, "completeCdEject unmounts first").
UnmountedFirst ==
  [][seat.disc # None /\ seat'.disc = None /\ Hooked /\ Mounted(guest') => asked.refusals = UnmountTries - 1]_vars

\* Not so for a user who does not wait: the eject staged for one disc takes the next
\* (iifx.cpp:857, "a disc swapped at the host is unmounted before its replacement is
\* announced").
EachItsOwn == [][core.ejectDue /\ ~core'.ejectDue => seat.disc \in {asked.disc, None}]_vars

\* Not so after a restart of the guest, which has no driver then.
DiscsComeBack ==
  \A d \in HfsDiscs : Hooked /\ seat.disc = d /\ core.mountDue ~> Mounted(guest) \/ seat.disc # d
=============================================================================
