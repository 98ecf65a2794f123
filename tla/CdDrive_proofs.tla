---------------------------- MODULE CdDrive_proofs ----------------------------
(***************************************************************************)
(* Proofs about CdDrive, for any discs and limits, on each machine:        *)
(*                                                                         *)
(*   CdTypeCorrect   Spec => []CdTypeOK                                    *)
(*   DiscsStayPut    Spec => DiscsStayTrue                                 *)
(*                                                                         *)
(* The second is about steps.  On the Classic it rests on Driven: Apple's  *)
(* driver has the lid locked before it reads a catalog and until it has    *)
(* taken the volume off line, so no program gets a mounted disc out; and   *)
(* the target swallows the first command after a change, so the driver     *)
(* starts again before it reads.  On the others it rests on Staffed: a     *)
(* volume is on line only behind the machine's own driver, whose eject     *)
(* counts the refusals it has met.                                         *)
(***************************************************************************)
EXTENDS CdDrive, TLAPS

SomeDisc == Discs \cup {None}
SetupStates == [machine : Machines, waits : BOOLEAN]
SeatStates == [disc : SomeDisc, attached : BOOLEAN, attention : BOOLEAN,
               blocks : Sizes, selecting : BOOLEAN, locked : BOOLEAN]
CoreStates == [driver : BOOLEAN, mountDue : BOOLEAN, mountTries : 0..(MountTries + 1), ejectDue : BOOLEAN,
               ejectTries : 0..(UnmountTries - 1), installTries : 0..(InstallTries + 1)]
GuestStates == [phase : {"down", "starting", "started", "apps"}, doing : {"idle", "file", "nested"},
                drive : BOOLEAN, vol : HfsDiscs \cup {None}, open : BOOLEAN, posted : BOOLEAN]
DriverStates == [pc : {"poll", "select", "data", "prevent", "mount", "allow", "eject"}, size : Sizes \cup {0}]
AskedStates == [disc : SomeDisc, refusals : 0..(UnmountTries - 1)]
Operations == {"inquiry", "ready", "read", "select", "prevent", "allow", "eject"}

\* The tries are counted for the work that is due.
CoreTypes == /\ core \in CoreStates
             /\ core.mountDue => core.mountTries <= MountTries
             /\ ~core.ejectDue => core.ejectTries = 0
             /\ asked \in AskedStates /\ asked.refusals = core.ejectTries

Types == /\ setup \in SetupStates /\ seat \in SeatStates /\ CoreTypes
         /\ guest \in GuestStates /\ driver \in DriverStates
         /\ clicks \in 0..MaxClicks /\ restarts \in 0..MaxRestarts

\* A volume is on line only in a System that is up, behind a driver the machine knows.
Staffed ==
  /\ guest.phase = "down" => ~Mounted(guest)
  /\ Hooked /\ Mounted(guest) => guest.drive
  /\ guest.drive \/ guest.posted => Hooked
  /\ guest.drive => core.driver
  /\ setup.waits => Hooked
  /\ setup.waits /\ core.ejectDue => seat.disc \in {asked.disc, None}

\* What Apple's driver relies on at each of its steps.
Driven ==
  ~Hooked => /\ Mounted(guest) \/ driver.pc = "mount" => seat.locked
             /\ driver.pc # "poll" => ~Mounted(guest)
             /\ driver.pc = "data" => seat.selecting

IInv == Types /\ Staffed /\ Driven /\ HeardOnTheBus

-----------------------------------------------------------------------------
(* The target and the machine's work                                       *)

LEMMA TypesImply == Types => CdTypeOK
  BY DEF Types, CoreTypes, CdTypeOK, SetupStates, SeatStates, CoreStates, GuestStates, DriverStates, AskedStates, SomeDisc

LEMMA ConstFacts == /\ InstallTries \in Nat \ {0} /\ MountTries \in Nat \ {0} /\ UnmountTries \in Nat \ {0}
                    /\ MaxClicks \in Nat /\ MaxRestarts \in Nat
                    /\ HfsDiscs \subseteq Discs /\ None \notin Discs /\ None \notin HfsDiscs
  BY CdAssumption

LEMMA PutInSteps ==
  ASSUME NEW s \in SeatStates, NEW d \in Discs
  PROVE  /\ PutIn(s, d) \in SeatStates /\ PutIn(s, d).attention /\ PutIn(s, d).disc = d
         /\ (PutIn(s, d).locked <=> s.locked) /\ (PutIn(s, d).selecting <=> s.selecting)
<1> DEFINE size == 2048
<1>1. PutIn(s, d) = [s EXCEPT !.disc = d, !.blocks = size, !.attention = TRUE]
  BY DEF PutIn
<1>2. d \in SomeDisc /\ size \in Sizes
  BY DEF SomeDisc, Sizes
<1> HIDE DEF size
<1>3. QED
  BY <1>1, <1>2 DEF SeatStates

LEMMA TakeOutSteps ==
  ASSUME NEW s \in SeatStates
  PROVE  /\ TakeOut(s) \in SeatStates /\ TakeOut(s).attention /\ TakeOut(s).disc = None
         /\ TakeOut(s).blocks = s.blocks
         /\ (TakeOut(s).locked <=> s.locked) /\ (TakeOut(s).selecting <=> s.selecting)
<1>1. None \in SomeDisc
  BY DEF SomeDisc
<1>2. QED
  BY <1>1 DEF TakeOut, SeatStates

\* A command that meets the unit attention clears it and does nothing else.
LEMMA LatchedSteps ==
  ASSUME NEW s \in SeatStates, NEW op \in Operations, Latched(s, op)
  PROVE  /\ Execute(s, op) \in SeatStates /\ ~Execute(s, op).attention /\ s.attention /\ op # "inquiry"
         /\ Execute(s, op).disc = s.disc /\ Execute(s, op).blocks = s.blocks
         /\ (Execute(s, op).locked <=> s.locked) /\ (Execute(s, op).selecting <=> s.selecting)
         /\ Answer(s, op) = "attention"
<1>1. Execute(s, op) = [s EXCEPT !.attention = FALSE]
  BY DEF Execute, Perform
<1>2. Answer(s, op) = "attention"
  BY DEF Answer
<1>3. QED
  BY <1>1, <1>2 DEF SeatStates, Latched

\* What the others do.
LEMMA HeardSteps ==
  ASSUME NEW s \in SeatStates, NEW op \in Operations, ~Latched(s, op)
  PROVE  /\ Execute(s, op) \in SeatStates /\ Answer(s, op) # "attention"
         /\ op # "inquiry" => ~s.attention
         /\ Execute(s, op).disc # s.disc => op = "eject" /\ ~s.locked
         /\ Execute(s, op).blocks = s.blocks
         /\ op # "eject" => (Execute(s, op).attention <=> s.attention)
         /\ Execute(s, op).disc # s.disc => Execute(s, op).attention
         /\ s.selecting \/ op = "select" => Execute(s, op).selecting
         /\ (op # "allow" /\ s.locked) \/ op = "prevent" => Execute(s, op).locked
         /\ op \in {"ready", "read"} => (Answer(s, op) = "empty" <=> s.disc = None)
         /\ Answer(s, op) = "empty" => op \in {"ready", "read"}
         /\ Execute(s, op).attention => s.attention \/ op = "eject"
<1>1. Answer(s, op) # "attention" /\ (op # "inquiry" => ~s.attention)
      /\ (op \in {"ready", "read"} => (Answer(s, op) = "empty" <=> s.disc = None))
      /\ (Answer(s, op) = "empty" => op \in {"ready", "read"})
  BY DEF Answer, Latched
<1>2. CASE op = "select"
  <2>1. Execute(s, op) = [s EXCEPT !.selecting = TRUE]
    BY <1>2 DEF Execute, Perform
  <2>2. QED
    BY <1>1, <1>2, <2>1 DEF SeatStates
<1>3. CASE op \in {"prevent", "allow"}
  <2> DEFINE lid == op = "prevent"
  <2>1. Execute(s, op) = [s EXCEPT !.locked = lid] /\ lid \in BOOLEAN /\ (lid <=> op = "prevent")
    BY <1>3 DEF Execute, Perform
  <2> HIDE DEF lid
  <2>2. QED
    BY <1>1, <1>3, <2>1 DEF SeatStates
<1>4. CASE op = "eject" /\ ~s.locked /\ s.disc # None
  <2>1. Execute(s, op) = TakeOut(s)
    BY <1>4 DEF Execute, Perform
  <2>2. QED
    BY <1>1, <1>4, <2>1, TakeOutSteps
<1>5. CASE op \notin {"select", "prevent", "allow"} /\ ~(op = "eject" /\ ~s.locked /\ s.disc # None)
  <2>1. Execute(s, op) = s
    BY <1>5 DEF Execute, Perform
  <2>2. QED
    BY <1>1, <1>5, <2>1
<1>6. QED
  BY <1>2, <1>3, <1>4, <1>5

LEMMA InstallSteps ==
  ASSUME Types, NEW c, NEW g, c = InstallCore(core, guest), g = InstallGuest(core, guest)
  PROVE  /\ c \in CoreStates /\ (c.mountDue => c.mountTries <= MountTries)
         /\ (c.ejectDue <=> core.ejectDue) /\ c.ejectTries = core.ejectTries
         /\ core.driver => c.driver
         /\ g \in GuestStates
         /\ g.phase = guest.phase /\ g.doing = guest.doing /\ g.vol = guest.vol
         /\ (g.open <=> guest.open) /\ (g.posted <=> guest.posted)
         /\ guest.drive => g.drive
         /\ g.drive => guest.drive \/ c.driver
<1> USE ConstFacts DEF Types, CoreTypes
<1>1. CASE Installing(core, guest) /\ Fits(core, guest)
  <2> DEFINE due == seat.disc # None
  <2>1. due \in BOOLEAN
    OBVIOUS
  <2>2. c = [core EXCEPT !.installTries = @ + 1, !.driver = TRUE, !.mountDue = due, !.mountTries = 0]
    BY <1>1 DEF InstallCore
  <2>3. core.installTries \in 0..(InstallTries + 1) /\ core.installTries + 1 \in 0..(InstallTries + 1)
        /\ 0 \in 0..(MountTries + 1)
    BY <1>1 DEF Fits, CoreStates
  <2> HIDE DEF due
  <2>4. c \in CoreStates /\ c.mountTries = 0 /\ (c.ejectDue <=> core.ejectDue) /\ c.ejectTries = core.ejectTries
        /\ c.driver = TRUE
    BY <2>1, <2>2, <2>3 DEF CoreStates
  <2>5. g = [guest EXCEPT !.drive = TRUE]
    BY <1>1 DEF InstallGuest
  <2>6. /\ g \in GuestStates /\ g.phase = guest.phase /\ g.doing = guest.doing /\ g.vol = guest.vol
        /\ (g.open <=> guest.open) /\ (g.posted <=> guest.posted) /\ g.drive = TRUE
    BY <2>5 DEF GuestStates
  <2>7. QED
    BY <2>4, <2>6
<1>2. CASE ~(Installing(core, guest) /\ Fits(core, guest))
  <2>1. g = guest
    BY <1>2 DEF InstallGuest
  <2>2. CASE Installing(core, guest)
    BY <1>2, <2>1, <2>2 DEF InstallCore, CoreStates
  <2>3. CASE ~Installing(core, guest)
    BY <2>1, <2>3 DEF InstallCore
  <2>4. QED
    BY <2>2, <2>3
<1>3. QED
  BY <1>1, <1>2

LEMMA MountSteps ==
  ASSUME NEW g \in GuestStates, NEW s \in SeatStates
  PROVE  /\ MountVol(g, s) \in GuestStates
         /\ MountVol(g, s).phase = g.phase /\ (MountVol(g, s).drive <=> g.drive) /\ (MountVol(g, s).posted <=> g.posted)
         /\ MountVol(g, s).vol = g.vol \/ g.drive
  BY DEF MountVol, Prime, GuestStates

-----------------------------------------------------------------------------
(* The machine's work at the second tick                                   *)

\* The disc is taken, or the unmount is refused once more.
LEMMA EjectSteps ==
  ASSUME Types, NEW c, NEW g, c = InstallCore(core, guest), g = InstallGuest(core, guest),
         core.ejectDue, CompleteEject(c, g)
  PROVE  /\ CoreTypes' /\ guest' \in GuestStates /\ seat' \in SeatStates
         /\ core'.driver <=> c.driver
         /\ guest'.phase = guest.phase /\ (guest'.drive <=> g.drive) /\ (guest'.posted <=> guest.posted)
         /\ guest'.vol \in {guest.vol, None}
         /\ \/ seat' = TakeOut(seat) /\ ~core'.ejectDue
               /\ (Mounted(guest') => ~Unmounting(c, g) \/ asked.refusals = UnmountTries - 1)
            \/ seat' = seat /\ core'.ejectDue /\ asked'.disc = asked.disc
<1> USE ConstFacts DEF Types, CoreTypes
<1>1. /\ c \in CoreStates /\ (c.mountDue => c.mountTries <= MountTries) /\ c.ejectDue
      /\ c.ejectTries = core.ejectTries /\ g \in GuestStates /\ g.phase = guest.phase /\ g.vol = guest.vol
      /\ (g.open <=> guest.open) /\ (g.posted <=> guest.posted)
  BY InstallSteps
<1>2. c.ejectTries \in Nat /\ c.ejectTries <= UnmountTries - 1 /\ asked.refusals = c.ejectTries
      /\ asked.disc \in SomeDisc
  BY <1>1 DEF CoreStates, AskedStates
<1>3. CASE Refused(c, g)
  <2> DEFINE tries == c.ejectTries + 1
  <2>1. tries \in 0..(UnmountTries - 1)
    <3>1. CASE tries < UnmountTries
      BY <1>2, <3>1
    <3>2. CASE ~(tries < UnmountTries)
      <4>1. Taken(c, g, FALSE)
        BY <3>2 DEF CompleteEject
      <4>2. core'.ejectDue = FALSE
        BY <4>1, <1>1 DEF Taken, CoreStates
      <4>3. core'.ejectDue
        BY <1>1, <1>3 DEF Refused, CoreStates
      <4>4. QED
        BY <4>2, <4>3
    <3>3. QED
      BY <3>1, <3>2
  <2>2. core' = [c EXCEPT !.ejectTries = tries] /\ asked' = [asked EXCEPT !.refusals = tries] /\ guest' = g
        /\ seat' = seat
    BY <1>2, <1>3 DEF Refused, AskedStates
  <2> HIDE DEF tries
  <2>3. core' \in CoreStates /\ core'.ejectTries = tries /\ (core'.mountDue <=> c.mountDue) /\ core'.ejectDue
        /\ core'.mountTries = c.mountTries /\ (core'.driver <=> c.driver)
    BY <1>1, <2>1, <2>2 DEF CoreStates
  <2>4. asked' \in AskedStates /\ asked'.refusals = tries /\ asked'.disc = asked.disc
    BY <2>1, <2>2 DEF AskedStates
  <2>5. QED
    BY <1>1, <2>2, <2>3, <2>4
<1>4. CASE ~Refused(c, g)
  <2>1. Taken(c, g, FALSE) /\ (Unmounting(c, g) /\ g.open => ~(c.ejectTries + 1 < UnmountTries))
    BY <1>4 DEF CompleteEject
  <2>2. core' = [c EXCEPT !.ejectDue = FALSE, !.ejectTries = 0, !.mountDue = FALSE] /\ seat' = TakeOut(seat)
        /\ asked' = [disc |-> None, refusals |-> 0]
    BY <2>1 DEF Taken
  <2>3. 0 \in 0..(UnmountTries - 1)
    OBVIOUS
  <2>4. core' \in CoreStates /\ core'.ejectTries = 0 /\ ~core'.mountDue /\ ~core'.ejectDue
        /\ (core'.driver <=> c.driver)
    BY <1>1, <2>2, <2>3 DEF CoreStates
  <2>5. asked' \in AskedStates /\ asked'.refusals = 0
    BY <2>2, <2>3 DEF AskedStates, SomeDisc
  <2>6. guest' = IF Unmounting(c, g) /\ ~g.open THEN [g EXCEPT !.vol = None] ELSE g
    BY <2>1 DEF Taken
  <2>7. /\ guest' \in GuestStates /\ guest'.phase = g.phase /\ (guest'.drive <=> g.drive)
        /\ (guest'.posted <=> g.posted) /\ guest'.vol \in {g.vol, None}
        /\ Unmounting(c, g) /\ ~g.open => guest'.vol = None
    BY <1>1, <2>6 DEF GuestStates
  <2>8. Mounted(guest') => ~Unmounting(c, g) \/ asked.refusals = UnmountTries - 1
    BY <1>2, <2>1, <2>7 DEF Mounted
  <2>9. seat' \in SeatStates
    BY <2>2, TakeOutSteps
  <2>10. QED
    BY <1>1, <2>2, <2>4, <2>5, <2>7, <2>8, <2>9
<1>5. QED
  BY <1>3, <1>4

LEMMA MountVolumeSteps ==
  ASSUME Types, NEW c, NEW g, c = InstallCore(core, guest), g = InstallGuest(core, guest),
         MountVolume(c, g), c.mountDue
  PROVE  /\ CoreTypes' /\ guest' \in GuestStates /\ seat' = seat
         /\ (core'.driver <=> c.driver) /\ (core'.ejectDue <=> core.ejectDue) /\ asked' = asked
         /\ guest'.phase = guest.phase /\ (guest'.drive <=> g.drive)
         /\ guest'.posted => guest.posted \/ setup.machine = "iifx"
         /\ guest'.vol = guest.vol \/ (g.drive /\ SystemUp(guest))
<1> USE ConstFacts DEF Types, CoreTypes
<1>1. /\ c \in CoreStates /\ c.mountTries <= MountTries /\ (c.ejectDue <=> core.ejectDue)
      /\ c.ejectTries = core.ejectTries /\ g \in GuestStates /\ g.phase = guest.phase /\ g.vol = guest.vol
      /\ (g.open <=> guest.open) /\ (g.posted <=> guest.posted)
  BY InstallSteps
<1>2. asked' = asked /\ seat' = seat
  BY DEF MountVolume
<1>3. ASSUME NEW tries \in 0..(MountTries + 1), NEW due \in BOOLEAN, due => tries <= MountTries,
             core' = [c EXCEPT !.mountTries = tries, !.mountDue = due]
      PROVE  CoreTypes' /\ (core'.driver <=> c.driver) /\ (core'.ejectDue <=> core.ejectDue)
  <2>1. /\ core' \in CoreStates /\ core'.mountTries = tries /\ (core'.mountDue <=> due)
        /\ (core'.ejectDue <=> c.ejectDue) /\ core'.ejectTries = c.ejectTries /\ (core'.driver <=> c.driver)
    BY <1>1, <1>3 DEF CoreStates
  <2>2. QED
    BY <1>1, <1>2, <1>3, <2>1
<1>4. c.mountTries \in Nat
  BY <1>1 DEF CoreStates
<1>5. CASE ~Mountable(c, g)
  <2>1. core' = c /\ guest' = g
    BY <1>5 DEF MountVolume
  <2>2. QED
    BY <1>1, <1>2, <2>1
<1>6. CASE Mountable(c, g) /\ (Mounted(g) \/ OutOfTries(c))
  <2> DEFINE tries == IF Mounted(g) THEN c.mountTries ELSE c.mountTries + 1
             due == FALSE
  <2>1. core' = [c EXCEPT !.mountTries = tries, !.mountDue = due] /\ guest' = g
    BY <1>1, <1>6 DEF MountVolume, CoreStates
  <2>2. tries \in 0..(MountTries + 1)
    BY <1>1, <1>4
  <2> HIDE DEF tries
  <2>3. QED
    BY <1>1, <1>2, <1>3, <2>1, <2>2
<1>7. CASE Mountable(c, g) /\ ~Mounted(g) /\ ~OutOfTries(c)
  <2> DEFINE tries == c.mountTries + 1
  <2>1. tries \in 0..(MountTries + 1) /\ tries <= MountTries /\ SystemUp(guest)
    BY <1>1, <1>4, <1>7 DEF OutOfTries, Mountable, Settled, SystemUp
  <2>2. CASE MountDirectly(c, g)
    <3> DEFINE due == ~Mounted(guest')
    <3>1. core' = [c EXCEPT !.mountTries = tries, !.mountDue = due] /\ guest' = MountVol(g, seat)
      BY <1>1, <2>2 DEF MountDirectly, CoreStates
    <3>2. due \in BOOLEAN
      OBVIOUS
    <3> HIDE DEF due, tries
    <3>3. CoreTypes' /\ (core'.driver <=> c.driver) /\ (core'.ejectDue <=> core.ejectDue)
      BY <1>3, <2>1, <3>1, <3>2
    <3>4. QED
      BY <1>1, <1>2, <2>1, <3>1, <3>3, MountSteps
  <2>3. CASE setup.machine = "iifx" /\ PostEvent(c, g)
    <3>1. PICK taken \in BOOLEAN :
            /\ guest' = [g EXCEPT !.posted = g.posted \/ taken]
            /\ core' = [c EXCEPT !.mountTries = c.mountTries + 1, !.mountDue = ~taken]
      BY <2>3, <1>1 DEF PostEvent
    <3> DEFINE due == ~taken
               posted == g.posted \/ taken
    <3>2. core' = [c EXCEPT !.mountTries = tries, !.mountDue = due] /\ guest' = [g EXCEPT !.posted = posted]
          /\ due \in BOOLEAN /\ posted \in BOOLEAN
      BY <1>1, <3>1 DEF CoreStates, GuestStates
    <3> HIDE DEF due, tries, posted
    <3>3. CoreTypes' /\ (core'.driver <=> c.driver) /\ (core'.ejectDue <=> core.ejectDue)
      BY <1>3, <2>1, <3>2
    <3>4. guest' \in GuestStates /\ guest'.phase = g.phase /\ (guest'.drive <=> g.drive) /\ guest'.vol = g.vol
      BY <1>1, <3>2 DEF GuestStates
    <3>5. QED
      BY <1>1, <1>2, <2>3, <3>3, <3>4
  <2>4. QED
    BY <1>7, <2>2, <2>3 DEF MountVolume
<1>8. QED
  BY <1>5, <1>6, <1>7

LEMMA SecondSteps ==
  ASSUME Types, Staffed, Second
  PROVE  /\ Hooked /\ UNCHANGED << setup, driver, clicks, restarts >>
         /\ CoreTypes' /\ guest' \in GuestStates /\ seat' \in SeatStates
         /\ core.driver => core'.driver
         /\ core'.ejectDue => core.ejectDue /\ asked'.disc = asked.disc
         /\ guest'.phase = guest.phase /\ (guest.drive => guest'.drive) /\ (guest'.drive => core'.driver)
         /\ guest'.vol \in {guest.vol, None} \/ (guest'.drive /\ SystemUp(guest))
         /\ seat' = seat \/ /\ seat' = TakeOut(seat) /\ core.ejectDue
                            /\ Mounted(guest') => guest.doing = "file" \/ asked.refusals = UnmountTries - 1
<1> DEFINE c == InstallCore(core, guest)
           g == InstallGuest(core, guest)
<1>1. /\ c \in CoreStates /\ (c.mountDue => c.mountTries <= MountTries)
      /\ (c.ejectDue <=> core.ejectDue) /\ c.ejectTries = core.ejectTries
      /\ (core.driver => c.driver) /\ g \in GuestStates
      /\ g.phase = guest.phase /\ g.doing = guest.doing /\ g.vol = guest.vol
      /\ (g.posted <=> guest.posted) /\ (guest.drive => g.drive) /\ (g.drive => guest.drive \/ c.driver)
  BY InstallSteps
<1>2. Hooked /\ guest.doing # "nested" /\ UNCHANGED << setup, driver, clicks, restarts >>
  BY DEF Second
<1>3. g.drive => c.driver
  BY <1>1 DEF Staffed
<1>4. seat \in SeatStates /\ guest.doing \in {"idle", "file", "nested"}
  BY DEF Types, GuestStates
<1>5. CASE c.ejectDue
  <2>1. CompleteEject(c, g)
    BY <1>5 DEF Second
  <2>2. core.ejectDue
    BY <1>1, <1>5
  <2> HIDE DEF c, g
  <2>3. /\ CoreTypes' /\ guest' \in GuestStates /\ seat' \in SeatStates
        /\ (core'.driver <=> c.driver)
        /\ guest'.phase = guest.phase /\ (guest'.drive <=> g.drive) /\ guest'.vol \in {guest.vol, None}
        /\ \/ seat' = TakeOut(seat) /\ ~core'.ejectDue
              /\ (Mounted(guest') => ~Unmounting(c, g) \/ asked.refusals = UnmountTries - 1)
           \/ seat' = seat /\ core'.ejectDue /\ asked'.disc = asked.disc
    BY <2>1, <2>2, EjectSteps DEF c, g
  <2>4. ASSUME Mounted(guest'), ~Unmounting(c, g)
        PROVE  guest.doing = "file"
    <3>1. Mounted(guest) /\ Mounted(g)
      BY <1>1, <2>3, <2>4 DEF Mounted
    <3>2. c.driver /\ SystemUp(g)
      BY <1>1, <1>2, <3>1 DEF Staffed, SystemUp
    <3>3. QED
      BY <1>1, <1>2, <1>4, <2>4, <3>1, <3>2 DEF Unmounting, Settled
  <2>5. QED
    BY <1>1, <1>2, <1>3, <2>2, <2>3, <2>4
<1>6. CASE ~c.ejectDue /\ c.mountDue
  <2>1. MountVolume(c, g)
    BY <1>6 DEF Second
  <2>2. ~core.ejectDue
    BY <1>1, <1>6
  <2> HIDE DEF c, g
  <2>3. /\ CoreTypes' /\ guest' \in GuestStates /\ seat' = seat
        /\ (core'.driver <=> c.driver) /\ (core'.ejectDue <=> core.ejectDue)
        /\ guest'.phase = guest.phase /\ (guest'.drive <=> g.drive)
        /\ guest'.vol = guest.vol \/ (g.drive /\ SystemUp(guest))
    BY <1>6, <2>1, MountVolumeSteps DEF c, g
  <2>4. QED
    BY <1>1, <1>2, <1>3, <1>4, <2>2, <2>3
<1>7. CASE ~c.ejectDue /\ ~c.mountDue
  <2>1. core' = c /\ guest' = g /\ UNCHANGED << seat, asked >>
    BY <1>7 DEF Second
  <2> HIDE DEF c, g
  <2>2. CoreTypes'
    BY <1>1, <1>7, <2>1 DEF Types, CoreTypes
  <2>3. QED
    BY <1>1, <1>2, <1>3, <1>4, <1>7, <2>1, <2>2
<1>8. QED
  BY <1>5, <1>6, <1>7

-----------------------------------------------------------------------------
(* Each step keeps the invariant and leaves the disc in its place          *)

LEMMA MachineKeeps ==
  ASSUME IInv, Second
  PROVE  IInv' /\ LeavesAsAsked
<1> USE DEF IInv
<1>1. /\ Hooked /\ UNCHANGED << setup, driver, clicks, restarts >>
      /\ CoreTypes' /\ guest' \in GuestStates /\ seat' \in SeatStates
      /\ core.driver => core'.driver
      /\ core'.ejectDue => core.ejectDue /\ asked'.disc = asked.disc
      /\ guest'.phase = guest.phase /\ (guest.drive => guest'.drive) /\ (guest'.drive => core'.driver)
      /\ guest'.vol \in {guest.vol, None} \/ (guest'.drive /\ SystemUp(guest))
      /\ seat' = seat \/ /\ seat' = TakeOut(seat) /\ core.ejectDue
                         /\ Mounted(guest') => guest.doing = "file" \/ asked.refusals = UnmountTries - 1
  BY SecondSteps
<1>2. Hooked'
  BY <1>1 DEF Hooked
<1>3. Types'
  BY <1>1 DEF Types
<1>4. seat'.disc \in {seat.disc, None}
  BY <1>1, TakeOutSteps DEF Types
<1>5. Staffed'
  BY <1>1, <1>2, <1>4 DEF Staffed, Mounted, SystemUp
<1>6. Driven' /\ HeardOnTheBus'
  BY <1>2 DEF Driven, HeardOnTheBus
<1>7. LeavesAsAsked
  BY <1>1 DEF LeavesAsAsked, Staffed
<1>8. QED
  BY <1>3, <1>5, <1>6, <1>7

\* The guest does something that concerns nobody else.
LEMMA GuestMoves ==
  ASSUME IInv, UNCHANGED << setup, seat, core, driver, asked, clicks, restarts >>, guest' \in GuestStates,
         guest'.drive <=> guest.drive, guest'.posted => guest.posted, guest'.phase = "down" => guest.phase = "down",
         guest'.vol \in {guest.vol, None} \/ (guest.drive /\ guest.phase # "down")
  PROVE  IInv' /\ LeavesAsAsked
<1> USE DEF IInv
<1>1. (Hooked' <=> Hooked) /\ (~Hooked /\ Mounted(guest') => Mounted(guest) /\ guest'.vol = guest.vol)
  BY DEF Hooked, Staffed, Mounted
<1>2. Types'
  BY DEF Types, CoreTypes
<1>3. Staffed'
  BY <1>1 DEF Staffed, Mounted
<1>4. Driven'
  BY <1>1 DEF Driven
<1>5. HeardOnTheBus'
  BY <1>1 DEF HeardOnTheBus, Answer, Latched
<1>6. LeavesAsAsked
  BY DEF LeavesAsAsked
<1>7. QED
  BY <1>2, <1>3, <1>4, <1>5, <1>6

LEMMA SystemKeeps ==
  ASSUME IInv,
         \/ Boot \/ TakeEvent \/ PutAway
         \/ \E doing \in {"idle", "file", "nested"} : Turn(doing)
         \/ \E open \in BOOLEAN : OpenClose(open)
  PROVE  IInv' /\ LeavesAsAsked
<1> USE ConstFacts
<1>1. guest \in GuestStates /\ seat \in SeatStates
  BY DEF IInv, Types
<1>2. CASE Boot
  <2> DEFINE phase == CASE guest.phase = "down" -> "starting" [] guest.phase = "starting" -> "started" [] OTHER -> "apps"
  <2>1. guest' = [guest EXCEPT !.phase = phase] /\ phase \in {"starting", "started", "apps"}
    BY <1>1, <1>2 DEF Boot, GuestStates
  <2> HIDE DEF phase
  <2>2. guest' \in GuestStates /\ guest'.phase = phase /\ (guest'.drive <=> guest.drive)
        /\ (guest'.posted <=> guest.posted) /\ guest'.vol = guest.vol
    BY <1>1, <2>1 DEF GuestStates
  <2>3. UNCHANGED << setup, seat, core, driver, asked, clicks, restarts >>
    BY <1>2 DEF Boot, Guest
  <2>4. QED
    BY <2>1, <2>2, <2>3, GuestMoves
<1>3. CASE TakeEvent
  <2> DEFINE taken == [guest EXCEPT !.posted = FALSE]
  <2>1. guest' = MountVol(taken, seat) /\ guest.phase # "down"
        /\ UNCHANGED << setup, seat, core, driver, asked, clicks, restarts >>
    BY <1>3 DEF TakeEvent, Guest, Idle
  <2>2. taken \in GuestStates /\ taken.phase = guest.phase /\ (taken.drive <=> guest.drive) /\ ~taken.posted
        /\ taken.vol = guest.vol
    BY <1>1 DEF GuestStates
  <2> HIDE DEF taken
  <2>3. guest' \in GuestStates /\ guest'.phase = guest.phase /\ (guest'.drive <=> guest.drive) /\ ~guest'.posted
        /\ (guest'.vol = guest.vol \/ guest.drive)
    BY <1>1, <2>1, <2>2, MountSteps
  <2>4. QED
    BY <2>1, <2>3, GuestMoves
<1>4. CASE PutAway
  <2>1. guest' = [guest EXCEPT !.vol = None] /\ UNCHANGED << setup, seat, core, driver, asked, clicks, restarts >>
    BY <1>4 DEF PutAway, Guest
  <2>2. guest' \in GuestStates /\ guest'.phase = guest.phase /\ (guest'.drive <=> guest.drive)
        /\ (guest'.posted <=> guest.posted) /\ guest'.vol = None
    BY <1>1, <2>1 DEF GuestStates
  <2>3. QED
    BY <2>1, <2>2, GuestMoves
<1>5. ASSUME NEW doing \in {"idle", "file", "nested"}, Turn(doing)
      PROVE  IInv' /\ LeavesAsAsked
  <2>1. guest' = [guest EXCEPT !.doing = doing] /\ UNCHANGED << setup, seat, core, driver, asked, clicks, restarts >>
    BY <1>5 DEF Turn, Guest
  <2>2. guest' \in GuestStates /\ guest'.phase = guest.phase /\ (guest'.drive <=> guest.drive)
        /\ (guest'.posted <=> guest.posted) /\ guest'.vol = guest.vol
    BY <1>1, <2>1 DEF GuestStates
  <2>3. QED
    BY <2>1, <2>2, GuestMoves
<1>6. ASSUME NEW open \in BOOLEAN, OpenClose(open)
      PROVE  IInv' /\ LeavesAsAsked
  <2>1. guest' = [guest EXCEPT !.open = open] /\ UNCHANGED << setup, seat, core, driver, asked, clicks, restarts >>
    BY <1>6 DEF OpenClose, Guest
  <2>2. guest' \in GuestStates /\ guest'.phase = guest.phase /\ (guest'.drive <=> guest.drive)
        /\ (guest'.posted <=> guest.posted) /\ guest'.vol = guest.vol
    BY <1>1, <2>1 DEF GuestStates
  <2>3. QED
    BY <2>1, <2>2, GuestMoves
<1>7. QED
  BY <1>2, <1>3, <1>4, <1>5, <1>6

LEMMA GuestEjectKeeps ==
  ASSUME IInv, GuestEject
  PROVE  IInv' /\ LeavesAsAsked
<1> USE DEF IInv
<1>1. /\ Hooked /\ ~Mounted(guest) /\ seat' = TakeOut(seat)
      /\ UNCHANGED << setup, core, guest, driver, asked, clicks, restarts >>
  BY DEF GuestEject, Guest, Staffed
<1>2. seat' \in SeatStates /\ seat'.disc = None
  BY <1>1, TakeOutSteps DEF Types
<1>3. Hooked'
  BY <1>1 DEF Hooked
<1>4. Types'
  BY <1>1, <1>2 DEF Types, CoreTypes
<1>5. Staffed'
  BY <1>1, <1>2, <1>3 DEF Staffed, Mounted
<1>6. Driven' /\ HeardOnTheBus'
  BY <1>3 DEF Driven, HeardOnTheBus
<1>7. LeavesAsAsked
  BY <1>1 DEF LeavesAsAsked
<1>8. QED
  BY <1>4, <1>5, <1>6, <1>7

LEMMA RestartKeeps ==
  ASSUME IInv, Restart
  PROVE  IInv' /\ LeavesAsAsked
<1> USE DEF IInv
<1>1. /\ guest' = [phase |-> "down", doing |-> "idle", drive |-> FALSE, vol |-> None, open |-> FALSE, posted |-> FALSE]
      /\ driver' = [pc |-> "poll", size |-> 0]
      /\ UNCHANGED << setup, seat, core, asked, clicks >>
      /\ restarts' = restarts + 1 /\ restarts < MaxRestarts
  BY DEF Restart
<1>2. Types'
  BY <1>1, ConstFacts DEF Types, CoreTypes, GuestStates, DriverStates
<1>3. ~Mounted(guest') /\ ~guest'.drive /\ ~guest'.posted /\ driver'.pc = "poll" /\ driver'.size = 0
  BY <1>1 DEF Mounted
<1>4. Staffed'
  BY <1>1, <1>3 DEF Staffed, Hooked, Mounted
<1>5. Driven' /\ HeardOnTheBus'
  BY <1>3 DEF Driven, HeardOnTheBus, Mounted
<1>6. LeavesAsAsked
  BY <1>1 DEF LeavesAsAsked
<1>7. QED
  BY <1>2, <1>4, <1>5, <1>6

-----------------------------------------------------------------------------
(* The user                                                                *)

LEMMA StagedSteps ==
  ASSUME IInv, Staged
  PROVE  /\ CoreTypes' /\ (core'.driver <=> core.driver)
         /\ core'.ejectDue /\ seat.disc # None => asked'.disc = seat.disc \/ (core.ejectDue /\ asked' = asked)
         /\ core'.ejectDue => seat.disc # None \/ (core.ejectDue /\ asked' = asked)
<1> USE ConstFacts DEF IInv, Types, CoreTypes
<1>1. CASE seat.disc = None
  BY <1>1 DEF Staged
<1>2. CASE seat.disc # None
  <2>1. core' = [core EXCEPT !.ejectDue = TRUE]
        /\ asked' = IF core.ejectDue THEN asked ELSE [disc |-> seat.disc, refusals |-> 0]
    BY <1>2 DEF Staged
  <2>2. /\ core' \in CoreStates /\ core'.ejectDue /\ (core'.driver <=> core.driver)
        /\ (core'.mountDue <=> core.mountDue) /\ core'.mountTries = core.mountTries
        /\ core'.ejectTries = core.ejectTries
    BY <2>1 DEF CoreStates
  <2>3. asked' \in AskedStates /\ asked'.refusals = core.ejectTries
    BY <2>1 DEF AskedStates, SeatStates
  <2>4. asked'.disc = seat.disc \/ (core.ejectDue /\ asked' = asked)
    BY <2>1
  <2>5. QED
    BY <1>2, <2>2, <2>3, <2>4
<1>3. QED
  BY <1>1, <1>2

\* What the user does leaves the guest as it is.
LEMMA UserMoves ==
  ASSUME IInv, UNCHANGED << setup, guest, driver, restarts >>, clicks' \in 0..MaxClicks,
         CoreTypes', core'.driver <=> core.driver, seat' \in SeatStates,
         setup.waits /\ core'.ejectDue => seat'.disc \in {asked'.disc, None},
         seat'.locked <=> seat.locked, seat'.selecting <=> seat.selecting,
         seat'.attention \/ Hooked \/ (seat'.disc = seat.disc /\ seat'.blocks = seat.blocks /\ seat'.attention = seat.attention)
  PROVE  IInv'
<1> USE DEF IInv
<1>1. Hooked' <=> Hooked
  BY DEF Hooked
<1>2. Types'
  BY DEF Types
<1>3. Staffed'
  BY <1>1 DEF Staffed, Mounted
<1>4. Driven'
  BY <1>1 DEF Driven, Mounted
<1>5. HeardOnTheBus'
  BY <1>1 DEF HeardOnTheBus, Answer, Latched, Mounted
<1>6. QED
  BY <1>2, <1>3, <1>4, <1>5

LEMMA UserKeeps ==
  ASSUME IInv, (\E d \in Discs : Insert(d)) \/ Eject \/ \E on \in BOOLEAN : Attach(on)
  PROVE  IInv' /\ LeavesAsAsked
<1> USE ConstFacts
<1>1. seat \in SeatStates /\ CoreTypes /\ clicks \in 0..MaxClicks
  BY DEF IInv, Types
<1>2. UNCHANGED << setup, guest, driver, restarts >> /\ clicks' = clicks + 1 /\ clicks' \in 0..MaxClicks
  BY <1>1 DEF Insert, Eject, Attach, Click
<1>3. ASSUME NEW d \in Discs, Insert(d)
      PROVE  IInv' /\ LeavesAsAsked
  <2> DEFINE there == [seat EXCEPT !.attached = TRUE]
  <2>1. there \in SeatStates /\ (there.locked <=> seat.locked) /\ (there.selecting <=> seat.selecting)
    BY <1>1 DEF SeatStates
  <2>2. seat' = PutIn(there, d) /\ asked' = asked /\ (setup.waits => seat.disc = None /\ ~core.ejectDue)
    BY <1>3 DEF Insert
  <2> HIDE DEF there
  <2>3. seat' \in SeatStates /\ seat'.attention /\ (seat'.locked <=> seat.locked)
        /\ (seat'.selecting <=> seat.selecting)
    BY <2>1, <2>2, PutInSteps
  <2>4. CoreTypes' /\ (core'.driver <=> core.driver) /\ (core'.ejectDue <=> core.ejectDue)
    <3>1. core' = IF Hooked THEN [core EXCEPT !.mountDue = TRUE, !.mountTries = 0] ELSE core
      BY <1>3 DEF Insert, Due
    <3>2. core' \in CoreStates /\ (core'.ejectDue <=> core.ejectDue) /\ (core'.driver <=> core.driver)
          /\ core'.ejectTries = core.ejectTries /\ (core'.mountDue => core'.mountTries <= MountTries)
      <4>1. CASE Hooked
        <5> DEFINE none == 0
        <5>1. core' = [core EXCEPT !.mountDue = TRUE, !.mountTries = none] /\ none \in 0..(MountTries + 1)
              /\ none <= MountTries
          BY <3>1, <4>1
        <5> HIDE DEF none
        <5>2. QED
          BY <1>1, <5>1 DEF CoreTypes, CoreStates
      <4>2. CASE ~Hooked
        BY <1>1, <3>1, <4>2 DEF CoreTypes
      <4>3. QED
        BY <4>1, <4>2
    <3>3. QED
      BY <1>1, <2>2, <3>2 DEF CoreTypes
  <2>5. IInv'
    BY <1>2, <2>2, <2>3, <2>4, UserMoves
  <2>6. LeavesAsAsked
    BY <1>1, <1>2, <2>2 DEF LeavesAsAsked
  <2>7. QED
    BY <2>5, <2>6
<1>4. CASE Eject /\ Hooked
  <2>1. Staged /\ seat' = seat
    BY <1>4 DEF Eject
  <2>2. setup.waits /\ core.ejectDue => seat.disc \in {asked.disc, None}
    BY DEF IInv, Staffed
  <2>3. IInv'
    BY <1>1, <1>2, <1>4, <2>1, <2>2, StagedSteps, UserMoves
  <2>4. QED
    BY <2>1, <2>3 DEF LeavesAsAsked
<1>5. CASE Eject /\ ~Hooked
  <2>1. seat' = TakeOut(seat) /\ UNCHANGED << core, asked >>
    BY <1>5 DEF Eject
  <2>2. ~setup.waits
    BY <1>5 DEF IInv, Staffed
  <2>3. CoreTypes'
    BY <1>1, <2>1 DEF CoreTypes
  <2>4. IInv'
    BY <1>1, <1>2, <2>1, <2>2, <2>3, TakeOutSteps, UserMoves
  <2>5. QED
    BY <1>1, <1>2, <2>2, <2>4 DEF LeavesAsAsked
<1>6. ASSUME NEW on \in BOOLEAN, Attach(on)
      PROVE  IInv' /\ LeavesAsAsked
  <2>1. seat' = [seat EXCEPT !.attached = on] /\ (Staged \/ UNCHANGED << core, asked >>)
    BY <1>6 DEF Attach
  <2>2. /\ seat' \in SeatStates /\ (seat'.locked <=> seat.locked) /\ (seat'.selecting <=> seat.selecting)
        /\ seat'.disc = seat.disc /\ seat'.blocks = seat.blocks /\ seat'.attention = seat.attention
    BY <1>1, <2>1 DEF SeatStates
  <2>3. setup.waits /\ core.ejectDue => seat.disc \in {asked.disc, None}
    BY DEF IInv, Staffed
  <2>4. /\ CoreTypes' /\ (core'.driver <=> core.driver)
        /\ setup.waits /\ core'.ejectDue => seat'.disc \in {asked'.disc, None}
    <3>1. CASE Staged
      BY <2>2, <2>3, <3>1, StagedSteps
    <3>2. CASE UNCHANGED << core, asked >>
      BY <1>1, <2>2, <2>3, <3>2 DEF CoreTypes
    <3>3. QED
      BY <2>1, <3>1, <3>2
  <2>5. IInv'
    BY <1>2, <2>2, <2>4, UserMoves
  <2>6. QED
    BY <2>2, <2>5 DEF LeavesAsAsked
<1>7. QED
  BY <1>3, <1>4, <1>5, <1>6

-----------------------------------------------------------------------------
(* Apple's driver                                                          *)

\* A command keeps the invariant if a good answer to it does.
LEMMA CommandKeeps ==
  ASSUME IInv, NEW op \in Operations, NEW next \in {"poll", "select", "data", "prevent", "mount", "allow", "eject"},
         NEW good \in GuestStates, Command(op, next, good),
         good.phase = guest.phase, good.drive <=> guest.drive, good.posted <=> guest.posted,
         Mounted(good) => good.vol = guest.vol \/ (op = "read" /\ good.vol = seat.disc),
         op = "eject" => good = guest /\ (Mounted(guest) => seat.locked),
         Answer(seat, op) \notin {"attention", "empty"} =>
           /\ Mounted(good) \/ next = "mount" => Execute(seat, op).locked
           /\ next # "poll" => ~Mounted(good)
           /\ next = "data" => Execute(seat, op).selecting
  PROVE  IInv' /\ LeavesAsAsked
<1> USE DEF IInv
<1>1. /\ ~Hooked /\ guest.phase = "apps" /\ seat' = Execute(seat, op) /\ UNCHANGED << setup, core, asked, clicks, restarts >>
      /\ seat \in SeatStates /\ guest \in GuestStates /\ driver \in DriverStates
  BY DEF Command, Guest, Types
<1>2. ~Hooked'
  BY <1>1 DEF Hooked
<1>3. CASE Answer(seat, op) \in {"attention", "empty"}
  <2>1. driver' = [pc |-> "poll", size |-> 0] /\ guest' = [guest EXCEPT !.vol = None, !.open = FALSE]
    BY <1>3 DEF Command
  <2>2. driver' \in DriverStates /\ driver'.pc = "poll" /\ driver'.size = 0
    BY <2>1 DEF DriverStates
  <2>3. guest' \in GuestStates /\ guest'.phase = guest.phase /\ (guest'.drive <=> guest.drive)
        /\ (guest'.posted <=> guest.posted) /\ guest'.vol = None
    BY <1>1, <2>1 DEF GuestStates
  <2>4. seat' \in SeatStates /\ seat'.disc = seat.disc
    BY <1>1, <1>3, LatchedSteps, HeardSteps
  <2>5. Types'
    BY <1>1, <2>2, <2>3, <2>4 DEF Types, CoreTypes
  <2>6. Staffed'
    BY <1>1, <1>2, <2>3, <2>4 DEF Staffed, Mounted
  <2>7. Driven' /\ HeardOnTheBus'
    BY <2>2, <2>3 DEF Driven, HeardOnTheBus, Mounted
  <2>8. LeavesAsAsked
    BY <2>4 DEF LeavesAsAsked
  <2>9. QED
    BY <2>5, <2>6, <2>7, <2>8
<1>4. CASE Answer(seat, op) \notin {"attention", "empty"}
  <2>1. driver' = [driver EXCEPT !.pc = next] /\ guest' = good
    BY <1>4 DEF Command
  <2>2. driver' \in DriverStates /\ driver'.pc = next /\ driver'.size = driver.size
    BY <1>1, <2>1 DEF DriverStates
  <2>3. ~Latched(seat, op)
    BY <1>1, <1>4, LatchedSteps
  <2>4. /\ seat' \in SeatStates /\ (op # "inquiry" => ~seat.attention) /\ seat'.blocks = seat.blocks
        /\ seat'.disc # seat.disc => op = "eject" /\ ~seat.locked /\ seat'.attention
        /\ op # "eject" => (seat'.attention <=> seat.attention)
    BY <1>1, <2>3, HeardSteps
  <2>5. op = "read" => seat.disc # None /\ ~seat.attention
    BY <1>1, <1>4, <2>3, HeardSteps
  <2>6. Types'
    BY <1>1, <2>1, <2>2, <2>4 DEF Types, CoreTypes
  <2>7. Staffed'
    BY <1>1, <1>2, <2>1 DEF Staffed, Mounted
  <2>8. Driven'
    BY <1>1, <1>4, <2>1, <2>2 DEF Driven
  <2>9. HeardOnTheBus'
    <3> SUFFICES ASSUME ~seat'.attention, seat'.disc # None
                 PROVE  (Mounted(good) => good.vol = seat'.disc)
                        /\ (driver'.size # 0 => driver'.size = seat'.blocks)
      BY <2>1 DEF HeardOnTheBus, Answer, Latched
    <3>1. seat'.disc = seat.disc /\ ~seat.attention
      BY <2>4
    <3>2. Answer(seat, "read") = "good"
      BY <3>1 DEF Answer, Latched
    <3>3. (Mounted(guest) => guest.vol = seat.disc) /\ (driver.size # 0 => driver.size = seat.blocks)
      BY <1>1, <3>2 DEF HeardOnTheBus
    <3>4. QED
      BY <2>2, <2>4, <3>1, <3>3 DEF Mounted
  <2>10. LeavesAsAsked
    BY <1>1, <2>1, <2>4 DEF LeavesAsAsked
  <2>11. QED
    BY <2>6, <2>7, <2>8, <2>9, <2>10
<1>5. QED
  BY <1>3, <1>4

LEMMA DriverKeeps ==
  ASSUME IInv, Poll \/ Select \/ Prevent \/ ReadCatalog \/ ReadFile \/ Allow \/ LoadEject \/ ProgramScan \/ ProgramEject
  PROVE  IInv' /\ LeavesAsAsked
<1>1. seat \in SeatStates /\ guest \in GuestStates /\ ~Hooked
  BY DEF IInv, Types, Poll, Select, Prevent, ReadCatalog, ReadFile, Allow, LoadEject, ProgramScan, ProgramEject, Command
<1>2. /\ Mounted(guest) \/ driver.pc = "mount" => seat.locked
      /\ driver.pc # "poll" => ~Mounted(guest)
  BY <1>1 DEF IInv, Driven
<1>3. \A op \in Operations : Answer(seat, op) \notin {"attention", "empty"} =>
        /\ op # "allow" /\ seat.locked => Execute(seat, op).locked
        /\ op = "prevent" => Execute(seat, op).locked
        /\ op = "select" => Execute(seat, op).selecting
  BY <1>1, LatchedSteps, HeardSteps
<1>4. CASE Poll
  <2> DEFINE next == IF Mounted(guest) THEN "poll" ELSE "select"
  <2>1. Command("ready", next, guest) /\ next \in {"poll", "select"} /\ (next # "poll" => ~Mounted(guest))
    BY <1>4 DEF Poll
  <2> HIDE DEF next
  <2>2. QED
    BY <1>1, <1>2, <1>3, <2>1, CommandKeeps DEF Operations
<1>5. CASE Select
  BY <1>1, <1>2, <1>3, <1>5, CommandKeeps DEF Select, Operations
<1>6. CASE Prevent
  BY <1>1, <1>2, <1>3, <1>6, CommandKeeps DEF Prevent, Operations
<1>7. CASE ReadCatalog
  <2> DEFINE good == IF seat.disc \in HfsDiscs THEN [guest EXCEPT !.vol = seat.disc] ELSE guest
  <2>1. Command("read", "poll", good) /\ driver.pc = "mount"
    BY <1>7 DEF ReadCatalog
  <2>2. /\ good \in GuestStates /\ good.phase = guest.phase /\ (good.drive <=> guest.drive)
        /\ (good.posted <=> guest.posted) /\ (good.vol = guest.vol \/ good.vol = seat.disc)
    BY <1>1 DEF GuestStates
  <2> HIDE DEF good
  <2>3. QED
    BY <1>2, <1>3, <2>1, <2>2, CommandKeeps DEF Operations
<1>8. CASE ReadFile
  BY <1>1, <1>2, <1>3, <1>8, CommandKeeps DEF ReadFile, Operations
<1>9. CASE Allow
  BY <1>1, <1>2, <1>3, <1>9, CommandKeeps DEF Allow, Operations
<1>10. CASE LoadEject \/ ProgramEject
  BY <1>1, <1>2, <1>3, <1>10, CommandKeeps DEF LoadEject, ProgramEject, Operations
<1>11. CASE ProgramScan
  BY <1>1, <1>2, <1>3, <1>11, CommandKeeps DEF ProgramScan, Operations
<1>12. QED
  BY <1>4, <1>5, <1>6, <1>7, <1>8, <1>9, <1>10, <1>11

\* The size is sent to a target that expects it.
LEMMA SendSizeKeeps ==
  ASSUME IInv, SendSize
  PROVE  IInv' /\ LeavesAsAsked
<1> USE DEF IInv
<1> DEFINE size == 512
<1>1. /\ ~Hooked /\ driver.pc = "data" /\ driver' = [pc |-> "prevent", size |-> size]
      /\ seat' = AcceptWrite(seat, size) /\ seat \in SeatStates
      /\ UNCHANGED << setup, core, guest, asked, clicks, restarts >>
  BY DEF SendSize, Guest, Types
<1>2. size \in Sizes
  BY DEF Sizes
<1> HIDE DEF size
<1>3. seat.selecting /\ ~Mounted(guest)
  BY <1>1 DEF Driven
<1>4. seat' = [seat EXCEPT !.selecting = FALSE, !.blocks = size]
  BY <1>1, <1>3 DEF AcceptWrite
<1>5. seat' \in SeatStates /\ seat'.blocks = size /\ seat'.disc = seat.disc
  BY <1>1, <1>2, <1>4 DEF SeatStates
<1>6. driver' \in DriverStates /\ driver'.pc = "prevent" /\ driver'.size = size
  BY <1>1, <1>2 DEF DriverStates
<1>7. ~Hooked' /\ ~Mounted(guest')
  BY <1>1, <1>3 DEF Hooked
<1>8. Types'
  BY <1>1, <1>5, <1>6 DEF Types, CoreTypes
<1>9. Staffed'
  BY <1>1, <1>5, <1>7 DEF Staffed, Mounted
<1>10. Driven' /\ HeardOnTheBus'
  BY <1>5, <1>6, <1>7 DEF Driven, HeardOnTheBus
<1>11. LeavesAsAsked
  BY <1>5 DEF LeavesAsAsked
<1>12. QED
  BY <1>8, <1>9, <1>10, <1>11

LEMMA UnmountKeeps ==
  ASSUME IInv, Unmount
  PROVE  IInv' /\ LeavesAsAsked
<1> USE DEF IInv
<1>1. /\ guest' = [guest EXCEPT !.vol = None] /\ driver' = [driver EXCEPT !.pc = "allow"]
      /\ guest \in GuestStates /\ driver \in DriverStates
      /\ UNCHANGED << setup, seat, core, asked, clicks, restarts >>
  BY DEF Unmount, Guest, Types
<1>2. guest' \in GuestStates /\ guest'.phase = guest.phase /\ (guest'.drive <=> guest.drive)
      /\ (guest'.posted <=> guest.posted) /\ guest'.vol = None
  BY <1>1 DEF GuestStates
<1>3. driver' \in DriverStates /\ driver'.pc = "allow" /\ driver'.size = driver.size
  BY <1>1 DEF DriverStates
<1>4. Hooked' <=> Hooked
  BY <1>1 DEF Hooked
<1>5. Types'
  BY <1>1, <1>2, <1>3 DEF Types, CoreTypes
<1>6. Staffed'
  BY <1>1, <1>2, <1>4 DEF Staffed, Mounted
<1>7. Driven' /\ HeardOnTheBus'
  BY <1>1, <1>2, <1>3, <1>4 DEF Driven, HeardOnTheBus, Answer, Latched, Mounted
<1>8. LeavesAsAsked
  BY <1>1 DEF LeavesAsAsked
<1>9. QED
  BY <1>5, <1>6, <1>7, <1>8

-----------------------------------------------------------------------------
(* The theorems                                                            *)

LEMMA InitInv == Init => IInv
<1> SUFFICES ASSUME Init
             PROVE  IInv
  OBVIOUS
<1>1. seat \in SeatStates
  BY DEF Init, SeatStates, SomeDisc, Sizes
<1>2. core \in CoreStates /\ asked \in AskedStates
  BY ConstFacts DEF Init, CoreStates, AskedStates, SomeDisc
<1>3. guest \in GuestStates /\ driver \in DriverStates
  BY DEF Init, GuestStates, DriverStates
<1>4. Types
  BY <1>1, <1>2, <1>3, ConstFacts DEF Init, Types, CoreTypes, SetupStates
<1>5. ~Mounted(guest) /\ ~guest.drive /\ ~guest.posted /\ driver.pc = "poll" /\ driver.size = 0 /\ ~core.ejectDue
  BY DEF Init, Mounted
<1>6. setup.waits => Hooked
  BY DEF Init, Hooked
<1>7. QED
  BY <1>4, <1>5, <1>6 DEF IInv, Staffed, Driven, HeardOnTheBus

LEMMA StepKeeps ==
  ASSUME IInv, [Next]_vars
  PROVE  IInv' /\ [HeardOnTheBus' /\ LeavesAsAsked]_vars
<1>1. CASE UNCHANGED vars
  <2>1. Types'
    BY <1>1 DEF vars, IInv, Types, CoreTypes
  <2>2. Staffed' /\ Driven' /\ HeardOnTheBus'
    BY <1>1 DEF vars, IInv, Staffed, Driven, HeardOnTheBus, Hooked, Mounted, Answer, Latched
  <2>3. QED
    BY <1>1, <2>1, <2>2 DEF IInv
<1>2. CASE Next
  <2>1. IInv' /\ LeavesAsAsked
    BY <1>2, MachineKeeps, SystemKeeps, GuestEjectKeeps, RestartKeeps, UserKeeps, DriverKeeps, SendSizeKeeps,
       UnmountKeeps DEF Next, DriverStep
  <2>2. QED
    BY <2>1 DEF IInv
<1>3. QED
  BY <1>1, <1>2

\* Every variable stays in its type; in particular the tries stay within their
\* limits, which are tested by increments in two places each
\* (quadra.cpp's and iifx.cpp's completeCdEject and mountCdVolume).
THEOREM CdTypeCorrect == Spec => []CdTypeOK
<1>1. Init => IInv
  BY InitInv
<1>2. IInv /\ [Next]_vars => IInv'
  BY StepKeeps
<1>3. IInv => CdTypeOK
  BY TypesImply DEF IInv
<1>4. QED
  BY <1>1, <1>2, <1>3, PTL DEF Spec

\* On the Classic's bus no read is answered from another disc than that of the
\* volume on line, or in blocks of another size than the driver's; and no disc
\* leaves unless the guest has put it away or the host asks for that very disc,
\* from under a volume only in a file operation or after UnmountTries refusals
\* (scsicd.hpp, completeCdEject).
THEOREM DiscsStayPut == Spec => DiscsStayTrue
<1>1. Init => IInv
  BY InitInv
<1>2. IInv /\ [Next]_vars => IInv' /\ [HeardOnTheBus' /\ LeavesAsAsked]_vars
  BY StepKeeps
<1>3. QED
  BY <1>1, <1>2, PTL DEF Spec, DiscsStayTrue
=============================================================================
