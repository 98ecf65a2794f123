SPECIFICATION FairSpec
CONSTANTS
  Machines = {"Classic", "Quadra", "Iifx"}
  Manners = {TRUE, FALSE}
  Paths = {p1, p2}
  Saves = {s1}
  Nothing = Nothing
  SettleFrames = 1
  MaxOps = 3
INVARIANTS
  FloppyTypeOK
  DisksComeHome
PROPERTY
  DriveIsServed
CHECK_DEADLOCK FALSE
