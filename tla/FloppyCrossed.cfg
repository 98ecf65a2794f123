SPECIFICATION Spec
CONSTANTS
  Machines = {"Quadra"}
  Manners = {FALSE}
  Paths = {p1, p2}
  Saves = {s1}
  Nothing = Nothing
  SettleFrames = 1
  MaxOps = 3
INVARIANT
  EveryDiskGoesHome
CHECK_DEADLOCK FALSE
