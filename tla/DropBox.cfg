SPECIFICATION Spec
CONSTANTS
  f1 = f1
  f2 = f2
  Plain = Plain
  Saved = Saved
  Long = Long
  Cut = Cut
  Slashed = Slashed
  Underscored = Underscored
  Busy = Busy
  Folders = {f1, f2}
  Drops = {Plain, Long, Busy}
  Saves = {Saved, Slashed}
  Given = {Long}
  Copies = {Cut, Underscored}
  Content <- MCContent
  MacNames <- MCMacNames
  HostName <- MCHostName
  Setups <- MCSetups
  Skipped = {Busy}
  HostNoise = {}
  GuestNoise = {}
  None = None
  MaxTries = 2
  MaxAttempts = 2
  MaxTasks = 1
  Remounts = FALSE
  Settles = TRUE
  Patient = TRUE
  BuildMayFail = FALSE
INVARIANTS
  DropBoxTypeOK
  NeverCrossed
  NothingIsLost
PROPERTY
  SwapsComplete
