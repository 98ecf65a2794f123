SPECIFICATION Spec
CONSTANTS
  Discs = {"atlas", "games", "iso"}
  HfsDiscs = {"atlas", "games"}
  InstallTries = 2
  MountTries = 3
  UnmountTries = 3
  MaskedFor = 2
  MaxClicks = 5
  MaxRestarts = 1
INVARIANT CdTypeOK
PROPERTIES DiscsStayTrue DiscsAreServed
CHECK_DEADLOCK FALSE
