SPECIFICATION AdbSpec
CONSTANTS
  KeyQueue = 4
  MaxDelta = 1
  WakeLimit = 3
  NumKeys = 1
  MaxTyped = 4
  Motions = {2}
  MaxMotion = 2
  MaxAsked = 1
INVARIANTS AdbTypeOK InputIsConserved
PROPERTY InputArrives
