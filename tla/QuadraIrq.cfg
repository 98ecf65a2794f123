SPECIFICATION Spec
CONSTANTS
  Ring = 6
  SlicesPerFrame = 3
  StepsPerSlice = 6
  Song = 7
  ResetsAnytime = FALSE
INVARIANTS IrqTypeOK NothingForgotten
PROPERTY InterruptsAreServed
