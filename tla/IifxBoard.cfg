SPECIFICATION Spec
CONSTANTS
  Polled = {Via1, Scsi}
  Wired = {SccIop}
  Clock = Clock60Hz
  Quiet = {Scsi}
  Via1 = Via1
  Scsi = Scsi
  SccIop = SccIop
  Clock60Hz = Clock60Hz
  Priorities = {0, 1, 3}
  Batch = 4
  Cycles = {1, 3}
INVARIANTS BoardTypeOK IplHonest BankBounded FrameIsExact
