SPECIFICATION Spec
CONSTANTS
  Fifo = 2
  MaxData = 3
  CdbLength = 2
  MaxWork = 4
INVARIANTS ScsiTypeOK NothingStranded ReadsWhole
PROPERTY RequestsEnd
CHECK_DEADLOCK FALSE
