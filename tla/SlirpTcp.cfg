SPECIFICATION TcpFairSpec
CONSTANTS
  SeqSpace = 64
  IsnStep = 8
  Window = 1
  MaxSegment = 2
  RingDepth = 3
  GuestIsn = 62
  MaxFlows = 2
  Loads <- MCLoads
INVARIANTS TcpTypeOK StreamsAreSound
CHECK_DEADLOCK FALSE
PROPERTIES CloseCompletes
