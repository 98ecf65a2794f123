SPECIFICATION FairDmaSpec
CONSTANTS
  DiskId = 3
  BlockLen = 2
  WrapCount = 2
  Images <- DmaImages
  Lbas = {0}
  BlockCounts = {0}
  BusBytes = {}
  IcrWrites <- DmaIcr
  MrWrites <- DmaMr
  TcrWrites = {0, 1}
  MixedHandshake = FALSE
  AddrSpace = 8
  BadAddrs = {4}
  Addresses = {2, 7}
  Counts = {3}
  FifoBytes = {8}
  Reloads = {2}
  ControlWrites <- DmaControl
  MaxAccesses = 9
  Opcodes = {8, 10}
INVARIANT DmaTypeOK
PROPERTIES BytesAreKept OssIsCurrent StalledTransferEnds
