SPECIFICATION Spec
CONSTANTS
  DiskId = 3
  BlockLen = 2
  WrapCount = 1
  Images <- ClippedImages
  Lbas = {0}
  BlockCounts = {0, 1, 2}
  BusBytes = {10, 40}
  IcrWrites <- HandshakeIcr
  MrWrites <- AllMr
  TcrWrites = {0}
  MixedHandshake = FALSE
INVARIANTS TypeOK NoWedge
PROPERTIES HandshakeIsSound BusSpec
