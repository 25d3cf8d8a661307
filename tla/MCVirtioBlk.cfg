SPECIFICATION Spec
CONSTANTS
  VIRTIO_RING_SIZE = 6
  IdxMod = 6
  ReqPages = {p1, p2}
  MaxBootOps = 2
  Overlaps = {TRUE, FALSE}
INVARIANTS
  TypeOK
  DmaTargetHeld
  NoDescriptorLost
  WedgeNeedsRace
PROPERTY
  BlockOpReturns
  TransferSpec
