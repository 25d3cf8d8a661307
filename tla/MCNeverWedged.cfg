SPECIFICATION Spec
CONSTANTS
  VIRTIO_RING_SIZE = 8
  IdxMod = 8
  ReqPages = {p1, p2}
  MaxBootOps = 2
  Overlaps = {FALSE}
INVARIANT NeverWedged
