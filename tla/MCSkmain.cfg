SPECIFICATION KernelSpec
CONSTANTS
  NumSlots = 2
  MaxFaults = 2
  None = None
  PAGE_SIZE = 4
  UART_BASE = 0
  MMIO_VIRTIO_START = 4
  Origin = 12
  TextLen = 5
  RodataLen = 3
  DataLen = 2
  BssLen = 7
  StackLen = 6
  MemoryEnd = 48
  MaxInterrupts = 2
  ELF_TEST_INODE = 1
INVARIANTS
  BootTypeOK
  LiveIsSetUp
  AllOrNothing
  KernelMapped
  SupervisorReady
  OneWindow
  PagesReturned
PROPERTIES
  TrapsVectored
  KernelComesUp
