SPECIFICATION Spec
CONSTANTS
  Bytes = {"CR", "ESC", "[", "A"}
  FifoSize = 2
  TxSize = 2
  KernelLine <- MCKernelLine
  MaxTyped = 4
  MaxInflight = 1
INVARIANTS
  TypeOK
  EchoExact
  ThrHasRoom
  LineWhole
PROPERTY EverythingRead
