SPECIFICATION HartSpec
CONSTANTS
  MAX_PROCESSES = 3
  MaxStacks = 4
  PidMod = 6
  PCs = {0, 1}
  None = None
  Regs = {r0, r1}
  EntryRegs = r0
  Boot = boot
INVARIANTS
  HartTypeOK
  FrameOfCurrent
PROPERTY
  OwnProcessor
