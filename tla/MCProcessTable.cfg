SPECIFICATION Spec
CONSTANTS
  MAX_PROCESSES = 3
  MaxStacks = 6
  PidMod = 8
  PCs = {entry, resume}
  None = None
INVARIANTS
  TypeOK
  PidsUnique
  BypassBounded
PROPERTY
  EventuallyRuns
