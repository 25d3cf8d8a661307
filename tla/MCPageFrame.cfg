SPECIFICATION Spec
CONSTANTS
  PAGE_SIZE = 4
  HeapStart = 6
  MemoryEnd = 36
  MaxPages = 3
INVARIANTS
  TypeOK
  TableMatchesRuns
PROPERTY
  HeapSpec
