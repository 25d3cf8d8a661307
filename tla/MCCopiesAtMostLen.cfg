SPECIFICATION Spec
CONSTANTS
  BLOCK_SIZE = 2
  NUM_DIRECT_ZONES = 2
  INDIRECT_PTRS_PER_BLOCK = 2
  Sizes = {31}
  Lens = {0, 2, 5, 40}
  MaxZeros = 2
INVARIANT CopiesAtMostLen
