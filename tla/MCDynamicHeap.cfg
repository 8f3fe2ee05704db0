SPECIFICATION Spec
CONSTANTS
  ALIGN = 2
  HeapSize = 4
  Requests = {0, 1, 4, 6}
  Null = Null
  Callers = {c1, c2, c3, c4}
  MIN_EXPANSION_SIZE = 6
  MAX_BLOCK_SIZE = 12
  BLOCK_ALIGN = 4
  MaxBlocks = 2
INVARIANT NoOverlap
