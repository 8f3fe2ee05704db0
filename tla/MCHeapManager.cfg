SPECIFICATION Spec
CONSTANTS
  ALIGN = 2
  HeapSize = 12
  Requests <- MCRequests
  Alignments <- MCAlignments
  Null = Null
INVARIANTS NoOverlap NothingLost
PROPERTY ImplementsHeap
