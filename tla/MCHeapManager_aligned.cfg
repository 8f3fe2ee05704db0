SPECIFICATION AlignedSpec
CONSTANTS
  ALIGN = 2
  HeapSize = 12
  Requests <- MCRequests
  Alignments <- MCAlignments
  Null = Null
INVARIANT NoOverlap
