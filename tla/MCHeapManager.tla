--------------------------- MODULE MCHeapManager ----------------------------
(***************************************************************************)
(* The allocator on a heap of a few alignment units.  Offsets and sizes    *)
(* keep the ratio of the code: sizes below, at and above a multiple of the *)
(* alignment unit, of the heap size and just beyond it.                    *)
(***************************************************************************)
EXTENDS HeapManager

\* One, two, three and four units, with an odd size for the rounding, the
\* invalid 0 and a size beyond the heap.
MCRequests == {0, 1, 2, 3, 5, 8, HeapSize, HeapSize + 1}

\* The unit, four units, and a value that is not a power of two.
MCAlignments == {2, 3, 8}
=============================================================================
