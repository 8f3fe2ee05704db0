---------------------------- MODULE HeapManager -----------------------------
(***************************************************************************)
(* memory_manager (src/host/mem/shmem_mgr.cpp): the best-fit allocator of  *)
(* the fixed symmetric heap.  Every operation holds the spin lock from its *)
(* first to its last access of the trees, so an operation is one step.     *)
(* Spec is the malloc and free interface; AlignedSpec adds                 *)
(* aligned_allocate.                                                       *)
(***************************************************************************)
EXTENDS RangeTrees

CONSTANTS HeapSize,     \* size_, equal to g_state.heap_size
          Requests,     \* the sizes callers ask for
          Alignments,   \* the alignments callers ask for
          Null          \* nullptr

ASSUME HeapManagerAssumption ==
  /\ HeapSize \in Nat \ {0}
  /\ Requests \subseteq Nat
  /\ Alignments \subseteq Nat
  /\ Null \notin Int

VARIABLES addressIdle,   \* address_idle_tree_
          sizeIdle,      \* size_idle_tree_
          addressUsed,   \* address_used_tree_
          reply          \* the last call, its argument and what it returned

trees == <<addressIdle, sizeIdle, addressUsed>>
vars == <<addressIdle, sizeIdle, addressUsed, reply>>

Returns(call, arg, value) == reply' = [call |-> call, arg |-> arg, value |-> value]

-----------------------------------------------------------------------------
\* The constructor: one idle range, the whole heap.
Init ==
  /\ addressIdle = {Range(0, HeapSize)}
  /\ sizeIdle = {Range(0, HeapSize)}
  /\ addressUsed = {}
  /\ reply = [call |-> "init", arg |-> 0, value |-> 0]

\* allocate finds a range: the best fit leaves both idle trees, its head is
\* used and its tail goes back to them.
Allocate(n) ==
  /\ n \in 1..HeapSize
  /\ \E target \in LowerBound(sizeIdle, AlignUp(n)) :
       /\ Find(addressIdle, target.offset) # {}
       /\ sizeIdle' = (sizeIdle \ {target}) \cup Leftover(target, AlignUp(n))
       /\ addressIdle' = Emplace(addressIdle \ Find(addressIdle, target.offset),
                                 Leftover(target, AlignUp(n)))
       /\ addressUsed' = Emplace(addressUsed, {Range(target.offset, AlignUp(n))})
       /\ Returns("malloc", n, target.offset)

\* Mutant: lower_bound is taken for upper_bound, an exact fit is not seen.
AllocateFailsOnExactFit(n) ==
  /\ \/ n \notin 1..HeapSize
     \/ Fits(sizeIdle, AlignUp(n) + 1) = {}
  /\ Returns("malloc", n, Null)
  /\ UNCHANGED trees

\* allocate returns nullptr: a size of 0 or above the heap size, no range long
\* enough, or a range of the size tree that the address tree does not know.
AllocateFails(n) ==
  /\ \/ n \notin 1..HeapSize
     \/ Fits(sizeIdle, AlignUp(n)) = {}
     \/ \E target \in LowerBound(sizeIdle, AlignUp(n)) :
           Find(addressIdle, target.offset) = {}
  /\ Returns("malloc", n, Null)
  /\ UNCHANGED trees

\* release of the block at offset o, merged with its idle neighbours.
Release(o) ==
  /\ \E b \in Find(addressUsed, o) :
       /\ addressUsed' = addressUsed \ {b}
       /\ addressIdle' = Emplace(addressIdle \ Neighbours(addressIdle, b),
                                 {Merged(addressIdle, b)})
       /\ sizeIdle' = (sizeIdle \ Neighbours(addressIdle, b))
                        \cup {Merged(addressIdle, b)}
  /\ Returns("free", o, 0)

\* release of an address outside the heap, or inside it and not allocated.
ReleaseFails(o) ==
  /\ Find(addressUsed, o) = {}
  /\ Returns("free", o, -1)
  /\ UNCHANGED trees

Next ==
  \/ \E n \in Requests : Allocate(n) \/ AllocateFails(n)
  \/ \E o \in 0..HeapSize : Release(o) \/ ReleaseFails(o)

Spec == Init /\ [][Next]_vars

-----------------------------------------------------------------------------
\* alignment_matches: the bytes skipped at the head of r to reach a multiple of
\* the alignment (a power of two, or the call fails before it looks).
HeadSkip(r, alignment) ==
  ((r.offset + alignment - 1) \div alignment) * alignment - r.offset

PowerOfTwo(k) == \E i \in 0..k : k = 2^i

\* The ranges the scan of aligned_allocate may stop at, and the first of them.
AlignedFits(alignment, n) ==
  {r \in Fits(sizeIdle, n) : r.size >= n + HeadSkip(r, alignment)}

FirstAlignedFit(alignment, n) ==
  {r \in AlignedFits(alignment, n) :
     \A q \in AlignedFits(alignment, n) : SizeFirst(r, q)}

\* aligned_allocate: the range leaves the size tree and its two ends go back to
\* both trees.  Its own entry stays in the address tree: nothing erases it, and
\* the emplace of its head finds the key taken.
AlignedAllocate(alignment, n) ==
  /\ n \in 1..HeapSize
  /\ PowerOfTwo(alignment)
  /\ \E target \in FirstAlignedFit(alignment, AlignUp(n)) :
       LET skip  == HeadSkip(target, alignment)
           ends  == (IF skip > 0 THEN {Range(target.offset, skip)} ELSE {})
                       \cup Leftover(target, skip + AlignUp(n))
       IN /\ sizeIdle' = (sizeIdle \ {target}) \cup ends
          /\ addressIdle' = Emplace(addressIdle, ends)
          /\ addressUsed' = Emplace(addressUsed,
                                    {Range(target.offset + skip, AlignUp(n))})
          /\ Returns("malloc", n, target.offset + skip)

AlignedAllocateFails(alignment, n) ==
  /\ \/ n \notin 1..HeapSize
     \/ ~PowerOfTwo(alignment)
     \/ AlignedFits(alignment, AlignUp(n)) = {}
  /\ Returns("malloc", n, Null)
  /\ UNCHANGED trees

AlignedNext ==
  \/ Next
  \/ \E a \in Alignments, n \in Requests :
       AlignedAllocate(a, n) \/ AlignedAllocateFails(a, n)

AlignedSpec == Init /\ [][AlignedNext]_vars

-----------------------------------------------------------------------------
Blocks == [offset : 0..HeapSize, size : 1..HeapSize]

\* The trees hold non-empty ranges that start in the heap, and the reply is one
\* of the values the four entry points return.
TypeOK ==
  /\ addressIdle \subseteq Blocks
  /\ sizeIdle \subseteq Blocks
  /\ addressUsed \subseteq Blocks
  /\ reply \in [call : {"init", "malloc", "free"}, arg : Nat, value : Int \cup {Null}]

\* No two callers own a byte in common, and no block runs past the heap: what
\* aclshmem_malloc and aclshmem_align promise, and what a coalescing or a
\* splitting step of the allocator would break for a later caller.
NoOverlap ==
  /\ \A b \in addressUsed : End(b) <= HeapSize
  /\ \A b, c \in addressUsed : b # c => Disjoint(b, c)

\* The address tree and the size tree describe the same idle ranges: the code
\* reports "in size tree, not in address tree" where allocate finds otherwise.
TreesAgree == addressIdle = sizeIdle

Bytes(r) == r.offset..(End(r) - 1)

\* After any sequence of calls no byte of the heap is lost, none is both idle
\* and used, and no two idle ranges touch: the release of every block gives
\* back one range as long as the heap.
NothingLost ==
  /\ UNION {Bytes(r) : r \in addressIdle \cup addressUsed} = 0..(HeapSize - 1)
  /\ \A r \in addressIdle, b \in addressUsed : Disjoint(r, b)
  /\ \A r, q \in addressIdle : End(r) # q.offset

\* The allocator implements the heap it promises: in particular it returns NULL
\* only for a request that no free run of the heap could hold.
Abstract == INSTANCE Heap WITH live <- addressUsed

ImplementsHeap == Abstract!Spec
=============================================================================
