---------------------------- MODULE DynamicHeap -----------------------------
(***************************************************************************)
(* dynamic_memory_manager (src/host/mem/shmem_dynamic_mm.cpp), the heap    *)
(* behind aclshmem_malloc and aclshmem_free unless expansion is switched   *)
(* off: a pool managed like the fixed heap, and behind it blocks of        *)
(* external memory, each with a mark up to which it is used.  An           *)
(* allocation that fits nowhere asks the driver for another block, with    *)
(* the spin lock released while the driver works.  Every caller is a       *)
(* thread that holds one allocation at a time.                             *)
(***************************************************************************)
EXTENDS RangeTrees, Sequences

CONSTANTS HeapSize,            \* initial_size_
          Requests,            \* the sizes callers ask for
          Null,                \* nullptr
          Callers,
          MIN_EXPANSION_SIZE,
          MAX_BLOCK_SIZE,      \* a multiple of BLOCK_ALIGN
          BLOCK_ALIGN,         \* ALIGNMENT of expand_pool
          MaxBlocks            \* how many blocks the driver can give

DynamicHeapAssumption ==
  /\ MIN_EXPANSION_SIZE \in Nat /\ MAX_BLOCK_SIZE \in Nat
  /\ BLOCK_ALIGN \in Nat \ {0}
  /\ \E k \in Nat : MAX_BLOCK_SIZE = k * BLOCK_ALIGN

VARIABLES addressIdle, sizeIdle, addressUsed, reply,   \* the pool, as in HeapManager
          blocks,      \* the external memory_blocks_, in the order they came
          allocInfo,   \* address_to_block_map_ and external_alloc_info_map_
          expanding,   \* the aligned size a caller inside expand_pool needs, 0 outside
          held         \* the bytes each caller was given and has not freed

pool == <<addressIdle, sizeIdle, addressUsed>>
vars == <<pool, reply, blocks, allocInfo, expanding, held>>

\* The pool's trees are handled as in shmem_mgr.cpp.  Its addresses begin at 0.
Pool == INSTANCE HeapManager WITH Alignments <- {}

Sets == INSTANCE FiniteSetsExt

Nothing == Range(0, 0)

Init ==
  /\ Pool!Init
  /\ blocks = <<>>
  /\ allocInfo = [address \in {} |-> 0]
  /\ expanding = [c \in Callers |-> 0]
  /\ held = [c \in Callers |-> Nothing]

\* aclrtMalloc: a block shares no address with the pool or another block.
Base(i) == HeapSize + (i - 1) * MAX_BLOCK_SIZE

Hold(c, r) == held' = [held EXCEPT ![c] = r]

Idle(c) == held[c] = Nothing /\ expanding[c] = 0

-----------------------------------------------------------------------------
InPool(n) ==
  \E target \in LowerBound(sizeIdle, AlignUp(n)) : Find(addressIdle, target.offset) # {}

AllocateInPool(c, n) ==
  /\ Idle(c)
  /\ Pool!Allocate(n)
  /\ Hold(c, Range(reply'.value, AlignUp(n)))
  /\ UNCHANGED <<blocks, allocInfo, expanding>>

Suitable(bs, n) == {i \in DOMAIN bs : bs[i].size - bs[i].used >= n}

\* find_suitable_block, which takes the first, and allocate_from_block.  An
\* entry of the maps for the same address is overwritten.
AllocateFromBlock(c, bs, n) ==
  LET i       == Sets!Min(Suitable(bs, n))
      address == Base(i) + bs[i].used
  IN  /\ Suitable(bs, n) # {}
      /\ blocks' = [bs EXCEPT ![i].used = @ + n]
      /\ allocInfo' = [a \in DOMAIN allocInfo \cup {address} |->
                        IF a = address THEN [block |-> i, total |-> n] ELSE allocInfo[a]]
      /\ Hold(c, Range(address, n))
      /\ Pool!Returns("malloc", n, address)

AllocateInBlock(c, n) ==
  /\ Idle(c) /\ n > 0 /\ ~InPool(n)
  /\ AllocateFromBlock(c, blocks, AlignUp(n))
  /\ UNCHANGED <<pool, expanding>>

RejectZero(c) ==
  /\ Idle(c) /\ 0 \in Requests
  /\ Pool!Returns("malloc", 0, Null)
  /\ UNCHANGED <<pool, blocks, allocInfo, expanding, held>>

\* Nothing fits: expand_pool releases the lock.
Expand(c, n) ==
  /\ Idle(c) /\ n > 0 /\ ~InPool(n) /\ Suitable(blocks, AlignUp(n)) = {}
  /\ expanding' = [expanding EXCEPT ![c] = AlignUp(n)]
  /\ UNCHANGED <<pool, reply, blocks, allocInfo, held>>

ExpansionSize(n) ==
  LET wanted == Sets!Min({(3 * Sets!Max({n, MIN_EXPANSION_SIZE})) \div 2, MAX_BLOCK_SIZE})
  IN  ((wanted + BLOCK_ALIGN - 1) \div BLOCK_ALIGN) * BLOCK_ALIGN

\* The driver gave a block.  The lock is taken again, and under it the block is
\* added and a block is looked for: only a block capped to MAX_BLOCK_SIZE can
\* be too small.
Expanded(c) ==
  /\ expanding[c] # 0
  /\ Len(blocks) < MaxBlocks
  /\ LET n    == expanding[c]
         more == Append(blocks, [size |-> ExpansionSize(n), used |-> 0])
     IN  \/ AllocateFromBlock(c, more, n)
         \/ /\ Suitable(more, n) = {}
            /\ blocks' = more
            /\ Pool!Returns("malloc", n, Null)
            /\ UNCHANGED <<allocInfo, held>>
  /\ expanding' = [expanding EXCEPT ![c] = 0]
  /\ UNCHANGED pool

\* The driver has no memory: what was freed meanwhile is not looked at.
ExpandFails(c) ==
  /\ expanding[c] # 0
  /\ Pool!Returns("malloc", expanding[c], Null)
  /\ expanding' = [expanding EXCEPT ![c] = 0]
  /\ UNCHANGED <<pool, blocks, allocInfo, held>>

-----------------------------------------------------------------------------
\* release of an external address: its size is taken off the mark of its block.
ReleaseInBlock(c) ==
  LET address == held[c].offset
  IN  /\ held[c] # Nothing
      /\ address \in DOMAIN allocInfo
      /\ LET info == allocInfo[address]
         IN  blocks' = [blocks EXCEPT ![info.block].used = Sets!Max({@ - info.total, 0})]
      /\ allocInfo' = [a \in DOMAIN allocInfo \ {address} |-> allocInfo[a]]
      /\ Hold(c, Nothing)
      /\ Pool!Returns("free", address, 0)
      /\ UNCHANGED <<pool, expanding>>

\* release of any other address: the pool's, or one that is not known.
ReleaseInPool(c) ==
  LET address == held[c].offset
  IN  /\ held[c] # Nothing
      /\ address \notin DOMAIN allocInfo
      /\ Pool!Release(address) \/ Pool!ReleaseFails(address)
      /\ Hold(c, Nothing)
      /\ UNCHANGED <<blocks, allocInfo, expanding>>

Next == \E c \in Callers :
  \/ \E n \in Requests : AllocateInPool(c, n) \/ AllocateInBlock(c, n) \/ Expand(c, n)
  \/ RejectZero(c) \/ Expanded(c) \/ ExpandFails(c)
  \/ ReleaseInBlock(c) \/ ReleaseInPool(c)

Spec == Init /\ [][Next]_vars

-----------------------------------------------------------------------------
\* No two callers are given a byte in common, in whatever order they allocate
\* and free: what aclshmem_malloc promises.  The mark of a block goes down on
\* every free, also when it is not the last allocation that is freed.
NoOverlap == \A c, d \in Callers : c # d => Disjoint(held[c], held[d])
=============================================================================
