-------------------------------- MODULE Heap --------------------------------
(***************************************************************************)
(* What the symmetric heap promises its caller: a malloc returns a block   *)
(* of the aligned size that lies in the heap and shares no byte with a     *)
(* live block, it returns NULL only when no free run of the heap is long   *)
(* enough, and a free gives back exactly the block that starts at the      *)
(* address.  Nothing is said of where a block is put.                      *)
(***************************************************************************)
EXTENDS RangeTrees

CONSTANTS HeapSize, Requests, Null

VARIABLES live,    \* the blocks handed out and not yet freed
          reply    \* the last call, its argument and what it returned

vars == <<live, reply>>

Returns(call, arg, value) == reply' = [call |-> call, arg |-> arg, value |-> value]

\* The run [o, o + n) lies in the heap and touches no live block.
FreeRun(o, n) ==
  /\ o + n <= HeapSize
  /\ \A b \in live : Disjoint(Range(o, n), b)

Satisfiable(n) ==
  n \in 1..HeapSize /\ \E o \in 0..HeapSize : FreeRun(o, AlignUp(n))

Init == live = {} /\ reply = [call |-> "init", arg |-> 0, value |-> 0]

Malloc(n) ==
  /\ n \in 1..HeapSize
  /\ \E o \in 0..HeapSize :
       /\ FreeRun(o, AlignUp(n))
       /\ live' = live \cup {Range(o, AlignUp(n))}
       /\ Returns("malloc", n, o)

MallocFails(n) ==
  /\ ~Satisfiable(n)
  /\ Returns("malloc", n, Null)
  /\ UNCHANGED live

Free(o) ==
  /\ \E b \in live : b.offset = o /\ live' = live \ {b}
  /\ Returns("free", o, 0)

FreeFails(o) ==
  /\ \A b \in live : b.offset # o
  /\ Returns("free", o, -1)
  /\ UNCHANGED live

Next ==
  \/ \E n \in Requests : Malloc(n) \/ MallocFails(n)
  \/ \E o \in 0..HeapSize : Free(o) \/ FreeFails(o)

Spec == Init /\ [][Next]_vars
=============================================================================
