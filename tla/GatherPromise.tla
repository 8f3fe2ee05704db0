---------------------------- MODULE GatherPromise ---------------------------
(***************************************************************************)
(* What GroupAllGather of the group engine promises (GroupAllGather): the  *)
(* data in the buffer of a caller, and the value in the store that it      *)
(* takes them from.                                                        *)
(***************************************************************************)
EXTENDS Integers, Sequences

CONSTANT rankSize

VARIABLES values,            \* the values of the keys <sn>_GA in the store, empty for no key
          allGatherGroupSn,  \* of each rank: the number of its last gather
          nextCall,          \* the store call a rank is about to make
          recvBuf,           \* what the last gather that returned SM_OK has put there
          gathered,          \* the number of that gather
          failed             \* the ranks one of whose gathers has failed

\* A gather that returns SM_OK has put every rank's input of the very same gather
\* into recvBuf, in the order of the ranks, whatever failed or was removed.
EveryonesData ==
  \A r \in 0..rankSize - 1 : gathered[r] # 0 =>
    recvBuf[r] = [i \in 1..rankSize |-> <<i - 1, gathered[r]>>]

\* As long as no gather has failed, the value stays until the slowest rank has
\* read it: the first rank of a later gather does not remove it too early.
DataStay ==
  failed = {} => \A r \in 0..rankSize - 1 :
    nextCall[r] = "getData" => Len(values[allGatherGroupSn[r]]) = rankSize
=============================================================================
