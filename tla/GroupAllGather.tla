--------------------------- MODULE GroupAllGather ---------------------------
(***************************************************************************)
(* GroupAllGather of the group engine (store_net_group_engine.cpp): every  *)
(* rank APPENDs its input, marked with its rank, to the key of the gather, *)
(* the first to do so removes the keys of the gather before the previous   *)
(* one, the last sets the key the others wait for; then each rank GETs the *)
(* whole value and sorts it by rank.  As in GroupBarrier every store call  *)
(* is one step, any call may find the link broken, and both GETs may time  *)
(* out.                                                                    *)
(***************************************************************************)
EXTENDS Integers, Sequences, FiniteSets, GatherPromise

CONSTANTS REMOVE_INTERVAL,   \* how many gathers the keys outlive theirs
          MaxGathers         \* bound on the gathers of a rank

GatherAssumption ==
  /\ rankSize \in Nat \ {0}
  /\ REMOVE_INTERVAL \in Nat /\ REMOVE_INTERVAL >= 2
  /\ MaxGathers \in Nat

ASSUME GatherAssumption

Ranks == 0..rankSize - 1
Gathers == 1..MaxGathers

\* A unit of the value of a key: a rank and its data, which is another in every
\* gather.
Unit(r, n) == [rank |-> r, data |-> <<r, n>>]
Units == {Unit(r, n) : r \in Ranks, n \in Gathers}

VARIABLES waitKey,   \* the keys <sn>_GW in the store
          cut        \* the ranks whose link to the store is broken

store == <<values, waitKey>>
vars == <<store, allGatherGroupSn, nextCall, recvBuf, gathered, failed, cut>>

Init ==
  /\ values = [n \in Gathers |-> <<>>]
  /\ waitKey = {}
  /\ allGatherGroupSn = [r \in Ranks |-> 0]
  /\ nextCall = [r \in Ranks |-> "idle"]
  /\ recvBuf = [r \in Ranks |-> <<>>]
  /\ gathered = [r \in Ranks |-> 0]
  /\ failed = {}
  /\ cut = {}

Goto(r, next) == nextCall' = [nextCall EXCEPT ![r] = next]

-----------------------------------------------------------------------------
Call(r) ==
  /\ nextCall[r] = "idle" /\ r \notin cut
  /\ allGatherGroupSn[r] < MaxGathers
  /\ allGatherGroupSn' = [allGatherGroupSn EXCEPT ![r] = @ + 1]
  /\ Goto(r, "append")
  /\ UNCHANGED <<store, recvBuf, gathered, failed, cut>>

\* The last rank sets the status, and every rank waits for it.
SetOrGet(len) == IF len = rankSize THEN "set" ELSE "get"

AppendInput(r) ==
  /\ nextCall[r] = "append"
  /\ values' = [values EXCEPT ![allGatherGroupSn[r]] = Append(@, Unit(r, allGatherGroupSn[r]))]
  /\ LET val == Len(values'[allGatherGroupSn[r]])
     IN  Goto(r, IF val = 1 /\ allGatherGroupSn[r] > REMOVE_INTERVAL THEN "removeAdd"
                 ELSE SetOrGet(val))
  /\ UNCHANGED <<waitKey, allGatherGroupSn, recvBuf, gathered, failed, cut>>

\* Mutant: the data of the gather just before this one are removed.
RemoveAddKeyTooSoon(r) ==
  /\ nextCall[r] = "removeAdd"
  /\ values' = [values EXCEPT ![allGatherGroupSn[r] - 1] = <<>>]
  /\ Goto(r, "removeWait")
  /\ UNCHANGED <<waitKey, allGatherGroupSn, recvBuf, gathered, failed, cut>>

RemoveAddKey(r) ==
  /\ nextCall[r] = "removeAdd"
  /\ values' = [values EXCEPT ![allGatherGroupSn[r] - REMOVE_INTERVAL] = <<>>]
  /\ Goto(r, "removeWait")
  /\ UNCHANGED <<waitKey, allGatherGroupSn, recvBuf, gathered, failed, cut>>

RemoveWaitKey(r) ==
  /\ nextCall[r] = "removeWait"
  /\ waitKey' = waitKey \ {allGatherGroupSn[r] - REMOVE_INTERVAL}
  /\ Goto(r, SetOrGet(1))
  /\ UNCHANGED <<values, allGatherGroupSn, recvBuf, gathered, failed, cut>>

Set(r) ==
  /\ nextCall[r] = "set"
  /\ waitKey' = waitKey \cup {allGatherGroupSn[r]}
  /\ Goto(r, "get")
  /\ UNCHANGED <<values, allGatherGroupSn, recvBuf, gathered, failed, cut>>

Get(r) ==
  /\ nextCall[r] = "get"
  /\ allGatherGroupSn[r] \in waitKey
  /\ Goto(r, "getData")
  /\ UNCHANGED <<store, allGatherGroupSn, recvBuf, gathered, failed, cut>>

\* Mutant: the data stay in the order in which the ranks came.
SortGatherRecvUnsorted(output) == [i \in DOMAIN output |-> output[i].data]

\* The place of unit i when all are sorted by rank, and by where they are among
\* units of the same rank.
Place(output, i) ==
  Cardinality({j \in DOMAIN output :
                 \/ output[j].rank < output[i].rank
                 \/ output[j].rank = output[i].rank /\ j <= i})

\* The data of the units in the order of their ranks.
SortGatherRecv(output) ==
  [k \in DOMAIN output |->
     output[CHOOSE i \in DOMAIN output : Place(output, i) = k].data]

\* The whole value; any other length than that of all inputs is an error.
GetData(r) ==
  /\ nextCall[r] = "getData"
  /\ values[allGatherGroupSn[r]] # <<>>
  /\ IF Len(values[allGatherGroupSn[r]]) = rankSize
     THEN /\ recvBuf' = [recvBuf EXCEPT ![r] = SortGatherRecv(values[allGatherGroupSn[r]])]
          /\ gathered' = [gathered EXCEPT ![r] = allGatherGroupSn[r]]
          /\ UNCHANGED failed
     ELSE failed' = failed \cup {r} /\ UNCHANGED <<recvBuf, gathered>>
  /\ Goto(r, "idle")
  /\ UNCHANGED <<store, allGatherGroupSn, cut>>

\* A GET times out, which it does not while its key exists.
TimeOut(r) ==
  /\ \/ nextCall[r] = "get" /\ allGatherGroupSn[r] \notin waitKey
     \/ nextCall[r] = "getData" /\ values[allGatherGroupSn[r]] = <<>>
  /\ failed' = failed \cup {r}
  /\ Goto(r, "idle")
  /\ UNCHANGED <<store, allGatherGroupSn, recvBuf, gathered, cut>>

\* A store call fails: the link is broken.  What the call did to the store
\* before its reply was lost is the state after its step.
Cut(r) ==
  /\ nextCall[r] # "idle"
  /\ cut' = cut \cup {r}
  /\ failed' = failed \cup {r}
  /\ Goto(r, "idle")
  /\ UNCHANGED <<store, allGatherGroupSn, recvBuf, gathered>>

Step(r) ==
  AppendInput(r) \/ RemoveAddKey(r) \/ RemoveWaitKey(r) \/ Set(r) \/ Get(r) \/ GetData(r)

Next == \E r \in Ranks : Call(r) \/ Step(r) \/ TimeOut(r) \/ Cut(r)

Spec == Init /\ [][Next]_vars

-----------------------------------------------------------------------------
\* The variables hold what their types say; a rank past its first call has a
\* number, and only a rank far enough removes keys.
TypeOK ==
  /\ values \in [Gathers -> Seq(Units)]
  /\ waitKey \subseteq Gathers
  /\ allGatherGroupSn \in [Ranks -> 0..MaxGathers]
  /\ nextCall \in [Ranks -> {"idle", "append", "removeAdd", "removeWait", "set", "get", "getData"}]
  /\ DOMAIN recvBuf = Ranks
  /\ gathered \in [Ranks -> 0..MaxGathers]
  /\ failed \subseteq Ranks /\ cut \subseteq failed
  /\ \A r \in Ranks :
       /\ nextCall[r] # "idle" => allGatherGroupSn[r] # 0
       /\ nextCall[r] \in {"removeAdd", "removeWait"} => allGatherGroupSn[r] > REMOVE_INTERVAL
=============================================================================
