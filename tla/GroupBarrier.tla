---------------------------- MODULE GroupBarrier ----------------------------
(***************************************************************************)
(* GroupBarrier of the group engine (store_net_group_engine.cpp), which    *)
(* the ranks run on the keys of the configuration store: ADD 1 to the      *)
(* count of the barrier, the first rank to do so removes the keys of the   *)
(* barrier before the previous one, the last rank sets the key the others  *)
(* wait for.  Every store call is one step: the server serves a request    *)
(* under its lock (StoreServer).  Any call may find the link broken, which *)
(* stays broken, and the GET may time out; the barrier then fails with its *)
(* number already used up.                                                 *)
(***************************************************************************)
EXTENDS Integers, FiniteSets

CONSTANTS Ranks,
          REMOVE_INTERVAL,   \* how many barriers the keys outlive theirs
          MaxBarriers        \* bound on the barriers of a rank

ASSUME GroupAssumption ==
  /\ IsFiniteSet(Ranks)
  /\ REMOVE_INTERVAL \in Nat /\ REMOVE_INTERVAL >= 2
  /\ MaxBarriers \in Nat

VARIABLES addKey,    \* the counts <sn>_BA in the store, 0 for no key
          waitKey,   \* the keys <sn>_BW in the store
          sn,        \* barrierGroupSn_ of each rank
          pc,        \* the store call a rank is about to make
          passed,    \* the last barrier that returned SM_OK
          gaveUp,    \* the ranks one of whose barriers has failed
          cut        \* the ranks whose link to the store is broken

store == <<addKey, waitKey>>
vars == <<store, sn, pc, passed, gaveUp, cut>>

Barriers == 1..MaxBarriers
size == Cardinality(Ranks)

Init ==
  /\ addKey = [n \in Barriers |-> 0]
  /\ waitKey = {}
  /\ sn = [r \in Ranks |-> 0]
  /\ pc = [r \in Ranks |-> "idle"]
  /\ passed = [r \in Ranks |-> 0]
  /\ gaveUp = {}
  /\ cut = {}

Goto(r, next) == pc' = [pc EXCEPT ![r] = next]

-----------------------------------------------------------------------------
Call(r) ==
  /\ pc[r] = "idle" /\ r \notin cut
  /\ sn[r] < MaxBarriers
  /\ sn' = [sn EXCEPT ![r] = @ + 1]
  /\ Goto(r, "add")
  /\ UNCHANGED <<store, passed, gaveUp, cut>>

\* Mutant: the last rank waits for a count one above the number of ranks.
SetOrGetTooLate(count) == IF count = size + 1 THEN "set" ELSE "get"

\* The last rank sets the status, and every rank waits for it.  A rank that
\* has removed keys added the first 1.
SetOrGet(count) == IF count = size THEN "set" ELSE "get"

\* Mutant: the count is compared with the number of ranks but one.
AddOffByOne(r) ==
  /\ pc[r] = "add"
  /\ addKey' = [addKey EXCEPT ![sn[r]] = @ + 1]
  /\ LET val == addKey'[sn[r]]
     IN  Goto(r, IF val = 1 /\ sn[r] > REMOVE_INTERVAL THEN "removeAdd"
                 ELSE SetOrGet(val + 1))
  /\ UNCHANGED <<waitKey, sn, passed, gaveUp, cut>>

Add(r) ==
  /\ pc[r] = "add"
  /\ addKey' = [addKey EXCEPT ![sn[r]] = @ + 1]
  /\ LET val == addKey'[sn[r]]
     IN  Goto(r, IF val = 1 /\ sn[r] > REMOVE_INTERVAL THEN "removeAdd"
                 ELSE SetOrGet(val))
  /\ UNCHANGED <<waitKey, sn, passed, gaveUp, cut>>

RemoveAddKey(r) ==
  /\ pc[r] = "removeAdd"
  /\ addKey' = [addKey EXCEPT ![sn[r] - REMOVE_INTERVAL] = 0]
  /\ Goto(r, "removeWait")
  /\ UNCHANGED <<waitKey, sn, passed, gaveUp, cut>>

\* Mutant: the keys of the barrier just before this one are removed.
RemoveWaitKeyTooSoon(r) ==
  /\ pc[r] = "removeWait"
  /\ waitKey' = waitKey \ {sn[r] - 1}
  /\ Goto(r, SetOrGet(1))
  /\ UNCHANGED <<addKey, sn, passed, gaveUp, cut>>

\* Mutant: only the count is removed.
RemoveWaitKeyForgotten(r) ==
  /\ pc[r] = "removeWait"
  /\ Goto(r, SetOrGet(1))
  /\ UNCHANGED <<store, sn, passed, gaveUp, cut>>

RemoveWaitKey(r) ==
  /\ pc[r] = "removeWait"
  /\ waitKey' = waitKey \ {sn[r] - REMOVE_INTERVAL}
  /\ Goto(r, SetOrGet(1))
  /\ UNCHANGED <<addKey, sn, passed, gaveUp, cut>>

Set(r) ==
  /\ pc[r] = "set"
  /\ waitKey' = waitKey \cup {sn[r]}
  /\ Goto(r, "get")
  /\ UNCHANGED <<addKey, sn, passed, gaveUp, cut>>

Get(r) ==
  /\ pc[r] = "get"
  /\ sn[r] \in waitKey
  /\ passed' = [passed EXCEPT ![r] = sn[r]]
  /\ Goto(r, "idle")
  /\ UNCHANGED <<store, sn, gaveUp, cut>>

\* The GET times out, which it does not once its key is set.
TimeOut(r) ==
  /\ pc[r] = "get"
  /\ sn[r] \notin waitKey
  /\ gaveUp' = gaveUp \cup {r}
  /\ Goto(r, "idle")
  /\ UNCHANGED <<store, sn, passed, cut>>

\* A store call fails: the link is broken.  What the call did to the store
\* before its reply was lost is the state after its step.
Cut(r) ==
  /\ pc[r] # "idle"
  /\ cut' = cut \cup {r}
  /\ gaveUp' = gaveUp \cup {r}
  /\ Goto(r, "idle")
  /\ UNCHANGED <<store, sn, passed>>

Step(r) == Add(r) \/ RemoveAddKey(r) \/ RemoveWaitKey(r) \/ Set(r) \/ Get(r)

Next == \E r \in Ranks : Call(r) \/ Step(r) \/ TimeOut(r) \/ Cut(r)

Spec == Init /\ [][Next]_vars

\* A rank inside a barrier goes on: the store answers its calls.
FairSpec == Spec /\ \A r \in Ranks : WF_vars(Step(r))

-----------------------------------------------------------------------------
Calls == {"idle", "add", "removeAdd", "removeWait", "set", "get"}

\* The variables hold what their types say; a rank past its first call has a
\* number, and only a rank far enough removes keys.
TypeOK ==
  /\ addKey \in [Barriers -> Nat]
  /\ waitKey \subseteq Barriers
  /\ sn \in [Ranks -> 0..MaxBarriers]
  /\ pc \in [Ranks -> Calls]
  /\ passed \in [Ranks -> 0..MaxBarriers]
  /\ gaveUp \subseteq Ranks /\ cut \subseteq gaveUp
  /\ \A r \in Ranks :
       /\ pc[r] # "idle" => sn[r] # 0
       /\ pc[r] \in {"removeAdd", "removeWait"} => sn[r] > REMOVE_INTERVAL

\* A rank passes a barrier only after every rank has called it, whatever timed
\* out, broke or was removed meanwhile: a count never adds up from leftovers.
EveryoneCame == \A r, q \in Ranks : passed[r] <= sn[q]

\* As long as no barrier has failed, the keys of a barrier are only removed
\* when every rank has passed it: no rank is left waiting for a removed key and
\* none counts on a removed count.
NeededKeysStay ==
  [][gaveUp = {} =>
       \A n \in Barriers :
         \/ n \in waitKey /\ n \notin waitKey'
         \/ addKey[n] # 0 /\ addKey'[n] = 0
         => \A r \in Ranks : passed[r] >= n]_store

\* As long as no barrier has failed, the store does not fill up: when all ranks
\* have passed a barrier, the keys of the one REMOVE_INTERVAL before it are gone.
OldKeysGone ==
  gaveUp = {} =>
    \A n \in Barriers :
      (\A r \in Ranks : n + REMOVE_INTERVAL <= passed[r])
        => addKey[n] = 0 /\ n \notin waitKey

\* If all ranks call a barrier, all pass it without the help of any timeout,
\* unless a barrier has failed.
EveryonePasses ==
  \A n \in Barriers :
    (\A r \in Ranks : sn[r] >= n) ~>
      ((\A r \in Ranks : passed[r] >= n) \/ gaveUp # {})

\* The engine's barrier is a barrier of the ranks.
AbstractBarrier == INSTANCE Barrier WITH Participants <- Ranks, entered <- sn
ImplementsBarrier == AbstractBarrier!Spec
=============================================================================
