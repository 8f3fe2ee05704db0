---------------------------- MODULE DeviceBarrier ---------------------------
(***************************************************************************)
(* aclshmemi_barrier_npu_v3 (shmemi_device_cc.h), the barrier every device *)
(* entry point calls: the vector cores of the PEs of a team.  The cores of *)
(* a PE share the work between two barriers of their own (CoreBarrier, or  *)
(* the hardware's SyncAll; here by what either promises): one of them      *)
(* writes the new count into the PE's sync_pool, the others wait until it  *)
(* stands in the sync_pool of the PEs assigned to them.  PEs are named by  *)
(* their place in the team.                                                *)
(***************************************************************************)
EXTENDS Integers, FiniteSets

CONSTANTS Size,        \* number of PEs in the team
          VecSize,     \* number of vector cores of a PE
          KVAL,        \* ACLSHMEM_BARRIER_TG_DISSEM_KVAL, at most so many cores wait
          MaxBarriers  \* bound on the barriers of a core

ASSUME DeviceAssumption ==
  /\ Size \in Nat \ {0} /\ VecSize \in Nat \ {0} /\ KVAL \in Nat \ {0}
  /\ MaxBarriers \in Nat

PEs == 0..Size - 1
Vecs == 0..VecSize - 1
Cores == PEs \X Vecs

VARIABLES sync_counter,  \* per PE, the barriers of the team it has passed
          sync_pool,     \* per PE, the barrier its cores have all entered
          pc,
          count,         \* a core's copy of the counter plus one
          todo,          \* the PEs a core has still to look at
          synced,        \* per core, the core barriers it has entered
          entered, passed

vars == <<sync_counter, sync_pool, pc, count, todo, synced, entered, passed>>

Pe(c) == c[1]
Vec(c) == c[2]
Peers(c) == {d \in Cores : Pe(d) = Pe(c)}   \* the cores of a core's PE

Least(a, b) == IF a < b THEN a ELSE b
K == Least(Least(KVAL, Size), VecSize)

\* The PEs a vector core visits: its own number and every K-th from there.
Assigned(v) == {i \in PEs : \E m \in 0..Size : i = v + m * K}

\* The loop visits them in ascending order.
Due(c, i) == i \in todo[c] /\ \A j \in todo[c] : i <= j

Init ==
  /\ sync_counter = [p \in PEs |-> 0]
  /\ sync_pool = [p \in PEs |-> 0]
  /\ pc = [c \in Cores |-> "out"]
  /\ count = [c \in Cores |-> 0]
  /\ todo = [c \in Cores |-> {}]
  /\ synced = [c \in Cores |-> 0]
  /\ entered = [c \in Cores |-> 0]
  /\ passed = [c \in Cores |-> 0]

Goto(c, next) == pc' = [pc EXCEPT ![c] = next]

-----------------------------------------------------------------------------
Enter(c) ==
  /\ pc[c] = "out"
  /\ entered[c] < MaxBarriers
  /\ entered' = [entered EXCEPT ![c] = @ + 1]
  /\ count' = [count EXCEPT ![c] = sync_counter[Pe(c)] + 1]
  /\ Goto(c, "loaded")
  /\ UNCHANGED <<sync_counter, sync_pool, todo, synced, passed>>

\* aclshmemi_barrier_core: a core arrives, and goes on when all its peers have.
Arrive(c, from, to) ==
  /\ pc[c] = from
  /\ synced' = [synced EXCEPT ![c] = @ + 1]
  /\ Goto(c, to)
  /\ UNCHANGED <<sync_counter, sync_pool, count, todo, entered, passed>>

AllArrived(c) == \A d \in Peers(c) : synced[d] >= synced[c]

SyncBefore(c) == Arrive(c, "loaded", "before")

Start(c) ==
  /\ pc[c] = "before"
  /\ AllArrived(c)
  /\ todo' = [todo EXCEPT ![c] = Assigned(Vec(c))]
  /\ Goto(c, "loop")
  /\ UNCHANGED <<sync_counter, sync_pool, count, synced, entered, passed>>

\* The core whose turn its own PE is writes the count.
SignalSet(c) ==
  /\ pc[c] = "loop"
  /\ Due(c, Pe(c))
  /\ sync_pool' = [sync_pool EXCEPT ![Pe(c)] = count[c]]
  /\ todo' = [todo EXCEPT ![c] = @ \ {Pe(c)}]
  /\ UNCHANGED <<sync_counter, pc, count, synced, entered, passed>>

\* Mutant: only the very count is waited for.
SignalWaitExactly(c, i) ==
  /\ pc[c] = "loop"
  /\ i # Pe(c) /\ Due(c, i)
  /\ sync_pool[i] = count[c]
  /\ todo' = [todo EXCEPT ![c] = @ \ {i}]
  /\ UNCHANGED <<sync_counter, sync_pool, pc, count, synced, entered, passed>>

\* The count of another PE is waited for; it may be in the next barrier already.
SignalWait(c, i) ==
  /\ pc[c] = "loop"
  /\ i # Pe(c) /\ Due(c, i)
  /\ sync_pool[i] \in {count[c], count[c] + 1}
  /\ todo' = [todo EXCEPT ![c] = @ \ {i}]
  /\ UNCHANGED <<sync_counter, sync_pool, pc, count, synced, entered, passed>>

Store(c) ==
  /\ pc[c] = "loop"
  /\ todo[c] = {}
  /\ sync_counter' = [sync_counter EXCEPT ![Pe(c)] = count[c]]
  /\ Goto(c, "stored")
  /\ UNCHANGED <<sync_pool, count, todo, synced, entered, passed>>

SyncAfter(c) == Arrive(c, "stored", "after")

\* Mutant: no core barrier after the loop.
LeaveUnsynced(c) ==
  /\ pc[c] = "after"
  /\ passed' = [passed EXCEPT ![c] = entered[c]]
  /\ Goto(c, "out")
  /\ UNCHANGED <<sync_counter, sync_pool, count, todo, synced, entered>>

Leave(c) ==
  /\ pc[c] = "after"
  /\ AllArrived(c)
  /\ passed' = [passed EXCEPT ![c] = entered[c]]
  /\ Goto(c, "out")
  /\ UNCHANGED <<sync_counter, sync_pool, count, todo, synced, entered>>

Step(c) ==
  \/ SyncBefore(c) \/ Start(c)
  \/ SignalSet(c) \/ \E i \in PEs : SignalWait(c, i)
  \/ Store(c) \/ SyncAfter(c) \/ Leave(c)

Next == \E c \in Cores : Enter(c) \/ Step(c)

Spec == Init /\ [][Next]_vars

\* A core inside the barrier goes on; nothing makes it enter the next one.
FairSpec == Spec /\ \A c \in Cores : WF_vars(Step(c))

-----------------------------------------------------------------------------
\* The variables hold what their types say, and a core only looks at PEs.
TypeOK ==
  /\ sync_counter \in [PEs -> Nat]
  /\ sync_pool \in [PEs -> Nat]
  /\ pc \in [Cores -> {"out", "loaded", "before", "loop", "stored", "after"}]
  /\ count \in [Cores -> Nat]
  /\ todo \in [Cores -> SUBSET PEs]
  /\ synced \in [Cores -> Nat]
  /\ entered \in [Cores -> Nat]
  /\ passed \in [Cores -> Nat]

\* Each core reads the counter of its PE on entry and each writes it on the way
\* out, yet all of them use the number of the barrier they are in.
CountsAgree == \A c \in Cores : pc[c] # "out" => count[c] = entered[c]

\* A PE a core still has to wait for is at most one barrier ahead: the waiting
\* loop recognises no other count.
SignalsNotMissed ==
  \A c \in Cores : pc[c] = "loop" =>
    \A i \in todo[c] \ {Pe(c)} : sync_pool[i] <= count[c] + 1

\* Every vector core of every PE of the team has entered a barrier before any
\* core passes it.
EveryoneEntered == \A c, d \in Cores : passed[c] <= entered[d]

\* If all cores of all PEs enter a barrier, all pass it.
EveryonePasses ==
  \A n \in 1..MaxBarriers :
    (\A c \in Cores : entered[c] >= n) ~> (\A c \in Cores : passed[c] >= n)

\* The device barrier is a barrier of the cores of all PEs.
AbstractBarrier == INSTANCE Barrier WITH Participants <- Cores
ImplementsBarrier == AbstractBarrier!Spec
=============================================================================
