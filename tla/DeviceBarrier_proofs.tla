------------------------ MODULE DeviceBarrier_proofs ------------------------
(***************************************************************************)
(* The device barrier is a barrier of all vector cores of all PEs, for any *)
(* number of PEs and cores.  The argument follows a count: it stands in a  *)
(* PE's sync_pool only after all cores of the PE have arrived at their     *)
(* first core barrier, and a core leaves its second one only after the     *)
(* cores of its PE have between them seen the count of every PE.           *)
(***************************************************************************)
EXTENDS DeviceBarrier, TLAPS

Before == {"before", "loop", "stored"}

\* The core barriers a core has entered and left, as its place in the code says.
SyncsEntered(c) ==
  IF pc[c] = "loaded" THEN 2 * entered[c] - 2
  ELSE IF pc[c] \in Before THEN 2 * entered[c] - 1
  ELSE 2 * entered[c]

SyncsLeft(c) ==
  IF pc[c] \in {"loaded", "before"} THEN 2 * entered[c] - 2
  ELSE IF pc[c] = "out" THEN 2 * entered[c]
  ELSE 2 * entered[c] - 1

\* A core leaves a core barrier after all its peers have entered it.
CoreBarriers ==
  \A c \in Cores :
    /\ pc[c] # "out" => entered[c] > 0
    /\ synced[c] = SyncsEntered(c)
    /\ \A d \in Peers(c) : SyncsLeft(c) <= synced[d]

\* The last barrier whose count a core has written into the counter.
Stored(c) == IF pc[c] \in {"stored", "after", "out"} THEN entered[c] ELSE entered[c] - 1

\* The counter of a PE is the count of a barrier all its cores have entered, and
\* not behind any core that has written it.
CounterBetween ==
  \A c \in Cores : Stored(c) <= sync_counter[Pe(c)] /\ sync_counter[Pe(c)] <= entered[c]

\* The count in a sync_pool stands for all cores of the PE having entered.
PoolIsBacked == \A c \in Cores : 2 * sync_pool[Pe(c)] - 1 <= synced[c]

\* The last barrier in which a core has seen the count of PE i.
Seen(c, i) ==
  IF pc[c] \in {"stored", "after", "out"} \/ (pc[c] = "loop" /\ i \notin todo[c])
  THEN entered[c] ELSE entered[c] - 1

\* What a core has seen of a PE assigned to it is true of all cores there.
SeenIsTrue ==
  \A c, d \in Cores : Pe(d) \in Assigned(Vec(c)) => Seen(c, Pe(d)) <= entered[d]

\* A core has passed every barrier it entered but the one it is in.
PassedAllButOne ==
  \A c \in Cores : passed[c] = IF pc[c] = "out" THEN entered[c] ELSE entered[c] - 1

IInv ==
  /\ TypeOK /\ CountsAgree /\ CoreBarriers /\ CounterBetween /\ PoolIsBacked
  /\ SeenIsTrue /\ PassedAllButOne /\ EveryoneEntered

-----------------------------------------------------------------------------
\* Every PE is assigned to some core: i to core i % K.
LEMMA AllAssigned == \A i \in PEs : \E v \in Vecs : i \in Assigned(v)
<1> SUFFICES ASSUME NEW i \in PEs PROVE \E v \in Vecs : i \in Assigned(v)
  OBVIOUS
<1>1. K \in Nat \ {0} /\ K <= VecSize
  BY DeviceAssumption DEF K, Least
<1>2. i \in Nat /\ i < Size
  BY DeviceAssumption DEF PEs
<1> DEFINE v == i % K
           m == i \div K
<1>3. v \in 0..K - 1
  BY <1>1, <1>2
<1>4. m \in Nat /\ i = K * m + v
  BY <1>1, <1>2
<1> HIDE DEF v, m
<1>5. m <= i
  BY <1>1, <1>2, <1>3, <1>4
<1>6. i = v + m * K
  BY <1>1, <1>2, <1>3, <1>4
<1>7. v \in Vecs /\ m \in 0..Size
  BY <1>1, <1>2, <1>3, <1>4, <1>5, DeviceAssumption DEF Vecs
<1> QED BY <1>6, <1>7 DEF Assigned

\* Every core belongs to a PE.
LEMMA PeOfCore == \A c \in Cores : Pe(c) \in PEs
BY DEF Cores, Pe

\* The invariant holds at the start, where no core has entered.
LEMMA InitInv == Init => IInv
<1> SUFFICES ASSUME Init PROVE IInv
  OBVIOUS
<1> USE PeOfCore DEF Init
<1>1. TypeOK
  BY DEF TypeOK
<1>2. CountsAgree /\ PassedAllButOne /\ EveryoneEntered
  BY DEF CountsAgree, PassedAllButOne, EveryoneEntered
<1>3. CoreBarriers
  BY DEF CoreBarriers, SyncsEntered, SyncsLeft, Peers, Before
<1>4. CounterBetween /\ PoolIsBacked
  BY DEF CounterBetween, PoolIsBacked, Stored
<1>5. SeenIsTrue
  BY DEF SeenIsTrue, Seen
<1> QED BY <1>1, <1>2, <1>3, <1>4, <1>5 DEF IInv

\* Every step keeps the types.
LEMMA TypeInductive ==
  ASSUME TypeOK, NEW c \in Cores, Enter(c) \/ Step(c)
  PROVE  TypeOK'
<1> USE PeOfCore DEF TypeOK
<1>1. CASE Enter(c)
  BY <1>1 DEF Enter, Goto
<1>2. CASE SyncBefore(c) \/ SyncAfter(c)
  BY <1>2 DEF SyncBefore, SyncAfter, Arrive, Goto
<1>3. CASE Start(c)
  BY <1>3 DEF Start, Goto, Assigned
<1>4. CASE SignalSet(c) \/ \E i \in PEs : SignalWait(c, i)
  BY <1>4 DEF SignalSet, SignalWait
<1>5. CASE Store(c) \/ Leave(c)
  BY <1>5 DEF Store, Leave, Goto
<1> QED BY <1>1, <1>2, <1>3, <1>4, <1>5 DEF Step

\* The core barriers stay barriers of the cores of a PE.
LEMMA CoreBarriersInductive ==
  ASSUME TypeOK, CoreBarriers, NEW c \in Cores, Enter(c) \/ Step(c)
  PROVE  CoreBarriers'
<1> USE DEF TypeOK, CoreBarriers, SyncsEntered, SyncsLeft, Peers, Before
<1>1. CASE Enter(c)
  BY <1>1, SMTT(40) DEF Enter, Goto
<1>2. CASE SyncBefore(c)
  BY <1>2 DEF SyncBefore, Arrive, Goto
<1>3. CASE SyncAfter(c)
  BY <1>3 DEF SyncAfter, Arrive, Goto
<1>4. CASE Start(c)
  BY <1>4 DEF Start, Goto, AllArrived
<1>5. CASE SignalSet(c) \/ \E i \in PEs : SignalWait(c, i)
  BY <1>5 DEF SignalSet, SignalWait
<1>6. CASE Store(c)
  BY <1>6 DEF Store, Goto
<1>7. CASE Leave(c)
  BY <1>7 DEF Leave, Goto, AllArrived
<1> QED BY <1>1, <1>2, <1>3, <1>4, <1>5, <1>6, <1>7 DEF Step

\* A core that has left the first core barrier of its barrier is not behind any
\* peer by more than its own barrier, nor ahead of any.
LEMMA PeersAreClose ==
  ASSUME TypeOK, CoreBarriers, NEW c \in Cores, pc[c] \in {"loop", "stored", "after"},
         NEW d \in Cores, Pe(d) = Pe(c)
  PROVE  /\ synced[d] >= 2 * entered[c] - 1
         /\ entered[d] >= entered[c]
         /\ pc[c] # "after" => Stored(d) <= entered[c]
<1>1. d \in Peers(c) /\ c \in Peers(d)
  BY DEF Peers
<1>2. SyncsLeft(c) <= synced[d] /\ SyncsLeft(d) <= synced[c]
  BY <1>1 DEF CoreBarriers
<1> QED BY <1>2 DEF TypeOK, CoreBarriers, SyncsEntered, SyncsLeft, Before, Stored

\* The counter is written by cores that have all entered the same barrier.
LEMMA CounterInductive ==
  ASSUME TypeOK, CountsAgree, CoreBarriers, CounterBetween,
         NEW c \in Cores, Enter(c) \/ Step(c)
  PROVE  CounterBetween'
<1> USE PeOfCore DEF TypeOK, CounterBetween, Stored
<1>1. CASE Store(c)
  <2>1. \A d \in Cores : Pe(d) = Pe(c) =>
          Stored(d) <= entered[c] /\ entered[c] <= entered[d]
    BY <1>1, PeersAreClose DEF Store
  <2>2. count[c] = entered[c]
    BY <1>1 DEF Store, CountsAgree
  <2> SUFFICES ASSUME NEW d \in Cores
               PROVE  Stored(d)' <= sync_counter'[Pe(d)] /\ sync_counter'[Pe(d)] <= entered'[d]
    OBVIOUS
  <2> QED BY <1>1, <2>1, <2>2 DEF Store, Goto
<1>2. CASE Enter(c)
  BY <1>2 DEF Enter, Goto
<1>3. CASE SyncBefore(c) \/ SyncAfter(c)
  BY <1>3 DEF SyncBefore, SyncAfter, Arrive, Goto
<1>4. CASE Start(c) \/ Leave(c)
  BY <1>4 DEF Start, Leave, Goto
<1>5. CASE SignalSet(c) \/ \E i \in PEs : SignalWait(c, i)
  BY <1>5 DEF SignalSet, SignalWait
<1> QED BY <1>1, <1>2, <1>3, <1>4, <1>5 DEF Step

\* On entry the counter is the number of the barriers a core has been through:
\* every peer has written it, and none has written the next.
LEMMA CountsInductive ==
  ASSUME TypeOK, CountsAgree, CounterBetween, NEW c \in Cores, Enter(c) \/ Step(c)
  PROVE  CountsAgree'
<1> USE PeOfCore DEF TypeOK, CountsAgree
<1>1. CASE Enter(c)
  <2>1. sync_counter[Pe(c)] = entered[c]
    BY <1>1 DEF Enter, CounterBetween, Stored
  <2> QED BY <1>1, <2>1 DEF Enter, Goto
<1>2. CASE SyncBefore(c) \/ SyncAfter(c)
  BY <1>2 DEF SyncBefore, SyncAfter, Arrive, Goto
<1>3. CASE Start(c) \/ Store(c) \/ Leave(c)
  BY <1>3 DEF Start, Store, Leave, Goto
<1>4. CASE SignalSet(c) \/ \E i \in PEs : SignalWait(c, i)
  BY <1>4 DEF SignalSet, SignalWait
<1> QED BY <1>1, <1>2, <1>3, <1>4 DEF Step

\* A count is written into the sync_pool after the first core barrier only.
LEMMA PoolInductive ==
  ASSUME TypeOK, CountsAgree, CoreBarriers, PoolIsBacked,
         NEW c \in Cores, Enter(c) \/ Step(c)
  PROVE  PoolIsBacked'
<1> USE PeOfCore DEF TypeOK, PoolIsBacked
<1>1. CASE SignalSet(c)
  <2>1. \A d \in Cores : Pe(d) = Pe(c) => synced[d] >= 2 * entered[c] - 1
    BY <1>1, PeersAreClose DEF SignalSet
  <2>2. count[c] = entered[c]
    BY <1>1 DEF SignalSet, CountsAgree
  <2> SUFFICES ASSUME NEW d \in Cores PROVE 2 * sync_pool'[Pe(d)] - 1 <= synced'[d]
    OBVIOUS
  <2> QED BY <1>1, <2>1, <2>2 DEF SignalSet
<1>2. CASE SyncBefore(c) \/ SyncAfter(c)
  BY <1>2 DEF SyncBefore, SyncAfter, Arrive
<1>3. CASE ~SignalSet(c) /\ ~SyncBefore(c) /\ ~SyncAfter(c)
  BY <1>3 DEF Step, Enter, Start, SignalWait, Store, Leave
<1> QED BY <1>1, <1>2, <1>3

\* A count found in a sync_pool says that all cores of that PE have entered.
LEMMA PoolTells ==
  ASSUME TypeOK, CoreBarriers, PoolIsBacked, NEW d \in Cores
  PROVE  sync_pool[Pe(d)] <= entered[d]
BY PeOfCore DEF TypeOK, CoreBarriers, PoolIsBacked, SyncsEntered, Before

\* Whatever a core has seen of a PE stays true: cores only enter more barriers.
LEMMA SeenInductive ==
  ASSUME TypeOK, CountsAgree, CoreBarriers, PoolIsBacked, SeenIsTrue,
         NEW c \in Cores, Enter(c) \/ Step(c)
  PROVE  SeenIsTrue'
<1> USE PeOfCore DEF TypeOK, SeenIsTrue, Seen
<1>1. CASE Enter(c)
  BY <1>1 DEF Enter, Goto
<1>2. CASE SyncBefore(c) \/ SyncAfter(c) \/ Leave(c)
  BY <1>2 DEF SyncBefore, SyncAfter, Leave, Arrive, Goto
<1>3. CASE Start(c)
  BY <1>3 DEF Start, Goto
<1>4. CASE SignalSet(c)
  <2>1. \A d \in Cores : Pe(d) = Pe(c) => entered[d] >= entered[c]
    BY <1>4, PeersAreClose DEF SignalSet
  <2> QED BY <1>4, <2>1 DEF SignalSet
<1>5. CASE \E i \in PEs : SignalWait(c, i)
  <2> PICK i \in PEs : SignalWait(c, i)
    BY <1>5
  <2>1. \A d \in Cores : Pe(d) = i => entered[d] >= entered[c]
    BY PoolTells DEF SignalWait, CountsAgree
  <2> QED BY <2>1 DEF SignalWait
<1>6. CASE Store(c)
  BY <1>6 DEF Store, Goto, Assigned
<1> QED BY <1>1, <1>2, <1>3, <1>4, <1>5, <1>6 DEF Step

\* Before a core leaves, its peers have between them seen the count of every PE.
LEMMA LeavesLast ==
  ASSUME TypeOK, CoreBarriers, SeenIsTrue, NEW c \in Cores, Leave(c), NEW d \in Cores
  PROVE  entered[d] >= entered[c]
<1>1. PICK v \in Vecs : Pe(d) \in Assigned(v)
  BY AllAssigned, PeOfCore
<1> DEFINE b == <<Pe(c), v>>
<1>2. b \in Cores /\ Pe(b) = Pe(c) /\ Vec(b) = v
  BY PeOfCore DEF Cores, Pe, Vec
<1> HIDE DEF b
<1>3. synced[b] >= 2 * entered[c]
  BY <1>2 DEF Leave, AllArrived, Peers, CoreBarriers, SyncsEntered, TypeOK, Before
<1>4. Seen(b, Pe(d)) >= entered[c]
  BY <1>2, <1>3 DEF CoreBarriers, SyncsEntered, TypeOK, Before, Seen
<1>5. Seen(b, Pe(d)) <= entered[d]
  BY <1>1, <1>2 DEF SeenIsTrue
<1> QED BY <1>2, <1>4, <1>5 DEF Seen, TypeOK

\* A core passes when all cores have entered, and then only.
LEMMA PassedInductive ==
  ASSUME TypeOK, CoreBarriers, SeenIsTrue, PassedAllButOne, EveryoneEntered,
         NEW c \in Cores, Enter(c) \/ Step(c)
  PROVE  PassedAllButOne' /\ EveryoneEntered'
<1> USE DEF TypeOK, PassedAllButOne, EveryoneEntered
<1>1. CASE Enter(c)
  BY <1>1 DEF Enter, Goto
<1>2. CASE Leave(c)
  <2>1. \A d \in Cores : entered[d] >= entered[c]
    BY <1>2, LeavesLast
  <2> QED BY <1>2, <2>1 DEF Leave, Goto
<1>3. CASE SyncBefore(c) \/ SyncAfter(c)
  BY <1>3 DEF SyncBefore, SyncAfter, Arrive, Goto
<1>4. CASE Start(c) \/ Store(c)
  BY <1>4 DEF Start, Store, Goto
<1>5. CASE SignalSet(c) \/ \E i \in PEs : SignalWait(c, i)
  BY <1>5 DEF SignalSet, SignalWait
<1> QED BY <1>1, <1>2, <1>3, <1>4, <1>5 DEF Step

-----------------------------------------------------------------------------
\* The inductive invariant, of which everything below is a consequence.
THEOREM DeviceInvariant == Spec => []IInv
<1>1. IInv /\ [Next]_vars => IInv'
  <2>1. CASE UNCHANGED vars
    BY <2>1 DEF vars, IInv, TypeOK, CountsAgree, CoreBarriers, CounterBetween,
         PoolIsBacked, SeenIsTrue, PassedAllButOne, EveryoneEntered, Seen, Stored,
         SyncsEntered, SyncsLeft
  <2>2. ASSUME IInv, NEW c \in Cores, Enter(c) \/ Step(c) PROVE IInv'
    BY <2>2, TypeInductive, CoreBarriersInductive, CounterInductive, CountsInductive,
       PoolInductive, SeenInductive, PassedInductive DEF IInv
  <2> QED BY <2>1, <2>2 DEF Next
<1> QED BY InitInv, <1>1, PTL DEF Spec

\* The device barrier's state is well typed for any number of PEs and cores.
THEOREM DeviceTypeCorrect == Spec => []TypeOK
BY DeviceInvariant, PTL DEF IInv

\* The cores of a PE use one count, whatever the order of their loads and stores.
THEOREM DeviceCountsAgree == Spec => []CountsAgree
BY DeviceInvariant, PTL DEF IInv

\* A core passes a barrier only when every core of every PE has entered it, as
\* the comment at the head of shmemi_device_cc.h promises.
THEOREM DeviceEveryoneEntered == Spec => []EveryoneEntered
BY DeviceInvariant, PTL DEF IInv

\* A core that waits for a PE never finds it two barriers ahead, where the loop
\* of signal_wait_until_eq_for_barrier would not recognise the count: the other
\* PE's cores would have passed a barrier this core has not entered.
THEOREM DeviceSignalsNotMissed == Spec => []SignalsNotMissed
<1>1. IInv => SignalsNotMissed
  <2> SUFFICES ASSUME IInv, NEW c \in Cores, pc[c] = "loop", NEW i \in todo[c]
               PROVE  sync_pool[i] <= count[c] + 1
    BY DEF SignalsNotMissed
  <2> DEFINE d == <<i, 0>>
  <2>1. d \in Cores /\ Pe(d) = i
    BY DeviceAssumption DEF IInv, TypeOK, Cores, Vecs, Pe
  <2> HIDE DEF d
  <2>2. sync_pool[i] <= entered[d] /\ entered[d] <= passed[d] + 1
    BY <2>1, PoolTells DEF IInv, PassedAllButOne, TypeOK
  <2>3. passed[d] <= entered[c] /\ count[c] = entered[c]
    BY <2>1 DEF IInv, EveryoneEntered, CountsAgree
  <2>4. i \in PEs
    BY DEF IInv, TypeOK
  <2> QED BY <2>1, <2>2, <2>3, <2>4 DEF IInv, TypeOK
<1> QED BY <1>1, DeviceInvariant, PTL

\* The device barrier implements the abstract barrier: leaving the second core
\* barrier is passing, and everyone has entered by then.
THEOREM DeviceImplementsBarrier == Spec => ImplementsBarrier
<1>1. Init => AbstractBarrier!Init
  BY DEF Init, AbstractBarrier!Init
<1>2. IInv /\ [Next]_vars => [AbstractBarrier!Next]_<<entered, passed>>
  <2> SUFFICES ASSUME IInv, [Next]_vars
               PROVE  AbstractBarrier!Next \/ UNCHANGED <<entered, passed>>
    OBVIOUS
  <2>1. CASE UNCHANGED vars
    BY <2>1 DEF vars
  <2>2. ASSUME NEW c \in Cores, Enter(c)
        PROVE  AbstractBarrier!Next
    BY <2>2 DEF Enter, AbstractBarrier!Next, AbstractBarrier!Enter
  <2>3. ASSUME NEW c \in Cores, Leave(c)
        PROVE  AbstractBarrier!Next
    <3>1. AbstractBarrier!Pass(c)
      BY <2>3, LeavesLast DEF IInv, Leave, AbstractBarrier!Pass
    <3> QED BY <3>1 DEF AbstractBarrier!Next
  <2>4. ASSUME NEW c \in Cores, Step(c), ~Leave(c)
        PROVE  UNCHANGED <<entered, passed>>
    BY <2>4 DEF Step, SyncBefore, SyncAfter, Arrive, Start, SignalSet, SignalWait, Store
  <2> QED BY <2>1, <2>2, <2>3, <2>4 DEF Next
<1> QED BY <1>1, <1>2, DeviceInvariant, PTL
    DEF Spec, ImplementsBarrier, AbstractBarrier!Spec
=============================================================================
