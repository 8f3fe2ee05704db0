------------------------- MODULE GroupEngine_proofs -------------------------
(***************************************************************************)
(* The barrier and the gather of the group engine, for any number of ranks *)
(* and whatever times out or breaks off.                                   *)
(*                                                                         *)
(* The barrier is a barrier.  The argument counts: the count in the store  *)
(* never exceeds the number of ranks that have added to it, so a rank that *)
(* reads the number of all ranks knows that all have added.  Removing a    *)
(* count only lowers it.                                                   *)
(*                                                                         *)
(* A gather that succeeds has everyone's data in the order of the ranks.   *)
(* The value of a key holds units of that gather only, each from a rank of *)
(* its own that has called it; when there are as many units as ranks,      *)
(* every rank is among them, and sorting puts rank k at place k + 1.       *)
(***************************************************************************)
EXTENDS GroupBarrier, GatherPromise, Sequences, FiniteSetTheorems, TLAPS

\* The ranks that have added to the count of barrier n.
Added(n) == {r \in Ranks : sn[r] > n \/ (sn[r] = n /\ pc[r] # "add")}

\* The counts of the store are not above the numbers of ranks that added.
CountsAreBacked == \A n \in Barriers : addKey[n] <= Cardinality(Added(n))

\* Whoever sets the key of a barrier, and every key that is set, stands for all
\* ranks having added.
KeysAreEarned ==
  /\ \A r \in Ranks : pc[r] = "set" => Added(sn[r]) = Ranks
  /\ \A n \in waitKey : Added(n) = Ranks

\* A rank that has passed a barrier has seen all ranks add to it.
PassesAreEarned ==
  \A r \in Ranks :
    /\ passed[r] <= sn[r]
    /\ passed[r] \in Barriers => Added(passed[r]) = Ranks

\* Before any barrier has failed, a rank has passed every barrier it called but
\* the one it is in.
NobodyGaveUp ==
  gaveUp = {} =>
    \A r \in Ranks : passed[r] = IF pc[r] = "idle" THEN sn[r] ELSE sn[r] - 1

IInv == TypeOK /\ CountsAreBacked /\ KeysAreEarned /\ PassesAreEarned /\ NobodyGaveUp

-----------------------------------------------------------------------------
\* The types hold at first and every action keeps them.
LEMMA InitInv == Init => IInv
<1> SUFFICES ASSUME Init PROVE IInv
  OBVIOUS
<1> USE GroupAssumption
<1>1. TypeOK
  BY DEF Init, TypeOK, Barriers, Calls
<1>2. CountsAreBacked
  <2> SUFFICES ASSUME NEW n \in Barriers PROVE addKey[n] <= Cardinality(Added(n))
    BY DEF CountsAreBacked
  <2>1. Cardinality(Added(n)) \in Nat
    BY FS_CardinalityType, FS_Subset DEF Added
  <2> QED BY <2>1 DEF Init
<1>3. KeysAreEarned /\ PassesAreEarned /\ NobodyGaveUp
  BY DEF Init, KeysAreEarned, PassesAreEarned, NobodyGaveUp, Barriers
<1> QED BY <1>1, <1>2, <1>3 DEF IInv

\* A rank's ADD makes it, and only it, one of those that added to its barrier.
LEMMA AddAdds ==
  ASSUME TypeOK, NEW r \in Ranks, Add(r), NEW n \in Barriers
  PROVE  /\ n = sn[r] => r \notin Added(n) /\ Added(n)' = Added(n) \cup {r}
         /\ n # sn[r] => Added(n)' = Added(n)
<1>1. \A q \in Ranks \ {r} : q \in Added(n)' <=> q \in Added(n)
  BY DEF TypeOK, Add, Goto, Added
<1>2. n = sn[r] => r \notin Added(n) /\ r \in Added(n)'
  BY DEF TypeOK, Add, Goto, Added, SetOrGet
<1>3. n # sn[r] => (r \in Added(n)' <=> r \in Added(n))
  BY DEF TypeOK, Add, Goto, Added, SetOrGet
<1>4. Added(n) \subseteq Ranks /\ Added(n)' \subseteq Ranks
  BY DEF Added
<1> QED BY <1>1, <1>2, <1>3, <1>4

\* No other step changes who has added.
LEMMA OthersAddNothing ==
  ASSUME TypeOK, NEW r \in Ranks,
         \/ Call(r) \/ RemoveAddKey(r) \/ RemoveWaitKey(r)
         \/ Set(r) \/ Get(r) \/ TimeOut(r),
         NEW n \in Barriers
  PROVE  Added(n)' = Added(n)
<1>1. \A q \in Ranks \ {r} : q \in Added(n)' <=> q \in Added(n)
  BY DEF TypeOK, Call, RemoveAddKey, RemoveWaitKey, Set, Get, TimeOut, Goto, Added
<1>2. CASE Call(r)
  BY <1>1, <1>2 DEF TypeOK, Call, Goto, Added, Barriers
<1>3. CASE ~Call(r)
  BY <1>1, <1>3 DEF TypeOK, RemoveAddKey, RemoveWaitKey, Set, Get, TimeOut, Goto,
       Added, SetOrGet
<1> QED BY <1>2, <1>3

\* A rank that is cut off in its ADD counts as having added from then on, which
\* is as good as if it had: it stays cut off.
LEMMA CutOnlyAdds ==
  ASSUME TypeOK, NEW r \in Ranks, Cut(r), NEW n \in Barriers
  PROVE  Added(n) \subseteq Added(n)'
BY DEF TypeOK, Cut, Goto, Added, Calls

\* Those who have added stay so, whatever step is taken.
LEMMA AddedGrows ==
  ASSUME TypeOK, [Next]_vars, NEW n \in Barriers
  PROVE  Added(n) \subseteq Added(n)'
<1>1. CASE UNCHANGED vars
  BY <1>1 DEF vars, Added
<1>2. CASE Next
  <2> PICK r \in Ranks : Call(r) \/ Step(r) \/ TimeOut(r) \/ Cut(r)
    BY <1>2 DEF Next
  <2>1. CASE Add(r)
    BY <2>1, AddAdds
  <2>2. CASE Cut(r)
    BY <2>2, CutOnlyAdds
  <2>3. CASE ~Add(r) /\ ~Cut(r)
    BY <2>3, OthersAddNothing DEF Step
  <2> QED BY <2>1, <2>2, <2>3
<1> QED BY <1>1, <1>2

\* Every step keeps the types.
LEMMA TypeInductive == ASSUME TypeOK, [Next]_vars PROVE TypeOK'
<1> USE GroupAssumption DEF TypeOK, Calls, Barriers
<1>1. CASE UNCHANGED vars
  BY <1>1 DEF vars, store
<1>2. CASE Next
  <2> PICK r \in Ranks : Call(r) \/ Step(r) \/ TimeOut(r) \/ Cut(r)
    BY <1>2 DEF Next
  <2>1. CASE Call(r)
    BY <2>1 DEF Call, Goto, store
  <2>2. CASE Add(r)
    BY <2>2 DEF Add, Goto, SetOrGet
  <2>3. CASE RemoveAddKey(r)
    BY <2>3 DEF RemoveAddKey, Goto
  <2>4. CASE RemoveWaitKey(r)
    BY <2>4 DEF RemoveWaitKey, Goto, SetOrGet
  <2>5. CASE Set(r)
    <3>1. sn[r] \in Barriers
      BY <2>5 DEF Set
    <3>2. waitKey' \subseteq Barriers
      BY <2>5, <3>1 DEF Set
    <3> QED BY <2>5, <3>2 DEF Set, Goto
  <2>6. CASE Get(r) \/ TimeOut(r) \/ Cut(r)
    BY <2>6 DEF Get, TimeOut, Cut, Goto, store
  <2> QED BY <2>1, <2>2, <2>3, <2>4, <2>5, <2>6 DEF Step
<1> QED BY <1>1, <1>2

-----------------------------------------------------------------------------
\* The counts stay backed: an ADD raises a count by one and adds a rank that was
\* not counted, a REMOVE only lowers one.
LEMMA CountsInductive ==
  ASSUME TypeOK, CountsAreBacked, [Next]_vars
  PROVE  CountsAreBacked'
<1> SUFFICES ASSUME NEW n \in Barriers
             PROVE  addKey'[n] <= Cardinality(Added(n)')
  BY DEF CountsAreBacked
<1>1. IsFiniteSet(Added(n)) /\ IsFiniteSet(Added(n)')
  BY FS_Subset, GroupAssumption DEF Added
<1>2. Cardinality(Added(n)) \in Nat /\ Cardinality(Added(n)') \in Nat
  BY <1>1, FS_CardinalityType
<1>3. Cardinality(Added(n)) <= Cardinality(Added(n)')
  BY <1>1, AddedGrows, FS_Subset
<1>4. addKey[n] \in Nat /\ addKey[n] <= Cardinality(Added(n))
  BY DEF TypeOK, CountsAreBacked
<1>5. CASE \E r \in Ranks : Add(r) /\ sn[r] = n
  <2> PICK r \in Ranks : Add(r) /\ sn[r] = n
    BY <1>5
  <2>1. addKey'[n] = addKey[n] + 1
    BY DEF Add, TypeOK
  <2>2. Cardinality(Added(n)') = Cardinality(Added(n)) + 1
    <3>1. r \notin Added(n) /\ Added(n)' = Added(n) \cup {r}
      BY AddAdds
    <3> QED BY <3>1, <1>1, FS_AddElement
  <2> QED BY <2>1, <2>2, <1>2, <1>4
<1>6. CASE ~ \E r \in Ranks : Add(r) /\ sn[r] = n
  <2>1. addKey'[n] = addKey[n] \/ addKey'[n] = 0
    BY <1>6 DEF Next, vars, store, Step, Call, Add, RemoveAddKey, RemoveWaitKey,
                Set, Get, TimeOut, Cut, TypeOK
  <2> QED BY <2>1, <1>2, <1>3, <1>4
<1> QED BY <1>5, <1>6

\* A rank that is about to set a key was so before, or has just read the number
\* of all ranks.
LEMMA SetNeedsAll ==
  ASSUME TypeOK, [Next]_vars, NEW r \in Ranks, pc'[r] = "set"
  PROVE  /\ sn'[r] = sn[r] /\ sn[r] \in Barriers
         /\ \/ pc[r] = "set"
            \/ Add(r) /\ addKey'[sn[r]] = size
            \/ RemoveWaitKey(r) /\ size = 1
<1> USE DEF TypeOK, Barriers, Calls
<1>1. CASE UNCHANGED vars
  BY <1>1 DEF vars
<1>2. CASE Next
  <2> PICK q \in Ranks : Call(q) \/ Step(q) \/ TimeOut(q) \/ Cut(q)
    BY <1>2 DEF Next
  <2>1. CASE q # r
    <3>1. pc'[r] = pc[r]
      BY <2>1 DEF Step, Call, Add, RemoveAddKey, RemoveWaitKey, Set, Get, TimeOut,
                  Cut, Goto
    <3>2. sn'[r] = sn[r]
      BY <2>1 DEF Step, Call, Add, RemoveAddKey, RemoveWaitKey, Set, Get, TimeOut, Cut
    <3> QED BY <3>1, <3>2
  <2>2. CASE q = r /\ Add(r)
    BY <2>2 DEF Add, Goto, SetOrGet
  <2>3. CASE q = r /\ RemoveWaitKey(r)
    BY <2>3 DEF RemoveWaitKey, Goto, SetOrGet
  <2>4. CASE q = r /\ ~Add(r) /\ ~RemoveWaitKey(r)
    BY <2>4 DEF Step, Call, RemoveAddKey, Set, Get, TimeOut, Cut, Goto
  <2> QED BY <2>1, <2>2, <2>3, <2>4
<1> QED BY <1>1, <1>2

\* A key in the store was there before, or has just been set.
LEMMA KeyNeedsSet ==
  ASSUME TypeOK, [Next]_vars, NEW n \in waitKey'
  PROVE  n \in waitKey \/ \E r \in Ranks : pc[r] = "set" /\ sn[r] = n
BY DEF Next, vars, store, Step, Call, Add, RemoveAddKey, RemoveWaitKey, Set, Get,
       TimeOut, Cut

\* Who sets a key has read the number of all ranks from a count that is backed.
LEMMA KeysInductive ==
  ASSUME TypeOK, TypeOK', CountsAreBacked', KeysAreEarned, [Next]_vars
  PROVE  KeysAreEarned'
<1> USE GroupAssumption
<1>1. \A n \in Barriers : Added(n) = Ranks => Added(n)' = Ranks
  <2>1. \A n \in Barriers : Added(n) \subseteq Added(n)' /\ Added(n)' \subseteq Ranks
    BY AddedGrows DEF Added
  <2> QED BY <2>1
<1>2. ASSUME NEW n \in waitKey' PROVE Added(n)' = Ranks
  <2>1. n \in Barriers
    BY <1>2 DEF TypeOK
  <2> QED BY <1>1, <2>1, KeyNeedsSet DEF KeysAreEarned
<1>3. ASSUME NEW r \in Ranks, pc'[r] = "set", NEW n \in Barriers, n = sn[r]
      PROVE  Added(n)' = Ranks
  <2>1. CASE pc[r] = "set"
    BY <1>1, <1>3, <2>1 DEF KeysAreEarned
  <2>2. CASE Add(r) /\ addKey'[n] = size
    <3>1. size <= Cardinality(Added(n)')
      BY <2>2 DEF CountsAreBacked
    <3>2. Added(n)' \subseteq Ranks
      BY DEF Added
    <3> QED BY <3>1, <3>2, FS_Subset, FS_CardinalityType DEF size
  <2>3. CASE RemoveWaitKey(r) /\ size = 1
    <3>1. r \in Added(n)'
      BY <2>3, <1>3 DEF Added, RemoveWaitKey
    <3>2. Ranks = {r}
      BY <2>3, FS_Singleton DEF size
    <3> QED BY <3>1, <3>2 DEF Added
  <2> QED BY <1>3, <2>1, <2>2, <2>3, SetNeedsAll
<1>4. \A r \in Ranks : pc'[r] = "set" => Added(sn[r])' = Ranks
  <2> SUFFICES ASSUME NEW r \in Ranks, pc'[r] = "set" PROVE Added(sn[r])' = Ranks
    OBVIOUS
  <2> DEFINE n == sn[r]
  <2>1. sn'[r] = n /\ n \in Barriers
    BY SetNeedsAll
  <2>2. Added(n)' = Ranks
    BY <1>3, <2>1
  <2> QED BY <2>1, <2>2
<1> QED BY <1>2, <1>4 DEF KeysAreEarned

\* A rank passes a barrier only in its GET, which finds the key of the barrier.
LEMMA PassNeedsKey ==
  ASSUME TypeOK, [Next]_vars, NEW r \in Ranks
  PROVE  /\ sn'[r] >= sn[r]
         /\ passed'[r] = passed[r] \/ (passed'[r] = sn[r] /\ sn[r] \in waitKey)
<1>1. CASE UNCHANGED vars
  BY <1>1 DEF vars, TypeOK
<1>2. CASE Next
  <2> PICK q \in Ranks : Call(q) \/ Step(q) \/ TimeOut(q) \/ Cut(q)
    BY <1>2 DEF Next
  <2> QED BY DEF TypeOK, Step, Call, Add, RemoveAddKey, RemoveWaitKey, Set, Get,
                 TimeOut, Cut
<1> QED BY <1>1, <1>2

\* The barriers that were passed had the key of one all ranks had added to.
LEMMA PassesInductive ==
  ASSUME TypeOK, TypeOK', KeysAreEarned, PassesAreEarned, [Next]_vars
  PROVE  PassesAreEarned'
<1> SUFFICES ASSUME NEW r \in Ranks
             PROVE  /\ passed'[r] <= sn'[r]
                    /\ passed'[r] \in Barriers => Added(passed[r])' = Ranks
  BY DEF PassesAreEarned
<1>1. passed'[r] <= sn'[r]
  BY PassNeedsKey DEF TypeOK, PassesAreEarned
<1>2. ASSUME passed'[r] \in Barriers PROVE Added(passed[r])' = Ranks
  <2> DEFINE n == passed'[r]
  <2>1. Added(n) = Ranks
    BY <1>2, PassNeedsKey DEF PassesAreEarned, KeysAreEarned
  <2>2. Added(n) \subseteq {q \in Ranks : sn'[q] > n \/ (sn'[q] = n /\ pc'[q] # "add")}
    BY <1>2, AddedGrows DEF Added
  <2> QED BY <2>1, <2>2 DEF Added
<1> QED BY <1>1, <1>2

\* As long as nobody gives up, passing is what makes a rank idle.
LEMMA NobodyGaveUpInductive ==
  ASSUME TypeOK, TypeOK', NobodyGaveUp, [Next]_vars
  PROVE  NobodyGaveUp'
<1> SUFFICES ASSUME gaveUp' = {}, NEW r \in Ranks
             PROVE  passed'[r] = IF pc'[r] = "idle" THEN sn'[r] ELSE sn'[r] - 1
  BY DEF NobodyGaveUp
<1>1. CASE UNCHANGED vars
  BY <1>1 DEF vars, NobodyGaveUp
<1>2. CASE Next
  <2> PICK q \in Ranks : Call(q) \/ Step(q) \/ TimeOut(q) \/ Cut(q)
    BY <1>2 DEF Next
  <2>1. gaveUp = {} /\ ~TimeOut(q) /\ ~Cut(q)
    BY DEF Step, Call, Add, RemoveAddKey, RemoveWaitKey, Set, Get, TimeOut, Cut
  <2>2. passed[r] = IF pc[r] = "idle" THEN sn[r] ELSE sn[r] - 1
    BY <2>1 DEF NobodyGaveUp
  <2>3. CASE Call(q)
    BY <2>2, <2>3 DEF Call, Goto, TypeOK
  <2>4. CASE Add(q) \/ RemoveWaitKey(q)
    BY <2>2, <2>4 DEF Add, RemoveWaitKey, Goto, SetOrGet, TypeOK
  <2>5. CASE RemoveAddKey(q) \/ Set(q) \/ Get(q)
    BY <2>2, <2>5 DEF RemoveAddKey, Set, Get, Goto, TypeOK
  <2> QED BY <2>1, <2>3, <2>4, <2>5 DEF Step
<1> QED BY <1>1, <1>2

-----------------------------------------------------------------------------
\* The inductive invariant, of which everything below is a consequence.
THEOREM GroupInvariant == Spec => []IInv
<1>1. IInv /\ [Next]_vars => IInv'
  BY TypeInductive, CountsInductive, KeysInductive, PassesInductive,
     NobodyGaveUpInductive DEF IInv
<1> QED BY InitInv, <1>1, PTL DEF Spec

\* The group barrier's state is well typed for any number of ranks.
THEOREM GroupTypeCorrect == Spec => []TypeOK
BY GroupInvariant, PTL DEF IInv

\* A rank passes a barrier only after every rank has called it: all have added
\* to its count.
LEMMA AllAddedAllCame ==
  ASSUME TypeOK, NEW n \in Barriers, Added(n) = Ranks, NEW q \in Ranks
  PROVE  n <= sn[q]
BY DEF Added, TypeOK, Barriers

\* A passed barrier was called by every rank (passed, sn: GroupBarrier's return
\* of SM_OK and barrierGroupSn_).
THEOREM GroupEveryoneCame == Spec => []EveryoneCame
<1>1. IInv => EveryoneCame
  <2> SUFFICES ASSUME IInv, NEW r \in Ranks, NEW q \in Ranks PROVE passed[r] <= sn[q]
    BY DEF EveryoneCame
  <2>1. passed[r] = 0 \/ passed[r] \in Barriers
    BY DEF IInv, TypeOK, Barriers
  <2>2. CASE passed[r] = 0
    BY <2>2 DEF IInv, TypeOK
  <2>3. CASE passed[r] \in Barriers
    BY <2>3, AllAddedAllCame DEF IInv, PassesAreEarned
  <2> QED BY <2>1, <2>2, <2>3
<1> QED BY <1>1, GroupInvariant, PTL

\* As long as no barrier has failed, a key is removed only when every rank has
\* passed its barrier: the rank that removes it has passed a later one, which
\* every rank has called, and an interval of two covers the rank that is in it.
THEOREM GroupNeededKeysStay == Spec => NeededKeysStay
<1>1. IInv /\ [Next]_vars => [gaveUp = {} =>
       \A n \in Barriers :
         \/ n \in waitKey /\ n \notin waitKey'
         \/ addKey[n] # 0 /\ addKey'[n] = 0
         => \A r \in Ranks : passed[r] >= n]_store
  <2> SUFFICES ASSUME IInv, [Next]_vars, gaveUp = {}, NEW n \in Barriers,
                      \/ n \in waitKey /\ n \notin waitKey'
                      \/ addKey[n] # 0 /\ addKey'[n] = 0,
                      NEW r \in Ranks
               PROVE  passed[r] >= n
    OBVIOUS
  <2> USE GroupAssumption
  <2>1. PICK q \in Ranks : /\ RemoveAddKey(q) \/ RemoveWaitKey(q)
                           /\ n = sn[q] - REMOVE_INTERVAL
    BY DEF IInv, TypeOK, Next, vars, store, Step, Call, Add, RemoveAddKey,
           RemoveWaitKey, Set, Get, TimeOut, Cut
  <2>2. passed[q] = sn[q] - 1 /\ sn[q] \in Nat
    BY <2>1 DEF IInv, NobodyGaveUp, TypeOK, RemoveAddKey, RemoveWaitKey
  <2>3. passed[q] \in Barriers /\ passed[q] >= n + 1
    BY <2>1, <2>2 DEF Barriers, IInv, TypeOK
  <2>4. sn[r] >= passed[q]
    BY <2>3, AllAddedAllCame DEF IInv, PassesAreEarned
  <2>5. passed[r] >= sn[r] - 1 /\ sn[r] \in Nat
    BY DEF IInv, NobodyGaveUp, TypeOK
  <2> QED BY <2>3, <2>4, <2>5 DEF IInv, TypeOK, Barriers
<1> QED BY <1>1, GroupInvariant, PTL DEF Spec, NeededKeysStay

\* The group barrier implements the abstract barrier: calling is entering, a GET
\* that finds its key is passing, every other step leaves both alone.
THEOREM GroupImplementsBarrier == Spec => ImplementsBarrier
<1>1. Init => AbstractBarrier!Init
  BY DEF Init, AbstractBarrier!Init
<1>2. IInv /\ [Next]_vars => [AbstractBarrier!Next]_<<sn, passed>>
  <2> SUFFICES ASSUME IInv, [Next]_vars
               PROVE  AbstractBarrier!Next \/ UNCHANGED <<sn, passed>>
    OBVIOUS
  <2>1. CASE UNCHANGED vars
    BY <2>1 DEF vars
  <2>2. CASE Next
    <3> PICK r \in Ranks : Call(r) \/ Step(r) \/ TimeOut(r) \/ Cut(r)
      BY <2>2 DEF Next
    <3>1. CASE Call(r)
      BY <3>1 DEF Call, AbstractBarrier!Next, AbstractBarrier!Enter
    <3>2. CASE Get(r)
      <4>1. sn[r] \in Barriers /\ Added(sn[r]) = Ranks
        BY <3>2 DEF IInv, TypeOK, KeysAreEarned, Get
      <4>2. \A q \in Ranks : sn[q] >= sn[r]
        BY <4>1, AllAddedAllCame DEF IInv, TypeOK, Barriers
      <4>3. AbstractBarrier!Pass(r)
        BY <3>2, <4>2 DEF Get, AbstractBarrier!Pass
      <4> QED BY <4>3 DEF AbstractBarrier!Next
    <3>3. CASE ~Call(r) /\ ~Get(r)
      BY <3>3 DEF Step, Add, RemoveAddKey, RemoveWaitKey, Set, TimeOut, Cut
    <3> QED BY <3>1, <3>2, <3>3
  <2> QED BY <2>1, <2>2
<1> QED BY <1>1, <1>2, GroupInvariant, PTL
    DEF Spec, ImplementsBarrier, AbstractBarrier!Spec

-----------------------------------------------------------------------------
\* Why old keys go.  The rank that reads 1 from a count is the first to add to
\* it, as long as a count is exact until its removal has begun.
CountsAreExact ==
  \A n \in Barriers :
    Added(n + REMOVE_INTERVAL) = {} => addKey[n] = Cardinality(Added(n))

\* Once a barrier has been added to, the keys of the one REMOVE_INTERVAL before
\* it are gone, or a rank is on its way to remove them.
Removing(n, calls) == \E r \in Ranks : sn[r] = n + REMOVE_INTERVAL /\ pc[r] \in calls

OldCountsGo ==
  \A n \in Barriers :
    Added(n + REMOVE_INTERVAL) # {} => addKey[n] = 0 \/ Removing(n, {"removeAdd"})

OldStatusGo ==
  \A n \in Barriers :
    Added(n + REMOVE_INTERVAL) # {} =>
      n \notin waitKey \/ Removing(n, {"removeAdd", "removeWait"})

OldKeysGo == gaveUp = {} => CountsAreExact /\ OldCountsGo /\ OldStatusGo

\* When some rank is an interval ahead of a barrier, every rank is past it.
LEMMA AllArePast ==
  ASSUME IInv, gaveUp = {}, NEW n \in Barriers, Added(n + REMOVE_INTERVAL) # {}, NEW r \in Ranks
  PROVE  sn[r] > n
<1> USE GroupAssumption DEF IInv, TypeOK
<1>1. PICK q \in Ranks : sn[q] >= n + REMOVE_INTERVAL
  BY DEF Added, Barriers
<1>2. passed[q] \in Barriers /\ passed[q] >= n + 1
  <2>1. sn[q] \in Nat /\ passed[q] \in 0..MaxBarriers /\ n \in Nat
    BY DEF Barriers
  <2>2. passed[q] >= sn[q] - 1
    BY <2>1 DEF NobodyGaveUp
  <2> QED BY <1>1, <2>1, <2>2 DEF Barriers
<1>3. sn[r] >= passed[q]
  BY <1>2, AllAddedAllCame DEF PassesAreEarned
<1> QED BY <1>2, <1>3 DEF Barriers

\* Nobody adds to a barrier there is none of.
LEMMA NoneBeyond ==
  ASSUME TypeOK, NEW n \in Barriers, n + REMOVE_INTERVAL \notin Barriers
  PROVE  Added(n + REMOVE_INTERVAL) = {} /\ \A r \in Ranks : sn[r] # n + REMOVE_INTERVAL
BY GroupAssumption DEF Added, TypeOK, Barriers

\* Counts are exact until their removal has begun.
LEMMA CountsStayExact ==
  ASSUME IInv, CountsAreExact, NEW r \in Ranks, Call(r) \/ Step(r)
  PROVE  CountsAreExact'
<1> USE GroupAssumption DEF IInv
<1> SUFFICES ASSUME NEW n \in Barriers, Added(n + REMOVE_INTERVAL)' = {}
             PROVE  addKey'[n] = Cardinality(Added(n)')
  BY DEF CountsAreExact, Added
<1>1. [Next]_vars
  BY DEF Next
<1>2. Added(n + REMOVE_INTERVAL) = {}
  <2>1. CASE n + REMOVE_INTERVAL \in Barriers
    <3> DEFINE m == n + REMOVE_INTERVAL
    <3>1. Added(m) \subseteq Added(m)'
      <4> HIDE DEF m
      <4> QED BY <1>1, <2>1, AddedGrows DEF m
    <3> QED BY <3>1
  <2>2. CASE n + REMOVE_INTERVAL \notin Barriers
    BY <2>2, NoneBeyond
  <2> QED BY <2>1, <2>2
<1>3. addKey[n] = Cardinality(Added(n)) /\ addKey[n] \in Nat
  BY <1>2 DEF CountsAreExact, TypeOK
<1>4. CASE Add(r) /\ sn[r] = n
  <2>1. addKey'[n] = addKey[n] + 1
    BY <1>4 DEF Add, TypeOK
  <2>2. r \notin Added(n) /\ Added(n)' = Added(n) \cup {r}
    BY <1>4, AddAdds
  <2>3. IsFiniteSet(Added(n))
    BY FS_Subset DEF Added
  <2> QED BY <1>3, <2>1, <2>2, <2>3, FS_AddElement
<1>5. CASE RemoveAddKey(r)
  <2>1. sn[r] # n + REMOVE_INTERVAL
    BY <1>2, <1>5 DEF RemoveAddKey, Added
  <2>2. addKey'[n] = addKey[n]
    <3>1. sn[r] \in Nat /\ n \in Nat
      BY DEF TypeOK, Barriers
    <3>2. sn[r] - REMOVE_INTERVAL # n
      BY <2>1, <3>1
    <3> QED BY <1>5, <3>2 DEF RemoveAddKey, TypeOK
  <2>3. Added(n)' = Added(n)
    BY <1>5, OthersAddNothing
  <2> QED BY <1>3, <2>2, <2>3
<1>6. CASE ~RemoveAddKey(r) /\ ~(Add(r) /\ sn[r] = n)
  <2>1. addKey'[n] = addKey[n]
    BY <1>6 DEF Step, Call, Add, RemoveWaitKey, Set, Get, TypeOK, store
  <2>2. Added(n)' = Added(n)
    BY <1>6, AddAdds, OthersAddNothing DEF Step
  <2> QED BY <1>3, <2>1, <2>2
<1> QED BY <1>4, <1>5, <1>6

\* The first rank that adds to a barrier goes to remove the old keys.
LEMMA FirstRemoves ==
  ASSUME IInv, gaveUp = {}, CountsAreExact, NEW r \in Ranks, Add(r),
         NEW n \in Barriers, sn[r] = n + REMOVE_INTERVAL, Added(sn[r]) = {}
  PROVE  Removing(n, {"removeAdd"})' /\ Removing(n, {"removeAdd", "removeWait"})'
<1> USE GroupAssumption DEF IInv, TypeOK
<1> DEFINE m == sn[r]
<1>1. m \in Barriers
  BY DEF Add, Barriers
<1>2. Added(m + REMOVE_INTERVAL) = {}
  BY <1>1, AllArePast
<1>3. addKey[m] = 0
  BY <1>1, <1>2, FS_EmptySet DEF CountsAreExact
<1>4. addKey'[m] = 1 /\ m > REMOVE_INTERVAL
  BY <1>1, <1>3 DEF Add, Barriers
<1>5. pc'[r] = "removeAdd" /\ sn'[r] = n + REMOVE_INTERVAL
  BY <1>4 DEF Add, Goto
<1> QED BY <1>5 DEF Removing

\* Whoever is removing keys goes on unless it is its own step.
LEMMA RemovingStays ==
  ASSUME TypeOK, NEW r \in Ranks, Call(r) \/ Step(r), NEW n \in Barriers,
         NEW calls, Removing(n, calls), ~(sn[r] = n + REMOVE_INTERVAL /\ pc[r] \in calls)
  PROVE  Removing(n, calls)'
<1>1. PICK q \in Ranks : q # r /\ sn[q] = n + REMOVE_INTERVAL /\ pc[q] \in calls
  BY DEF Removing
<1>2. sn'[q] = sn[q] /\ pc'[q] = pc[q]
  BY <1>1 DEF Call, Step, Add, RemoveAddKey, RemoveWaitKey, Set, Get, Goto, TypeOK
<1> QED BY <1>1, <1>2 DEF Removing

\* A step that adds to no barrier, or to one that was added to before, leaves
\* the old keys gone: nobody adds to an old count or sets an old status.
LEMMA OldKeysStayGone ==
  ASSUME IInv, gaveUp = {}, OldCountsGo, OldStatusGo, NEW r \in Ranks, Call(r) \/ Step(r),
         NEW n \in Barriers, Added(n + REMOVE_INTERVAL) # {}
  PROVE  /\ addKey'[n] = 0 \/ Removing(n, {"removeAdd"})'
         /\ n \notin waitKey' \/ Removing(n, {"removeAdd", "removeWait"})'
<1> USE GroupAssumption DEF IInv
<1>1. sn[r] > n
  BY AllArePast
<1>2. /\ addKey[n] = 0 \/ Removing(n, {"removeAdd"})
      /\ n \notin waitKey \/ Removing(n, {"removeAdd", "removeWait"})
  BY DEF OldCountsGo, OldStatusGo
<1>3. CASE RemoveAddKey(r) /\ sn[r] = n + REMOVE_INTERVAL
  <2>1. addKey'[n] = 0
    BY <1>3 DEF RemoveAddKey, TypeOK, Barriers
  <2>2. pc'[r] = "removeWait" /\ sn'[r] = n + REMOVE_INTERVAL
    BY <1>3 DEF RemoveAddKey, Goto, TypeOK
  <2> QED BY <2>1, <2>2 DEF Removing
<1>4. CASE RemoveWaitKey(r) /\ sn[r] = n + REMOVE_INTERVAL
  <2>1. n \notin waitKey' /\ addKey' = addKey
    BY <1>4 DEF RemoveWaitKey, TypeOK, Barriers
  <2>2. pc[r] # "removeAdd"
    BY <1>4 DEF RemoveWaitKey
  <2> QED BY <1>2, <2>1, <2>2, RemovingStays
<1>5. CASE ~((RemoveAddKey(r) \/ RemoveWaitKey(r)) /\ sn[r] = n + REMOVE_INTERVAL)
  <2>1. addKey[n] = 0 => addKey'[n] = 0
    BY <1>1, <1>5 DEF Call, Step, Add, RemoveAddKey, RemoveWaitKey, Set, Get, TypeOK, store
  <2>2. n \notin waitKey => n \notin waitKey'
    BY <1>1 DEF Call, Step, Add, RemoveAddKey, RemoveWaitKey, Set, Get, TypeOK, store, Barriers
  <2>3. ~(sn[r] = n + REMOVE_INTERVAL /\ pc[r] \in {"removeAdd", "removeWait"})
    BY <1>5 DEF Call, Step, Add, RemoveAddKey, RemoveWaitKey, Set, Get
  <2> QED BY <1>2, <2>1, <2>2, <2>3, RemovingStays
<1> QED BY <1>3, <1>4, <1>5

\* Old keys go, as long as no barrier fails.
LEMMA OldKeysInductive ==
  ASSUME IInv, OldKeysGo, [Next]_vars
  PROVE  OldKeysGo'
<1> USE GroupAssumption
<1> SUFFICES ASSUME gaveUp' = {} PROVE CountsAreExact' /\ OldCountsGo' /\ OldStatusGo'
  BY DEF OldKeysGo
<1>1. CASE UNCHANGED vars
  BY <1>1 DEF vars, store, OldKeysGo, CountsAreExact, OldCountsGo, OldStatusGo, Added, Removing
<1>2. CASE Next
  <2> PICK r \in Ranks : Call(r) \/ Step(r) \/ TimeOut(r) \/ Cut(r)
    BY <1>2 DEF Next
  <2>1. gaveUp = {} /\ (Call(r) \/ Step(r))
    BY DEF Step, Call, Add, RemoveAddKey, RemoveWaitKey, Set, Get, TimeOut, Cut
  <2>2. CountsAreExact /\ OldCountsGo /\ OldStatusGo
    BY <2>1 DEF OldKeysGo
  <2>3. ASSUME NEW n \in Barriers, Added(n + REMOVE_INTERVAL)' # {}
        PROVE  /\ addKey'[n] = 0 \/ Removing(n, {"removeAdd"})'
               /\ n \notin waitKey' \/ Removing(n, {"removeAdd", "removeWait"})'
    <3> DEFINE m == n + REMOVE_INTERVAL
    <3>1. CASE Added(m) # {}
      BY <2>1, <2>2, <3>1, OldKeysStayGone
    <3>2. CASE Added(m) = {}
      <4>1. m \in Barriers
        <5>1. TypeOK'
          BY TypeInductive DEF IInv
        <5>2. \A q \in Ranks : sn'[q] <= MaxBarriers /\ sn'[q] \in Nat
          BY <5>1 DEF TypeOK
        <5>3. \E q \in Ranks : sn'[q] >= m
          BY <2>3, <5>2 DEF Added, Barriers
        <5> QED BY <5>2, <5>3 DEF Barriers
      <4> HIDE DEF m
      <4>2. Added(m)' # {}
        BY <2>3 DEF m
      <4>3. Add(r) /\ sn[r] = m
        BY <2>1, <3>2, <4>1, <4>2, AddAdds, OthersAddNothing DEF IInv, Step
      <4> QED BY <2>1, <2>2, <3>2, <4>3, FirstRemoves DEF m
    <3> QED BY <3>1, <3>2
  <2>4. OldCountsGo' /\ OldStatusGo'
    BY <2>3 DEF OldCountsGo, OldStatusGo, Added, Removing
  <2> QED BY <2>1, <2>2, <2>4, CountsStayExact
<1> QED BY <1>1, <1>2

\* The keys of a barrier are gone once all ranks have passed the one
\* REMOVE_INTERVAL after it, unless a barrier has failed: who was to remove them
\* did so before it passed (the ADD that returns 1, and the two REMOVEs).
THEOREM GroupOldKeysGone == Spec => []OldKeysGone
<1> USE GroupAssumption
<1>1. Init => OldKeysGo
  <2> SUFFICES ASSUME Init PROVE CountsAreExact /\ OldCountsGo /\ OldStatusGo
    BY DEF OldKeysGo
  <2>1. \A n \in Barriers : Added(n) = {} /\ Added(n + REMOVE_INTERVAL) = {} /\ addKey[n] = 0
    BY DEF Init, Added, Barriers
  <2> QED BY <2>1, FS_EmptySet DEF CountsAreExact, OldCountsGo, OldStatusGo
<1>2. Spec => [](Ranks = {} => waitKey = {})
  <2>1. Init => (Ranks = {} => waitKey = {})
    BY DEF Init
  <2>2. (Ranks = {} => waitKey = {}) /\ [Next]_vars => (Ranks = {} => waitKey = {})'
    BY DEF Next, vars, store
  <2> QED BY <2>1, <2>2, PTL DEF Spec
<1>3. IInv /\ OldKeysGo /\ (Ranks = {} => waitKey = {}) => OldKeysGone
  <2> SUFFICES ASSUME IInv, OldKeysGo, Ranks = {} => waitKey = {}, gaveUp = {}, NEW n \in Barriers,
                      \A r \in Ranks : n + REMOVE_INTERVAL <= passed[r]
               PROVE  addKey[n] = 0 /\ n \notin waitKey
    BY DEF OldKeysGone
  <2> DEFINE m == n + REMOVE_INTERVAL
  <2>1. CASE Ranks = {}
    <3>1. Added(n) = {} /\ Added(m) = {}
      BY <2>1 DEF Added
    <3> QED BY <2>1, <3>1, FS_EmptySet DEF OldKeysGo, CountsAreExact
  <2>2. CASE Ranks # {}
    <3>1. \A r \in Ranks : /\ sn[r] \in 0..MaxBarriers /\ passed[r] \in 0..MaxBarriers
                           /\ passed[r] = IF pc[r] = "idle" THEN sn[r] ELSE sn[r] - 1
      BY DEF IInv, TypeOK, NobodyGaveUp
    <3>2. n \in Nat /\ m \in Nat /\ \A r \in Ranks : m <= passed[r]
      BY DEF Barriers
    \* A rank whose barrier is m is done with it.
    <3>3. \A r \in Ranks : sn[r] = m => pc[r] = "idle"
      BY <3>1, <3>2
    <3>4. \A r \in Ranks : sn[r] > m \/ (sn[r] = m /\ pc[r] # "add")
      BY <3>1, <3>2
    <3> HIDE DEF m
    <3>5. Added(m) # {}
      BY <2>2, <3>4 DEF Added
    <3> QED BY <3>3, <3>5 DEF m, OldKeysGo, OldCountsGo, OldStatusGo, Removing
  <2> QED BY <2>1, <2>2
<1> QED BY <1>1, <1>2, <1>3, OldKeysInductive, GroupInvariant, PTL DEF Spec

-----------------------------------------------------------------------------
(* The gather, as an instance of its own: its store, ranks and counters have *)
(* nothing to do with those of the barrier.                                  *)
CONSTANT MaxGathers

VARIABLES dataKeys,   \* waitKey of the gather
          gatherCut   \* cut

Gather == INSTANCE GroupAllGather WITH waitKey <- dataKeys, cut <- gatherCut

\* Both modules count with the operator of FiniteSets.
LEMMA SameCardinality == \A S : Gather!Cardinality(S) = Cardinality(S)
BY DEF Cardinality, Gather!Cardinality

\* The ranks that have put their input into gather n.
GatherAdded(n) == {r \in Gather!Ranks : allGatherGroupSn[r] > n \/ (allGatherGroupSn[r] = n /\ nextCall[r] # "append")}

\* The value of a key has units of its gather, of ranks that called it, each once.
UnitsAreOfTheGather ==
  \A n \in Gather!Gathers : \A i \in DOMAIN values[n] :
    \E q \in GatherAdded(n) : values[n][i] = Gather!Unit(q, n)

NoUnitTwice ==
  \A n \in Gather!Gathers : \A i, j \in DOMAIN values[n] :
    values[n][i] = values[n][j] => i = j

\* Whoever sets the key of a gather, every key that is set and whoever has found
\* one stand for all ranks having put their input.
GatherKeysAreEarned ==
  /\ \A r \in Gather!Ranks : nextCall[r] \in {"set", "getData"} => GatherAdded(allGatherGroupSn[r]) = Gather!Ranks
  /\ \A n \in dataKeys : GatherAdded(n) = Gather!Ranks

GatherPassesAreEarned ==
  \A r \in Gather!Ranks :
    /\ gathered[r] <= allGatherGroupSn[r]
    /\ gathered[r] \in Gather!Gathers => GatherAdded(gathered[r]) = Gather!Ranks

\* Before any gather has failed, a rank has passed every gather it called but the
\* one it is in,
GatherNobodyGaveUp ==
  failed = {} =>
    \A r \in Gather!Ranks : gathered[r] = IF nextCall[r] = "idle" THEN allGatherGroupSn[r] ELSE allGatherGroupSn[r] - 1

\* and a value that somebody has yet to read has the input of all who put theirs.
ValuesStay ==
  failed = {} =>
    \A n \in Gather!Gathers :
      (\E r \in Gather!Ranks : gathered[r] < n) => Len(values[n]) = Cardinality(GatherAdded(n))

GatherIInv ==
  /\ Gather!TypeOK /\ UnitsAreOfTheGather /\ NoUnitTwice /\ GatherKeysAreEarned
  /\ GatherPassesAreEarned /\ GatherNobodyGaveUp /\ ValuesStay /\ EveryonesData

-----------------------------------------------------------------------------
\* As many units as ranks, each another, are the units of all ranks.
LEMMA WholeHasAll ==
  ASSUME Gather!GatherAssumption, NEW n \in Gather!Gathers, NEW out,
         DOMAIN out = 1..rankSize,
         \A i \in DOMAIN out : \E q \in Gather!Ranks : out[i] = Gather!Unit(q, n),
         \A i, j \in DOMAIN out : out[i] = out[j] => i = j,
         NEW q \in Gather!Ranks
  PROVE  \E i \in DOMAIN out : out[i] = Gather!Unit(q, n)
<1> USE DEF Gather!GatherAssumption
<1> DEFINE f == [i \in 1..rankSize |-> out[i].rank]
<1>1. \A i \in 1..rankSize : f[i] \in Gather!Ranks /\ out[i] = Gather!Unit(f[i], n)
  BY DEF Gather!Unit
<1>2. f \in [1..rankSize -> Gather!Ranks]
  BY <1>1
<1>3. f \in Injection(1..rankSize, Gather!Ranks)
  BY <1>1, <1>2 DEF Injection, IsInjective
<1>4. IsFiniteSet(Gather!Ranks) /\ Cardinality(Gather!Ranks) = Cardinality(1..rankSize)
  BY FS_Interval DEF Gather!Ranks
<1>5. f \in Surjection(1..rankSize, Gather!Ranks)
  BY <1>3, <1>4, FS_Injection
<1>6. PICK i \in 1..rankSize : f[i] = q
  BY <1>2, <1>5 DEF Surjection
<1> QED BY <1>1, <1>6

\* Among units of all ranks, that of rank k has place k + 1.
LEMMA PlaceIsRank ==
  ASSUME Gather!GatherAssumption, NEW n \in Gather!Gathers, NEW out,
         DOMAIN out = 1..rankSize,
         \A i \in DOMAIN out : \E q \in Gather!Ranks : out[i] = Gather!Unit(q, n),
         \A i, j \in DOMAIN out : out[i] = out[j] => i = j,
         NEW i \in DOMAIN out
  PROVE  Gather!Place(out, i) = out[i].rank + 1
<1> USE DEF Gather!GatherAssumption
<1> DEFINE S == {j \in DOMAIN out :
                   \/ out[j].rank < out[i].rank
                   \/ out[j].rank = out[i].rank /\ j <= i}
           T == 0..out[i].rank
           g == [j \in S |-> out[j].rank]
<1>1. \A j \in DOMAIN out : out[j].rank \in Gather!Ranks /\ out[j] = Gather!Unit(out[j].rank, n)
  BY DEF Gather!Unit
<1>2. \A j \in S : out[j].rank \in T
  BY <1>1 DEF Gather!Ranks
<1>3. g \in [S -> T]
  BY <1>2
<1>4. \A j, k \in S : g[j] = g[k] => j = k
  BY <1>1
<1>5. \A k \in T : \E j \in S : g[j] = k
  <2> SUFFICES ASSUME NEW k \in T PROVE \E j \in S : g[j] = k
    OBVIOUS
  <2>1. k \in Gather!Ranks
    BY <1>1 DEF Gather!Ranks
  <2>2. PICK j \in DOMAIN out : out[j] = Gather!Unit(k, n)
    BY <2>1, WholeHasAll
  <2>3. out[j].rank = k
    BY <2>2 DEF Gather!Unit
  <2>4. j \in S
    <3>1. CASE k = out[i].rank
      BY <1>1, <2>2, <2>3, <3>1
    <3>2. CASE k # out[i].rank
      <4>1. out[i].rank \in Nat
        BY <1>1 DEF Gather!Ranks
      <4>2. k < out[i].rank
        BY <3>2, <4>1
      <4> QED BY <2>3, <4>2
    <3> QED BY <3>1, <3>2
  <2> QED BY <2>3, <2>4
<1>6. g \in Bijection(S, T)
  BY <1>3, <1>4, <1>5 DEF Bijection, Injection, Surjection, IsInjective
<1>7. IsFiniteSet(DOMAIN out) /\ IsFiniteSet(S)
  <2>1. rankSize \in Int
    OBVIOUS
  <2>2. IsFiniteSet(1..rankSize)
    BY <2>1, FS_Interval
  <2> QED BY <2>2, FS_Subset
<1>8. Cardinality(T) = Cardinality(S)
  BY <1>6, <1>7, FS_Bijection DEF ExistsBijection
<1>9. Cardinality(T) = out[i].rank + 1
  <2>1. out[i].rank \in Nat
    BY <1>1 DEF Gather!Ranks
  <2>2. \A m \in Nat : Cardinality(0..m) = m + 1
    BY FS_Interval
  <2> QED BY <2>1, <2>2
<1>10. Gather!Place(out, i) = Cardinality(S)
  BY SameCardinality DEF Gather!Place
<1> HIDE DEF S, T
<1> QED BY <1>8, <1>9, <1>10

\* Sorting the units of all ranks yields their data in rank order.
LEMMA SortedIsEveryones ==
  ASSUME Gather!GatherAssumption, NEW n \in Gather!Gathers, NEW out,
         DOMAIN out = 1..rankSize,
         \A i \in DOMAIN out : \E q \in Gather!Ranks : out[i] = Gather!Unit(q, n),
         \A i, j \in DOMAIN out : out[i] = out[j] => i = j
  PROVE  Gather!SortGatherRecv(out) = [k \in 1..rankSize |-> <<k - 1, n>>]
<1> USE DEF Gather!GatherAssumption
<1> SUFFICES ASSUME NEW k \in 1..rankSize
             PROVE  out[CHOOSE i \in DOMAIN out : Gather!Place(out, i) = k].data = <<k - 1, n>>
  BY DEF Gather!SortGatherRecv
<1>1. \A i \in DOMAIN out : Gather!Place(out, i) = out[i].rank + 1
  BY PlaceIsRank
<1>2. k - 1 \in Gather!Ranks
  BY DEF Gather!Ranks
<1>3. PICK i \in DOMAIN out : out[i] = Gather!Unit(k - 1, n)
  BY <1>2, WholeHasAll
<1>4. Gather!Place(out, i) = k
  BY <1>1, <1>3 DEF Gather!Unit
<1> DEFINE c == CHOOSE j \in DOMAIN out : Gather!Place(out, j) = k
<1>5. c \in DOMAIN out /\ Gather!Place(out, c) = k
  BY <1>4
<1>6. PICK q \in Gather!Ranks : out[c] = Gather!Unit(q, n)
  BY <1>5
<1>7. out[c].rank = q /\ out[c].data = <<q, n>>
  BY <1>6 DEF Gather!Unit
<1>8. q + 1 = k
  BY <1>1, <1>5, <1>7
<1> QED BY <1>7, <1>8 DEF Gather!Ranks

-----------------------------------------------------------------------------
\* Nobody has called a gather at first.
LEMMA GatherInitInv ==
  ASSUME Gather!GatherAssumption
  PROVE  Gather!Init => GatherIInv
<1> SUFFICES ASSUME Gather!Init PROVE GatherIInv
  OBVIOUS
<1> USE DEF Gather!GatherAssumption
<1>1. Gather!TypeOK
  BY DEF Gather!Init, Gather!TypeOK, Gather!Gathers
<1>2. UnitsAreOfTheGather /\ NoUnitTwice /\ GatherKeysAreEarned /\ GatherPassesAreEarned
  BY DEF Gather!Init, UnitsAreOfTheGather, NoUnitTwice, GatherKeysAreEarned, GatherPassesAreEarned,
       Gather!Gathers
<1>3. ValuesStay
  <2> SUFFICES ASSUME NEW n \in Gather!Gathers PROVE Len(values[n]) = Cardinality(GatherAdded(n))
    BY DEF ValuesStay
  <2>1. GatherAdded(n) = {}
    BY DEF Gather!Init, GatherAdded, Gather!Gathers
  <2> QED BY <2>1, FS_EmptySet DEF Gather!Init
<1>4. GatherNobodyGaveUp /\ EveryonesData
  BY DEF Gather!Init, Gather!Ranks, GatherNobodyGaveUp, EveryonesData
<1> QED BY <1>1, <1>2, <1>3, <1>4 DEF GatherIInv

\* A rank's APPEND makes it, and only it, one of those that put their input in.
LEMMA AppendAdds ==
  ASSUME Gather!TypeOK, NEW r \in Gather!Ranks, Gather!AppendInput(r), NEW n \in Gather!Gathers
  PROVE  /\ n = allGatherGroupSn[r] => r \notin GatherAdded(n) /\ GatherAdded(n)' = GatherAdded(n) \cup {r}
         /\ n # allGatherGroupSn[r] => GatherAdded(n)' = GatherAdded(n)
<1>1. \A q \in Gather!Ranks \ {r} : q \in GatherAdded(n)' <=> q \in GatherAdded(n)
  BY DEF Gather!TypeOK, Gather!AppendInput, Gather!Goto, GatherAdded
<1>2. nextCall[r] = "append" /\ nextCall'[r] # "append" /\ allGatherGroupSn' = allGatherGroupSn
  BY DEF Gather!TypeOK, Gather!AppendInput, Gather!Goto, Gather!SetOrGet
<1>3. n = allGatherGroupSn[r] => r \notin GatherAdded(n) /\ r \in GatherAdded(n)'
  BY <1>2 DEF Gather!TypeOK, GatherAdded
<1>4. n # allGatherGroupSn[r] => (r \in GatherAdded(n)' <=> r \in GatherAdded(n))
  BY <1>2 DEF GatherAdded
<1>5. GatherAdded(n) \subseteq Gather!Ranks /\ GatherAdded(n)' \subseteq Gather!Ranks
  BY DEF GatherAdded
<1> QED BY <1>1, <1>3, <1>4, <1>5

\* No other step changes who has.
LEMMA GatherOthersAddNothing ==
  ASSUME Gather!TypeOK, NEW r \in Gather!Ranks,
         \/ Gather!Call(r) \/ Gather!RemoveAddKey(r) \/ Gather!RemoveWaitKey(r)
         \/ Gather!Set(r) \/ Gather!Get(r) \/ Gather!GetData(r) \/ Gather!TimeOut(r),
         NEW n \in Gather!Gathers
  PROVE  GatherAdded(n)' = GatherAdded(n)
<1>1. \A q \in Gather!Ranks \ {r} : q \in GatherAdded(n)' <=> q \in GatherAdded(n)
  BY DEF Gather!TypeOK, Gather!Call, Gather!RemoveAddKey, Gather!RemoveWaitKey, Gather!Set,
       Gather!Get, Gather!GetData, Gather!TimeOut, Gather!Goto, GatherAdded
<1>2. CASE Gather!Call(r)
  BY <1>1, <1>2 DEF Gather!TypeOK, Gather!Call, Gather!Goto, GatherAdded, Gather!Gathers
<1>3. CASE ~Gather!Call(r)
  BY <1>1, <1>3 DEF Gather!TypeOK, Gather!RemoveAddKey, Gather!RemoveWaitKey, Gather!Set,
       Gather!Get, Gather!GetData, Gather!TimeOut,
       Gather!Goto, GatherAdded, Gather!SetOrGet
<1> QED BY <1>2, <1>3

\* A rank that is cut off in its APPEND counts as having put its input, which is
\* as good as if it had: it stays cut off.
LEMMA GatherCutOnlyAdds ==
  ASSUME Gather!TypeOK, NEW r \in Gather!Ranks, Gather!Cut(r), NEW n \in Gather!Gathers
  PROVE  GatherAdded(n) \subseteq GatherAdded(n)'
BY DEF Gather!TypeOK, Gather!Cut, Gather!Goto, GatherAdded

\* Those who have put their input stay so, whatever step is taken.
LEMMA GatherAddedGrows ==
  ASSUME Gather!TypeOK, [Gather!Next]_Gather!vars, NEW n \in Gather!Gathers
  PROVE  GatherAdded(n) \subseteq GatherAdded(n)'
<1>1. CASE UNCHANGED Gather!vars
  BY <1>1 DEF Gather!vars, GatherAdded
<1>2. CASE Gather!Next
  <2> PICK r \in Gather!Ranks : Gather!Call(r) \/ Gather!Step(r) \/ Gather!TimeOut(r) \/ Gather!Cut(r)
    BY <1>2 DEF Gather!Next
  <2>1. CASE Gather!AppendInput(r)
    BY <2>1, AppendAdds
  <2>2. CASE Gather!Cut(r)
    BY <2>2, GatherCutOnlyAdds
  <2>3. CASE ~Gather!AppendInput(r) /\ ~Gather!Cut(r)
    BY <2>3, GatherOthersAddNothing DEF Gather!Step
  <2> QED BY <2>1, <2>2, <2>3
<1> QED BY <1>1, <1>2

\* Every step keeps the types.
LEMMA GatherTypeInductive ==
  ASSUME Gather!GatherAssumption, Gather!TypeOK, [Gather!Next]_Gather!vars
  PROVE  Gather!TypeOK'
<1> USE DEF Gather!GatherAssumption, Gather!TypeOK, Gather!Gathers
<1>1. CASE UNCHANGED Gather!vars
  BY <1>1 DEF Gather!vars, Gather!store
<1>2. CASE Gather!Next
  <2> PICK r \in Gather!Ranks : Gather!Call(r) \/ Gather!Step(r) \/ Gather!TimeOut(r) \/ Gather!Cut(r)
    BY <1>2 DEF Gather!Next
  <2>1. CASE Gather!Call(r)
    BY <2>1 DEF Gather!Call, Gather!Goto, Gather!store
  <2>2. CASE Gather!AppendInput(r)
    <3>1. allGatherGroupSn[r] \in Gather!Gathers /\ Gather!Unit(r, allGatherGroupSn[r]) \in Gather!Units
      BY <2>2 DEF Gather!AppendInput, Gather!Units
    <3>2. values' \in [Gather!Gathers -> Seq(Gather!Units)]
      BY <2>2, <3>1 DEF Gather!AppendInput
    <3> QED BY <2>2, <3>2 DEF Gather!AppendInput, Gather!Goto, Gather!SetOrGet
  <2>3. CASE Gather!RemoveAddKey(r)
    BY <2>3 DEF Gather!RemoveAddKey, Gather!Goto
  <2>4. CASE Gather!RemoveWaitKey(r)
    BY <2>4 DEF Gather!RemoveWaitKey, Gather!Goto, Gather!SetOrGet
  <2>5. CASE Gather!Set(r)
    <3>1. allGatherGroupSn[r] \in Gather!Gathers
      BY <2>5 DEF Gather!Set
    <3>2. dataKeys' \subseteq Gather!Gathers
      BY <2>5, <3>1 DEF Gather!Set
    <3> QED BY <2>5, <3>2 DEF Gather!Set, Gather!Goto
  <2>6. CASE Gather!GetData(r)
    <3>1. DOMAIN recvBuf' = Gather!Ranks
      BY <2>6 DEF Gather!GetData
    <3> QED BY <2>6, <3>1 DEF Gather!GetData, Gather!Goto, Gather!store
  <2>7. CASE Gather!Get(r) \/ Gather!TimeOut(r) \/ Gather!Cut(r)
    BY <2>7 DEF Gather!Get, Gather!TimeOut, Gather!Cut, Gather!Goto, Gather!store
  <2> QED BY <2>1, <2>2, <2>3, <2>4, <2>5, <2>6, <2>7 DEF Gather!Step
<1> QED BY <1>1, <1>2

-----------------------------------------------------------------------------
\* The value of a key is what it was, or has become nothing, or has the unit of a
\* rank that just appended at its end.
LEMMA ValueSteps ==
  ASSUME Gather!TypeOK, [Gather!Next]_Gather!vars, NEW n \in Gather!Gathers
  PROVE  \/ values'[n] = values[n]
         \/ values'[n] = <<>> /\ \E r \in Gather!Ranks : Gather!RemoveAddKey(r) /\ n = allGatherGroupSn[r] - REMOVE_INTERVAL
         \/ \E r \in Gather!Ranks : /\ Gather!AppendInput(r) /\ allGatherGroupSn[r] = n
                             /\ values'[n] = Append(values[n], Gather!Unit(r, n))
<1>1. CASE UNCHANGED Gather!vars
  BY <1>1 DEF Gather!vars, Gather!store
<1>2. CASE Gather!Next
  <2> PICK r \in Gather!Ranks : Gather!Call(r) \/ Gather!Step(r) \/ Gather!TimeOut(r) \/ Gather!Cut(r)
    BY <1>2 DEF Gather!Next
  <2>1. CASE Gather!AppendInput(r)
    BY <2>1 DEF Gather!AppendInput, Gather!TypeOK
  <2>2. CASE Gather!RemoveAddKey(r)
    BY <2>2 DEF Gather!RemoveAddKey, Gather!TypeOK
  <2>3. CASE ~Gather!AppendInput(r) /\ ~Gather!RemoveAddKey(r)
    BY <2>3 DEF Gather!Step, Gather!Call, Gather!RemoveWaitKey, Gather!Set, Gather!Get,
         Gather!GetData, Gather!TimeOut, Gather!Cut, Gather!store
  <2> QED BY <2>1, <2>2, <2>3
<1> QED BY <1>1, <1>2

\* The units of a value stay those of its gather, of ranks that called it.
LEMMA UnitsInductive ==
  ASSUME Gather!TypeOK, UnitsAreOfTheGather, [Gather!Next]_Gather!vars
  PROVE  UnitsAreOfTheGather'
<1> SUFFICES ASSUME NEW n \in Gather!Gathers, NEW i \in DOMAIN values'[n]
             PROVE  \E q \in GatherAdded(n)' : values'[n][i] = Gather!Unit(q, n)
  BY DEF UnitsAreOfTheGather, Gather!Unit
<1>1. GatherAdded(n) \subseteq GatherAdded(n)'
  BY GatherAddedGrows
<1>2. CASE values'[n] = values[n]
  <2>1. PICK q \in GatherAdded(n) : values[n][i] = Gather!Unit(q, n)
    BY <1>2 DEF UnitsAreOfTheGather
  <2> QED BY <1>1, <1>2, <2>1
<1>3. CASE values'[n] = <<>>
  BY <1>3
<1>4. ASSUME NEW r \in Gather!Ranks, Gather!AppendInput(r), allGatherGroupSn[r] = n,
             values'[n] = Append(values[n], Gather!Unit(r, n))
      PROVE  \E q \in GatherAdded(n)' : values'[n][i] = Gather!Unit(q, n)
  <2>1. r \in GatherAdded(n)'
    BY <1>4, AppendAdds
  <2>2. values[n] \in Seq(Gather!Units)
    BY DEF Gather!TypeOK
  <2>3. CASE i = Len(values[n]) + 1
    BY <1>4, <2>1, <2>2, <2>3
  <2>4. CASE i # Len(values[n]) + 1
    <3>1. i \in DOMAIN values[n] /\ values'[n][i] = values[n][i]
      BY <1>4, <2>2, <2>4
    <3>2. PICK q \in GatherAdded(n) : values[n][i] = Gather!Unit(q, n)
      BY <3>1 DEF UnitsAreOfTheGather
    <3> QED BY <1>1, <3>1, <3>2
  <2> QED BY <2>3, <2>4
<1> QED BY <1>2, <1>3, <1>4, ValueSteps

\* Each stays there once: who appends had not done so.
LEMMA NoTwiceInductive ==
  ASSUME Gather!TypeOK, UnitsAreOfTheGather, NoUnitTwice, [Gather!Next]_Gather!vars
  PROVE  NoUnitTwice'
<1> SUFFICES ASSUME NEW n \in Gather!Gathers, NEW i \in DOMAIN values'[n],
                    NEW j \in DOMAIN values'[n], values'[n][i] = values'[n][j]
             PROVE  i = j
  BY DEF NoUnitTwice
<1>1. CASE values'[n] = values[n] \/ values'[n] = <<>>
  BY <1>1 DEF NoUnitTwice
<1>2. ASSUME NEW r \in Gather!Ranks, Gather!AppendInput(r), allGatherGroupSn[r] = n,
             values'[n] = Append(values[n], Gather!Unit(r, n))
      PROVE  i = j
  <2> DEFINE old == values[n]
  <2>1. old \in Seq(Gather!Units)
    BY DEF Gather!TypeOK
  <2>2. \A k \in DOMAIN old : old[k] # Gather!Unit(r, n)
    <3> SUFFICES ASSUME NEW k \in DOMAIN old, old[k] = Gather!Unit(r, n) PROVE FALSE
      OBVIOUS
    <3>1. PICK q \in GatherAdded(n) : old[k] = Gather!Unit(q, n)
      BY DEF UnitsAreOfTheGather
    <3>2. q = r
      BY <3>1 DEF Gather!Unit
    <3> QED BY <1>2, <3>2, AppendAdds
  <2>3. \A k \in DOMAIN values'[n] :
          \/ k \in DOMAIN old /\ values'[n][k] = old[k]
          \/ k = Len(old) + 1 /\ values'[n][k] = Gather!Unit(r, n)
    BY <1>2, <2>1
  <2> QED BY <2>2, <2>3 DEF NoUnitTwice
<1> QED BY <1>1, <1>2, ValueSteps

\* A value of as many units as ranks stands for all of them.
WholesAreAll == \A n \in Gather!Gathers : Len(values[n]) = rankSize => GatherAdded(n) = Gather!Ranks

\* It does by its units alone: they are of as many different ranks.
LEMMA WholeIsAll ==
  ASSUME Gather!GatherAssumption
  PROVE  Gather!TypeOK /\ UnitsAreOfTheGather /\ NoUnitTwice => WholesAreAll
<1> SUFFICES ASSUME Gather!TypeOK, UnitsAreOfTheGather, NoUnitTwice,
                    NEW n \in Gather!Gathers, Len(values[n]) = rankSize
             PROVE  GatherAdded(n) = Gather!Ranks
  BY DEF WholesAreAll
<1>1. values[n] \in Seq(Gather!Units) /\ DOMAIN values[n] = 1..rankSize
  BY DEF Gather!TypeOK
<1>2. \A i \in DOMAIN values[n] : \E q \in Gather!Ranks : values[n][i] = Gather!Unit(q, n)
  BY DEF UnitsAreOfTheGather, GatherAdded
<1>3. \A i, j \in DOMAIN values[n] : values[n][i] = values[n][j] => i = j
  BY DEF NoUnitTwice
<1>4. ASSUME NEW q \in Gather!Ranks PROVE q \in GatherAdded(n)
  <2>1. PICK i \in DOMAIN values[n] : values[n][i] = Gather!Unit(q, n)
    BY <1>1, <1>2, <1>3, WholeHasAll
  <2>2. PICK p \in GatherAdded(n) : values[n][i] = Gather!Unit(p, n)
    BY DEF UnitsAreOfTheGather
  <2> QED BY <2>1, <2>2 DEF Gather!Unit
<1> QED BY <1>4 DEF GatherAdded

\* A rank that is about to set a key was so before, or has just made the value
\* whole; one that reads the value was so before, or has found the key.
LEMMA WaitsAreEarned ==
  ASSUME Gather!TypeOK, [Gather!Next]_Gather!vars, NEW r \in Gather!Ranks,
         nextCall'[r] \in {"set", "getData"}
  PROVE  /\ allGatherGroupSn'[r] = allGatherGroupSn[r] /\ allGatherGroupSn[r] \in Gather!Gathers
         /\ \/ nextCall[r] \in {"set", "getData"}
            \/ Gather!AppendInput(r) /\ Len(values'[allGatherGroupSn[r]]) = rankSize
            \/ Gather!RemoveWaitKey(r) /\ rankSize = 1
            \/ allGatherGroupSn[r] \in dataKeys
<1> USE DEF Gather!TypeOK, Gather!Gathers
<1>1. CASE UNCHANGED Gather!vars
  BY <1>1 DEF Gather!vars
<1>2. CASE Gather!Next
  <2> PICK q \in Gather!Ranks : Gather!Call(q) \/ Gather!Step(q) \/ Gather!TimeOut(q) \/ Gather!Cut(q)
    BY <1>2 DEF Gather!Next
  <2>1. CASE q # r
    <3>1. nextCall'[r] = nextCall[r]
      BY <2>1 DEF Gather!Step, Gather!Call, Gather!AppendInput, Gather!RemoveAddKey,
           Gather!RemoveWaitKey, Gather!Set, Gather!Get,
                  Gather!GetData, Gather!TimeOut, Gather!Cut, Gather!Goto
    <3>2. allGatherGroupSn'[r] = allGatherGroupSn[r]
      BY <2>1 DEF Gather!Step, Gather!Call, Gather!AppendInput, Gather!RemoveAddKey,
           Gather!RemoveWaitKey, Gather!Set, Gather!Get,
                  Gather!GetData, Gather!TimeOut, Gather!Cut
    <3> QED BY <3>1, <3>2
  <2>2. CASE q = r /\ Gather!AppendInput(r)
    BY <2>2 DEF Gather!AppendInput, Gather!Goto, Gather!SetOrGet
  <2>3. CASE q = r /\ Gather!RemoveWaitKey(r)
    BY <2>3 DEF Gather!RemoveWaitKey, Gather!Goto, Gather!SetOrGet
  <2>4. CASE q = r /\ Gather!Get(r)
    BY <2>4 DEF Gather!Get
  <2>5. CASE q = r /\ ~Gather!AppendInput(r) /\ ~Gather!RemoveWaitKey(r) /\ ~Gather!Get(r)
    BY <2>5 DEF Gather!Step, Gather!Call, Gather!RemoveAddKey, Gather!Set, Gather!GetData,
         Gather!TimeOut, Gather!Cut, Gather!Goto
  <2> QED BY <2>1, <2>2, <2>3, <2>4, <2>5
<1> QED BY <1>1, <1>2

\* A key in the store was there before, or has just been set.
LEMMA GatherKeyNeedsSet ==
  ASSUME Gather!TypeOK, [Gather!Next]_Gather!vars, NEW n \in dataKeys'
  PROVE  n \in dataKeys \/ \E r \in Gather!Ranks : nextCall[r] = "set" /\ allGatherGroupSn[r] = n
BY DEF Gather!Next, Gather!vars, Gather!store, Gather!Step, Gather!Call, Gather!AppendInput,
     Gather!RemoveAddKey, Gather!RemoveWaitKey, Gather!Set,
       Gather!Get, Gather!GetData, Gather!TimeOut, Gather!Cut

\* What all have put their input to stays so.
LEMMA AllStays ==
  ASSUME Gather!TypeOK, [Gather!Next]_Gather!vars, NEW n \in Gather!Gathers,
         GatherAdded(n) = Gather!Ranks
  PROVE  GatherAdded(n)' = Gather!Ranks
<1>1. GatherAdded(n) \subseteq GatherAdded(n)' /\ GatherAdded(n)' \subseteq Gather!Ranks
  BY GatherAddedGrows DEF GatherAdded
<1> QED BY <1>1

\* Who sets a key has made the value whole, whoever reads one has found a key.
LEMMA GatherKeysInductive ==
  ASSUME Gather!GatherAssumption, Gather!TypeOK, Gather!TypeOK', UnitsAreOfTheGather',
         NoUnitTwice', GatherKeysAreEarned, [Gather!Next]_Gather!vars
  PROVE  GatherKeysAreEarned'
<1> USE DEF Gather!GatherAssumption
<1>1. ASSUME NEW n \in dataKeys' PROVE GatherAdded(n)' = Gather!Ranks
  <2>1. n \in Gather!Gathers
    BY <1>1 DEF Gather!TypeOK
  <2>2. GatherAdded(n) = Gather!Ranks
    BY <1>1, GatherKeyNeedsSet DEF GatherKeysAreEarned
  <2> QED BY <2>1, <2>2, AllStays
<1>2. ASSUME NEW r \in Gather!Ranks, nextCall'[r] \in {"set", "getData"}, NEW n \in Gather!Gathers,
             n = allGatherGroupSn[r]
      PROVE  GatherAdded(n)' = Gather!Ranks
  <2>1. CASE nextCall[r] \in {"set", "getData"} \/ n \in dataKeys
    <3>1. GatherAdded(n) = Gather!Ranks
      BY <1>2, <2>1 DEF GatherKeysAreEarned
    <3> QED BY <3>1, AllStays
  <2>2. CASE Gather!AppendInput(r) /\ Len(values'[n]) = rankSize
    <3>1. WholesAreAll'
      BY WholeIsAll, PTL
    <3> QED BY <2>2, <3>1 DEF WholesAreAll, GatherAdded
  <2>3. CASE Gather!RemoveWaitKey(r) /\ rankSize = 1
    <3>1. r \in GatherAdded(n)
      BY <2>3, <1>2 DEF GatherAdded, Gather!RemoveWaitKey
    <3>2. Gather!Ranks = {r}
      BY <2>3 DEF Gather!Ranks
    <3>3. GatherAdded(n) = Gather!Ranks
      BY <3>1, <3>2 DEF GatherAdded
    <3> QED BY <3>3, AllStays
  <2> QED BY <1>2, <2>1, <2>2, <2>3, WaitsAreEarned
<1>3. \A r \in Gather!Ranks : nextCall'[r] \in {"set", "getData"} => GatherAdded(allGatherGroupSn[r])' = Gather!Ranks
  <2> SUFFICES ASSUME NEW r \in Gather!Ranks, nextCall'[r] \in {"set", "getData"}
               PROVE  GatherAdded(allGatherGroupSn[r])' = Gather!Ranks
    OBVIOUS
  <2> DEFINE n == allGatherGroupSn[r]
  <2>1. allGatherGroupSn'[r] = n /\ n \in Gather!Gathers
    BY WaitsAreEarned
  <2>2. GatherAdded(n)' = Gather!Ranks
    BY <1>2, <2>1
  <2> QED BY <2>1, <2>2
<1> QED BY <1>1, <1>3 DEF GatherKeysAreEarned

\* A rank passes a gather only by reading a value that is whole, which somebody's
\* setting of its key has announced.
LEMMA PassNeedsData ==
  ASSUME Gather!TypeOK, [Gather!Next]_Gather!vars, NEW r \in Gather!Ranks
  PROVE  /\ allGatherGroupSn'[r] >= allGatherGroupSn[r]
         /\ \/ gathered'[r] = gathered[r] /\ recvBuf'[r] = recvBuf[r]
            \/ /\ nextCall[r] = "getData" /\ gathered'[r] = allGatherGroupSn[r]
               /\ Len(values[allGatherGroupSn[r]]) = rankSize
               /\ recvBuf'[r] = Gather!SortGatherRecv(values[allGatherGroupSn[r]])
<1>1. CASE UNCHANGED Gather!vars
  BY <1>1 DEF Gather!vars, Gather!TypeOK
<1>2. CASE Gather!Next
  <2> PICK q \in Gather!Ranks : Gather!Call(q) \/ Gather!Step(q) \/ Gather!TimeOut(q) \/ Gather!Cut(q)
    BY <1>2 DEF Gather!Next
  <2>1. CASE Gather!GetData(q)
    BY <2>1 DEF Gather!TypeOK, Gather!GetData
  <2>2. CASE Gather!Call(q)
    BY <2>2 DEF Gather!TypeOK, Gather!Call
  <2>3. CASE ~Gather!GetData(q) /\ ~Gather!Call(q)
    BY <2>3 DEF Gather!TypeOK, Gather!Step, Gather!AppendInput, Gather!RemoveAddKey,
         Gather!RemoveWaitKey, Gather!Set,
                Gather!Get, Gather!TimeOut, Gather!Cut
  <2> QED BY <2>1, <2>2, <2>3
<1> QED BY <1>1, <1>2

\* All ranks put their input to a gather that was passed.
LEMMA GatherPassesInductive ==
  ASSUME Gather!TypeOK, Gather!TypeOK', GatherKeysAreEarned, GatherPassesAreEarned,
         [Gather!Next]_Gather!vars
  PROVE  GatherPassesAreEarned'
<1> SUFFICES ASSUME NEW r \in Gather!Ranks
             PROVE  /\ gathered'[r] <= allGatherGroupSn'[r]
                    /\ gathered'[r] \in Gather!Gathers => GatherAdded(gathered[r])' = Gather!Ranks
  BY DEF GatherPassesAreEarned
<1>1. gathered'[r] <= allGatherGroupSn'[r]
  <2>1. /\ allGatherGroupSn'[r] >= allGatherGroupSn[r]
        /\ gathered'[r] = gathered[r] \/ gathered'[r] = allGatherGroupSn[r]
    BY PassNeedsData
  <2>2. gathered[r] <= allGatherGroupSn[r]
    BY DEF GatherPassesAreEarned
  <2>3. gathered[r] \in Int /\ allGatherGroupSn[r] \in Int /\ allGatherGroupSn'[r] \in Int
    BY DEF Gather!TypeOK
  <2> QED BY <2>1, <2>2, <2>3
<1>2. ASSUME gathered'[r] \in Gather!Gathers PROVE GatherAdded(gathered[r])' = Gather!Ranks
  <2> DEFINE n == gathered'[r]
  <2>1. GatherAdded(n) = Gather!Ranks
    BY <1>2, PassNeedsData DEF GatherPassesAreEarned, GatherKeysAreEarned
  <2>2. GatherAdded(n) \subseteq {q \in Gather!Ranks : allGatherGroupSn'[q] > n \/ (allGatherGroupSn'[q] = n /\ nextCall'[q] # "append")}
    BY <1>2, GatherAddedGrows DEF GatherAdded
  <2> QED BY <2>1, <2>2 DEF GatherAdded
<1> QED BY <1>1, <1>2

\* What a gather that succeeds puts into the buffer is everyone's data.
LEMMA DataInductive ==
  ASSUME Gather!GatherAssumption, Gather!TypeOK, UnitsAreOfTheGather, NoUnitTwice,
         EveryonesData, [Gather!Next]_Gather!vars
  PROVE  EveryonesData'
<1> SUFFICES ASSUME NEW r \in Gather!Ranks, gathered'[r] # 0
             PROVE  recvBuf'[r] = [i \in 1..rankSize |-> <<i - 1, gathered'[r]>>]
  BY DEF EveryonesData, Gather!Ranks
<1>1. CASE gathered'[r] = gathered[r] /\ recvBuf'[r] = recvBuf[r]
  BY <1>1 DEF EveryonesData, Gather!Ranks
<1>2. CASE /\ nextCall[r] = "getData" /\ gathered'[r] = allGatherGroupSn[r]
           /\ Len(values[allGatherGroupSn[r]]) = rankSize
           /\ recvBuf'[r] = Gather!SortGatherRecv(values[allGatherGroupSn[r]])
  <2> DEFINE n == allGatherGroupSn[r]
             out == values[n]
  <2>1. n \in Gather!Gathers
    BY <1>2 DEF Gather!TypeOK, Gather!Gathers
  <2>2. DOMAIN out = 1..rankSize
    BY <1>2, <2>1 DEF Gather!TypeOK
  <2>3. \A i \in DOMAIN out : \E q \in Gather!Ranks : out[i] = Gather!Unit(q, n)
    BY <2>1 DEF UnitsAreOfTheGather, GatherAdded
  <2>4. \A i, j \in DOMAIN out : out[i] = out[j] => i = j
    BY <2>1 DEF NoUnitTwice
  <2> HIDE DEF n, out
  <2>5. Gather!SortGatherRecv(out) = [k \in 1..rankSize |-> <<k - 1, n>>]
    BY <2>1, <2>2, <2>3, <2>4, SortedIsEveryones
  <2> QED BY <1>2, <2>5 DEF n, out
<1> QED BY <1>1, <1>2, PassNeedsData

\* As long as nobody gives up, passing is what makes a rank idle.
LEMMA GatherNobodyGaveUpInductive ==
  ASSUME Gather!TypeOK, Gather!TypeOK', GatherNobodyGaveUp, [Gather!Next]_Gather!vars
  PROVE  GatherNobodyGaveUp'
<1> SUFFICES ASSUME failed' = {}, NEW r \in Gather!Ranks
             PROVE  gathered'[r] = IF nextCall'[r] = "idle" THEN allGatherGroupSn'[r] ELSE allGatherGroupSn'[r] - 1
  BY DEF GatherNobodyGaveUp
<1>1. CASE UNCHANGED Gather!vars
  BY <1>1 DEF Gather!vars, GatherNobodyGaveUp
<1>2. CASE Gather!Next
  <2> PICK q \in Gather!Ranks : Gather!Call(q) \/ Gather!Step(q) \/ Gather!TimeOut(q) \/ Gather!Cut(q)
    BY <1>2 DEF Gather!Next
  <2>1. failed = {} /\ ~Gather!TimeOut(q) /\ ~Gather!Cut(q)
    BY DEF Gather!Step, Gather!Call, Gather!AppendInput, Gather!RemoveAddKey, Gather!RemoveWaitKey,
         Gather!Set, Gather!Get, Gather!GetData,
           Gather!TimeOut, Gather!Cut
  <2>2. gathered[r] = IF nextCall[r] = "idle" THEN allGatherGroupSn[r] ELSE allGatherGroupSn[r] - 1
    BY <2>1 DEF GatherNobodyGaveUp
  <2>3. CASE Gather!Call(q)
    BY <2>2, <2>3 DEF Gather!Call, Gather!Goto, Gather!TypeOK
  <2>4. CASE Gather!AppendInput(q) \/ Gather!RemoveWaitKey(q)
    BY <2>2, <2>4 DEF Gather!AppendInput, Gather!RemoveWaitKey, Gather!Goto, Gather!SetOrGet,
         Gather!TypeOK
  <2>5. CASE Gather!RemoveAddKey(q) \/ Gather!Set(q) \/ Gather!Get(q)
    BY <2>2, <2>5 DEF Gather!RemoveAddKey, Gather!Set, Gather!Get, Gather!Goto, Gather!TypeOK
  <2>6. CASE Gather!GetData(q)
    BY <2>2, <2>6 DEF Gather!GetData, Gather!Goto, Gather!TypeOK
  <2> QED BY <2>1, <2>3, <2>4, <2>5, <2>6 DEF Gather!Step
<1> QED BY <1>1, <1>2

\* Whoever all put their input to has been called by all.
LEMMA GatherAllAddedAllCame ==
  ASSUME Gather!TypeOK, NEW n \in Gather!Gathers, GatherAdded(n) = Gather!Ranks,
         NEW q \in Gather!Ranks
  PROVE  n <= allGatherGroupSn[q]
BY DEF GatherAdded, Gather!TypeOK, Gather!Gathers

\* A value that somebody has yet to read stays: who removes it has passed a later
\* gather, which every rank has called, and an interval of two covers the rank
\* that is in it.
LEMMA RemovedIsPassed ==
  ASSUME Gather!GatherAssumption, Gather!TypeOK, GatherPassesAreEarned, GatherNobodyGaveUp,
         failed = {},
         NEW q \in Gather!Ranks, Gather!RemoveAddKey(q), NEW n \in Gather!Gathers,
         n = allGatherGroupSn[q] - REMOVE_INTERVAL, NEW r \in Gather!Ranks
  PROVE  gathered[r] >= n
<1> USE DEF Gather!GatherAssumption
<1>1. gathered[q] = allGatherGroupSn[q] - 1 /\ allGatherGroupSn[q] \in Nat
  BY DEF GatherNobodyGaveUp, Gather!TypeOK, Gather!RemoveAddKey
<1>2. gathered[q] \in Gather!Gathers /\ gathered[q] >= n + 1
  BY <1>1 DEF Gather!Gathers, Gather!TypeOK
<1>3. allGatherGroupSn[r] >= gathered[q]
  BY <1>2, GatherAllAddedAllCame DEF GatherPassesAreEarned
<1>4. gathered[r] >= allGatherGroupSn[r] - 1 /\ allGatherGroupSn[r] \in Nat
  <2>1. allGatherGroupSn[r] \in Nat
    BY DEF Gather!TypeOK
  <2>2. gathered[r] = IF nextCall[r] = "idle" THEN allGatherGroupSn[r] ELSE allGatherGroupSn[r] - 1
    BY DEF GatherNobodyGaveUp
  <2> QED BY <2>1, <2>2
<1> QED BY <1>2, <1>3, <1>4 DEF Gather!TypeOK, Gather!Gathers

\* As long as nobody gives up, an unread value grows with every input.
LEMMA ValuesStayInductive ==
  ASSUME Gather!GatherAssumption, Gather!TypeOK, Gather!TypeOK', GatherPassesAreEarned,
         GatherNobodyGaveUp, ValuesStay, [Gather!Next]_Gather!vars
  PROVE  ValuesStay'
<1> SUFFICES ASSUME failed' = {}, NEW n \in Gather!Gathers, NEW r \in Gather!Ranks,
                    gathered'[r] < n
             PROVE  Len(values'[n]) = Cardinality(GatherAdded(n)')
  BY DEF ValuesStay, GatherAdded
<1>1. failed = {}
  BY DEF Gather!Next, Gather!vars, Gather!Step, Gather!Call, Gather!AppendInput,
       Gather!RemoveAddKey, Gather!RemoveWaitKey, Gather!Set, Gather!Get,
         Gather!GetData, Gather!TimeOut, Gather!Cut
<1>2. gathered[r] < n
  <2>1. gathered[r] \in Nat /\ allGatherGroupSn[r] \in Nat /\ n \in Nat
    BY DEF Gather!GatherAssumption, Gather!TypeOK, Gather!Gathers
  <2>2. gathered[r] <= allGatherGroupSn[r]
    BY DEF GatherPassesAreEarned
  <2>3. gathered'[r] = gathered[r] \/ gathered'[r] = allGatherGroupSn[r]
    BY PassNeedsData
  <2> QED BY <2>1, <2>2, <2>3
<1>3. Len(values[n]) = Cardinality(GatherAdded(n))
  BY <1>1, <1>2 DEF ValuesStay
<1>4. ASSUME NEW q \in Gather!Ranks, Gather!AppendInput(q), allGatherGroupSn[q] = n
      PROVE  Len(values'[n]) = Cardinality(GatherAdded(n)')
  <2>1. values[n] \in Seq(Gather!Units) /\ values'[n] = Append(values[n], Gather!Unit(q, n))
    BY <1>4 DEF Gather!TypeOK, Gather!AppendInput
  <2>2. Len(values'[n]) = Len(values[n]) + 1
    BY <2>1
  <2>3. q \notin GatherAdded(n) /\ GatherAdded(n)' = GatherAdded(n) \cup {q}
    BY <1>4, AppendAdds
  <2>4. IsFiniteSet(GatherAdded(n))
    <3>1. rankSize - 1 \in Int
      BY DEF Gather!GatherAssumption
    <3>2. IsFiniteSet(0..rankSize - 1)
      BY <3>1, FS_Interval
    <3>3. GatherAdded(n) \subseteq 0..rankSize - 1
      BY DEF GatherAdded, Gather!Ranks
    <3> QED BY <3>2, <3>3, FS_Subset
  <2> QED BY <1>3, <2>2, <2>3, <2>4, FS_AddElement
<1>5. CASE ~ \E q \in Gather!Ranks : Gather!AppendInput(q) /\ allGatherGroupSn[q] = n
  <2>1. values'[n] = values[n]
    <3>1. ASSUME NEW q \in Gather!Ranks, Gather!RemoveAddKey(q), n = allGatherGroupSn[q] - REMOVE_INTERVAL
          PROVE  FALSE
      <4>1. gathered[r] >= n
        BY <1>1, <3>1, RemovedIsPassed
      <4>2. gathered[r] \in Int /\ n \in Int
        BY DEF Gather!TypeOK, Gather!Gathers
      <4> QED BY <1>2, <4>1, <4>2
    <3> QED BY <1>5, <3>1, ValueSteps
  <2>2. GatherAdded(n)' = GatherAdded(n)
    <3>1. CASE UNCHANGED Gather!vars
      BY <3>1 DEF Gather!vars, GatherAdded
    <3>2. CASE Gather!Next
      <4> PICK q \in Gather!Ranks : Gather!Call(q) \/ Gather!Step(q) \/ Gather!TimeOut(q) \/ Gather!Cut(q)
        BY <3>2 DEF Gather!Next
      <4>1. ~Gather!Cut(q)
        BY DEF Gather!Cut
      <4>2. CASE Gather!AppendInput(q)
        BY <1>5, <4>2, AppendAdds
      <4> QED BY <4>1, <4>2, GatherOthersAddNothing DEF Gather!Step
    <3> QED BY <3>1, <3>2
  <2> QED BY <1>3, <2>1, <2>2
<1> QED BY <1>4, <1>5

-----------------------------------------------------------------------------
\* The inductive invariant, of which everything below is a consequence.
THEOREM GatherInvariant ==
  ASSUME Gather!GatherAssumption
  PROVE  Gather!Spec => []GatherIInv
<1>1. GatherIInv /\ [Gather!Next]_Gather!vars => GatherIInv'
  BY GatherTypeInductive, UnitsInductive, NoTwiceInductive, GatherKeysInductive,
     GatherPassesInductive, GatherNobodyGaveUpInductive, ValuesStayInductive, DataInductive
  DEF GatherIInv
<1> QED BY GatherInitInv, <1>1, PTL DEF Gather!Spec

\* The state of the gather is well typed for any number of ranks.
THEOREM GatherTypeCorrect ==
  ASSUME Gather!GatherAssumption
  PROVE  Gather!Spec => []Gather!TypeOK
BY GatherInvariant, PTL DEF GatherIInv

\* A gather that returns SM_OK has every rank's input of the same gather in the
\* order of the ranks (recvBuf: what GroupAllGather has put there), for any number
\* of ranks and whatever timed out or broke off.
THEOREM GatherEveryonesData ==
  ASSUME Gather!GatherAssumption
  PROVE  Gather!Spec => []EveryonesData
BY GatherInvariant, PTL DEF GatherIInv

\* As long as no gather has failed, whoever reads the value finds it whole: the
\* first of a later gather does not remove it too early.
THEOREM GatherDataStay ==
  ASSUME Gather!GatherAssumption
  PROVE  Gather!Spec => []DataStay
<1>1. GatherIInv => DataStay
  <2> SUFFICES ASSUME GatherIInv, failed = {}, NEW r \in Gather!Ranks, nextCall[r] = "getData"
               PROVE  Len(values[allGatherGroupSn[r]]) = rankSize
    BY DEF DataStay, Gather!Ranks
  <2> USE DEF Gather!GatherAssumption
  <2>1. allGatherGroupSn[r] \in Gather!Gathers /\ GatherAdded(allGatherGroupSn[r]) = Gather!Ranks
    BY DEF GatherIInv, Gather!TypeOK, GatherKeysAreEarned, Gather!Gathers
  <2>2. gathered[r] < allGatherGroupSn[r]
    BY DEF GatherIInv, GatherNobodyGaveUp, Gather!TypeOK
  <2>3. Len(values[allGatherGroupSn[r]]) = Cardinality(Gather!Ranks)
    BY <2>1, <2>2 DEF GatherIInv, ValuesStay
  <2>4. rankSize - 1 \in Int /\ 0 \in Int
    OBVIOUS
  <2>5. Cardinality(0..rankSize - 1) = rankSize
    BY <2>4, FS_Interval
  <2> QED BY <2>3, <2>5 DEF Gather!Ranks
<1> QED BY <1>1, GatherInvariant, PTL
=============================================================================
