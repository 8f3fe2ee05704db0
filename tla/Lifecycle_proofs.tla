-------------------------- MODULE Lifecycle_proofs --------------------------
(***************************************************************************)
(* What the life of a PE promises, for any number of PEs, sessions,        *)
(* allocations and faults.  First what a PE does on its own: the numbers   *)
(* of its collectives follow the steps of init, and with them what it      *)
(* holds.  On top of it what the store of PE 0 knows: a key that is        *)
(* complete has the additions of N sessions, which are those of N PEs if   *)
(* no PE joined again, or if all N came through the first allgather.       *)
(***************************************************************************)
EXTENDS Lifecycle, FiniteSetTheorems, SequenceTheorems, TLAPS

\* The collectives of a kind up to step i of init: the second step is an
\* allgather and, with a transport, the fourth.
GatherSteps(i) == IF i < 2 THEN 0 ELSE IF Roce /\ i >= 4 THEN 2 ELSE 1
Collectives(kind, i) == IF kind = "gather" THEN GatherSteps(i) ELSE i - GatherSteps(i)
Barriers == Collectives("barrier", InitSteps)
AtMost == InitSteps + MaxAllocs

\* All that a PE may hold.
Resources ==
  {"stream", "hybm", "inited", "entity", "ranges", "space", "slice", "imports",
   "connections", "mapping", "tables", "heap", "team", "pool", "zero pool",
   "counter", "zero counter", "core", "initialized", "state"}

Exports == PEs \X Nat
Store == [up : BOOLEAN, added : [Keys -> Seq(Exports)], set : SUBSET Keys]

TypeOK ==
  /\ pc \in [PEs -> {"out", "starting", "init", "wait", "failed", "ready"}]
  /\ at \in [PEs -> 1..AtMost + 1]
  /\ held \in [PEs -> SUBSET Resources]
  /\ session \in [PEs -> Nat]
  /\ link \in [PEs -> BOOLEAN]
  /\ sn \in [PEs -> [Kinds -> 0..AtMost]]
  /\ imported \in [PEs -> SUBSET Exports]
  /\ server \in Store
  /\ called \in [PEs -> Nat] /\ returned \in [PEs -> Nat]
  /\ gaveUp \subseteq PEs /\ rejoined \in BOOLEAN /\ skipped \in BOOLEAN

-----------------------------------------------------------------------------
\* The numbers of p's collectives are those of the steps it has come through; an
\* allocation that skips its barrier, or finds no server, falls behind.
Numbered(p) ==
  /\ pc[p] = "init" => at[p] <= InitSteps
                       /\ \A k \in Kinds : sn[p][k] = Collectives(k, at[p] - 1)
  /\ pc[p] = "wait" => at[p] <= AtMost
  /\ pc[p] = "wait" /\ at[p] <= InitSteps => \A k \in Kinds : sn[p][k] = Collectives(k, at[p])
  /\ pc[p] = "failed" => at[p] <= InitSteps
  /\ pc[p] = "ready" => at[p] > InitSteps
  /\ at[p] > InitSteps /\ pc[p] \notin {"out", "starting"} =>
       LET n == Barriers + at[p] - InitSteps - (IF pc[p] = "wait" THEN 0 ELSE 1)
       IN  /\ sn[p]["barrier"] \in Barriers..n
           /\ link[p] /\ ~skipped => sn[p]["barrier"] = n

\* p has acquired what the steps of init it came through acquire.
Equipped(p) ==
  /\ pc[p] \in {"init", "wait", "ready"} =>
       \A i \in 1..InitSteps :
         i < at[p] \/ (i = at[p] /\ pc[p] = "wait") => Range(Steps[i].gets) \subseteq held[p]
  /\ pc[p] = "failed" => p \in gaveUp
  /\ pc[p] = "failed" /\ link[p] /\ sn[p]["barrier"] >= Barriers => Everything \subseteq held[p]
  /\ pc[p] = "out" /\ p \notin gaveUp => held[p] = {}

\* What a PE does on its own.
OwnInv == TypeOK /\ \A p \in PEs : Numbered(p) /\ Equipped(p)

-----------------------------------------------------------------------------
\* The exports that were added to a key.
Added(k) == Range(server.added[k])

FirstGather == <<"gather", 1>>

\* The call that barrier n of the engine belongs to.
CallOf(n) == IF n <= Barriers THEN 1 ELSE n - Barriers + 1

\* A connected PE is in a session, and has called init on this server.
LinksAreLive ==
  \A p \in PEs : link[p] => server.up /\ called[p] >= 1 /\ pc[p] \notin {"out", "starting"}

\* An addition to a key is of a session of a PE that has called init on this
\* server, and of the last one if no PE began another.
AdditionsAreOfSessions ==
  \A k \in Keys : \A e \in Added(k) :
    /\ called[e[1]] >= 1
    /\ e[2] <= session[e[1]]
    /\ e[2] = session[e[1]] => k[2] <= sn[e[1]][k[1]]
    /\ ~rejoined => e[2] = session[e[1]]
    /\ k[1] = "barrier" /\ ~skipped => called[e[1]] >= CallOf(k[2])

\* No session adds to a key twice.
AdditionsDiffer ==
  \A k \in Keys : \A i, j \in DOMAIN server.added[k] :
    server.added[k][i] = server.added[k][j] => i = j

\* A key that is set has had the additions of all, if no PE began a second
\* session.
SetKeysAreOfAll ==
  \A k \in server.set : ~rejoined => \A q \in PEs : called[q] >= 1 /\ k[2] <= sn[q][k[1]]

\* A connected PE that is past init, and what a PE has imported.
PassesAreOfAll ==
  \A p \in PEs : link[p] /\ ~rejoined =>
    /\ at[p] > InitSteps => \A q \in PEs : called[q] >= 1 /\ Barriers <= sn[q]["barrier"]
    /\ imported[p] # {} => (\A q \in PEs : called[q] >= 1)
                           /\ imported[p] = {Export(q) : q \in PEs}

MeetInv ==
  /\ LinksAreLive /\ AdditionsAreOfSessions /\ AdditionsDiffer
  /\ SetKeysAreOfAll /\ PassesAreOfAll

-----------------------------------------------------------------------------
\* The first N additions to the first allgather; that one is never removed.
Slices == server.added[FirstGather]

\* e is one of them, and no later session of its PE is.
Through(e) ==
  /\ Len(Slices) >= N
  /\ \E i \in 1..N : Slices[i] = e
  /\ \A i \in 1..N : Slices[i][1] = e[1] => Slices[i][2] <= e[2]

\* Every PE that is through the first allgather got there when it had N
\* additions, and only those add to the barriers after it.
GatherIsExact ==
  /\ \A p \in PEs : link[p] /\ sn[p]["gather"] >= 1 => Export(p) \in Added(FirstGather)
  /\ \A p \in PEs : link[p] /\ at[p] > 2 => Through(Export(p))
  /\ \A n \in 2..AtMost : \A e \in Added(<<"barrier", n>>) : Through(e)

\* So a barrier after it has ended when all PEs have made its call.
BarriersAreCalls ==
  ~skipped =>
    /\ \A n \in 2..AtMost : <<"barrier", n>> \in server.set =>
         \A q \in PEs : called[q] >= CallOf(n)
    /\ \A p \in PEs : link[p] => \A q \in PEs : returned[p] <= called[q]

IInv == OwnInv /\ MeetInv /\ GatherIsExact /\ BarriersAreCalls

-----------------------------------------------------------------------------
\* A step of init, and what it acquires.
StepType == [gets : Seq(Resources), then : Kinds]

\* A sequence of two.
LEMMA PairIs ==
  ASSUME NEW S, NEW a \in S, NEW b \in S
  PROVE  /\ <<a, b>> \in Seq(S) /\ Len(<<a, b>>) = 2
         /\ <<a, b>>[1] = a /\ <<a, b>>[2] = b
OBVIOUS

\* A sequence of three.
LEMMA TripleIs ==
  ASSUME NEW S, NEW a \in S, NEW b \in S, NEW c \in S
  PROVE  /\ <<a, b, c>> \in Seq(S) /\ Len(<<a, b, c>>) = 3
         /\ <<a, b, c>>[1] = a /\ <<a, b, c>>[2] = b /\ <<a, b, c>>[3] = c
OBVIOUS

\* The pieces that the steps of init are put together from.
LEMMA PiecesAre ==
  /\ <<Barrier(SetUpDevice)>> \in Seq(StepType)
  /\ <<Barrier(SetUpDevice)>>[1].then = "barrier"
  /\ ExchangeSlice \in Seq(StepType) /\ Len(ExchangeSlice) = 2
  /\ ExchangeSlice[1].then = "gather" /\ ExchangeSlice[2].then = "barrier"
  /\ {"inited", "space"} \subseteq Range(ExchangeSlice[1].gets)
  /\ ExchangeEntity \in Seq(StepType) /\ Len(ExchangeEntity) = IF Roce THEN 2 ELSE 0
  /\ Roce => ExchangeEntity[1].then = "gather" /\ ExchangeEntity[2].then = "barrier"
<1>1. \A gets \in Seq(Resources) :
        /\ Barrier(gets) \in StepType /\ Barrier(gets).then = "barrier"
        /\ AllGather(gets) \in StepType /\ AllGather(gets).then = "gather"
        /\ AllGather(gets).gets = gets
  BY DEF Barrier, AllGather, StepType, Kinds
<1>2. SetUpDevice \in Seq(Resources)
  BY DEF SetUpDevice, Resources
<1>3. /\ ReserveHeap \in Seq(Resources) /\ Len(ReserveHeap) = 4
      /\ ReserveHeap[1] = "inited" /\ ReserveHeap[4] = "space"
  BY DEF ReserveHeap, Resources
<1>4. /\ ReserveHeap \o <<"slice">> \in Seq(Resources)
      /\ Len(ReserveHeap \o <<"slice">>) = 5
      /\ (ReserveHeap \o <<"slice">>)[1] = "inited" /\ (ReserveHeap \o <<"slice">>)[4] = "space"
  <2>1. <<"slice">> \in Seq(Resources) /\ Len(<<"slice">>) = 1
    BY DEF Resources
  <2>2. \A s, t \in Seq(Resources) :
          /\ s \o t \in Seq(Resources) /\ Len(s \o t) = Len(s) + Len(t)
          /\ \A i \in 1..Len(s) : (s \o t)[i] = s[i]
    BY ConcatProperties
  <2>3. /\ ReserveHeap \o <<"slice">> \in Seq(Resources)
        /\ Len(ReserveHeap \o <<"slice">>) = Len(ReserveHeap) + Len(<<"slice">>)
        /\ \A i \in 1..Len(ReserveHeap) : (ReserveHeap \o <<"slice">>)[i] = ReserveHeap[i]
    <3>1. ReserveHeap \in Seq(Resources) /\ <<"slice">> \in Seq(Resources)
      BY <1>3, <2>1
    <3> HIDE DEF ReserveHeap
    <3> QED BY <3>1, <2>2
  <2>4. 1 \in 1..Len(ReserveHeap) /\ 4 \in 1..Len(ReserveHeap)
    BY <1>3
  <2> QED BY <1>3, <2>1, <2>3, <2>4
<1>5. {"inited", "space"} \subseteq Range(ReserveHeap \o <<"slice">>)
  BY <1>4 DEF Range
<1>6. <<"imports">> \in Seq(Resources) /\ <<"connections">> \in Seq(Resources) /\ <<>> \in Seq(Resources)
  BY DEF Resources
<1>7. /\ <<Barrier(SetUpDevice)>> \in Seq(StepType)
      /\ <<Barrier(SetUpDevice)>>[1].then = "barrier"
  BY <1>1, <1>2
<1>8. /\ ExchangeSlice \in Seq(StepType) /\ Len(ExchangeSlice) = 2
      /\ ExchangeSlice[1].then = "gather" /\ ExchangeSlice[2].then = "barrier"
      /\ {"inited", "space"} \subseteq Range(ExchangeSlice[1].gets)
  <2>1. /\ AllGather(ReserveHeap \o <<"slice">>) \in StepType
        /\ AllGather(ReserveHeap \o <<"slice">>).then = "gather"
        /\ AllGather(ReserveHeap \o <<"slice">>).gets = ReserveHeap \o <<"slice">>
    BY <1>1, <1>4
  <2>2. Barrier(<<"imports">>) \in StepType /\ Barrier(<<"imports">>).then = "barrier"
    BY <1>1, <1>6
  <2>3. /\ ExchangeSlice \in Seq(StepType) /\ Len(ExchangeSlice) = 2
        /\ ExchangeSlice[1] = AllGather(ReserveHeap \o <<"slice">>)
        /\ ExchangeSlice[2] = Barrier(<<"imports">>)
    BY <2>1, <2>2, PairIs DEF ExchangeSlice
  <2> QED BY <2>1, <2>2, <2>3, <1>5
<1>9. /\ ExchangeEntity \in Seq(StepType) /\ Len(ExchangeEntity) = IF Roce THEN 2 ELSE 0
      /\ Roce => ExchangeEntity[1].then = "gather" /\ ExchangeEntity[2].then = "barrier"
  <2>1. AllGather(<<>>) \in StepType /\ AllGather(<<>>).then = "gather"
    BY <1>1, <1>6
  <2>2. Barrier(<<"connections">>) \in StepType /\ Barrier(<<"connections">>).then = "barrier"
    BY <1>1, <1>6
  <2>3. Roce => /\ ExchangeEntity \in Seq(StepType) /\ Len(ExchangeEntity) = 2
                /\ ExchangeEntity[1] = AllGather(<<>>)
                /\ ExchangeEntity[2] = Barrier(<<"connections">>)
    BY <2>1, <2>2, PairIs DEF ExchangeEntity
  <2>4. ~Roce => ExchangeEntity \in Seq(StepType) /\ Len(ExchangeEntity) = 0
    BY DEF ExchangeEntity
  <2> QED BY <2>1, <2>2, <2>3, <2>4
<1> QED BY <1>7, <1>8, <1>9

\* The last three steps of init set up the heap and the world team.
LEMMA TeamPiecesAre ==
  LET end == <<Barrier(SetUpHeap \o TeamInit[1]), Barrier(TeamInit[2]),
               Barrier(TeamInit[3] \o <<"initialized", "state">>)>>
  IN  /\ end \in Seq(StepType) /\ Len(end) = 3
      /\ \A i \in 1..3 : end[i].then = "barrier"
      /\ {"core", "initialized"} \subseteq Range(end[3].gets)
<1>1. \A gets \in Seq(Resources) :
        Barrier(gets) \in StepType /\ Barrier(gets).then = "barrier" /\ Barrier(gets).gets = gets
  BY DEF Barrier, StepType, Kinds
<1>2. /\ TeamInit[1] \in Seq(Resources) /\ TeamInit[2] \in Seq(Resources)
      /\ TeamInit[3] \in Seq(Resources) /\ Len(TeamInit[3]) = 2 /\ TeamInit[3][2] = "core"
  BY DEF TeamInit, Resources
<1>3. SetUpHeap \in Seq(Resources)
  BY DEF SetUpHeap, Resources
<1>4. SetUpHeap \o TeamInit[1] \in Seq(Resources)
  BY <1>2, <1>3, ConcatProperties
<1>5. PICK t \in Seq(Resources) : /\ t = <<"initialized", "state">>
                                  /\ Len(t) = 2 /\ t[1] = "initialized"
  <2>1. "initialized" \in Resources /\ "state" \in Resources
    BY DEF Resources
  <2>2. /\ <<"initialized", "state">> \in Seq(Resources)
        /\ Len(<<"initialized", "state">>) = 2 /\ <<"initialized", "state">>[1] = "initialized"
    BY <2>1
  <2> QED BY <2>2
<1>6. /\ TeamInit[3] \o t \in Seq(Resources) /\ Len(TeamInit[3] \o t) = 4
      /\ (TeamInit[3] \o t)[2] = "core" /\ (TeamInit[3] \o t)[3] = "initialized"
  <2>1. PICK s \in Seq(Resources) : s = TeamInit[3] /\ Len(s) = 2 /\ s[2] = "core"
    BY <1>2
  <2>2. /\ s \o t \in Seq(Resources) /\ Len(s \o t) = Len(s) + Len(t)
        /\ \A i \in 1..Len(s) + Len(t) : (s \o t)[i] = IF i <= Len(s) THEN s[i] ELSE t[i - Len(s)]
    BY ConcatProperties
  <2> QED BY <1>5, <2>1, <2>2
<1>7. {"core", "initialized"} \subseteq Range(TeamInit[3] \o t)
  BY <1>6 DEF Range
<1>8. PICK a, b, c \in StepType :
        /\ a = Barrier(SetUpHeap \o TeamInit[1]) /\ b = Barrier(TeamInit[2])
        /\ c = Barrier(TeamInit[3] \o <<"initialized", "state">>)
        /\ a.then = "barrier" /\ b.then = "barrier" /\ c.then = "barrier"
        /\ c.gets = TeamInit[3] \o t
  BY <1>1, <1>2, <1>4, <1>5, <1>6
<1>9. PICK end \in Seq(StepType) :
        /\ end = <<a, b, c>> /\ Len(end) = 3 /\ end[1] = a /\ end[2] = b /\ end[3] = c
  <2>1. /\ <<a, b, c>> \in Seq(StepType) /\ Len(<<a, b, c>>) = 3
        /\ <<a, b, c>>[1] = a /\ <<a, b, c>>[2] = b /\ <<a, b, c>>[3] = c
    BY TripleIs
  <2> QED BY <2>1
<1>10. \A i \in 1..3 : end[i].then = "barrier"
  BY <1>8, <1>9
<1>11. {"core", "initialized"} \subseteq Range(end[3].gets)
  BY <1>7, <1>8, <1>9
<1>12. end = <<Barrier(SetUpHeap \o TeamInit[1]), Barrier(TeamInit[2]),
               Barrier(TeamInit[3] \o <<"initialized", "state">>)>>
  BY <1>8, <1>9
<1> HIDE DEF TeamInit, SetUpHeap
<1> QED BY <1>9, <1>10, <1>11, <1>12

\* The steps of init, one by one.
LEMMA StepsAre ==
  /\ InitSteps = IF Roce THEN 8 ELSE 6
  /\ \A i \in 1..InitSteps :
       /\ Steps[i] \in StepType
       /\ Steps[i].then = IF i = 2 \/ (Roce /\ i = 4) THEN "gather" ELSE "barrier"
  /\ {"core", "initialized", "inited", "space"} \subseteq Everything
<1>1. PICK a \in Seq(StepType) : /\ a = <<Barrier(SetUpDevice)>>
                                 /\ Len(a) = 1 /\ a[1].then = "barrier"
  BY PiecesAre
<1>2. PICK b \in Seq(StepType) :
        /\ b = ExchangeSlice
        /\ Len(b) = 2 /\ b[1].then = "gather" /\ b[2].then = "barrier"
        /\ {"inited", "space"} \subseteq Range(b[1].gets)
  BY PiecesAre
<1>3. PICK c \in Seq(StepType) :
        /\ c = ExchangeEntity
        /\ Len(c) = IF Roce THEN 2 ELSE 0
        /\ Roce => c[1].then = "gather" /\ c[2].then = "barrier"
  BY PiecesAre
<1>4. PICK d \in Seq(StepType) :
        /\ d = <<Barrier(SetUpHeap \o TeamInit[1]), Barrier(TeamInit[2]),
                 Barrier(TeamInit[3] \o <<"initialized", "state">>)>>
        /\ Len(d) = 3 /\ \A i \in 1..3 : d[i].then = "barrier"
        /\ {"core", "initialized"} \subseteq Range(d[3].gets)
  BY TeamPiecesAre
<1>5. Steps = ((a \o b) \o c) \o d
  BY <1>1, <1>2, <1>3, <1>4 DEF Steps
<1>6. /\ a \o b \in Seq(StepType) /\ Len(a \o b) = 3
      /\ \A i \in 1..3 : (a \o b)[i] = IF i = 1 THEN a[i] ELSE b[i - 1]
  <2>1. /\ a \o b \in Seq(StepType) /\ Len(a \o b) = Len(a) + Len(b)
        /\ \A i \in 1..Len(a) + Len(b) :
             (a \o b)[i] = IF i <= Len(a) THEN (a)[i] ELSE b[i - Len(a)]
    BY ConcatProperties
  <2> QED BY <1>1, <1>2, <2>1
<1>7. PICK m \in {3, 5} : (m = 5 <=> Roce) /\ Len(c) = m - 3
  BY <1>3
<1>8. /\ (a \o b) \o c \in Seq(StepType) /\ Len((a \o b) \o c) = m
      /\ \A i \in 1..m : ((a \o b) \o c)[i] = IF i <= 3 THEN (a \o b)[i] ELSE c[i - 3]
  <2>1. /\ (a \o b) \o c \in Seq(StepType) /\ Len((a \o b) \o c) = Len(a \o b) + Len(c)
        /\ \A i \in 1..Len(a \o b) + Len(c) :
             ((a \o b) \o c)[i] = IF i <= Len(a \o b) THEN (a \o b)[i] ELSE c[i - Len(a \o b)]
    <3>1. a \o b \in Seq(StepType)
      BY <1>6
    <3> QED BY <3>1, ConcatProperties
  <2> QED BY <1>6, <1>7, <2>1
<1>9. /\ Steps \in Seq(StepType) /\ InitSteps = m + 3
      /\ \A i \in 1..m + 3 : Steps[i] = IF i <= m THEN ((a \o b) \o c)[i] ELSE d[i - m]
  <2>1. /\ ((a \o b) \o c) \o d \in Seq(StepType)
        /\ Len(((a \o b) \o c) \o d) = Len((a \o b) \o c) + Len(d)
        /\ \A i \in 1..Len((a \o b) \o c) + Len(d) :
             (((a \o b) \o c) \o d)[i] = IF i <= Len((a \o b) \o c) THEN ((a \o b) \o c)[i]
                                         ELSE d[i - Len((a \o b) \o c)]
    <3>1. (a \o b) \o c \in Seq(StepType)
      BY <1>8
    <3> QED BY <3>1, ConcatProperties
  <2> QED BY <1>4, <1>5, <1>8, <2>1 DEF InitSteps
<1>10. \A i \in 1..InitSteps :
         Steps[i].then = IF i = 2 \/ (Roce /\ i = 4) THEN "gather" ELSE "barrier"
  <2> SUFFICES ASSUME NEW i \in 1..m + 3
               PROVE  Steps[i].then = IF i = 2 \/ (Roce /\ i = 4) THEN "gather" ELSE "barrier"
    BY <1>9
  <2>1. ASSUME i <= 3
        PROVE  Steps[i].then = IF i = 2 \/ (Roce /\ i = 4) THEN "gather" ELSE "barrier"
    <3>1. Steps[i] = (a \o b)[i]
      <4>1. m \in Nat /\ i \in 1..m /\ i \in 1..m + 3 /\ i <= m
        BY <2>1
      <4>2. Steps[i] = ((a \o b) \o c)[i]
        BY <4>1, <1>9
      <4>3. ((a \o b) \o c)[i] = (a \o b)[i]
        BY <4>1, <2>1, <1>8
      <4> QED BY <4>2, <4>3
    <3>2. i = 1 \/ i = 2 \/ i = 3
      BY <2>1
    <3>3. (a \o b)[1] = a[1] /\ (a \o b)[2] = b[1] /\ (a \o b)[3] = b[2]
      BY <1>6
    <3>4. (a \o b)[1].then = "barrier" /\ (a \o b)[2].then = "gather" /\ (a \o b)[3].then = "barrier"
      BY <3>3, <1>1, <1>2
    <3>5. i # 2 => Steps[i].then = "barrier" /\ ~(i = 2 \/ (Roce /\ i = 4))
      <4> SUFFICES ASSUME i # 2 PROVE Steps[i].then = "barrier" /\ i # 4
        OBVIOUS
      <4>1. i # 4
        BY <3>2
      <4>2. CASE i = 1
        <5>1. Steps[i].then = (a \o b)[1].then
          BY <4>2, <3>1
        <5> QED BY <5>1, <3>4, <4>1
      <4>3. CASE i = 3
        <5>1. Steps[i].then = (a \o b)[3].then
          BY <4>3, <3>1
        <5> QED BY <5>1, <3>4, <4>1
      <4> QED BY <3>2, <4>2, <4>3
    <3>6. i = 2 => Steps[i].then = "gather"
      BY <3>1, <3>4
    <3> QED BY <3>5, <3>6
  <2>2. ASSUME i > 3, i <= m
        PROVE  Steps[i].then = IF i = 2 \/ (Roce /\ i = 4) THEN "gather" ELSE "barrier"
    <3>1. Steps[i] = c[i - 3]
      <4>1. m \in Nat /\ i \in 1..m /\ i \in 1..m + 3 /\ i <= m /\ ~(i <= 3)
        BY <2>2
      <4>2. Steps[i] = ((a \o b) \o c)[i]
        BY <4>1, <1>9
      <4>3. ((a \o b) \o c)[i] = c[i - 3]
        BY <4>1, <1>8
      <4> QED BY <4>2, <4>3
    <3>2. Roce /\ (i = 4 \/ i = 5)
      BY <2>2, <1>7
    <3>3. c[1].then = "gather" /\ c[2].then = "barrier"
      BY <3>2, <1>3
    <3> QED BY <3>1, <3>2, <3>3
  <2>3. ASSUME i > m
        PROVE  Steps[i].then = IF i = 2 \/ (Roce /\ i = 4) THEN "gather" ELSE "barrier"
    <3>1. Steps[i] = d[i - m] /\ i - m \in 1..3
      <4>1. m \in Nat /\ i \in 1..m + 3 /\ ~(i <= m) /\ i - m \in 1..3
        BY <2>3
      <4> QED BY <4>1, <1>9
    <3>2. i > 3 /\ ~(Roce /\ i = 4)
      BY <2>3, <1>7
    <3> QED BY <3>1, <3>2, <1>4
  <2> QED BY <2>1, <2>2, <2>3
<1>11. Steps[2] = b[1] /\ Steps[InitSteps] = d[3] /\ 2 \in 1..InitSteps /\ InitSteps \in 1..InitSteps
  BY <1>2, <1>4, <1>6, <1>7, <1>8, <1>9, SMTT(40)
<1>12. {"core", "initialized", "inited", "space"} \subseteq Everything
  <2>1. \A i \in 1..InitSteps : Range(Steps[i].gets) \subseteq Everything
    BY DEF Everything
  <2>2. Range(Steps[2].gets) \subseteq Everything /\ Range(Steps[InitSteps].gets) \subseteq Everything
    BY <2>1, <1>11
  <2>3. Range(b[1].gets) \subseteq Everything /\ Range(d[3].gets) \subseteq Everything
    BY <2>2, <1>11
  <2> QED BY <2>3, <1>2, <1>4
<1>13. \A i \in 1..InitSteps : Steps[i] \in StepType
  <2>1. Len(Steps) = InitSteps
    BY DEF InitSteps
  <2>2. \A t \in Seq(StepType) : \A i \in 1..Len(t) : t[i] \in StepType
    OBVIOUS
  <2> QED BY <2>1, <2>2, <1>9
<1>14. InitSteps = IF Roce THEN 8 ELSE 6
  BY <1>7, <1>9
<1> QED BY <1>10, <1>12, <1>13, <1>14

\* How the collectives of init are counted.
LEMMA Counting ==
  /\ InitSteps \in {6, 8} /\ Barriers \in 5..6 /\ Barriers < InitSteps /\ AtMost \in Nat
  /\ \A k \in Kinds : \A i \in 0..InitSteps : Collectives(k, i) \in 0..i
  /\ \A k \in Kinds : \A i \in 1..InitSteps :
       Collectives(k, i) = Collectives(k, i - 1) + (IF Steps[i].then = k THEN 1 ELSE 0)
  /\ \A i \in 0..InitSteps - 1 : Collectives("barrier", i) < Barriers
  /\ \A i \in 0..InitSteps : Collectives("gather", i) <= 2
  /\ Collectives("gather", 1) = 0 /\ Collectives("gather", 2) = 1
  /\ \A i \in 0..InitSteps : i > 2 <=> Collectives("barrier", i) >= 2
  /\ \A i \in 1..InitSteps : Steps[i].then \in Kinds
  /\ Steps[2].then = "gather" /\ Steps[InitSteps].then = "barrier"
<1> USE LifecycleAssumption, StepsAre DEF Collectives, GatherSteps, Kinds
<1>1. InitSteps = (IF Roce THEN 8 ELSE 6) /\ AtMost = InitSteps + MaxAllocs
  BY DEF AtMost
<1>2. Barriers = IF Roce THEN 6 ELSE 5
  BY <1>1 DEF Barriers
<1>3. InitSteps \in {6, 8} /\ Barriers \in 5..6 /\ Barriers < InitSteps /\ AtMost \in Nat
  BY <1>1, <1>2
<1>4. \A i \in 0..InitSteps :
        /\ GatherSteps(i) \in 0..2 /\ GatherSteps(i) <= i
        /\ i < 2 => GatherSteps(i) = 0
        /\ i >= 2 => GatherSteps(i) >= 1
        /\ (Roce /\ i >= 4) => GatherSteps(i) = 2
        /\ i >= 2 /\ ~(Roce /\ i >= 4) => GatherSteps(i) = 1
  BY <1>1
<1>5. \A k \in Kinds : \A i \in 0..InitSteps : Collectives(k, i) \in 0..i
  BY <1>3, <1>4
<1>6. \A i \in 1..InitSteps :
        GatherSteps(i) = GatherSteps(i - 1) + (IF Steps[i].then = "gather" THEN 1 ELSE 0)
  BY <1>1
<1>7. \A i \in 1..InitSteps : Steps[i].then \in Kinds
  BY DEF StepType
<1>8. \A k \in Kinds : \A i \in 1..InitSteps :
        Collectives(k, i) = Collectives(k, i - 1) + (IF Steps[i].then = k THEN 1 ELSE 0)
  BY <1>3, <1>4, <1>6, <1>7
<1>9. \A i \in 0..InitSteps - 1 : Collectives("barrier", i) < Barriers
  BY <1>1, <1>2
<1>10. \A i \in 0..InitSteps : i > 2 <=> Collectives("barrier", i) >= 2
  BY <1>1
<1>11. Steps[2].then = "gather" /\ Steps[InitSteps].then = "barrier"
  BY <1>1
<1>12. \A i \in 0..InitSteps : Collectives("gather", i) <= 2
  BY <1>4
<1>13. Collectives("gather", 1) = 0 /\ Collectives("gather", 2) = 1
  BY DEF Collectives
<1> QED BY <1>3, <1>5, <1>7, <1>8, <1>9, <1>10, <1>11, <1>12, <1>13

-----------------------------------------------------------------------------
\* The key that p adds to next.
JoinKey(p) == <<Kind(p), sn[p][Kind(p)] + 1>>

\* What it is to join a collective, key by key.
LEMMA JoinIs ==
  ASSUME TypeOK, NEW p \in PEs, Join(p), JoinKey(p) \in Keys
  PROVE  /\ sn' = [sn EXCEPT ![p][Kind(p)] = sn[p][Kind(p)] + 1]
         /\ server' \in Store /\ server'.up = server.up
         /\ \A k \in Keys :
              \/ /\ k = JoinKey(p)
                 /\ server'.added[k] = Append(server.added[k], Export(p))
              \/ k # JoinKey(p) /\ server'.added[k] = server.added[k]
              \/ /\ k # JoinKey(p) /\ server'.added[k] = <<>>
                 /\ k[1] = Kind(p) /\ sn[p][Kind(p)] + 1 = k[2] + 2
         /\ \A k \in server'.set :
              k \in server.set \/ (k = JoinKey(p) /\ Len(server'.added[k]) = N)
<1> DEFINE kind == Kind(p)
           n == sn[p][kind] + 1
           added == [server.added EXCEPT ![<<kind, n>>] = Append(@, Export(p))]
           size == Len(added[<<kind, n>>])
           old == IF size = 1 THEN OldKeys(kind, n) ELSE {}
           addedNew == [k \in Keys |-> IF k \in old THEN <<>> ELSE added[k]]
           setNew == (server.set \ old) \cup (IF size = N THEN {<<kind, n>>} ELSE {})
<1>1. /\ sn' = [sn EXCEPT ![p][kind] = n]
      /\ server' = [server EXCEPT !.added = addedNew, !.set = setNew]
  BY DEF Join
<1>2. <<kind, n>> = JoinKey(p) /\ <<kind, n>> \in Keys
  BY DEF JoinKey
<1>3. /\ server.added \in [Keys -> Seq(Exports)] /\ server.set \subseteq Keys
      /\ server.up \in BOOLEAN
      /\ server' = [up |-> server.up, added |-> addedNew, set |-> setNew]
  BY <1>1 DEF TypeOK, Store
<1>4. server'.added = addedNew /\ server'.set = setNew /\ server'.up = server.up
  BY <1>3
<1>5. Export(p) \in Exports
  BY DEF TypeOK, Exports, Export
<1>6. added \in [Keys -> Seq(Exports)]
  BY <1>2, <1>3, <1>5
<1>7. n \in Nat /\ kind \in Kinds
  BY <1>2 DEF Keys
<1>8. \A k \in old : k = <<kind, n - 2>>
  BY DEF OldKeys, REMOVE_INTERVAL
<1>9. <<kind, n>> \notin old
  BY <1>7, <1>8
<1>10. addedNew \in [Keys -> Seq(Exports)] /\ setNew \subseteq Keys
  <2>1. <<>> \in Seq(Exports)
    OBVIOUS
  <2>2. \A k \in Keys : addedNew[k] \in Seq(Exports)
    <3> HIDE DEF added, old
    <3> QED BY <2>1, <1>6
  <2>3. setNew \subseteq Keys
    <3> HIDE DEF size, old
    <3> QED BY <1>2, <1>3
  <2> QED BY <2>2, <2>3
<1>11. server' \in Store
  BY <1>3, <1>10 DEF Store
<1>12. ASSUME NEW k \in Keys
       PROVE  \/ /\ k = JoinKey(p)
                 /\ server'.added[k] = Append(server.added[k], Export(p))
              \/ k # JoinKey(p) /\ server'.added[k] = server.added[k]
              \/ /\ k # JoinKey(p) /\ server'.added[k] = <<>>
                 /\ k[1] = Kind(p) /\ sn[p][Kind(p)] + 1 = k[2] + 2
  <2>1. CASE k \in old
    <3>1. k = <<kind, n - 2>>
      BY <2>1, <1>8
    <3>2. server'.added[k] = <<>>
      BY <2>1, <1>4
    <3>3. k # JoinKey(p)
      BY <2>1, <1>9, <1>2
    <3> QED BY <3>1, <3>2, <3>3, <1>7
  <2>2. CASE k \notin old
    <3>1. server'.added[k] = added[k]
      BY <2>2, <1>4
    <3> QED BY <3>1, <1>2, <1>3
  <2> QED BY <2>1, <2>2
<1>13. ASSUME NEW k \in server'.set
       PROVE  k \in server.set \/ (k = JoinKey(p) /\ Len(server'.added[k]) = N)
  <2>1. k \in server.set \/ (size = N /\ k = <<kind, n>>)
    BY <1>4
  <2>2. server'.added[<<kind, n>>] = added[<<kind, n>>]
    BY <1>2, <1>4, <1>9
  <2> QED BY <2>1, <2>2, <1>2
<1> QED BY <1>1, <1>4, <1>11, <1>12, <1>13

-----------------------------------------------------------------------------
\* What p may do.
Acts(p) ==
  \/ StartServer(p) \/ Connect(p) \/ BootstrapFails(p)
  \/ Step(p) \/ Leave(p) \/ Allocate(p)
  \/ StepFails(p) \/ StepRefused(p) \/ StepUnlinked(p) \/ WaitFails(p)
  \/ AllocateUnlinked(p) \/ AllocateSkips(p) \/ Finalize(p)

\* Next is a step of some PE.
LEMMA NextActs == Next => \E p \in PEs : Acts(p)
BY DEF Next, Acts, Go

\* What p does is its own affair, but for the connections that others lose.
LEMMA OthersStay ==
  ASSUME TypeOK, NEW p \in PEs, Acts(p), NEW q \in PEs, q # p
  PROVE  /\ pc'[q] = pc[q] /\ at'[q] = at[q] /\ held'[q] = held[q]
         /\ session'[q] = session[q] /\ sn'[q] = sn[q] /\ imported'[q] = imported[q]
         /\ link'[q] => link[q]
         /\ q \in gaveUp' <=> q \in gaveUp
         /\ skipped => skipped'
<1> USE DEF TypeOK
<1>1. CASE StartServer(p)
  BY <1>1 DEF StartServer
<1>2. CASE Connect(p)
  BY <1>2 DEF Connect
<1>3. CASE Step(p)
  BY <1>3 DEF Step, Join, ghosts
<1>4. CASE Leave(p)
  BY <1>4 DEF Leave
<1>5. CASE Allocate(p)
  BY <1>5 DEF Allocate, Join
<1>6. CASE StepFails(p)
  <2>1. \E has : GiveUp(p, has)
    BY <1>6 DEF StepFails
  <2> QED BY <2>1 DEF GiveUp
<1>7. CASE StepRefused(p) \/ StepUnlinked(p) \/ WaitFails(p) \/ AllocateUnlinked(p)
  <2>1. \E has : GiveUp(p, has)
    BY <1>7 DEF StepRefused, StepUnlinked, WaitFails, AllocateUnlinked
  <2> QED BY <2>1 DEF GiveUp
<1>8. CASE AllocateSkips(p)
  BY <1>8 DEF AllocateSkips
<1>9. CASE Finalize(p)
  BY <1>9 DEF Finalize, ghosts
<1>10. CASE BootstrapFails(p)
  BY <1>10 DEF BootstrapFails
<1> QED BY <1>1, <1>2, <1>3, <1>4, <1>5, <1>6, <1>7, <1>8, <1>9, <1>10 DEF Acts

\* Init and allocations join with the next number of their kind, which the store
\* has a key for.
LEMMA JoinsFit ==
  ASSUME OwnInv, NEW p \in PEs, Step(p) \/ Allocate(p)
  PROVE  /\ Join(p) /\ Kind(p) \in Kinds /\ JoinKey(p) \in Keys
         /\ Step(p) => /\ at[p] \in 1..InitSteps /\ Kind(p) = Steps[at[p]].then
                       /\ sn[p][Kind(p)] + 1 = Collectives(Kind(p), at[p])
         /\ Allocate(p) => /\ at[p] \in InitSteps + 1..AtMost /\ Kind(p) = "barrier"
                           /\ sn[p]["barrier"] + 1 <= Barriers + at[p] - InitSteps
                           /\ ~skipped => sn[p]["barrier"] + 1 = Barriers + at[p] - InitSteps
<1> USE Counting
<1>1. TypeOK /\ Numbered(p)
  BY DEF OwnInv
<1>2. at[p] \in 1..AtMost + 1 /\ sn[p] \in [Kinds -> 0..AtMost]
  BY <1>1 DEF TypeOK
<1>3. AtMost = InitSteps + MaxAllocs
  BY DEF AtMost
<1>4. Join(p)
  BY DEF Step, Allocate
<1>5. ASSUME Step(p)
      PROVE  /\ at[p] \in 1..InitSteps /\ Kind(p) = Steps[at[p]].then
             /\ sn[p][Kind(p)] + 1 = Collectives(Kind(p), at[p])
             /\ Kind(p) \in Kinds /\ JoinKey(p) \in Keys
  <2>1. pc[p] = "init"
    BY <1>5 DEF Step
  <2>2. at[p] \in 1..InitSteps /\ \A k \in Kinds : sn[p][k] = Collectives(k, at[p] - 1)
    BY <1>1, <1>2, <2>1 DEF Numbered
  <2>3. Kind(p) = Steps[at[p]].then /\ Kind(p) \in Kinds
    BY <2>2 DEF Kind
  <2>4. sn[p][Kind(p)] + 1 = Collectives(Kind(p), at[p])
    BY <1>2, <2>2, <2>3
  <2>5. Collectives(Kind(p), at[p]) \in 0..at[p]
    BY <2>2, <2>3
  <2>6. sn[p][Kind(p)] + 1 \in 1..InitSteps
    BY <1>2, <2>2, <2>3, <2>4, <2>5
  <2>7. JoinKey(p) \in Keys
    BY <2>3, <2>6, LifecycleAssumption DEF JoinKey, Keys
  <2> QED BY <2>2, <2>3, <2>4, <2>7
<1>6. ASSUME Allocate(p)
      PROVE  /\ at[p] \in InitSteps + 1..AtMost /\ Kind(p) = "barrier"
             /\ sn[p]["barrier"] + 1 <= Barriers + at[p] - InitSteps
             /\ ~skipped => sn[p]["barrier"] + 1 = Barriers + at[p] - InitSteps
             /\ Kind(p) \in Kinds /\ JoinKey(p) \in Keys
  <2>1. pc[p] = "ready" /\ at[p] <= InitSteps + MaxAllocs /\ link[p]
    BY <1>6 DEF Allocate, CanAllocate
  <2>2. at[p] > InitSteps
    BY <1>1, <2>1 DEF Numbered
  <2>3. /\ sn[p]["barrier"] \in Barriers..Barriers + at[p] - InitSteps - 1
        /\ ~skipped => sn[p]["barrier"] = Barriers + at[p] - InitSteps - 1
    BY <1>1, <2>1, <2>2 DEF Numbered
  <2>4. Kind(p) = "barrier" /\ Kind(p) \in Kinds
    BY <1>2, <2>2 DEF Kind, Kinds
  <2>5. sn[p]["barrier"] + 1 \in 1..InitSteps + MaxAllocs
    BY <1>2, <2>1, <2>2, <2>3, LifecycleAssumption
  <2>6. JoinKey(p) \in Keys
    BY <2>4, <2>5 DEF JoinKey, Keys
  <2> QED BY <1>2, <1>3, <2>1, <2>2, <2>3, <2>4, <2>6
<1> QED BY <1>4, <1>5, <1>6

\* What a step of init acquires is among all there is.
LEMMA GetsAreResources ==
  /\ \A i \in 1..InitSteps : Range(Steps[i].gets) \subseteq Resources
  /\ \A i \in 1..InitSteps : \A j \in DOMAIN Steps[i].gets : Steps[i].gets[j] \in Resources
BY StepsAre DEF StepType, Range

\* A call that ends with an error.
LEMMA GiveUpTypes ==
  ASSUME OwnInv, NEW p \in PEs, NEW has \in SUBSET Resources, GiveUp(p, has), at[p] <= AtMost
  PROVE  TypeOK'
<1> USE DEF TypeOK
<1>1. TypeOK
  BY DEF OwnInv
<1>2. AfterError(has) \in SUBSET Resources
  BY DEF AfterError
<1>3. at[p] + 1 \in 1..AtMost + 1
  BY <1>1, Counting
<1> QED BY <1>1, <1>2, <1>3, ZenonT(60) DEF GiveUp

\* The types hold at first,
LEMMA TypesInit == Init => TypeOK
<1> SUFFICES ASSUME Init PROVE TypeOK
  OBVIOUS
<1> USE LifecycleAssumption, Counting
<1>1. server \in Store
  <2>1. EmptyServer \in Store
    <3>1. <<>> \in Seq(Exports)
      OBVIOUS
    <3> QED BY <3>1 DEF EmptyServer, Store
  <2> QED BY <2>1 DEF Init, Store
<1>2. 1 \in 1..AtMost + 1 /\ 0 \in 0..AtMost
  OBVIOUS
<1> QED BY <1>1, <1>2 DEF Init, TypeOK

\* and every step keeps them.
LEMMA TypesKept == ASSUME OwnInv, [Next]_vars PROVE TypeOK'
<1> USE DEF TypeOK
<1>0. TypeOK
  BY DEF OwnInv
<1>1. CASE UNCHANGED vars
  BY <1>0, <1>1 DEF vars, own, ghosts
<1>2. CASE Next
  <2> PICK p \in PEs : Acts(p)
    BY <1>2, NextActs
  <2>0. 0 \in 0..AtMost /\ 1 \in 1..AtMost + 1
    BY Counting
  <2>1. CASE StartServer(p)
    <3>1. EmptyServer \in Store
      <4>1. <<>> \in Seq(Exports)
        OBVIOUS
      <4> QED BY <4>1 DEF EmptyServer, Store
    <3>2. sn' \in [PEs -> [Kinds -> 0..AtMost]] /\ session' \in [PEs -> Nat]
      BY <1>0, <2>0, <2>1 DEF StartServer
    <3>3. /\ link' \in [PEs -> BOOLEAN] /\ server' \in Store /\ rejoined' \in BOOLEAN
          /\ called' \in [PEs -> Nat] /\ returned' \in [PEs -> Nat]
      BY <2>1, <3>1 DEF StartServer
    <3>4. /\ pc' \in [PEs -> {"out", "starting", "init", "wait", "failed", "ready"}]
          /\ at' \in [PEs -> 1..AtMost + 1]
          /\ imported' \in [PEs -> SUBSET Exports]
          /\ held' = held /\ gaveUp' = gaveUp /\ skipped' = skipped
      BY <1>0, <2>0, <2>1 DEF StartServer
    <3> QED BY <1>0, <3>2, <3>3, <3>4
  <2>2. CASE Connect(p)
    BY <1>0, <2>0, <2>2 DEF Connect
  <2>3. CASE Step(p) \/ Allocate(p)
    <3>1. Join(p) /\ Kind(p) \in Kinds /\ JoinKey(p) \in Keys
      BY <2>3, JoinsFit
    <3>2. server' \in Store /\ sn' = [sn EXCEPT ![p][Kind(p)] = sn[p][Kind(p)] + 1]
      BY <1>0, <3>1, JoinIs
    <3>3. sn[p][Kind(p)] + 1 \in 0..AtMost
      BY <3>1 DEF JoinKey, Keys, AtMost
    <3>4. sn' \in [PEs -> [Kinds -> 0..AtMost]]
      BY <1>0, <3>1, <3>2, <3>3
    <3>5. CASE Step(p)
      <4>1. Range(Steps[at[p]].gets) \subseteq Resources
        BY <3>5, JoinsFit, GetsAreResources
      <4> QED BY <1>0, <3>2, <3>4, <3>5, <4>1 DEF Step, ghosts
    <3>6. CASE Allocate(p)
      <4>1. Call(p) \in Nat
        BY <1>0, <3>6, JoinsFit, Counting DEF Call
      <4> QED BY <1>0, <3>2, <3>4, <3>6, <4>1 DEF Allocate
    <3> QED BY <2>3, <3>5, <3>6
  <2>4. CASE Leave(p)
    <3>1. at[p] + 1 \in 1..AtMost + 1
      BY <1>0, <2>4, Counting DEF OwnInv, Numbered, Leave, Waiting
    <3>2. at[p] >= InitSteps => Call(p) \in Nat
      BY <1>0, Counting DEF Call
    <3>3. Import(p) \in SUBSET Exports
      <4>1. Key(p) \in Keys
        BY <1>0, <2>4 DEF Leave, Store
      <4>2. server.added[Key(p)] \in Seq(Exports)
        BY <1>0, <4>1 DEF Store
      <4> QED BY <1>0, <4>2 DEF Import, Gathered, Range
    <3>4. ~(at[p] < InitSteps) => Call(p) \in Nat
      BY <1>0, <3>2, Counting
    <3> QED BY <1>0, <2>4, <3>1, <3>3, <3>4 DEF Leave
  <2>5. CASE StepFails(p)
    <3>1. pc[p] = "init" /\ at[p] \in 1..InitSteps /\ at[p] <= AtMost
      BY <1>0, <2>5, Counting, LifecycleAssumption DEF StepFails, OwnInv, Numbered, AtMost
    <3>2. PICK i \in DOMAIN Steps[at[p]].gets :
            GiveUp(p, held[p] \cup {Steps[at[p]].gets[j] : j \in 1..i - 1})
      BY <2>5 DEF StepFails
    <3>3. 1..i - 1 \subseteq DOMAIN Steps[at[p]].gets
      <4>1. Steps[at[p]].gets \in Seq(Resources)
        BY <3>1, StepsAre DEF StepType
      <4> QED BY <4>1
    <3>4. {Steps[at[p]].gets[j] : j \in 1..i - 1} \subseteq Resources
      BY <3>1, <3>3, GetsAreResources
    <3>5. held[p] \cup {Steps[at[p]].gets[j] : j \in 1..i - 1} \in SUBSET Resources
      BY <1>0, <3>4
    <3> QED BY <3>1, <3>2, <3>5, GiveUpTypes
  <2>6. CASE StepRefused(p)
    <3>1. at[p] <= AtMost
      BY <1>0, <2>6, Counting, LifecycleAssumption DEF StepRefused, OwnInv, Numbered, AtMost
    <3>2. held[p] \cup {"stream"} \in SUBSET Resources
      BY <1>0 DEF Resources
    <3> QED BY <2>6, <3>1, <3>2, GiveUpTypes DEF StepRefused
  <2>7. CASE StepUnlinked(p)
    <3>1. at[p] \in 1..InitSteps /\ at[p] <= AtMost
      BY <1>0, <2>7, Counting, LifecycleAssumption DEF StepUnlinked, OwnInv, Numbered, AtMost
    <3>2. held[p] \cup Range(Steps[at[p]].gets) \in SUBSET Resources
      BY <1>0, <3>1, GetsAreResources
    <3> QED BY <2>7, <3>1, <3>2, GiveUpTypes DEF StepUnlinked
  <2>8. CASE WaitFails(p) \/ AllocateUnlinked(p)
    <3>1. at[p] <= AtMost
      BY <1>0, <2>8 DEF WaitFails, Waiting, AllocateUnlinked, CanAllocate, OwnInv, Numbered, AtMost
    <3> QED BY <1>0, <2>8, <3>1, GiveUpTypes DEF WaitFails, AllocateUnlinked
  <2>9. CASE AllocateSkips(p)
    <3>1. at[p] + 1 \in 1..AtMost + 1 /\ Call(p) \in Nat
      BY <1>0, <2>9, Counting DEF AllocateSkips, CanAllocate, OwnInv, Numbered, AtMost, Call
    <3> QED BY <1>0, <2>9, <3>1 DEF AllocateSkips
  <2>10. CASE Finalize(p)
    <3>1. TeamKept(held[p]) \cup RangesKept(held[p]) \cup HybmKept(held[p]) \in SUBSET Resources
      BY <1>0 DEF TeamKept, RangesKept, HybmKept
    <3>2. server' \in Store
      BY <1>0, <2>10 DEF Finalize, Store
    <3> QED BY <1>0, <2>10, <3>1, <3>2 DEF Finalize, ghosts
  <2>11. CASE BootstrapFails(p)
    <3>1. server' \in Store
      BY <1>0, <2>11 DEF BootstrapFails, Store
    <3> QED BY <1>0, <2>0, <2>11, <3>1 DEF BootstrapFails
  <2> QED BY <2>1, <2>2, <2>3, <2>4, <2>5, <2>6, <2>7, <2>8, <2>9, <2>10, <2>11 DEF Acts
<1> QED BY <1>1, <1>2

-----------------------------------------------------------------------------
\* The numbers of p's collectives follow its steps.
LEMMA NumberedKept ==
  ASSUME OwnInv, [Next]_vars, TypeOK', NEW r \in PEs
  PROVE  Numbered(r)'
<1> USE DEF TypeOK
<1>0. TypeOK /\ Numbered(r)
  BY DEF OwnInv
<1>1. CASE UNCHANGED vars
  BY <1>0, <1>1 DEF vars, own, ghosts, Numbered
<1>2. CASE Next
  <2> PICK p \in PEs : Acts(p)
    BY <1>2, NextActs
  <2>1. CASE p # r
    <3>1. /\ pc'[r] = pc[r] /\ at'[r] = at[r] /\ sn'[r] = sn[r]
          /\ link'[r] => link[r]
          /\ skipped => skipped'
      BY <1>0, <2>1, OthersStay
    <3> QED BY <1>0, <3>1 DEF Numbered
  <2> SUFFICES ASSUME p = r PROVE Numbered(r)'
    BY <2>1
  <2>2. CASE Connect(r)
    <3>1. pc'[r] = "init" /\ at'[r] = 1 /\ sn'[r] = [k \in Kinds |-> 0]
      BY <1>0, <2>2 DEF Connect
    <3>2. \A k \in Kinds : Collectives(k, 0) = 0
      BY Counting
    <3> QED BY <3>1, <3>2, Counting DEF Numbered
  <2>3. CASE Step(r)
    <3>1. /\ Join(r) /\ Kind(r) \in Kinds /\ JoinKey(r) \in Keys
          /\ at[r] \in 1..InitSteps /\ Kind(r) = Steps[at[r]].then
          /\ sn[r][Kind(r)] + 1 = Collectives(Kind(r), at[r])
      BY <2>3, JoinsFit
    <3>2. sn' = [sn EXCEPT ![r][Kind(r)] = sn[r][Kind(r)] + 1]
      BY <1>0, <3>1, JoinIs
    <3>3. pc'[r] = "wait" /\ at'[r] = at[r] /\ pc[r] = "init"
      BY <1>0, <2>3 DEF Step
    <3>4. \A k \in Kinds : sn'[r][k] = Collectives(k, at[r])
      <4>1. ASSUME NEW k \in Kinds, k # Kind(r) PROVE sn'[r][k] = Collectives(k, at[r])
        <5>1. sn'[r][k] = Collectives(k, at[r] - 1)
          BY <1>0, <3>2, <3>3, <4>1 DEF Numbered
        <5>2. Collectives(k, at[r] - 1) \in Int
          BY <3>1, Counting
        <5> QED BY <5>1, <5>2, <3>1, <4>1, Counting
      <4>2. sn'[r][Kind(r)] = Collectives(Kind(r), at[r])
        BY <1>0, <3>1, <3>2
      <4> QED BY <4>1, <4>2
    <3>5. at[r] <= AtMost
      BY <3>1, Counting, LifecycleAssumption DEF AtMost
    <3> QED BY <3>1, <3>3, <3>4, <3>5, Counting DEF Numbered
  <2>4. CASE Allocate(r)
    <3>1. /\ Join(r) /\ Kind(r) \in Kinds /\ JoinKey(r) \in Keys
          /\ at[r] \in InitSteps + 1..AtMost /\ Kind(r) = "barrier"
          /\ sn[r]["barrier"] + 1 <= Barriers + at[r] - InitSteps
          /\ ~skipped => sn[r]["barrier"] + 1 = Barriers + at[r] - InitSteps
      BY <2>4, JoinsFit
    <3>2. sn' = [sn EXCEPT ![r][Kind(r)] = sn[r][Kind(r)] + 1]
      BY <1>0, <3>1, JoinIs
    <3>3. /\ pc'[r] = "wait" /\ at'[r] = at[r] /\ pc[r] = "ready"
          /\ skipped' = skipped
      BY <1>0, <2>4 DEF Allocate, CanAllocate
    <3>4. sn'[r]["barrier"] = sn[r]["barrier"] + 1
      BY <1>0, <3>1, <3>2
    <3>5. sn[r]["barrier"] \in Nat /\ sn[r]["barrier"] >= Barriers
      BY <1>0, <3>1, <3>3, Counting DEF Numbered, Kinds
    <3> QED BY <3>1, <3>3, <3>4, <3>5, Counting DEF Numbered
  <2>5. CASE Leave(r)
    <3>1. /\ pc[r] = "wait" /\ at'[r] = at[r] + 1 /\ sn'[r] = sn[r]
          /\ pc'[r] = IF at[r] < InitSteps THEN "init" ELSE "ready"
          /\ skipped' = skipped /\ link' = link
      BY <1>0, <2>5 DEF Leave, Waiting
    <3>2. at[r] \in 1..AtMost
      BY <1>0, <3>1, Counting DEF Numbered
    <3>3. CASE at[r] < InitSteps
      BY <1>0, <3>1, <3>2, <3>3, Counting DEF Numbered
    <3>4. CASE at[r] = InitSteps
      <4>1. sn[r]["barrier"] = Barriers
        BY <1>0, <3>1, <3>4, Counting DEF Numbered, Barriers, Kinds
      <4> QED BY <3>1, <3>4, <4>1, Counting DEF Numbered
    <3>5. CASE at[r] > InitSteps
      BY <1>0, <3>1, <3>2, <3>5, Counting DEF Numbered
    <3> QED BY <3>2, <3>3, <3>4, <3>5, Counting
  <2>6. CASE \/ StepFails(r) \/ StepRefused(r) \/ StepUnlinked(r) \/ WaitFails(r)
             \/ AllocateUnlinked(r)
    <3>0. PICK has : GiveUp(r, has)
      BY <2>6 DEF StepFails, StepRefused, StepUnlinked, WaitFails, AllocateUnlinked
    <3>1. /\ sn'[r] = sn[r] /\ link' = link /\ skipped' = skipped
          /\ at[r] <= InitSteps => pc'[r] = "failed" /\ at'[r] = at[r]
          /\ at[r] > InitSteps => pc'[r] = "ready" /\ at'[r] = at[r] + 1
      BY <1>0, <3>0, Counting DEF GiveUp
    <3>2. pc[r] = "wait" \/ (pc[r] = "ready" /\ ~link[r]) \/ pc[r] = "init"
      BY <1>0, <2>6 DEF StepFails, StepRefused, StepUnlinked, WaitFails, AllocateUnlinked,
                        Waiting, CanAllocate
    <3> QED BY <1>0, <3>1, <3>2, Counting DEF Numbered
  <2>7. CASE AllocateSkips(r)
    <3>1. /\ pc[r] = "ready" /\ pc'[r] = "ready" /\ at'[r] = at[r] + 1 /\ sn'[r] = sn[r]
          /\ skipped' = TRUE /\ at[r] \in 1..AtMost
      BY <1>0, <2>7 DEF AllocateSkips, CanAllocate, AtMost
    <3> QED BY <1>0, <3>1, Counting DEF Numbered
  <2>8. CASE Finalize(r)
    <3>1. pc'[r] = "out"
      BY <1>0, <2>8 DEF Finalize
    <3> QED BY <3>1 DEF Numbered
  <2>9. CASE StartServer(r)
    <3>1. pc'[r] = "starting"
      BY <1>0, <2>9 DEF StartServer
    <3> QED BY <3>1 DEF Numbered
  <2>10. CASE BootstrapFails(r)
    <3>1. pc'[r] = "failed" /\ at'[r] = 1
      BY <1>0, <2>10 DEF BootstrapFails
    <3> QED BY <3>1, Counting DEF Numbered
  <2> QED BY <2>2, <2>3, <2>4, <2>5, <2>6, <2>7, <2>8, <2>9, <2>10
      DEF Acts
<1> QED BY <1>1, <1>2

-----------------------------------------------------------------------------
\* A PE that has come through all steps holds everything.
LEMMA AllStepsAreEverything ==
  ASSUME NEW has, \A i \in 1..InitSteps : Range(Steps[i].gets) \subseteq has
  PROVE  Everything \subseteq has
BY DEF Everything

\* What p holds follows the steps it has come through.
LEMMA EquippedKept ==
  ASSUME OwnInv, [Next]_vars, NEW r \in PEs
  PROVE  Equipped(r)'
<1> USE DEF TypeOK
<1>0. TypeOK /\ Numbered(r) /\ Equipped(r)
  BY DEF OwnInv
<1>3. InitSteps \in Nat /\ AtMost \in Nat
  BY Counting
<1>1. CASE UNCHANGED vars
  BY <1>0, <1>1 DEF vars, own, ghosts, Equipped
<1>2. CASE Next
  <2> PICK p \in PEs : Acts(p)
    BY <1>2, NextActs
  <2>1. CASE p # r
    <3>1. /\ pc'[r] = pc[r] /\ at'[r] = at[r] /\ sn'[r] = sn[r] /\ held'[r] = held[r]
          /\ link'[r] => link[r]
          /\ r \in gaveUp' <=> r \in gaveUp
      BY <1>0, <2>1, OthersStay
    <3> QED BY <1>0, <3>1 DEF Equipped
  <2> SUFFICES ASSUME p = r PROVE Equipped(r)'
    BY <2>1
  <2>2. CASE StartServer(r) \/ Connect(r)
    <3>1. pc'[r] = "starting" \/ (pc'[r] = "init" /\ at'[r] = 1)
      BY <1>0, <2>2 DEF StartServer, Connect
    <3> QED BY <3>1, Counting DEF Equipped
  <2>3. CASE Step(r)
    <3>1. /\ pc'[r] = "wait" /\ at'[r] = at[r] /\ pc[r] = "init"
          /\ held'[r] = held[r] \cup Range(Steps[at[r]].gets)
      BY <1>0, <2>3 DEF Step
    <3>2. at[r] \in Int
      BY <1>0
    <3> QED BY <1>0, <3>1, <3>2, Counting DEF Equipped
  <2>4. CASE Allocate(r)
    <3>1. pc'[r] = "wait" /\ at'[r] = at[r] /\ pc[r] = "ready" /\ held' = held
      BY <1>0, <2>4 DEF Allocate, CanAllocate
    <3>2. at[r] > InitSteps /\ at[r] \in Int
      BY <1>0, <3>1 DEF Numbered
    <3> QED BY <1>0, <3>1, <3>2, Counting DEF Equipped
  <2>5. CASE Leave(r)
    <3>1. /\ pc[r] = "wait" /\ at'[r] = at[r] + 1 /\ held' = held
          /\ pc'[r] \in {"init", "ready"}
      BY <1>0, <2>5 DEF Leave, Waiting
    <3>2. \A i \in 1..InitSteps : i < at[r] + 1 => i < at[r] \/ i = at[r]
      <4>1. at[r] \in Int
        BY <1>0, <1>3
      <4> QED BY <4>1, <1>3
    <3> QED BY <1>0, <3>1, <3>2 DEF Equipped
  <2>6. CASE (StepFails(r) \/ StepRefused(r) \/ StepUnlinked(r))
    <3>0. PICK has : GiveUp(r, has)
      BY <2>6 DEF StepFails, StepRefused, StepUnlinked
    <3>1. pc[r] = "init" /\ at[r] \in 1..InitSteps
      BY <1>0, <2>6, Counting DEF StepFails, StepRefused, StepUnlinked, Numbered
    <3>2. sn'[r] = sn[r] /\ pc'[r] = "failed" /\ r \in gaveUp'
      BY <1>0, <3>0, <3>1, Counting DEF GiveUp
    <3>3. sn[r]["barrier"] < Barriers
      BY <1>0, <3>1, Counting DEF Numbered, Kinds
    <3> QED BY <3>2, <3>3, <1>0, Counting DEF Equipped, Kinds
  <2>7. CASE WaitFails(r) /\ at[r] <= InitSteps
    <3>0. GiveUp(r, held[r]) /\ pc[r] = "wait" /\ at[r] \in 1..InitSteps
      BY <1>0, <2>7, Counting DEF WaitFails, Waiting
    <3>1. /\ sn'[r] = sn[r] /\ pc'[r] = "failed" /\ r \in gaveUp'
          /\ held'[r] = AfterError(held[r])
      BY <1>0, <3>0, Counting DEF GiveUp
    <3>2. ASSUME sn[r]["barrier"] >= Barriers PROVE Everything \subseteq held'[r]
      <4>1. sn[r]["barrier"] = Collectives("barrier", at[r])
        BY <1>0, <3>0 DEF Numbered, Kinds
      <4>2. at[r] = InitSteps
        <5>1. at[r] \in 0..InitSteps - 1 => Collectives("barrier", at[r]) < Barriers
          BY Counting
        <5>2. Collectives("barrier", at[r]) \in Int /\ Barriers \in Int
          BY <3>0, Counting DEF Kinds
        <5> QED BY <3>0, <3>2, <4>1, <5>1, <5>2, <1>3
      <4>3. \A i \in 1..InitSteps : i < at[r] \/ (i = at[r] /\ pc[r] = "wait")
        BY <3>0, <4>2, Counting
      <4>4. \A i \in 1..InitSteps : Range(Steps[i].gets) \subseteq held[r]
        BY <1>0, <3>0, <4>3 DEF Equipped
      <4>5. Everything \subseteq held[r]
        BY <4>4, AllStepsAreEverything
      <4>6. AfterError(held[r]) = held[r]
        BY <4>5, StepsAre DEF AfterError
      <4> QED BY <3>1, <4>5, <4>6
    <3> QED BY <3>1, <3>2 DEF Equipped
  <2>8. CASE \/ WaitFails(r) /\ at[r] > InitSteps
             \/ AllocateUnlinked(r)
    <3>1. GiveUp(r, held[r]) /\ pc[r] \in {"wait", "ready"} /\ at[r] > InitSteps /\ at[r] \in Int
      BY <1>0, <2>8 DEF WaitFails, Waiting, AllocateUnlinked, CanAllocate, Numbered
    <3>2. pc'[r] = "ready" /\ held' = held
      BY <1>0, <3>1, Counting DEF GiveUp
    <3>3. \A i \in 1..InitSteps : i < at[r]
      BY <3>1, <1>3
    <3> QED BY <1>0, <3>1, <3>2, <3>3 DEF Equipped
  <2>9. CASE AllocateSkips(r)
    <3>1. pc[r] = "ready" /\ pc'[r] = "ready" /\ held' = held
      BY <1>0, <2>9 DEF AllocateSkips, CanAllocate
    <3>2. at[r] > InitSteps /\ at[r] \in Int
      BY <1>0, <3>1 DEF Numbered
    <3>3. \A i \in 1..InitSteps : i < at[r]
      BY <3>2, <1>3
    <3> QED BY <1>0, <3>1, <3>3 DEF Equipped
  <2>10. CASE Finalize(r)
    <3>1. /\ pc'[r] = "out" /\ gaveUp' = gaveUp
          /\ held'[r] = TeamKept(held[r]) \cup RangesKept(held[r]) \cup HybmKept(held[r])
          /\ pc[r] \in {"failed", "ready"}
      BY <1>0, <2>10 DEF Finalize, ghosts
    <3>2. ASSUME r \notin gaveUp PROVE held'[r] = {}
      <4>1. pc[r] = "ready"
        BY <1>0, <3>1, <3>2 DEF Equipped
      <4>2. at[r] > InitSteps /\ at[r] \in Int
        BY <1>0, <4>1 DEF Numbered
      <4>3. \A i \in 1..InitSteps : Range(Steps[i].gets) \subseteq held[r]
        <5>1. \A i \in 1..InitSteps : i < at[r]
          BY <4>2, <1>3
        <5> QED BY <1>0, <4>1, <5>1 DEF Equipped
      <4>4. Everything \subseteq held[r]
        BY <4>3, AllStepsAreEverything
      <4>5. "initialized" \in held[r] /\ "space" \in held[r] /\ "inited" \in held[r]
        BY <4>4, StepsAre
      <4> QED BY <3>1, <4>5 DEF TeamKept, RangesKept, HybmKept
    <3> QED BY <3>1, <3>2 DEF Equipped
  <2>11. CASE BootstrapFails(r)
    <3>1. pc'[r] = "failed" /\ r \in gaveUp' /\ ~link'[r]
      BY <1>0, <2>11 DEF BootstrapFails
    <3> QED BY <3>1 DEF Equipped
  <2>12. \/ StartServer(r) \/ Connect(r) \/ BootstrapFails(r) \/ Step(r) \/ Allocate(r) \/ Leave(r)
         \/ StepFails(r) \/ StepRefused(r) \/ StepUnlinked(r)
         \/ WaitFails(r) /\ at[r] <= InitSteps
         \/ WaitFails(r) /\ at[r] > InitSteps
         \/ AllocateUnlinked(r) \/ AllocateSkips(r) \/ Finalize(r)
    BY <1>0, Counting DEF Acts
  <2> QED BY <2>2, <2>3, <2>4, <2>5, <2>6, <2>7, <2>8, <2>9, <2>10, <2>11, <2>12
<1> QED BY <1>1, <1>2

\* What a PE does on its own is as it should be, always.
LEMMA OwnInvInit == Init => OwnInv
<1> SUFFICES ASSUME Init PROVE OwnInv
  OBVIOUS
<1>1. TypeOK
  BY TypesInit
<1>2. \A p \in PEs : pc[p] = "out" /\ at[p] = 1 /\ held[p] = {}
  BY DEF Init
<1> QED BY <1>1, <1>2, Counting DEF OwnInv, Numbered, Equipped

\* Every step keeps what a PE does on its own.
LEMMA OwnInvKept == OwnInv /\ [Next]_vars => OwnInv'
<1> SUFFICES ASSUME OwnInv, [Next]_vars PROVE OwnInv'
  OBVIOUS
<1>1. TypeOK'
  BY TypesKept
<1>2. \A r \in PEs : Numbered(r)'
  BY <1>1, NumberedKept
<1>3. \A r \in PEs : Equipped(r)'
  BY EquippedKept
<1> QED BY <1>1, <1>2, <1>3 DEF OwnInv

\* It is an invariant.
LEMMA OwnInvHolds == Spec => []OwnInv
<1>1. Init => OwnInv
  BY OwnInvInit
<1>2. OwnInv /\ [Next]_vars => OwnInv'
  BY OwnInvKept
<1> QED BY <1>1, <1>2, PTL DEF Spec

\* A PE whose calls have all succeeded leaves nothing behind with finalize
\* (shmem_init.cpp), in any session, whatever the other PEs do.
THEOREM ReleasesAll == Spec => []FinalizeReleases
<1>1. OwnInv => FinalizeReleases
  BY DEF OwnInv, Equipped, FinalizeReleases
<1> QED BY <1>1, OwnInvHolds, PTL

-----------------------------------------------------------------------------
\* N additions that differ in their PEs are of all PEs.
LEMMA Pigeonhole ==
  ASSUME NEW f \in [1..N -> PEs], \A i, j \in 1..N : f[i] = f[j] => i = j
  PROVE  \A q \in PEs : \E i \in 1..N : f[i] = q
<1> USE LifecycleAssumption
<1>1. IsFiniteSet(1..N) /\ Cardinality(1..N) = N
  <2>1. IsFiniteSet(1..N) /\ Cardinality(1..N) = IF 1 > N THEN 0 ELSE N - 1 + 1
    BY FS_Interval
  <2> QED BY <2>1
<1>2. IsFiniteSet(PEs) /\ Cardinality(PEs) = N
  <2>1. /\ IsFiniteSet(0..N - 1)
        /\ Cardinality(0..N - 1) = IF 0 > N - 1 THEN 0 ELSE N - 1 - 0 + 1
    BY FS_Interval
  <2> QED BY <2>1 DEF PEs
<1> DEFINE S == {f[i] : i \in 1..N}
<1>3. S \subseteq PEs
  OBVIOUS
<1>4. f \in Bijection(1..N, S)
  BY DEF Bijection, Injection, Surjection, IsInjective
<1>5. IsFiniteSet(S) /\ Cardinality(S) = N
  BY <1>1, <1>4, FS_Bijection DEF ExistsBijection
<1>6. S = PEs
  BY <1>2, <1>3, <1>5, FS_Subset
<1> QED BY <1>6

\* So N additions of the current sessions of PEs, none of them twice, are one of
\* every PE.
LEMMA AllAdded ==
  \A added \in Seq(Exports) : \A current \in [PEs -> Nat] :
    /\ Len(added) = N
    /\ \A i \in 1..N : added[i][2] = current[added[i][1]]
    /\ \A i, j \in 1..N : added[i] = added[j] => i = j
    => \A q \in PEs : \E i \in 1..N : added[i] = <<q, current[q]>>
<1> SUFFICES ASSUME NEW added \in Seq(Exports), NEW current \in [PEs -> Nat], Len(added) = N,
                    \A i \in 1..N : added[i][2] = current[added[i][1]],
                    \A i, j \in 1..N : added[i] = added[j] => i = j
             PROVE  \A q \in PEs : \E i \in 1..N : added[i] = <<q, current[q]>>
  OBVIOUS
<1> DEFINE f == [i \in 1..N |-> added[i][1]]
<1>1. \A i \in 1..N : added[i] \in Exports /\ added[i] = <<added[i][1], added[i][2]>>
  BY DEF Exports
<1>2. f \in [1..N -> PEs]
  BY <1>1 DEF Exports
<1>3. \A i, j \in 1..N : f[i] = f[j] => i = j
  <2> SUFFICES ASSUME NEW i \in 1..N, NEW j \in 1..N, f[i] = f[j] PROVE i = j
    OBVIOUS
  <2>1. added[i][1] = added[j][1] /\ added[i][2] = added[j][2]
    OBVIOUS
  <2> QED BY <1>1, <2>1, SMTT(40)
<1>4. \A q \in PEs : \E i \in 1..N : f[i] = q
  BY <1>2, <1>3, Pigeonhole
<1> QED BY <1>1, <1>4

-----------------------------------------------------------------------------
\* What a step of p does to the store and to what it has counted: a server that
\* is new knows no key,
LEMMA StartEmpties ==
  ASSUME TypeOK, NEW p \in PEs, StartServer(p)
  PROVE  /\ p = 0 /\ server'.up /\ server'.set = {}
         /\ \A k \in Keys : server'.added[k] = <<>>
         /\ \A q \in PEs : ~link'[q] /\ returned'[q] = 0
BY DEF TypeOK, StartServer, EmptyServer

\* and otherwise nothing becomes less.  A PE that had called init on the server
\* stays in its session, if no PE joined again.
LEMMA NothingLess ==
  ASSUME OwnInv, NEW p \in PEs, Acts(p), ~StartServer(p), NEW q \in PEs
  PROVE  /\ called'[q] >= called[q] /\ session'[q] >= session[q]
         /\ rejoined => rejoined'
         /\ skipped => skipped'
         /\ session'[q] = session[q] => \A k \in Kinds : sn'[q][k] >= sn[q][k]
         /\ called[q] >= 1 /\ ~rejoined' => session'[q] = session[q]
         /\ link'[q] => link[q] \/ (Connect(p) /\ p = q)
         /\ ~Connect(p) => session'[q] = session[q]
<1> USE DEF TypeOK
<1>0. TypeOK
  BY DEF OwnInv
<1>1. CASE Connect(p)
  <2>1. CASE q = p
    <3>1. session'[q] = session[q] + 1 /\ called'[q] = IF called[q] = 0 THEN 1 ELSE called[q]
      BY <1>0, <1>1, <2>1 DEF Connect
    <3>2. rejoined' = (rejoined \/ called[q] # 0) /\ skipped' = skipped
      BY <1>0, <1>1, <2>1 DEF Connect
    <3>3. session[q] \in Nat /\ called[q] \in Nat
      BY <1>0
    <3>4. session'[q] # session[q] /\ session'[q] >= session[q] /\ called'[q] >= called[q]
      BY <3>1, <3>3
    <3>5. called[q] >= 1 => rejoined'
      <4>1. called[q] >= 1 => called[q] # 0
        BY <3>3
      <4> QED BY <3>2, <4>1
    <3> QED BY <1>1, <2>1, <3>2, <3>4, <3>5
  <2>2. CASE q # p
    <3>1. session'[q] = session[q] /\ sn'[q] = sn[q] /\ called'[q] = called[q] /\ link'[q] = link[q]
      BY <1>0, <1>1, <2>2 DEF Connect
    <3>2. rejoined' = (rejoined \/ called[p] # 0) /\ skipped' = skipped
      BY <1>0, <1>1 DEF Connect
    <3> QED BY <1>0, <1>1, <2>2, <3>1, <3>2
  <2> QED BY <2>1, <2>2
<1>2. CASE Step(p) \/ Allocate(p)
  <2>1. Join(p) /\ Kind(p) \in Kinds /\ JoinKey(p) \in Keys
    BY <1>2, JoinsFit
  <2>2. sn' = [sn EXCEPT ![p][Kind(p)] = sn[p][Kind(p)] + 1]
    BY <1>0, <2>1, JoinIs
  <2>3. \A k \in Kinds : sn'[q][k] >= sn[q][k]
    BY <1>0, <2>1, <2>2
  <2>4. /\ session' = session /\ rejoined' = rejoined /\ skipped' = skipped
        /\ link' = link /\ ~Connect(p)
    BY <1>2 DEF Step, Allocate, ghosts, Connect, CanBegin, CanAllocate
  <2>5. called'[q] >= called[q]
    <3>1. CASE Step(p)
      BY <1>0, <3>1 DEF Step, ghosts
    <3>2. CASE Allocate(p)
      <4>1. Call(p) \in Nat
        BY <1>0, <3>2, JoinsFit, Counting DEF Call
      <4> QED BY <1>0, <3>2, <4>1 DEF Allocate
    <3> QED BY <1>2, <3>1, <3>2
  <2> QED BY <2>3, <2>4, <2>5, <1>0
<1>3. CASE Leave(p)
  BY <1>0, <1>3 DEF Leave
<1>4. CASE StepFails(p) \/ StepRefused(p) \/ StepUnlinked(p) \/ WaitFails(p) \/ AllocateUnlinked(p)
  <2>1. \E has : GiveUp(p, has)
    BY <1>4 DEF StepFails, StepRefused, StepUnlinked, WaitFails, AllocateUnlinked
  <2> QED BY <1>0, <2>1 DEF GiveUp
<1>5. CASE AllocateSkips(p)
  <2>1. Call(p) \in Nat
    BY <1>0, <1>5, Counting DEF AllocateSkips, CanAllocate, OwnInv, Numbered, Call
  <2> QED BY <1>0, <1>5, <2>1 DEF AllocateSkips
<1>6. CASE Finalize(p)
  BY <1>0, <1>6 DEF Finalize, ghosts
<1>7. CASE BootstrapFails(p)
  BY <1>0, <1>7 DEF BootstrapFails
<1> QED BY <1>1, <1>2, <1>3, <1>4, <1>5, <1>6, <1>7 DEF Acts

\* Only init and allocations change the keys.
LEMMA KeysStay ==
  ASSUME TypeOK, NEW p \in PEs, Acts(p), ~StartServer(p), ~Step(p), ~Allocate(p)
  PROVE  server'.added = server.added /\ server'.set = server.set
<1>1. CASE Connect(p)
  BY <1>1 DEF Connect
<1>2. CASE Leave(p)
  BY <1>2 DEF Leave
<1>3. CASE StepFails(p) \/ StepRefused(p) \/ StepUnlinked(p) \/ WaitFails(p) \/ AllocateUnlinked(p)
  <2>1. \E has : GiveUp(p, has)
    BY <1>3 DEF StepFails, StepRefused, StepUnlinked, WaitFails, AllocateUnlinked
  <2> QED BY <2>1 DEF GiveUp
<1>4. CASE AllocateSkips(p)
  BY <1>4 DEF AllocateSkips
<1>5. CASE Finalize(p)
  BY <1>5 DEF Finalize, TypeOK, Store
<1>6. CASE BootstrapFails(p)
  BY <1>6 DEF BootstrapFails, TypeOK, Store
<1> QED BY <1>1, <1>2, <1>3, <1>4, <1>5, <1>6 DEF Acts

\* An addition is one there was, or the one p makes.
LEMMA AdditionIs ==
  ASSUME OwnInv, NEW p \in PEs, Acts(p), ~StartServer(p),
         NEW k \in Keys, NEW i \in DOMAIN server'.added[k]
  PROVE  \/ i \in DOMAIN server.added[k] /\ server'.added[k][i] = server.added[k][i]
         \/ /\ Step(p) \/ Allocate(p)
            /\ k = JoinKey(p) /\ i = Len(server.added[k]) + 1
            /\ server'.added[k][i] = Export(p)
<1>0. TypeOK
  BY DEF OwnInv
<1>1. CASE ~Step(p) /\ ~Allocate(p)
  BY <1>0, <1>1, KeysStay
<1>2. CASE Step(p) \/ Allocate(p)
  <2>1. Join(p) /\ JoinKey(p) \in Keys
    BY <1>2, JoinsFit
  <2>2. \/ k = JoinKey(p) /\ server'.added[k] = Append(server.added[k], Export(p))
        \/ server'.added[k] = server.added[k]
        \/ server'.added[k] = <<>>
    BY <1>0, <2>1, JoinIs
  <2>3. server.added[k] \in Seq(Exports)
    BY <1>0 DEF TypeOK, Store
  <2>4. Export(p) \in Exports
    BY <1>0 DEF TypeOK, Exports, Export
  <2>5. CASE server'.added[k] = server.added[k] \/ server'.added[k] = <<>>
    BY <2>5
  <2>6. CASE k = JoinKey(p) /\ server'.added[k] = Append(server.added[k], Export(p))
    <3>1. /\ i \in 1..Len(server.added[k]) + 1
          /\ server'.added[k][i] =
               IF i <= Len(server.added[k]) THEN server.added[k][i] ELSE Export(p)
      BY <2>3, <2>4, <2>6, AppendProperties
    <3>2. Len(server.added[k]) \in Nat /\ DOMAIN server.added[k] = 1..Len(server.added[k])
      BY <2>3
    <3>3. CASE i <= Len(server.added[k])
      BY <3>1, <3>2, <3>3
    <3>4. CASE i = Len(server.added[k]) + 1
      BY <1>2, <2>6, <3>1, <3>2, <3>4
    <3> QED BY <3>1, <3>2, <3>3, <3>4
  <2> QED BY <2>2, <2>5, <2>6
<1> QED BY <1>1, <1>2

-----------------------------------------------------------------------------
\* A PE adds to its next key in its session, for a call it has made.
LEMMA JoinsAreOfSessions ==
  ASSUME OwnInv, LinksAreLive, NEW p \in PEs, Step(p) \/ Allocate(p)
  PROVE  /\ link[p] /\ called[p] >= 1 /\ called'[p] >= 1 /\ session' = session
         /\ sn'[p][JoinKey(p)[1]] = JoinKey(p)[2]
         /\ sn[p][JoinKey(p)[1]] < JoinKey(p)[2]
         /\ JoinKey(p)[1] = "barrier" /\ ~skipped => called'[p] >= CallOf(JoinKey(p)[2])
<1> USE DEF TypeOK
<1>0. TypeOK /\ Barriers \in Nat /\ InitSteps \in Nat
  BY Counting DEF OwnInv
<1>1. Join(p) /\ Kind(p) \in Kinds /\ JoinKey(p) \in Keys
  BY JoinsFit
<1>2. sn' = [sn EXCEPT ![p][Kind(p)] = sn[p][Kind(p)] + 1]
  BY <1>0, <1>1, JoinIs
<1>3. JoinKey(p)[1] = Kind(p) /\ JoinKey(p)[2] = sn[p][Kind(p)] + 1
  BY DEF JoinKey
<1>4. sn[p][Kind(p)] \in Nat /\ sn'[p][Kind(p)] = sn[p][Kind(p)] + 1
  BY <1>0, <1>1, <1>2
<1>5. link[p] /\ called[p] >= 1 /\ session' = session
  BY DEF Step, Allocate, ghosts, LinksAreLive
<1>6. CASE Step(p)
  <2>1. called' = called
    BY <1>6 DEF Step, ghosts
  <2>2. ASSUME Kind(p) = "barrier" PROVE sn[p][Kind(p)] + 1 <= Barriers
    <3>1. at[p] \in 1..InitSteps /\ sn[p][Kind(p)] + 1 = Collectives("barrier", at[p])
      BY <1>6, <2>2, JoinsFit
    <3>2. CASE at[p] = InitSteps
      BY <3>1, <3>2, <1>0 DEF Barriers
    <3>3. CASE at[p] \in 0..InitSteps - 1
      BY <3>1, <3>3, <1>0, <1>4, Counting
    <3>4. at[p] = InitSteps \/ at[p] \in 0..InitSteps - 1
      <4> HIDE DEF TypeOK
      <4> QED BY <1>0, <3>1
    <3> QED BY <3>2, <3>3, <3>4
  <2> QED BY <1>3, <1>4, <1>5, <2>1, <2>2 DEF CallOf
<1>7. CASE Allocate(p)
  <2>1. called'[p] = IF called[p] > Call(p) THEN called[p] ELSE Call(p)
    BY <1>0, <1>7 DEF Allocate
  <2>2. /\ at[p] > InitSteps /\ at[p] \in Nat
        /\ Kind(p) = "barrier"
        /\ ~skipped => sn[p]["barrier"] + 1 = Barriers + at[p] - InitSteps
    BY <1>0, <1>7, JoinsFit
  <2>3. Call(p) = at[p] - InitSteps + 1
    BY DEF Call
  <2>4. ~skipped => CallOf(JoinKey(p)[2]) = Call(p)
    <3> SUFFICES ASSUME ~skipped PROVE CallOf(JoinKey(p)[2]) = Call(p)
      OBVIOUS
    <3>1. JoinKey(p)[2] = Barriers + at[p] - InitSteps
      BY <1>3, <2>2
    <3>2. JoinKey(p)[2] > Barriers /\ JoinKey(p)[2] - Barriers = at[p] - InitSteps
      BY <1>0, <2>2, <3>1
    <3>3. ~(JoinKey(p)[2] <= Barriers)
      BY <1>0, <2>2, <3>1
    <3> QED BY <2>3, <3>2, <3>3 DEF CallOf
  <2> QED BY <1>0, <1>3, <1>4, <1>5, <2>1, <2>2, <2>3, <2>4
<1> QED BY <1>6, <1>7

\* The connections are of live sessions.
LEMMA LinksKept ==
  ASSUME OwnInv, TypeOK', LinksAreLive, NEW p \in PEs, Acts(p)
  PROVE  LinksAreLive'
<1> USE DEF TypeOK
<1>0. TypeOK
  BY DEF OwnInv
<1> SUFFICES ASSUME NEW q \in PEs, link'[q]
             PROVE  server'.up /\ called'[q] >= 1 /\ pc'[q] \notin {"out", "starting"}
  BY DEF LinksAreLive
<1>1. CASE StartServer(p)
  BY <1>0, <1>1, StartEmpties
<1>2. CASE Connect(p)
  BY <1>0, <1>2 DEF Connect, LinksAreLive
<1>3. CASE Finalize(p)
  <2>1. link[q] /\ q # p /\ p # 0
    BY <1>3 DEF Finalize
  <2> QED BY <1>0, <1>3, <2>1 DEF Finalize, ghosts, LinksAreLive, Store
<1>4. CASE BootstrapFails(p)
  <2>1. link[q] /\ q # p /\ p # 0
    BY <1>4 DEF BootstrapFails
  <2> QED BY <1>0, <1>4, <2>1 DEF BootstrapFails, LinksAreLive, Store
<1>5. CASE ~StartServer(p) /\ ~Connect(p) /\ ~Finalize(p) /\ ~BootstrapFails(p)
  <2>1. link[q] /\ called'[q] >= called[q]
    BY <1>5, NothingLess
  <2>2. server.up /\ called[q] >= 1 /\ pc[q] \notin {"out", "starting"}
    BY <2>1 DEF LinksAreLive
  <2>3. pc'[q] \notin {"out", "starting"}
    <3>1. CASE p # q
      BY <1>0, <2>2, <3>1, OthersStay
    <3>2. CASE p = q
      <4>1. CASE StepFails(p) \/ StepRefused(p) \/ StepUnlinked(p) \/ WaitFails(p) \/ AllocateUnlinked(p)
        <5>1. \E has : GiveUp(p, has)
          BY <4>1 DEF StepFails, StepRefused, StepUnlinked, WaitFails, AllocateUnlinked
        <5> QED BY <1>0, <3>2, <5>1 DEF GiveUp
      <4>2. CASE Step(p) \/ Leave(p) \/ Allocate(p) \/ AllocateSkips(p)
        BY <1>0, <2>2, <3>2, <4>2 DEF Step, Leave, Allocate, AllocateSkips
      <4> QED BY <1>5, <4>1, <4>2 DEF Acts
    <3> QED BY <3>1, <3>2
  <2>4. server'.up = server.up
    <3>1. CASE Step(p) \/ Allocate(p)
      BY <1>0, <3>1, JoinsFit, JoinIs
    <3>2. CASE ~Step(p) /\ ~Allocate(p)
      BY <1>5, <3>2 DEF Acts, Leave, StepFails, StepRefused, StepUnlinked, WaitFails,
                        AllocateUnlinked, GiveUp, AllocateSkips
    <3> QED BY <3>1, <3>2
  <2> QED BY <1>0, <2>1, <2>2, <2>3, <2>4
<1> QED BY <1>1, <1>2, <1>3, <1>4, <1>5

\* What is known of an addition.
IsOfASession(e, k) ==
  /\ called[e[1]] >= 1
  /\ e[2] <= session[e[1]]
  /\ e[2] = session[e[1]] => k[2] <= sn[e[1]][k[1]]
  /\ ~rejoined => e[2] = session[e[1]]
  /\ k[1] = "barrier" /\ ~skipped => called[e[1]] >= CallOf(k[2])

\* The additions are of sessions.
LEMMA AdditionsAreKept ==
  ASSUME OwnInv, TypeOK', LinksAreLive, AdditionsAreOfSessions, NEW p \in PEs, Acts(p)
  PROVE  AdditionsAreOfSessions'
<1> USE DEF TypeOK
<1>0. TypeOK
  BY DEF OwnInv
<1> SUFFICES ASSUME NEW k \in Keys, NEW i \in DOMAIN server'.added[k]
             PROVE  IsOfASession(server.added[k][i], k)'
  BY DEF AdditionsAreOfSessions, Added, Range, IsOfASession
<1>1. CASE StartServer(p)
  <2>1. server'.added[k] = <<>>
    BY <1>0, <1>1, StartEmpties
  <2> QED BY <2>1
<1>2. CASE ~StartServer(p)
  <2>1. CASE i \in DOMAIN server.added[k] /\ server'.added[k][i] = server.added[k][i]
    <3> DEFINE e == server.added[k][i]
    <3>1. e \in Exports
      BY <1>0, <2>1 DEF Store
    <3>2. e[1] \in PEs /\ e[2] \in Nat /\ k[1] \in Kinds /\ k[2] \in Nat
      BY <3>1 DEF Exports, Keys
    <3>3. IsOfASession(e, k)
      BY <2>1 DEF AdditionsAreOfSessions, Added, Range, IsOfASession
    <3> HIDE DEF e
    <3>4. /\ called'[e[1]] >= called[e[1]] /\ session'[e[1]] >= session[e[1]]
          /\ rejoined => rejoined'
          /\ skipped => skipped'
          /\ session'[e[1]] = session[e[1]] => sn'[e[1]][k[1]] >= sn[e[1]][k[1]]
          /\ called[e[1]] >= 1 /\ ~rejoined' => session'[e[1]] = session[e[1]]
      BY <1>2, <3>2, NothingLess
    <3>5. /\ called[e[1]] \in Nat /\ called'[e[1]] \in Nat
          /\ session[e[1]] \in Nat /\ session'[e[1]] \in Nat
          /\ sn[e[1]][k[1]] \in Int /\ sn'[e[1]][k[1]] \in Int
          /\ CallOf(k[2]) \in Int
      BY <1>0, <3>2, Counting DEF CallOf
    <3>6. /\ called'[e[1]] >= 1
          /\ e[2] <= session'[e[1]]
          /\ e[2] = session'[e[1]] => k[2] <= sn'[e[1]][k[1]]
          /\ ~rejoined' => e[2] = session'[e[1]]
          /\ k[1] = "barrier" /\ ~skipped' => called'[e[1]] >= CallOf(k[2])
      <4>1. /\ called[e[1]] >= 1
            /\ e[2] <= session[e[1]]
            /\ e[2] = session[e[1]] => k[2] <= sn[e[1]][k[1]]
            /\ ~rejoined => e[2] = session[e[1]]
            /\ k[1] = "barrier" /\ ~skipped => called[e[1]] >= CallOf(k[2])
        BY <3>3 DEF IsOfASession
      <4>2. called'[e[1]] >= 1 /\ e[2] <= session'[e[1]]
        BY <3>2, <3>4, <3>5, <4>1
      <4>3. e[2] = session'[e[1]] => k[2] <= sn'[e[1]][k[1]]
        <5>1. e[2] = session'[e[1]] => session'[e[1]] = session[e[1]]
          <6>1. e[2] <= session[e[1]] /\ session'[e[1]] >= session[e[1]]
            BY <3>4, <4>1
          <6> HIDE DEF TypeOK
          <6> QED BY <3>5, <6>1
        <5> QED BY <5>1, <3>2, <3>4, <3>5, <4>1
      <4>4. ~rejoined' => e[2] = session'[e[1]]
        BY <3>4, <4>1
      <4>5. k[1] = "barrier" /\ ~skipped' => called'[e[1]] >= CallOf(k[2])
        BY <3>4, <3>5, <4>1
      <4> QED BY <4>2, <4>3, <4>4, <4>5
    <3>7. e = server'.added[k][i]
      BY <2>1 DEF e
    <3> QED BY <3>6, <3>7 DEF IsOfASession
  <2>2. CASE (Step(p) \/ Allocate(p)) /\ k = JoinKey(p) /\ server'.added[k][i] = Export(p)
    <3> DEFINE e == server'.added[k][i]
    <3>1. e[1] = p /\ e[2] = session[p]
      BY <2>2 DEF Export
    <3>2. /\ called'[p] >= 1 /\ session' = session
          /\ sn'[p][k[1]] = k[2]
          /\ k[1] = "barrier" /\ ~skipped => called'[p] >= CallOf(k[2])
      BY <2>2, JoinsAreOfSessions
    <3>3. skipped => skipped'
      BY <1>2, NothingLess
    <3>4. session[p] \in Nat /\ k[2] \in Nat
      BY <1>0 DEF Keys
    <3>5. IsOfASession(server.added[k][i], k)' <=>
            /\ called'[e[1]] >= 1
            /\ e[2] <= session'[e[1]]
            /\ e[2] = session'[e[1]] => k[2] <= sn'[e[1]][k[1]]
            /\ ~rejoined' => e[2] = session'[e[1]]
            /\ k[1] = "barrier" /\ ~skipped' => called'[e[1]] >= CallOf(k[2])
      BY DEF IsOfASession
    <3> HIDE DEF e
    <3> QED BY <3>1, <3>2, <3>3, <3>4, <3>5
  <2> QED BY <1>2, <2>1, <2>2, AdditionIs
<1> QED BY <1>1, <1>2

\* No session adds twice.
LEMMA AdditionsDifferKept ==
  ASSUME OwnInv, LinksAreLive, AdditionsAreOfSessions, AdditionsDiffer, NEW p \in PEs, Acts(p)
  PROVE  AdditionsDiffer'
<1>0. TypeOK
  BY DEF OwnInv
<1> SUFFICES ASSUME NEW k \in Keys, NEW i \in DOMAIN server'.added[k],
                    NEW j \in DOMAIN server'.added[k],
                    server'.added[k][i] = server'.added[k][j]
             PROVE  i = j
  BY DEF AdditionsDiffer
<1>1. CASE StartServer(p)
  <2>1. server'.added[k] = <<>>
    BY <1>0, <1>1, StartEmpties
  <2> QED BY <2>1
<1>2. CASE ~StartServer(p)
  <2>1. \A h \in DOMAIN server.added[k] :
          k = JoinKey(p) /\ (Step(p) \/ Allocate(p)) => server.added[k][h] # Export(p)
    <3> SUFFICES ASSUME NEW h \in DOMAIN server.added[k], k = JoinKey(p), Step(p) \/ Allocate(p),
                        server.added[k][h] = Export(p)
                 PROVE  FALSE
      OBVIOUS
    <3>1. sn[p][k[1]] < k[2]
      BY JoinsAreOfSessions
    <3>2. Export(p) \in Added(k)
      BY DEF Added, Range
    <3>3. k[2] <= sn[p][k[1]]
      BY <3>2 DEF AdditionsAreOfSessions, Export
    <3>4. sn[p][k[1]] \in Int /\ k[2] \in Int
      BY <1>0 DEF TypeOK, Keys
    <3> QED BY <3>1, <3>3, <3>4
  <2>2. \A h \in DOMAIN server'.added[k] :
          \/ h \in DOMAIN server.added[k] /\ server'.added[k][h] = server.added[k][h]
          \/ /\ Step(p) \/ Allocate(p)
             /\ k = JoinKey(p) /\ h = Len(server.added[k]) + 1
             /\ server'.added[k][h] = Export(p)
    BY <1>2, AdditionIs
  <2> QED BY <2>1, <2>2 DEF AdditionsDiffer
<1> QED BY <1>1, <1>2

\* A key that becomes complete has the additions of all PEs, if none joined again.
LEMMA CompleteKeyHasAll ==
  ASSUME TypeOK, AdditionsAreOfSessions, AdditionsDiffer, ~rejoined,
         NEW k \in Keys, Len(server.added[k]) = N
  PROVE  /\ \A q \in PEs : Export(q) \in Added(k) /\ called[q] >= 1 /\ k[2] <= sn[q][k[1]]
         /\ Added(k) = {Export(q) : q \in PEs}
<1> DEFINE added == server.added[k]
<1>1. added \in Seq(Exports) /\ DOMAIN added = 1..N /\ Len(added) = N
  BY DEF TypeOK, Store
<1>2. \A i \in 1..N : IsOfASession(added[i], k) /\ added[i] \in Added(k) /\ added[i] \in Exports
  BY <1>1 DEF AdditionsAreOfSessions, IsOfASession, Added, Range
<1>3. \A i \in 1..N : added[i][2] = session[added[i][1]]
  BY <1>2 DEF IsOfASession
<1>4. \A i, j \in 1..N : added[i] = added[j] => i = j
  BY <1>1 DEF AdditionsDiffer
<1>5. session \in [PEs -> Nat]
  BY DEF TypeOK
<1>6. \A q \in PEs : \E i \in 1..N : added[i] = <<q, session[q]>>
  <2> HIDE DEF added
  <2>1. /\ Len(added) = N
        /\ \A i \in 1..N : added[i][2] = session[added[i][1]]
        /\ \A i, j \in 1..N : added[i] = added[j] => i = j
        => \A q \in PEs : \E i \in 1..N : added[i] = <<q, session[q]>>
    <3>1. added \in Seq(Exports)
      BY <1>1
    <3> QED BY <3>1, <1>5, AllAdded, Zenon
  <2> QED BY <1>1, <1>3, <1>4, <2>1
<1>7. ASSUME NEW q \in PEs
      PROVE  Export(q) \in Added(k) /\ called[q] >= 1 /\ k[2] <= sn[q][k[1]]
  <2>1. PICK i \in 1..N : added[i] = <<q, session[q]>>
    BY <1>6
  <2>2. IsOfASession(added[i], k) /\ added[i][1] = q /\ added[i][2] = session[q]
    BY <1>2, <2>1
  <2> QED BY <1>2, <2>1, <2>2 DEF IsOfASession, Export
<1>8. \A e \in Added(k) : \E q \in PEs : e = Export(q)
  <2> SUFFICES ASSUME NEW i \in 1..N PROVE \E q \in PEs : added[i] = Export(q)
    BY <1>1 DEF Added, Range
  <2>1. added[i][1] \in PEs /\ added[i] = <<added[i][1], added[i][2]>>
    BY <1>2 DEF Exports
  <2> QED BY <2>1, <1>3 DEF Export
<1> QED BY <1>7, <1>8

\* A key is set when all have added to it, unless somebody joined again.
LEMMA SetKeysKept ==
  ASSUME OwnInv, TypeOK', MeetInv, AdditionsAreOfSessions', AdditionsDiffer', NEW p \in PEs, Acts(p)
  PROVE  SetKeysAreOfAll'
<1>0. TypeOK
  BY DEF OwnInv
<1> SUFFICES ASSUME NEW k \in server'.set, ~rejoined', NEW q \in PEs
             PROVE  called'[q] >= 1 /\ k[2] <= sn'[q][k[1]]
  BY DEF SetKeysAreOfAll
<1>1. k \in Keys
  BY DEF TypeOK, Store
<1>2. k[1] \in Kinds /\ k[2] \in Nat
  BY <1>1 DEF Keys
<1>3. CASE StartServer(p)
  BY <1>0, <1>3, StartEmpties
<1>4. CASE ~StartServer(p)
  <2>1. CASE k \in server.set
    <3>1. /\ called'[q] >= called[q] /\ session'[q] >= session[q]
          /\ rejoined => rejoined'
          /\ session'[q] = session[q] => sn'[q][k[1]] >= sn[q][k[1]]
          /\ called[q] >= 1 /\ ~rejoined' => session'[q] = session[q]
      BY <1>2, <1>4, NothingLess
    <3>2. called[q] >= 1 /\ k[2] <= sn[q][k[1]]
      BY <2>1, <3>1 DEF MeetInv, SetKeysAreOfAll
    <3>3. called[q] \in Nat /\ called'[q] \in Nat /\ sn[q][k[1]] \in Int /\ sn'[q][k[1]] \in Int
      BY <1>0, <1>2 DEF TypeOK
    <3>4. sn'[q][k[1]] >= sn[q][k[1]]
      BY <3>1, <3>2
    <3> QED BY <1>2, <3>1, <3>2, <3>3, <3>4
  <2>2. CASE k \notin server.set
    <3>1. Step(p) \/ Allocate(p)
      BY <1>0, <1>4, <2>2, KeysStay
    <3>2. k = JoinKey(p) /\ Len(server'.added[k]) = N
      BY <1>0, <2>2, <3>1, JoinsFit, JoinIs
    <3>3. server'.added[k] \in Seq(Exports) /\ session' \in [PEs -> Nat]
      BY <1>1 DEF TypeOK, Store
    <3> DEFINE added == server'.added[k]
    <3>4. DOMAIN added = 1..N /\ Len(added) = N
      BY <3>2, <3>3
    <3>5. \A i \in 1..N : /\ called'[added[i][1]] >= 1
                          /\ added[i][2] = session'[added[i][1]] => k[2] <= sn'[added[i][1]][k[1]]
                          /\ added[i][2] = session'[added[i][1]]
      BY <1>1, <3>4 DEF AdditionsAreOfSessions, Added, Range
    <3>6. \A i, j \in 1..N : added[i] = added[j] => i = j
      BY <1>1, <3>4 DEF AdditionsDiffer
    <3>7. \E i \in 1..N : added[i] = <<q, session'[q]>>
      <4> HIDE DEF added
      <4>1. added \in Seq(Exports)
        BY <3>3 DEF added
      <4>2. /\ Len(added) = N
            /\ \A i \in 1..N : added[i][2] = session'[added[i][1]]
            /\ \A i, j \in 1..N : added[i] = added[j] => i = j
            => \A r \in PEs : \E i \in 1..N : added[i] = <<r, session'[r]>>
        <5>1. session' \in [PEs -> Nat]
          BY <3>3
        <5> QED BY <4>1, <5>1, AllAdded, Zenon
      <4> QED BY <3>4, <3>5, <3>6, <4>2
    <3>8. PICK i \in 1..N : added[i] = <<q, session'[q]>>
      BY <3>7
    <3> HIDE DEF added
    <3>9. added[i][1] = q
      BY <3>8
    <3> QED BY <3>5, <3>9
  <2> QED BY <2>1, <2>2
<1> QED BY <1>3, <1>4

\* A PE leaves the allgather of init with what all have added to it, and its last
\* barrier when all have come to theirs.
LEMMA LeavesWithAll ==
  ASSUME OwnInv, MeetInv, NEW p \in PEs, Leave(p), ~rejoined
  PROVE  /\ at[p] = InitSteps => \A q \in PEs : called[q] >= 1 /\ Barriers <= sn[q]["barrier"]
         /\ at[p] = 2 => /\ Import(p) = {Export(q) : q \in PEs}
                         /\ \A q \in PEs : called[q] >= 1
<1>0. TypeOK /\ Numbered(p)
  BY DEF OwnInv
<1>1. Key(p) \in server.set /\ Key(p) \in Keys /\ pc[p] = "wait"
  BY <1>0 DEF Leave, Waiting, TypeOK, Store
<1>2. ASSUME at[p] = InitSteps
      PROVE  \A q \in PEs : called[q] >= 1 /\ Barriers <= sn[q]["barrier"]
  <2>1. Kind(p) = "barrier"
    BY <1>2, Counting DEF Kind
  <2>2. sn[p]["barrier"] = Barriers
    BY <1>0, <1>1, <1>2, Counting DEF Numbered, Barriers, Kinds
  <2>3. Key(p)[1] = "barrier" /\ Key(p)[2] = Barriers
    BY <2>1, <2>2 DEF Key
  <2>4. \A q \in PEs : called[q] >= 1 /\ Key(p)[2] <= sn[q][Key(p)[1]]
    BY <1>1 DEF MeetInv, SetKeysAreOfAll
  <2> QED BY <2>3, <2>4
<1>3. ASSUME at[p] = 2
      PROVE  /\ Import(p) = {Export(q) : q \in PEs}
             /\ \A q \in PEs : called[q] >= 1
  <2>1. Kind(p) = "gather"
    BY <1>3, Counting DEF Kind
  <2>2. Len(server.added[Key(p)]) = N
    BY <2>1 DEF Leave, IsWhole, Gathered
  <2>3. /\ Added(Key(p)) = {Export(q) : q \in PEs}
        /\ \A q \in PEs : called[q] >= 1
    BY <1>0, <1>1, <2>2, CompleteKeyHasAll DEF MeetInv
  <2>4. Import(p) = Added(Key(p))
    BY <1>3 DEF Import, Gathered, Added
  <2> QED BY <2>3, <2>4
<1> QED BY <1>2, <1>3

\* A step of p that takes it past init, or gives it something to import, is one
\* of Leave.
LEMMA PassesByLeaving ==
  ASSUME OwnInv, NEW p \in PEs, Acts(p), ~Leave(p), link'[p]
  PROVE  /\ at'[p] > InitSteps => at[p] > InitSteps /\ link[p]
         /\ imported'[p] # {} => imported'[p] = imported[p] /\ link[p]
<1> USE DEF TypeOK
<1>0. TypeOK /\ InitSteps \in Nat /\ 1 <= InitSteps /\ AtMost \in Nat
  BY Counting DEF OwnInv
<1>1. CASE StartServer(p) \/ Connect(p)
  BY <1>0, <1>1 DEF StartServer, Connect
<1>2. CASE Step(p)
  BY <1>0, <1>2 DEF Step
<1>3. CASE Allocate(p)
  BY <1>0, <1>3 DEF Allocate
<1>4. CASE StepFails(p) \/ StepRefused(p) \/ StepUnlinked(p) \/ WaitFails(p) \/ AllocateUnlinked(p)
  <2>1. \E has : GiveUp(p, has)
    BY <1>4 DEF StepFails, StepRefused, StepUnlinked, WaitFails, AllocateUnlinked
  <2> QED BY <1>0, <2>1 DEF GiveUp
<1>5. CASE AllocateSkips(p)
  BY <1>0, <1>5 DEF AllocateSkips, CanAllocate, OwnInv, Numbered
<1>6. CASE Finalize(p) \/ BootstrapFails(p)
  BY <1>0, <1>6 DEF Finalize, BootstrapFails
<1> QED BY <1>1, <1>2, <1>3, <1>4, <1>5, <1>6 DEF Acts

\* Who is past init, and what is imported, is of all PEs.
LEMMA PassesKept ==
  ASSUME OwnInv, TypeOK', MeetInv, NEW p \in PEs, Acts(p)
  PROVE  PassesAreOfAll'
<1>0. TypeOK /\ InitSteps \in Nat
  BY Counting DEF OwnInv
<1>1. CASE StartServer(p)
  <2>1. \A q \in PEs : ~link'[q]
    BY <1>0, <1>1, StartEmpties
  <2> QED BY <2>1, Counting DEF PassesAreOfAll
<1>2. CASE ~StartServer(p)
  <2> SUFFICES ASSUME NEW r \in PEs, link'[r], ~rejoined'
               PROVE  /\ at'[r] > InitSteps =>
                           \A q \in PEs : called'[q] >= 1 /\ Barriers <= sn'[q]["barrier"]
                      /\ imported'[r] # {} =>
                           /\ \A q \in PEs : called'[q] >= 1
                           /\ imported'[r] = {Export(q)' : q \in PEs}
    BY DEF PassesAreOfAll
  <2>1. ~rejoined
    BY <1>2, NothingLess
  <2>2. ASSUME NEW q \in PEs, called[q] >= 1
        PROVE  /\ called'[q] >= 1 /\ Export(q)' = Export(q)
               /\ Barriers <= sn[q]["barrier"] => Barriers <= sn'[q]["barrier"]
    <3>1. /\ called'[q] >= called[q] /\ session'[q] = session[q]
          /\ sn'[q]["barrier"] >= sn[q]["barrier"]
      BY <1>2, <2>2, NothingLess DEF Kinds
    <3>2. called[q] \in Nat /\ called'[q] \in Nat /\ sn[q]["barrier"] \in Int /\ sn'[q]["barrier"] \in Int
      BY <1>0 DEF TypeOK, Kinds
    <3> QED BY <2>2, <3>1, <3>2, Counting DEF Export
  <2>3. CASE Leave(r) /\ p = r
    <3>1. link[r] /\ at'[r] = at[r] + 1 /\ imported'[r] = Import(r) /\ at[r] \in Nat
      BY <1>0, <2>3, Counting DEF Leave, TypeOK
    <3>2. ASSUME at'[r] > InitSteps
          PROVE  \A q \in PEs : called[q] >= 1 /\ Barriers <= sn[q]["barrier"]
      <4>1. CASE at[r] > InitSteps
        BY <2>1, <3>1, <4>1 DEF MeetInv, PassesAreOfAll
      <4>2. CASE at[r] = InitSteps
        BY <2>1, <2>3, <4>2, LeavesWithAll
      <4> QED BY <1>0, <3>1, <3>2, <4>1, <4>2
    <3>3. ASSUME imported'[r] # {}
          PROVE  (\A q \in PEs : called[q] >= 1) /\ imported'[r] = {Export(q) : q \in PEs}
      <4>1. CASE at[r] = 2
        BY <2>1, <2>3, <3>1, <4>1, LeavesWithAll
      <4>2. CASE at[r] # 2
        <5>1. imported'[r] = imported[r]
          BY <3>1, <4>2 DEF Import
        <5> QED BY <2>1, <3>1, <3>3, <5>1 DEF MeetInv, PassesAreOfAll
      <4> QED BY <4>1, <4>2
    <3> QED BY <2>2, <3>2, <3>3
  <2>4. CASE ~(Leave(r) /\ p = r)
    <3>1. /\ at'[r] > InitSteps => at[r] > InitSteps /\ link[r]
          /\ imported'[r] # {} => imported'[r] = imported[r] /\ link[r]
      <4>1. CASE p = r
        BY <2>4, <4>1, PassesByLeaving
      <4>2. CASE p # r
        BY <1>0, <4>2, OthersStay
      <4> QED BY <4>1, <4>2
    <3>2. at'[r] > InitSteps => \A q \in PEs : called[q] >= 1 /\ Barriers <= sn[q]["barrier"]
      BY <2>1, <3>1 DEF MeetInv, PassesAreOfAll
    <3>3. imported'[r] # {} =>
            (\A q \in PEs : called[q] >= 1) /\ imported'[r] = {Export(q) : q \in PEs}
      BY <2>1, <3>1 DEF MeetInv, PassesAreOfAll
    <3> QED BY <2>2, <3>2, <3>3
  <2> QED BY <2>3, <2>4
<1> QED BY <1>1, <1>2

\* What the PEs know of each other, always.
LEMMA MeetInvInit == Init => MeetInv
<1> SUFFICES ASSUME Init PROVE MeetInv
  OBVIOUS
<1>1. /\ \A p \in PEs : ~link[p] /\ called[p] = 0
      /\ server.set = {} /\ \A k \in Keys : server.added[k] = <<>>
  BY DEF Init, EmptyServer
<1>2. \A k \in Keys : Added(k) = {} /\ DOMAIN server.added[k] = {}
  BY <1>1 DEF Added, Range
<1> QED BY <1>1, <1>2 DEF MeetInv, LinksAreLive, AdditionsAreOfSessions, AdditionsDiffer,
           SetKeysAreOfAll, PassesAreOfAll

\* Every step keeps what the store knows.
LEMMA MeetInvKept == OwnInv /\ MeetInv /\ [Next]_vars => MeetInv'
<1> SUFFICES ASSUME OwnInv, MeetInv, [Next]_vars PROVE MeetInv'
  OBVIOUS
<1>1. CASE UNCHANGED vars
  BY <1>1 DEF vars, own, ghosts, MeetInv, LinksAreLive, AdditionsAreOfSessions,
              AdditionsDiffer, SetKeysAreOfAll, PassesAreOfAll, Added, Export
<1>2. CASE Next
  <2> PICK p \in PEs : Acts(p)
    BY <1>2, NextActs
  <2>1. TypeOK'
    BY TypesKept
  <2>2. LinksAreLive'
    BY <2>1, LinksKept DEF MeetInv
  <2>3. AdditionsAreOfSessions'
    BY <2>1, AdditionsAreKept DEF MeetInv
  <2>4. AdditionsDiffer'
    BY AdditionsDifferKept DEF MeetInv
  <2>5. SetKeysAreOfAll'
    BY <2>1, <2>3, <2>4, SetKeysKept
  <2>6. PassesAreOfAll'
    BY <2>1, PassesKept
  <2> QED BY <2>2, <2>3, <2>4, <2>5, <2>6 DEF MeetInv
<1> QED BY <1>1, <1>2

\* It is an invariant, with what a PE does on its own.
LEMMA MeetInvHolds == Spec => [](OwnInv /\ MeetInv)
<1>1. Init => OwnInv /\ MeetInv
  BY OwnInvInit, MeetInvInit
<1>2. (OwnInv /\ MeetInv) /\ [Next]_vars => (OwnInv /\ MeetInv)'
  BY OwnInvKept, MeetInvKept
<1> QED BY <1>1, <1>2, PTL DEF Spec

\* A PE that has joined the last barrier of init has everything, as long as it
\* is connected.
LEMMA JoinedLastHasAll ==
  ASSUME OwnInv, LinksAreLive, NEW q \in PEs, sn[q]["barrier"] >= Barriers, link[q]
  PROVE  Everything \subseteq held[q]
<1>0. /\ TypeOK /\ Numbered(q) /\ Equipped(q)
      /\ InitSteps \in Nat /\ Barriers \in Nat /\ AtMost \in Nat
  BY Counting DEF OwnInv
<1>1. at[q] \in Nat /\ at[q] >= 1 /\ sn[q]["barrier"] \in Int
  BY <1>0 DEF TypeOK, Kinds
<1>2. CASE pc[q] = "init"
  <2>1. at[q] <= InitSteps /\ sn[q]["barrier"] = Collectives("barrier", at[q] - 1)
    BY <1>0, <1>2 DEF Numbered, Kinds
  <2>2. at[q] - 1 \in 0..InitSteps - 1
    BY <1>0, <1>1, <2>1
  <2>3. sn[q]["barrier"] < Barriers
    BY <2>1, <2>2, Counting
  <2> QED BY <1>0, <1>1, <2>3
<1>3. CASE pc[q] = "wait" /\ at[q] <= InitSteps
  <2>1. sn[q]["barrier"] = Collectives("barrier", at[q])
    BY <1>0, <1>3 DEF Numbered, Kinds
  <2>2. at[q] \in 0..InitSteps - 1 => sn[q]["barrier"] < Barriers
    BY <2>1, Counting
  <2>3. at[q] = InitSteps
    BY <1>0, <1>1, <1>3, <2>2
  <2>4. \A i \in 1..InitSteps : i < at[q] \/ (i = at[q] /\ pc[q] = "wait")
    BY <1>0, <1>3, <2>3
  <2> QED BY <1>0, <1>3, <2>4, AllStepsAreEverything DEF Equipped
<1>4. CASE pc[q] \in {"wait", "ready"} /\ at[q] > InitSteps
  <2>1. \A i \in 1..InitSteps : i < at[q]
    BY <1>0, <1>1, <1>4
  <2> QED BY <1>0, <1>4, <2>1, AllStepsAreEverything DEF Equipped
<1>5. CASE pc[q] = "failed"
  BY <1>0, <1>5 DEF Equipped
<1>6. pc[q] \in {"init", "wait", "failed", "ready"}
  BY <1>0 DEF TypeOK, LinksAreLive
<1>7. pc[q] = "ready" => at[q] > InitSteps
  BY <1>0 DEF Numbered
<1> QED BY <1>0, <1>1, <1>2, <1>3, <1>4, <1>5, <1>6, <1>7

\* When init has returned on a PE, every PE of its server has everything that
\* init acquires, as long as it has not finalized and nobody joined again
\* (shmem_init.cpp, the barriers and allgathers of every init step).
THEOREM ReadyTogether == Spec => []PeersAreReady
<1>1. OwnInv /\ MeetInv => PeersAreReady
  <2> SUFFICES ASSUME OwnInv, MeetInv, NEW p \in PEs, NEW q \in PEs,
                      IsInitialised(p), link[p], ~rejoined
               PROVE  Everything \subseteq held[q] \/ (~link[q] /\ called[q] # 0)
    BY DEF PeersAreReady
  <2>1. called[q] >= 1 /\ Barriers <= sn[q]["barrier"]
    BY DEF MeetInv, PassesAreOfAll, IsInitialised
  <2>2. called[q] # 0
    BY <2>1
  <2>3. sn[q]["barrier"] >= Barriers
    BY <2>1
  <2> QED BY <2>2, <2>3, JoinedLastHasAll DEF MeetInv
<1> QED BY <1>1, MeetInvHolds, PTL

\* What a PE imports are the slices that the PEs have in their present sessions,
\* one of each, as long as nobody joined the server again (MemSegmentDevice::Import).
THEOREM ImportsMatch == Spec => []ImportsAreCurrent
<1>1. MeetInv => ImportsAreCurrent
  BY DEF MeetInv, PassesAreOfAll, ImportsAreCurrent, Export
<1> QED BY <1>1, MeetInvHolds, PTL

-----------------------------------------------------------------------------
\* The keys the next lemmas are about.
LEMMA SomeKeys ==
  /\ FirstGather \in Keys /\ FirstGather[1] = "gather" /\ FirstGather[2] = 1
  /\ \A n \in 2..AtMost : <<"barrier", n>> \in Keys
BY Counting, LifecycleAssumption DEF FirstGather, Keys, Kinds, AtMost

\* The first allgather's additions stay: the engine removes keys that are two
\* numbers back, and init has no third allgather.
LEMMA SlicesGrow ==
  ASSUME OwnInv, NEW p \in PEs, Acts(p), ~StartServer(p)
  PROVE  /\ Slices \in Seq(Exports) /\ Slices' \in Seq(Exports)
         /\ Len(Slices') >= Len(Slices)
         /\ \A i \in 1..Len(Slices) : Slices'[i] = Slices[i]
         /\ Added(FirstGather) \subseteq Added(FirstGather)'
         /\ (Step(p) \/ Allocate(p)) /\ JoinKey(p) = FirstGather => Export(p) \in Added(FirstGather)'
<1>0. TypeOK /\ Export(p) \in Exports
  BY DEF OwnInv, TypeOK, Exports, Export
<1>1. Slices \in Seq(Exports)
  BY <1>0, SomeKeys DEF TypeOK, Store, Slices
<1>2. \/ Slices' = Slices /\ ~((Step(p) \/ Allocate(p)) /\ JoinKey(p) = FirstGather)
      \/ Slices' = Append(Slices, Export(p))
  <2>1. CASE ~Step(p) /\ ~Allocate(p)
    BY <1>0, <2>1, KeysStay DEF Slices
  <2>2. CASE Step(p) \/ Allocate(p)
    <3>1. Join(p) /\ Kind(p) \in Kinds /\ JoinKey(p) \in Keys
      BY <2>2, JoinsFit
    <3>2. \/ /\ FirstGather = JoinKey(p)
             /\ server'.added[FirstGather] = Append(server.added[FirstGather], Export(p))
          \/ FirstGather # JoinKey(p) /\ server'.added[FirstGather] = server.added[FirstGather]
          \/ FirstGather[1] = Kind(p) /\ sn[p][Kind(p)] + 1 = FirstGather[2] + 2
      BY <1>0, <3>1, SomeKeys, JoinIs
    <3>3. ~(FirstGather[1] = Kind(p) /\ sn[p][Kind(p)] + 1 = FirstGather[2] + 2)
      <4> SUFFICES ASSUME Kind(p) = "gather", sn[p][Kind(p)] + 1 = 3 PROVE FALSE
        BY SomeKeys
      <4>1. Step(p)
        BY <2>2, JoinsFit
      <4>2. at[p] \in 1..InitSteps /\ Collectives("gather", at[p]) = 3
        BY <4>1, JoinsFit
      <4> QED BY <4>2, Counting
    <3> QED BY <3>2, <3>3 DEF Slices
  <2> QED BY <2>1, <2>2
<1>3. CASE Slices' = Slices /\ ~((Step(p) \/ Allocate(p)) /\ JoinKey(p) = FirstGather)
  BY <1>1, <1>3 DEF Added, Slices
<1>4. CASE Slices' = Append(Slices, Export(p))
  <2>1. /\ Slices' \in Seq(Exports) /\ Len(Slices') = Len(Slices) + 1
        /\ \A i \in 1..Len(Slices) : Slices'[i] = Slices[i]
        /\ Slices'[Len(Slices) + 1] = Export(p)
    BY <1>0, <1>1, <1>4, AppendProperties
  <2>2. Len(Slices) \in Nat /\ DOMAIN Slices = 1..Len(Slices) /\ DOMAIN Slices' = 1..Len(Slices')
    BY <1>1, <2>1
  <2>3. Range(Slices) \subseteq Range(Slices') /\ Export(p) \in Range(Slices')
    BY <2>1, <2>2 DEF Range
  <2>4. Range(Slices) = Added(FirstGather) /\ Range(Slices') = Added(FirstGather)'
    BY DEF Added, Slices
  <2> QED BY <1>1, <2>1, <2>2, <2>3, <2>4
<1> QED BY <1>2, <1>3, <1>4

\* So who is through it stays so.
LEMMA ThroughStays ==
  ASSUME OwnInv, NEW p \in PEs, Acts(p), ~StartServer(p), NEW e, Through(e)
  PROVE  Through(e)'
<1>1. /\ Slices \in Seq(Exports) /\ Slices' \in Seq(Exports)
      /\ Len(Slices') >= Len(Slices)
      /\ \A i \in 1..Len(Slices) : Slices'[i] = Slices[i]
  BY SlicesGrow
<1>2. /\ Len(Slices) >= N
      /\ \E i \in 1..N : Slices[i] = e
      /\ \A i \in 1..N : Slices[i][1] = e[1] => Slices[i][2] <= e[2]
  BY DEF Through
<1>3. N \in Nat /\ Len(Slices) \in Nat /\ Len(Slices') \in Nat
  BY <1>1, LifecycleAssumption
<1>4. Len(Slices') >= N
  BY <1>1, <1>2, <1>3
<1>5. \A i \in 1..N : Slices'[i] = Slices[i]
  BY <1>1, <1>2, <1>3
<1> HIDE DEF Slices
<1>6. \E i \in 1..N : Slices'[i] = e
  BY <1>2, <1>5
<1>7. \A i \in 1..N : Slices'[i][1] = e[1] => Slices'[i][2] <= e[2]
  BY <1>2, <1>5
<1> QED BY <1>4, <1>6, <1>7 DEF Through

\* A PE that leaves the first allgather is through it: it has exactly N additions,
\* one of which is of the PE's session, and none of a later one.
LEMMA LeavesThrough ==
  ASSUME OwnInv, MeetInv, GatherIsExact, NEW p \in PEs, Leave(p), at[p] = 2
  PROVE  Through(Export(p))
<1>0. TypeOK /\ Numbered(p)
  BY DEF OwnInv
<1>1. pc[p] = "wait" /\ link[p]
  BY DEF Leave, Waiting
<1>2. Kind(p) = "gather" /\ sn[p]["gather"] = 1
  BY <1>0, <1>1, Counting DEF Kind, Numbered, Kinds
<1>3. Key(p) = FirstGather
  BY <1>2 DEF Key, FirstGather
<1>4. Len(Slices) = N
  BY <1>2, <1>3 DEF Leave, IsWhole, Gathered, Slices
<1>5. Slices \in Seq(Exports) /\ DOMAIN Slices = 1..N
  BY <1>0, <1>4, SomeKeys DEF TypeOK, Store, Slices
<1>6. Export(p) \in Added(FirstGather)
  BY <1>1, <1>2 DEF GatherIsExact
<1>7. \E i \in 1..N : Slices[i] = Export(p)
  BY <1>5, <1>6 DEF Added, Range, Slices
<1>8. ASSUME NEW i \in 1..N, Slices[i][1] = p PROVE Slices[i][2] <= session[p]
  <2>1. Slices[i] \in Added(FirstGather)
    BY <1>5 DEF Added, Range, Slices
  <2>2. Slices[i][2] <= session[Slices[i][1]]
    BY <2>1, SomeKeys DEF MeetInv, AdditionsAreOfSessions
  <2> QED BY <1>8, <2>2
<1>9. Export(p)[1] = p /\ Export(p)[2] = session[p]
  BY DEF Export
<1> QED BY <1>4, <1>7, <1>8, <1>9, LifecycleAssumption DEF Through

\* A PE is past the first allgather only by leaving it.
LEMMA GathersByLeaving ==
  ASSUME OwnInv, NEW p \in PEs, Acts(p), ~(Leave(p) /\ at[p] = 2), link'[p], at'[p] > 2
  PROVE  at[p] > 2 /\ link[p] /\ session' = session /\ ~StartServer(p)
<1> USE DEF TypeOK
<1>0. TypeOK /\ Numbered(p) /\ InitSteps \in Nat /\ InitSteps > 2 /\ AtMost \in Nat
  BY Counting DEF OwnInv
<1>1. at[p] \in Nat
  BY <1>0
<1>2. CASE StartServer(p) \/ Connect(p)
  BY <1>0, <1>2 DEF StartServer, Connect
<1>3. CASE Step(p)
  BY <1>0, <1>3 DEF Step, StartServer
<1>4. CASE Allocate(p)
  BY <1>0, <1>4 DEF Allocate, CanAllocate, StartServer
<1>5. CASE StepFails(p) \/ StepRefused(p) \/ StepUnlinked(p) \/ WaitFails(p) \/ AllocateUnlinked(p)
  <2>1. \E has : GiveUp(p, has)
    BY <1>5 DEF StepFails, StepRefused, StepUnlinked, WaitFails, AllocateUnlinked
  <2>2. pc[p] # "out"
    BY <1>5 DEF StepFails, StepRefused, StepUnlinked, WaitFails, Waiting, AllocateUnlinked, CanAllocate
  <2>3. at[p] > 2 /\ link[p] /\ session' = session
    BY <1>0, <1>1, <2>1 DEF GiveUp
  <2> QED BY <2>2, <2>3 DEF StartServer
<1>6. CASE AllocateSkips(p)
  <2>1. pc[p] = "ready"
    BY <1>6 DEF AllocateSkips, CanAllocate
  <2> QED BY <1>0, <1>1, <1>6, <2>1 DEF AllocateSkips, Numbered, StartServer
<1>7. CASE Finalize(p) \/ BootstrapFails(p)
  BY <1>0, <1>7 DEF Finalize, BootstrapFails
<1>8. CASE Leave(p)
  <2>1. at'[p] = at[p] + 1 /\ link[p] /\ session' = session /\ pc[p] = "wait"
    BY <1>0, <1>8 DEF Leave, Waiting
  <2> QED BY <1>1, <1>8, <2>1 DEF StartServer
<1> QED BY <1>2, <1>3, <1>4, <1>5, <1>6, <1>7, <1>8 DEF Acts

\* A connected PE has added its slice when it is past the number of the first
\* allgather.
LEMMA SlicesAdded ==
  ASSUME OwnInv, MeetInv, GatherIsExact, NEW p \in PEs, Acts(p),
         NEW r \in PEs, link'[r], sn'[r]["gather"] >= 1
  PROVE  Export(r)' \in Added(FirstGather)'
<1> USE DEF TypeOK
<1>0. TypeOK
  BY DEF OwnInv
<1>1. ~StartServer(p)
  <2> SUFFICES ASSUME StartServer(p) PROVE FALSE
    OBVIOUS
  <2> QED BY <1>0, StartEmpties
<1>2. ~(Connect(p) /\ p = r)
  <2> SUFFICES ASSUME Connect(p), p = r PROVE FALSE
    OBVIOUS
  <2>1. sn'[r]["gather"] = 0
    BY <1>0 DEF Connect, Kinds
  <2> QED BY <2>1
<1>3. link[r] /\ session'[r] = session[r]
  <2>1. link[r]
    BY <1>1, <1>2, NothingLess
  <2>2. session'[r] = session[r]
    <3>1. CASE p # r
      BY <1>0, <3>1, OthersStay
    <3>2. CASE p = r
      BY <1>1, <1>2, <3>2, NothingLess
    <3> QED BY <3>1, <3>2
  <2> QED BY <2>1, <2>2
<1>4. Export(r)' = Export(r)
  BY <1>3 DEF Export
<1>5. CASE sn[r]["gather"] >= 1
  <2>1. Export(r) \in Added(FirstGather)
    BY <1>3, <1>5 DEF GatherIsExact
  <2> QED BY <1>1, <1>4, <2>1, SlicesGrow
<1>6. CASE ~(sn[r]["gather"] >= 1)
  <2>1. sn[r]["gather"] = 0
    BY <1>0, <1>6, Counting DEF Kinds
  <2>2. p = r
    <3>1. sn'[r] # sn[r]
      BY <2>1
    <3> QED BY <1>0, <3>1, OthersStay
  <2>3. Step(p) \/ Allocate(p)
    <3> SUFFICES ASSUME ~Step(p), ~Allocate(p) PROVE FALSE
      OBVIOUS
    <3>1. sn' = sn
      BY <1>1, <1>2, <2>2 DEF Acts, Leave, StepFails, StepRefused, StepUnlinked, WaitFails,
                 AllocateUnlinked, GiveUp, AllocateSkips, Finalize, BootstrapFails
    <3> QED BY <2>1, <3>1
  <2>4. /\ Join(p) /\ Kind(p) \in Kinds /\ JoinKey(p) \in Keys
        /\ sn' = [sn EXCEPT ![p][Kind(p)] = sn[p][Kind(p)] + 1]
    BY <1>0, <2>3, JoinsFit, JoinIs
  <2>5. Kind(p) = "gather"
    <3> SUFFICES ASSUME Kind(p) # "gather" PROVE FALSE
      OBVIOUS
    <3>1. sn'[p]["gather"] = sn[p]["gather"]
      BY <1>0, <2>4 DEF Kinds
    <3> QED BY <2>1, <2>2, <3>1
  <2>6. JoinKey(p) = FirstGather
    BY <2>1, <2>2, <2>5 DEF JoinKey, FirstGather
  <2> QED BY <1>1, <1>4, <2>2, <2>3, <2>6, SlicesGrow
<1> QED BY <1>5, <1>6

\* Who is past the first allgather is through it.
LEMMA PastIsThrough ==
  ASSUME OwnInv, MeetInv, GatherIsExact, NEW p \in PEs, Acts(p),
         NEW r \in PEs, link'[r], at'[r] > 2
  PROVE  Through(Export(r))'
<1>0. TypeOK
  BY DEF OwnInv
<1>1. ~StartServer(p) /\ Through(Export(r)) /\ session'[r] = session[r]
  <2>1. CASE Leave(p) /\ at[p] = 2 /\ p = r
    <3>1. pc[p] = "wait" /\ session' = session
      BY <2>1 DEF Leave, Waiting
    <3> QED BY <2>1, <3>1, LeavesThrough DEF StartServer
  <2>2. CASE ~(Leave(p) /\ at[p] = 2) /\ p = r
    <3>1. at[r] > 2 /\ link[r] /\ session' = session /\ ~StartServer(p)
      BY <2>2, GathersByLeaving
    <3> QED BY <3>1 DEF GatherIsExact
  <2>3. CASE p # r
    <3>1. at'[r] = at[r] /\ session'[r] = session[r] /\ link[r]
      BY <1>0, <2>3, OthersStay
    <3>2. ~StartServer(p)
      BY <1>0, <2>3, StartEmpties
    <3> QED BY <3>1, <3>2 DEF GatherIsExact
  <2> QED BY <2>1, <2>2, <2>3
<1>2. PICK e : e = Export(r)
  OBVIOUS
<1>3. Through(e)'
  BY <1>1, <1>2, ThroughStays
<1>4. Export(r)' = e
  BY <1>1, <1>2 DEF Export
<1> QED BY <1>3, <1>4 DEF Through

\* Only they add to the barriers after it.
LEMMA ThroughAdd ==
  ASSUME OwnInv, MeetInv, GatherIsExact, NEW p \in PEs, Acts(p),
         NEW n \in 2..AtMost, NEW e, e \in Added(<<"barrier", n>>)'
  PROVE  Through(e)'
<1>0. TypeOK
  BY DEF OwnInv
<1> DEFINE k == <<"barrier", n>>
<1>1. k \in Keys
  BY SomeKeys
<1>2. PICK i \in DOMAIN server'.added[k] : e = server'.added[k][i]
  BY DEF Added, Range
<1>3. ~StartServer(p)
  <2> SUFFICES ASSUME StartServer(p) PROVE FALSE
    OBVIOUS
  <2>1. server'.added[k] = <<>>
    BY <1>0, <1>1, StartEmpties
  <2> QED BY <1>2, <2>1
<1>4. CASE i \in DOMAIN server.added[k] /\ server'.added[k][i] = server.added[k][i]
  <2>1. e \in Added(k)
    BY <1>2, <1>4 DEF Added, Range
  <2>2. Through(e)
    BY <2>1 DEF GatherIsExact
  <2> QED BY <1>3, <2>2, ThroughStays
<1>5. CASE (Step(p) \/ Allocate(p)) /\ k = JoinKey(p) /\ e = Export(p)
  <2>1. Kind(p) = "barrier" /\ sn[p]["barrier"] + 1 = n
    BY <1>5 DEF JoinKey
  <2>2. link[p]
    BY <1>5 DEF Step, Allocate
  <2>3. at[p] > 2
    <3>1. CASE Step(p)
      <4>1. at[p] \in 1..InitSteps /\ n = Collectives("barrier", at[p])
        BY <2>1, <3>1, JoinsFit
      <4>2. InitSteps \in Nat
        BY Counting
      <4>3. at[p] \in 0..InitSteps /\ Collectives("barrier", at[p]) >= 2
        BY <4>1, <4>2
      <4> QED BY <4>3, Counting
    <3>2. CASE Allocate(p)
      BY <3>2, JoinsFit, Counting
    <3> QED BY <1>5, <3>1, <3>2
  <2>4. Through(e)
    BY <1>5, <2>2, <2>3 DEF GatherIsExact
  <2> QED BY <1>3, <2>4, ThroughStays
<1> QED BY <1>1, <1>2, <1>3, <1>4, <1>5, AdditionIs

\* The first allgather stays exact.
LEMMA GatherKept ==
  ASSUME OwnInv, MeetInv, GatherIsExact, NEW p \in PEs, Acts(p)
  PROVE  GatherIsExact'
BY SlicesAdded, PastIsThrough, ThroughAdd DEF GatherIsExact

-----------------------------------------------------------------------------
\* N additions, all different, that are through the first allgather.
AreThrough(slices, added) ==
  /\ slices \in Seq(Exports) /\ added \in Seq(Exports) /\ Len(added) = N
  /\ \A i, j \in 1..N : added[i] = added[j] => i = j
  /\ \A i \in 1..N : \E j \in 1..N : slices[j] = added[i]
  /\ \A i, j \in 1..N : slices[j][1] = added[i][1] => slices[j][2] <= added[i][2]

\* N additions that are through the first allgather, none of them twice, are of
\* N PEs: of two that are of one PE neither would be of the earlier session.
LEMMA ThroughAreAll ==
  ASSUME NEW slices, NEW added, AreThrough(slices, added)
  PROVE  \A q \in PEs : \E i \in 1..N : added[i][1] = q
<1> USE DEF AreThrough
<1> DEFINE f == [i \in 1..N |-> added[i][1]]
<1>1. \A i \in 1..N : /\ added[i][1] \in PEs /\ added[i][2] \in Nat
                      /\ added[i] = <<added[i][1], added[i][2]>>
  BY SMTT(40) DEF Exports
<1>2. \A i, j \in 1..N : added[i][1] = added[j][1] => added[i][2] <= added[j][2]
  <2> SUFFICES ASSUME NEW i \in 1..N, NEW j \in 1..N, added[i][1] = added[j][1]
               PROVE  added[i][2] <= added[j][2]
    OBVIOUS
  <2>1. PICK h \in 1..N : slices[h] = added[i]
    OBVIOUS
  <2>2. slices[h][1] = added[j][1]
    BY <2>1
  <2>3. slices[h][2] <= added[j][2]
    BY <2>2
  <2> QED BY <2>1, <2>3
<1>3. \A i, j \in 1..N : f[i] = f[j] => i = j
  <2> SUFFICES ASSUME NEW i \in 1..N, NEW j \in 1..N, added[i][1] = added[j][1] PROVE i = j
    OBVIOUS
  <2> DEFINE m == added[i][2]
             n == added[j][2]
  <2>1. m \in Nat /\ n \in Nat /\ m <= n /\ n <= m
    BY <1>1, <1>2
  <2>2. added[i] = <<added[i][1], m>> /\ added[j] = <<added[j][1], n>>
    BY <1>1
  <2>3. added[i] = added[j] => i = j
    OBVIOUS
  <2> HIDE DEF AreThrough, m, n
  <2>4. m = n
    BY <2>1
  <2>5. added[i] = added[j]
    BY <2>2, <2>4
  <2> QED BY <2>3, <2>5
<1>4. f \in [1..N -> PEs]
  BY <1>1
<1>5. \A q \in PEs : \E i \in 1..N : f[i] = q
  BY <1>3, <1>4, Pigeonhole
<1> QED BY <1>5

\* A barrier after the first allgather is complete when all PEs have made its call.
LEMMA BarriersKept ==
  ASSUME OwnInv, TypeOK', MeetInv, GatherIsExact, BarriersAreCalls, NEW p \in PEs, Acts(p),
         AdditionsAreOfSessions', AdditionsDiffer', GatherIsExact', ~skipped',
         NEW n \in 2..AtMost, <<"barrier", n>> \in server'.set, NEW q \in PEs
  PROVE  called'[q] >= CallOf(n)
<1>0. TypeOK /\ CallOf(n) \in Int
  BY Counting DEF OwnInv, CallOf
<1> DEFINE k == <<"barrier", n>>
<1>1. k \in Keys
  BY SomeKeys
<1>2. ~StartServer(p)
  BY <1>0, StartEmpties
<1>3. CASE k \in server.set
  <2>1. ~skipped /\ called'[q] >= called[q]
    BY <1>2, NothingLess
  <2>2. called[q] >= CallOf(n)
    BY <1>3, <2>1 DEF BarriersAreCalls
  <2>3. called[q] \in Nat /\ called'[q] \in Nat
    BY <1>0 DEF TypeOK
  <2> QED BY <1>0, <2>1, <2>2, <2>3
<1>4. CASE k \notin server.set
  <2>1. Step(p) \/ Allocate(p)
    BY <1>0, <1>2, <1>4, KeysStay
  <2>2. Len(server'.added[k]) = N
    BY <1>0, <1>4, <2>1, JoinsFit, JoinIs
  <2>3. server'.added[k] \in Seq(Exports) /\ server'.added[FirstGather] \in Seq(Exports)
    BY <1>1, SomeKeys DEF TypeOK, Store
  <2>4. PICK added \in Seq(Exports) : added = server'.added[k]
    BY <2>3
  <2>5. PICK slices \in Seq(Exports) : slices = server'.added[FirstGather]
    BY <2>3
  <2>6. Len(added) = N /\ DOMAIN added = 1..N
    BY <2>2, <2>4
  <2>7. \A i \in 1..N : added[i] \in Added(k)'
    BY <2>4, <2>6 DEF Added, Range
  <2>8. \A i, j \in 1..N : added[i] = added[j] => i = j
    BY <1>1, <2>4, <2>6 DEF AdditionsDiffer
  <2>9. ASSUME NEW i \in 1..N
        PROVE  /\ \E j \in 1..N : slices[j] = added[i]
               /\ \A j \in 1..N : slices[j][1] = added[i][1] => slices[j][2] <= added[i][2]
    <3>1. PICK e : e = added[i]
      OBVIOUS
    <3>2. Through(e)'
      BY <2>7, <3>1 DEF GatherIsExact
    <3>3. /\ \E j \in 1..N : slices[j] = e
          /\ \A j \in 1..N : slices[j][1] = e[1] => slices[j][2] <= e[2]
      BY <2>5, <3>2 DEF Through, Slices
    <3> QED BY <3>1, <3>3
  <2>10. \A i \in 1..N : called'[added[i][1]] >= CallOf(n)
    <3>1. k[1] = "barrier" /\ k[2] = n
      OBVIOUS
    <3> QED BY <1>1, <2>7, <3>1 DEF AdditionsAreOfSessions, CallOf
  <2>11. PICK i \in 1..N : added[i][1] = q
    <3>1. AreThrough(slices, added)
      BY <2>6, <2>8, <2>9 DEF AreThrough
    <3> QED BY <3>1, ThroughAreAll
  <2> QED BY <2>10, <2>11
<1> QED BY <1>3, <1>4

\* A call returns when its barrier is complete.
LEMMA ReturnsKept ==
  ASSUME OwnInv, TypeOK', MeetInv, BarriersAreCalls, NEW p \in PEs, Acts(p), ~skipped',
         NEW r \in PEs, link'[r], NEW q \in PEs
  PROVE  returned'[r] <= called'[q]
<1> USE DEF TypeOK
<1>0. TypeOK /\ InitSteps \in Nat /\ Barriers \in Nat /\ AtMost \in Nat
  BY Counting DEF OwnInv
<1>1. CASE StartServer(p)
  <2>1. returned'[r] = 0
    BY <1>0, <1>1, StartEmpties
  <2>2. called'[q] \in Nat
    OBVIOUS
  <2> QED BY <2>1, <2>2
<1>2. CASE Connect(p) /\ p = r
  BY <1>0, <1>2 DEF Connect
<1>3. CASE Leave(p) /\ p = r /\ ~(at[p] < InitSteps)
  <2>1. /\ returned'[p] = Call(p) /\ called' = called /\ skipped' = skipped
        /\ pc[p] = "wait" /\ link[p] /\ Key(p) \in server.set /\ at[p] \in Nat
        /\ at[p] >= InitSteps
    BY <1>0, <1>3 DEF Leave, Waiting
  <2>2. Kind(p) = "barrier"
    BY <1>0, <2>1, Counting DEF Kind
  <2>3. sn[p]["barrier"] = Barriers + at[p] - InitSteps
    <3> HIDE DEF TypeOK
    <3>1. Numbered(p) /\ ~skipped
      BY <2>1 DEF OwnInv
    <3>2. CASE at[p] > InitSteps
      BY <1>0, <2>1, <3>1, <3>2 DEF Numbered
    <3>3. CASE at[p] = InitSteps
      <4>1. sn[p]["barrier"] = Barriers
        BY <1>0, <2>1, <3>1, <3>3 DEF Numbered, Barriers, Kinds
      <4> QED BY <1>0, <3>3, <4>1
    <3> QED BY <1>0, <2>1, <3>2, <3>3
  <2>4. Key(p) = <<"barrier", sn[p]["barrier"]>> /\ sn[p]["barrier"] \in 2..AtMost
    <3>1. sn[p]["barrier"] >= 2 /\ sn[p]["barrier"] \in 0..AtMost
      BY <1>0, <2>1, <2>3, Counting DEF Kinds
    <3> QED BY <1>0, <2>2, <3>1 DEF Key
  <2>5. called[q] >= CallOf(sn[p]["barrier"])
    BY <2>1, <2>4 DEF BarriersAreCalls
  <2>6. CallOf(sn[p]["barrier"]) = Call(p)
    <3> HIDE DEF TypeOK
    <3>1. PICK n : n = sn[p]["barrier"]
      OBVIOUS
    <3>2. n = Barriers + at[p] - InitSteps
      BY <2>3, <3>1
    <3>3. CallOf(n) = Call(p)
      BY <1>0, <2>1, <3>2 DEF CallOf, Call
    <3> QED BY <3>1, <3>3
  <2>7. called[q] \in Int /\ Call(p) \in Int
    BY <1>0, <2>1 DEF Call
  <2> QED BY <1>3, <2>1, <2>5, <2>6, <2>7
<1>4. CASE /\ ~StartServer(p) /\ ~(Connect(p) /\ p = r)
           /\ ~(Leave(p) /\ p = r /\ ~(at[p] < InitSteps))
  <2>1. link[r] /\ ~skipped /\ called'[q] >= called[q]
    BY <1>4, NothingLess
  <2>2. returned'[r] = returned[r]
    <3>1. CASE Connect(p)
      BY <1>0, <1>4, <3>1 DEF Connect
    <3>2. CASE Leave(p)
      BY <1>0, <1>4, <3>2 DEF Leave
    <3>3. CASE \/ Step(p) \/ Allocate(p) \/ AllocateSkips(p) \/ Finalize(p)
               \/ BootstrapFails(p)
      BY <3>3 DEF Step, Allocate, AllocateSkips, Finalize, BootstrapFails, ghosts
    <3>4. CASE StepFails(p) \/ StepRefused(p) \/ StepUnlinked(p) \/ WaitFails(p) \/ AllocateUnlinked(p)
      <4>1. returned' = returned
        BY <3>4 DEF StepFails, StepRefused, StepUnlinked, WaitFails, AllocateUnlinked, GiveUp
      <4> QED BY <4>1
    <3> QED BY <1>4, <3>1, <3>2, <3>3, <3>4 DEF Acts
  <2>3. returned[r] <= called[q]
    BY <2>1 DEF BarriersAreCalls
  <2>4. returned[r] \in Int /\ called[q] \in Int /\ called'[q] \in Int
    BY <1>0
  <2> QED BY <2>1, <2>2, <2>3, <2>4
<1> QED BY <1>1, <1>2, <1>3, <1>4

\* A call that has succeeded on a PE has been made on all PEs
\* (shmem_init.cpp, shmem_mm.cpp: the barrier of init and of every allocation),
\* whoever failed, timed out or joined the server again, unless an allocation
\* returned without its barrier: who joins again finds the first allgather
\* spoilt, unless it is one of N that came through it.
THEOREM CallsMeet == Spec => []CallsAreCollective
<1>1. Init => IInv
  <2> SUFFICES ASSUME Init PROVE IInv
    OBVIOUS
  <2>1. OwnInv /\ MeetInv
    BY OwnInvInit, MeetInvInit
  <2>2. /\ \A p \in PEs : ~link[p]
        /\ server.set = {} /\ \A k \in Keys : server.added[k] = <<>>
    BY DEF Init, EmptyServer
  <2>3. \A n \in 2..AtMost : Added(<<"barrier", n>>) = {}
    <3>1. \A k \in Keys : Added(k) = {}
      BY <2>2 DEF Added, Range
    <3> QED BY <3>1, SomeKeys
  <2> QED BY <2>1, <2>2, <2>3 DEF IInv, GatherIsExact, BarriersAreCalls
<1>2. IInv /\ [Next]_vars => IInv'
  <2> SUFFICES ASSUME IInv, [Next]_vars PROVE IInv'
    OBVIOUS
  <2>0. OwnInv /\ MeetInv /\ GatherIsExact /\ BarriersAreCalls
    BY DEF IInv
  <2>1. OwnInv' /\ MeetInv'
    BY <2>0, OwnInvKept, MeetInvKept
  <2>2. TypeOK' /\ AdditionsAreOfSessions' /\ AdditionsDiffer'
    BY <2>1 DEF OwnInv, MeetInv
  <2>3. CASE UNCHANGED vars
    <3>1. GatherIsExact' /\ BarriersAreCalls'
      BY <2>0, <2>3 DEF vars, own, ghosts, GatherIsExact, BarriersAreCalls, Through, Slices,
                        Added, Export
    <3> QED BY <2>1, <3>1 DEF IInv
  <2>4. CASE Next
    <3> PICK p \in PEs : Acts(p)
      BY <2>4, NextActs
    <3>1. GatherIsExact'
      BY <2>0, GatherKept
    <3>2. BarriersAreCalls'
      <4>1. \A n \in 2..AtMost : ~skipped' /\ <<"barrier", n>> \in server'.set =>
              \A q \in PEs : called'[q] >= CallOf(n)
        BY <2>0, <2>2, <3>1, BarriersKept
      <4>2. \A r \in PEs : ~skipped' /\ link'[r] => \A q \in PEs : returned'[r] <= called'[q]
        BY <2>0, <2>2, ReturnsKept
      <4> QED BY <4>1, <4>2 DEF BarriersAreCalls, CallOf
    <3> QED BY <2>1, <3>1, <3>2 DEF IInv
  <2> QED BY <2>3, <2>4
<1>3. IInv => CallsAreCollective
  BY DEF IInv, BarriersAreCalls, CallsAreCollective
<1> QED BY <1>1, <1>2, <1>3, PTL DEF Spec
=============================================================================
