-------------------------- MODULE QpManager_proofs --------------------------
(***************************************************************************)
(* A rank whose Connect reports success is connected to every other, for   *)
(* any number of ranks, and its device's table has all of them if its two  *)
(* sides did not fill it at the same time.  The argument follows the two   *)
(* sides of one rank: a side that has copied its table has seen all its    *)
(* queue pairs up, which stay so until the rank gives up; of two sides     *)
(* that do not overlap, the one that fills the table last sees the queue   *)
(* pairs of both.                                                          *)
(***************************************************************************)
EXTENDS QpManager, FiniteSetTheorems, TLAPS

Working == {"sockets", "create", "status", "copy"}

\* The types of what the argument is about.
Places == {"start", "clients", "join server", "join client", "success", "failure", "closed"}
States == Working \cup {"none", "ended"}
Codes == {"unset", "success", "failed"}
Pairs == [Ranks -> [Ranks -> {"none", "connecting", "up"}]]

Types ==
  /\ pc \in [Ranks -> Places]
  /\ thread \in [Ranks -> [Sides -> States]]
  /\ connectResult \in [Ranks -> [Sides -> Codes]]
  /\ clients \in [Ranks -> SUBSET Ranks]
  /\ qp \in Pairs
  /\ copyInfo \in [Ranks -> [Sides -> SUBSET Ranks]]
  /\ qpInfo \in [Ranks -> SUBSET Ranks]
  /\ swallowed \subseteq Ranks /\ overlapped \subseteq Ranks

\* The client's channels are those to the lowest ranks.
ClientsAreTheLowest(r) == \E k \in 0..r : clients[r] = Below(k)

\* The ranks a side connects to.
Peers(r, s) == IF s = "server" THEN Above(r) ELSE Below(r)

\* A side whose thread has not come to its end has no result, and only a side
\* with somebody to connect to has a thread.
ThreadsAreReal(r) ==
  /\ pc[r] = "start" => \A s \in Sides : thread[r][s] = "none"
  /\ pc[r] = "clients" => thread[r]["client"] = "none"
  /\ \A s \in Sides :
       /\ thread[r][s] \in Working => connectResult[r][s] = "unset"
       /\ thread[r][s] # "none" => Peers(r, s) # {}
       /\ thread[r][s] = "none" /\ Peers(r, s) # {} => connectResult[r][s] = "unset"

\* The main thread has seen both threads end when it looks at their results.
MainIsLast(r) ==
  /\ pc[r] \in {"join client", "success"} => Ended(r, "server")
  /\ pc[r] = "success" =>
       Ended(r, "client") /\ \A s \in Sides : connectResult[r][s] = "success"

\* Neither a failure nor a success the server side did not have.
Sound(r) == pc[r] \notin {"failure", "closed"} /\ r \notin swallowed

Seen(r, s) == thread[r][s] = "copy" \/ connectResult[r][s] = "success"

\* A side that has seen its queue pairs up: they are, and the channels there.
SeenAreUp(r) ==
  Sound(r) =>
    /\ \A s \in Sides : Seen(r, s) => \A q \in Peers(r, s) : qp[r][q] = "up"
    /\ Seen(r, "client") => HasChannels(r)

\* A side has nothing left to add to the table.
Through(r, s) == Peers(r, s) = {} \/ connectResult[r][s] = "success"

\* The table is of other ranks, and who fills it last fills it with all of them.
LastIsWhole(r) ==
  /\ qpInfo[r] \subseteq Others(r)
  /\ \A s \in Sides : copyInfo[r][s] \subseteq Others(r)
  /\ Sound(r) /\ r \notin overlapped =>
       /\ \A s \in Sides :
            thread[r][s] = "copy" =>
              /\ thread[r][Other(s)] # "copy"
              /\ Through(r, Other(s)) => copyInfo[r][s] = Others(r)
       /\ (\A s \in Sides : Through(r, s)) => qpInfo[r] = Others(r)

RankInv(r) ==
  ClientsAreTheLowest(r) /\ ThreadsAreReal(r) /\ MainIsLast(r) /\ SeenAreUp(r) /\ LastIsWhole(r)

IInv == Types /\ \A r \in Ranks : RankInv(r)

-----------------------------------------------------------------------------
\* There are two sides.
LEMMA OtherSide == Other("server") = "client" /\ Other("client") = "server"
BY DEF Other, Sides

\* The ranks above and below are the others.
LEMMA PeersAreTheOthers ==
  ASSUME NEW r \in Ranks
  PROVE  /\ Others(r) = Peers(r, "server") \cup Peers(r, "client")
         /\ \A s \in Sides : Peers(r, s) \subseteq Others(r)
         /\ Above(r) = {} <=> r = Last
         /\ Below(r) = {} <=> r = 0
<1> USE rankCountAssumption DEF rankCountAssumption
<1>1. r \in 0..Last /\ Last \in Nat /\ Ranks = 0..Last
  BY DEF Ranks, Last
<1>2. Above(r) = {} <=> r = Last
  <2>1. r # Last => Last \in Above(r)
    BY <1>1 DEF Above
  <2>2. r = Last => Above(r) = {}
    BY <1>1 DEF Above
  <2> QED BY <2>1, <2>2
<1>3. Below(r) = {} <=> r = 0
  <2>1. r # 0 => 0 \in Below(r)
    BY <1>1 DEF Below
  <2>2. r = 0 => Below(r) = {}
    BY <1>1 DEF Below
  <2> QED BY <2>1, <2>2
<1>4. Others(r) = Above(r) \cup Below(r)
  <2>1. \A q \in Ranks : q # r <=> q > r \/ q < r
    BY <1>1
  <2> QED BY <2>1 DEF Above, Below, Others
<1> QED BY <1>2, <1>3, <1>4 DEF Peers, Sides

\* Nothing has been done at first.
LEMMA InitInv == Init => IInv
<1> SUFFICES ASSUME Init PROVE IInv
  OBVIOUS
<1>1. Types
  BY DEF Init, Types, Places, States, Codes, Pairs, Sides
<1>2. ASSUME NEW r \in Ranks PROVE RankInv(r)
  <2>1. ClientsAreTheLowest(r)
    <3>1. r \in Nat
      BY DEF Ranks
    <3>2. 0 \in 0..r /\ Below(0) = {}
      BY <3>1 DEF Below, Ranks
    <3> QED BY <3>2 DEF Init, ClientsAreTheLowest
  <2>2. ThreadsAreReal(r) /\ MainIsLast(r) /\ SeenAreUp(r)
    BY DEF Init, ThreadsAreReal, MainIsLast, SeenAreUp, Seen, Sides, Working
  <2>3. (\A s \in Sides : Through(r, s)) => Others(r) = {}
    BY PeersAreTheOthers DEF Init, Through, Sides
  <2>4. LastIsWhole(r)
    BY <2>3 DEF Init, LastIsWhole, Sides
  <2> QED BY <2>1, <2>2, <2>4 DEF RankInv
<1> QED BY <1>1, <1>2 DEF IInv

-----------------------------------------------------------------------------
\* A step of a rank is one of the actions below.
RankStep(r) == Rank(r) \/ Failing(r)

\* A queue pair that is up at another rank stays up, and nothing else of that
\* rank changes.
LEMMA OthersAreLeftAlone ==
  ASSUME Types, NEW p \in Ranks, RankStep(p), NEW r \in Ranks, r # p
  PROVE  /\ pc'[r] = pc[r] /\ thread'[r] = thread[r] /\ connectResult'[r] = connectResult[r]
         /\ clients'[r] = clients[r] /\ copyInfo'[r] = copyInfo[r] /\ qpInfo'[r] = qpInfo[r]
         /\ r \in swallowed' <=> r \in swallowed
         /\ r \in overlapped' <=> r \in overlapped
         /\ \A q \in Ranks : qp[r][q] = "up" => qp'[r][q] = "up"
<1> USE DEF Types, Pairs
<1>1. CASE StartServerSide(p) \/ StartServerSideFails(p) \/ EmplaceClient(p)
           \/ StartClientSide(p) \/ JoinServer(p) \/ JoinClient(p)
  BY <1>1 DEF StartServerSide, StartServerSideFails, EmplaceClient, StartClientSide,
     JoinServer, JoinClient, Goto, Run, Result, table, past
<1>2. CASE StartClientSideFails(p) \/ Shutdown(p)
  BY <1>2 DEF StartClientSideFails, Shutdown, CloseClient, Goto, table, past
<1>3. ASSUME NEW s \in Sides, NEW q \in Ranks, GetSocket(p, s, q)
      PROVE  UNCHANGED <<pc, clients, connectResult, qp, table, swallowed>> /\ thread'[r] = thread[r]
  BY <1>3 DEF GetSocket, Run, main, table, past
<1>4. ASSUME NEW s \in Sides, NEW q \in Ranks, CreateOneQp(p, s, q)
      PROVE  /\ UNCHANGED <<pc, clients, connectResult, table, swallowed>> /\ thread'[r] = thread[r]
             /\ \A t \in Ranks : qp[r][t] = "up" => qp'[r][t] = "up"
  BY <1>4 DEF CreateOneQp, Run, main, table, past
<1>5. ASSUME NEW s \in Sides, FillQpInfo(p, s) \/ CopyToDevice(p, s)
      PROVE  /\ UNCHANGED <<pc, clients, qp, swallowed>> /\ thread'[r] = thread[r]
             /\ connectResult'[r] = connectResult[r]
             /\ copyInfo'[r] = copyInfo[r] /\ qpInfo'[r] = qpInfo[r]
             /\ r \in overlapped' <=> r \in overlapped
  BY <1>5 DEF FillQpInfo, CopyToDevice, Overlap, Run, Result, main, past
<1>6. ASSUME NEW s \in Sides,
             \/ FillQpInfoFindsNoChannel(p, s) \/ StatusTimesOut(p, s) \/ SideFails(p, s)
      PROVE  /\ pc' = pc /\ thread'[r] = thread[r] /\ clients'[r] = clients[r]
             /\ connectResult'[r] = connectResult[r] /\ qp'[r] = qp[r]
             /\ copyInfo'[r] = copyInfo[r] /\ UNCHANGED <<qpInfo, overlapped>>
             /\ r \in swallowed' <=> r \in swallowed
  <2>1. GiveUp(p, s) /\ UNCHANGED <<qpInfo, overlapped>> /\ copyInfo'[r] = copyInfo[r]
    BY <1>6 DEF FillQpInfoFindsNoChannel, StatusTimesOut, SideFails, table
  <2>2. CASE s = "client"
    BY <2>1, <2>2 DEF GiveUp, CloseClient, Run
  <2>3. CASE s # "client"
    BY <2>1, <2>3 DEF GiveUp, Run, Result
  <2> QED BY <2>1, <2>2, <2>3
<1> QED BY <1>1, <1>2, <1>3, <1>4, <1>5, <1>6
    DEF RankStep, Rank, Failing, Main, Thread, table

\* So the others' parts of the invariant stay.
LEMMA OthersKeep ==
  ASSUME Types, NEW p \in Ranks, RankStep(p), NEW r \in Ranks, r # p, RankInv(r)
  PROVE  RankInv(r)'
<1>0. /\ pc'[r] = pc[r] /\ thread'[r] = thread[r] /\ connectResult'[r] = connectResult[r]
      /\ clients'[r] = clients[r] /\ copyInfo'[r] = copyInfo[r] /\ qpInfo'[r] = qpInfo[r]
      /\ r \in swallowed' <=> r \in swallowed
      /\ r \in overlapped' <=> r \in overlapped
      /\ \A q \in Ranks : qp[r][q] = "up" => qp'[r][q] = "up"
  BY OthersAreLeftAlone
<1> USE <1>0
<1>1. ClientsAreTheLowest(r)'
  BY DEF RankInv, ClientsAreTheLowest
<1>2. ThreadsAreReal(r)'
  BY DEF RankInv, ThreadsAreReal
<1>3. MainIsLast(r)'
  BY DEF RankInv, MainIsLast, Ended, Sides
<1>4. SeenAreUp(r)'
  <2>1. \A s \in Sides : Peers(r, s) \subseteq Ranks
    BY PeersAreTheOthers DEF Others
  <2> QED BY <2>1 DEF RankInv, SeenAreUp, Sound, Seen, HasChannels
<1>5. LastIsWhole(r)'
  BY DEF RankInv, LastIsWhole, Sound, Through
<1> QED BY <1>1, <1>2, <1>3, <1>4, <1>5 DEF RankInv

\* Making one more channel, after those to the lowest ranks.
LEMMA EmplaceIsNext ==
  ASSUME NEW r \in Ranks, ClientsAreTheLowest(r), clients[r] # Below(r)
  PROVE  \E k \in 0..r - 1 :
           clients[r] = Below(k) /\ k \in Ranks
           /\ clients[r] \cup {Cardinality(clients[r])} = Below(k + 1)
<1> USE rankCountAssumption DEF rankCountAssumption
<1>1. PICK k \in 0..r : clients[r] = Below(k)
  BY DEF ClientsAreTheLowest
<1>2. r \in Nat /\ r < rankCount /\ k \in 0..r - 1
  BY <1>1 DEF Ranks
<1>3. Below(k) = 0..k - 1 /\ Below(k + 1) = (0..k - 1) \cup {k}
  BY <1>2 DEF Below, Ranks
<1>4. Cardinality(0..k - 1) = k
  <2>1. k - 1 \in Int /\ 0 \in Int
    BY <1>2
  <2> QED BY <1>2, <2>1, FS_Interval
<1>5. k \in Ranks
  BY <1>2 DEF Ranks
<1> QED BY <1>1, <1>2, <1>3, <1>4, <1>5

\* An entry of a table of tables is replaced.
LEMMA EntryReplaced ==
  ASSUME NEW A, NEW B, NEW C, NEW f \in [A -> [B -> C]], NEW a \in A, NEW b \in B, NEW c \in C
  PROVE  [f EXCEPT ![a][b] = c] \in [A -> [B -> C]]
OBVIOUS

\* What the helpers of the actions do to the types.
LEMMA HelpersTyped ==
  ASSUME Types, NEW r \in Ranks
  PROVE  /\ \A next \in Places : Goto(r, next) => pc' \in [Ranks -> Places]
         /\ \A s \in Sides, next \in States :
              Run(r, s, next) => thread' \in [Ranks -> [Sides -> States]]
         /\ \A s \in Sides, code \in Codes :
              Result(r, s, code) => connectResult' \in [Ranks -> [Sides -> Codes]]
         /\ CloseClient(r) => qp' \in Pairs /\ clients' \in [Ranks -> SUBSET Ranks]
<1>1. ASSUME NEW next \in Places, Goto(r, next) PROVE pc' \in [Ranks -> Places]
  BY <1>1 DEF Types, Goto
<1>2. ASSUME NEW s \in Sides, NEW next \in States, Run(r, s, next)
      PROVE  thread' \in [Ranks -> [Sides -> States]]
  BY <1>2, EntryReplaced DEF Types, Run
<1>3. ASSUME NEW s \in Sides, NEW code \in Codes, Result(r, s, code)
      PROVE  connectResult' \in [Ranks -> [Sides -> Codes]]
  BY <1>3, EntryReplaced DEF Types, Result
<1>4. ASSUME CloseClient(r) PROVE qp' \in Pairs /\ clients' \in [Ranks -> SUBSET Ranks]
  BY <1>4 DEF Types, CloseClient, Pairs
<1> QED BY <1>1, <1>2, <1>3, <1>4

\* A side that gives up.
LEMMA GiveUpTyped ==
  ASSUME Types, NEW r \in Ranks, NEW s \in Sides, GiveUp(r, s)
  PROVE  /\ pc' = pc /\ thread' \in [Ranks -> [Sides -> States]]
         /\ connectResult' \in [Ranks -> [Sides -> Codes]]
         /\ clients' \in [Ranks -> SUBSET Ranks] /\ qp' \in Pairs
         /\ swallowed' \subseteq Ranks
<1>1. "ended" \in States /\ "failed" \in Codes /\ "success" \in Codes
  BY DEF States, Codes
<1>2. CASE s = "client"
  BY <1>1, <1>2, HelpersTyped DEF GiveUp, Types
<1>3. CASE s # "client"
  BY <1>1, <1>3, HelpersTyped DEF GiveUp, Types
<1> QED BY <1>2, <1>3

\* Every step keeps the types.
LEMMA TypesInductive ==
  ASSUME Types, NEW r \in Ranks, ClientsAreTheLowest(r), RankStep(r)
  PROVE  Types'
<1> USE HelpersTyped DEF Types
<1>0. /\ {"server", "client"} \subseteq Sides
      /\ {"clients", "join server", "join client", "success", "failure", "closed"} \subseteq Places
      /\ {"sockets", "create", "status", "copy", "ended"} \subseteq States
      /\ {"success", "failed"} \subseteq Codes
  BY DEF Sides, Places, States, Working, Codes
<1>1. CASE JoinServer(r) \/ JoinClient(r) \/ StartServerSideFails(r)
  BY <1>0, <1>1 DEF JoinServer, JoinClient, StartServerSideFails, table, past
<1>2. CASE StartServerSide(r) \/ StartClientSide(r)
  BY <1>0, <1>2 DEF StartServerSide, StartClientSide, table, past
<1>3. CASE EmplaceClient(r)
  <2>1. Cardinality(clients[r]) \in Ranks
    <3>1. PICK k \in 0..r - 1 : clients[r] \cup {Cardinality(clients[r])} = Below(k + 1)
      BY <1>3, EmplaceIsNext DEF EmplaceClient
    <3> QED BY <3>1 DEF Below
  <2> QED BY <1>3, <2>1 DEF EmplaceClient, table, past
<1>4. CASE StartClientSideFails(r)
  BY <1>0, <1>4 DEF StartClientSideFails, table
<1>5. CASE Shutdown(r)
  <2>1. qp' \in Pairs /\ clients' \in [Ranks -> SUBSET Ranks]
    BY <1>5 DEF Shutdown, Pairs
  <2> QED BY <1>0, <1>5, <2>1 DEF Shutdown, table, past
<1>6. ASSUME NEW s \in Sides, NEW q \in Ranks, GetSocket(r, s, q) PROVE Types'
  BY <1>0, <1>6 DEF GetSocket, main, table, past
<1>7. ASSUME NEW s \in Sides, NEW q \in Ranks, CreateOneQp(r, s, q) PROVE Types'
  <2>1. qp' \in Pairs
    BY <1>7 DEF CreateOneQp, Pairs
  <2> QED BY <1>0, <1>7, <2>1 DEF CreateOneQp, main, table, past
<1>8. ASSUME NEW s \in Sides, FillQpInfo(r, s) PROVE Types'
  <2>1. {q \in Others(r) : qp[r][q] # "none"} \in SUBSET Ranks
    BY DEF Others
  <2>2. copyInfo' \in [Ranks -> [Sides -> SUBSET Ranks]]
    BY <1>8, <2>1, EntryReplaced DEF FillQpInfo
  <2>3. overlapped' \subseteq Ranks
    BY <1>8 DEF FillQpInfo, Overlap
  <2> QED BY <1>0, <1>8, <2>2, <2>3 DEF FillQpInfo, main, past
<1>9. ASSUME NEW s \in Sides, CopyToDevice(r, s) PROVE Types'
  <2>1. copyInfo' \in [Ranks -> [Sides -> SUBSET Ranks]]
    <3>1. {} \in SUBSET Ranks
      OBVIOUS
    <3> QED BY <1>9, <3>1, EntryReplaced DEF CopyToDevice
  <2>2. qpInfo' \in [Ranks -> SUBSET Ranks]
    BY <1>9 DEF CopyToDevice
  <2> QED BY <1>0, <1>9, <2>1, <2>2 DEF CopyToDevice, main, past
<1>10. ASSUME NEW s \in Sides,
             \/ FillQpInfoFindsNoChannel(r, s) \/ StatusTimesOut(r, s) \/ SideFails(r, s)
      PROVE  Types'
  <2>1. GiveUp(r, s) /\ UNCHANGED <<qpInfo, overlapped>>
    BY <1>10 DEF FillQpInfoFindsNoChannel, StatusTimesOut, SideFails, table
  <2>2. copyInfo' \in [Ranks -> [Sides -> SUBSET Ranks]]
    <3>1. {} \in SUBSET Ranks
      OBVIOUS
    <3>2. [copyInfo EXCEPT ![r][s] = {}] \in [Ranks -> [Sides -> SUBSET Ranks]]
      BY <3>1, EntryReplaced
    <3>3. copyInfo' = copyInfo \/ copyInfo' = [copyInfo EXCEPT ![r][s] = {}]
      BY <1>10 DEF FillQpInfoFindsNoChannel, StatusTimesOut, SideFails, table
    <3> QED BY <3>2, <3>3
  <2> QED BY <2>1, <2>2, GiveUpTyped
<1> QED BY <1>1, <1>2, <1>3, <1>4, <1>5, <1>6, <1>7, <1>8, <1>9, <1>10
    DEF RankStep, Rank, Failing, Main, Thread

-----------------------------------------------------------------------------
\* What Run and Result do to a rank's own sides.
LEMMA RunIsOf ==
  ASSUME Types, NEW r \in Ranks, NEW s \in Sides, NEW next, Run(r, s, next)
  PROVE  thread'[r][s] = next /\ \A t \in Sides \ {s} : thread'[r][t] = thread[r][t]
BY DEF Types, Run

\* And what Result does.
LEMMA ResultIsOf ==
  ASSUME Types, NEW r \in Ranks, NEW s \in Sides, NEW code, Result(r, s, code)
  PROVE  /\ connectResult'[r][s] = code
         /\ \A t \in Sides \ {s} : connectResult'[r][t] = connectResult[r][t]
BY DEF Types, Result

\* Starting a side: it has a thread now, or nobody to connect to.
LEMMA StartKeeps ==
  ASSUME Types, NEW r \in Ranks, RankInv(r), StartServerSide(r) \/ StartClientSide(r)
  PROVE  RankInv(r)'
<1> DEFINE side == IF pc[r] = "start" THEN "server" ELSE "client"
<1>1. /\ side \in Sides
      /\ StartServerSide(r) => side = "server"
      /\ StartClientSide(r) => side = "client"
  BY DEF Sides, StartServerSide, StartClientSide
<1>2. /\ UNCHANGED <<clients, qp, copyInfo, qpInfo, swallowed, overlapped>>
      /\ \/ pc[r] = "start" /\ pc'[r] = "clients"
         \/ pc[r] = "clients" /\ pc'[r] = "join server" /\ HasChannels(r)
  <2>1. UNCHANGED <<clients, qp, copyInfo, qpInfo, swallowed, overlapped>>
    BY DEF StartServerSide, StartClientSide, table, past
  <2>2. \A next : Goto(r, next) => pc'[r] = next
    BY DEF Goto, Types
  <2> QED BY <2>1, <2>2 DEF StartServerSide, StartClientSide, HasChannels
<1>3. \/ Peers(r, side) = {} /\ Result(r, side, "success") /\ thread' = thread
      \/ Peers(r, side) # {} /\ Run(r, side, "sockets") /\ connectResult' = connectResult
  BY <1>1, PeersAreTheOthers DEF StartServerSide, StartClientSide, Peers
<1>4. thread[r][side] = "none"
  BY <1>1, <1>2 DEF RankInv, ThreadsAreReal, Sides, StartServerSide, StartClientSide
<1> HIDE DEF side
<1>5. \/ /\ Peers(r, side) = {} /\ connectResult'[r][side] = "success" /\ thread' = thread
         /\ \A t \in Sides \ {side} : connectResult'[r][t] = connectResult[r][t]
      \/ /\ Peers(r, side) # {} /\ thread'[r][side] = "sockets" /\ connectResult' = connectResult
         /\ \A t \in Sides \ {side} : thread'[r][t] = thread[r][t]
  BY <1>1, <1>3, RunIsOf, ResultIsOf
<1>6. ClientsAreTheLowest(r)'
  BY <1>2 DEF RankInv, ClientsAreTheLowest
<1>7. ThreadsAreReal(r)'
  <2>1. pc'[r] = "clients" => thread'[r]["client"] = "none"
    BY <1>1, <1>2, <1>5 DEF RankInv, ThreadsAreReal, Sides, StartServerSide, StartClientSide
  <2> QED BY <1>1, <1>2, <1>4, <1>5, <2>1 DEF RankInv, ThreadsAreReal, Working
<1>8. MainIsLast(r)'
  BY <1>2 DEF MainIsLast
<1>9. SeenAreUp(r)'
  <2>1. side = "client" => HasChannels(r)
    BY <1>1 DEF StartServerSide, StartClientSide, HasChannels
  <2>2. \A s \in Sides : Seen(r, s)' => Seen(r, s) \/ (s = side /\ Peers(r, s) = {})
    <3> SUFFICES ASSUME NEW s \in Sides, Seen(r, s)', ~Seen(r, s)
                 PROVE  s = side /\ Peers(r, s) = {}
      OBVIOUS
    <3>1. thread'[r][s] = "copy" \/ connectResult'[r][s] = "success"
      BY DEF Seen
    <3>2. thread[r][s] # "copy" /\ connectResult[r][s] # "success"
      BY DEF Seen
    <3>3. s = side
      BY <1>5, <3>1, <3>2
    <3> QED BY <1>5, <3>1, <3>2, <3>3
  <2>3. Sound(r)' => Sound(r)
    BY <1>2 DEF Sound
  <2>4. HasChannels(r)' <=> HasChannels(r)
    BY <1>2 DEF HasChannels
  <2>5. "client" \in Sides
    BY DEF Sides
  <2> QED BY <1>2, <2>1, <2>2, <2>3, <2>4, <2>5 DEF RankInv, SeenAreUp
<1>10. LastIsWhole(r)'
  <2>1. \A s \in Sides : /\ thread'[r][s] = "copy" <=> thread[r][s] = "copy"
                         /\ Through(r, s)' <=> Through(r, s)
    BY <1>4, <1>5 DEF Through
  <2>2. \A s \in Sides : Other(s) \in Sides
    BY OtherSide DEF Sides
  <2> QED BY <1>2, <2>1, <2>2 DEF RankInv, LastIsWhole, Sound
<1> QED BY <1>6, <1>7, <1>8, <1>9, <1>10 DEF RankInv

\* Making a channel, joining the threads.
LEMMA MainKeeps ==
  ASSUME Types, NEW r \in Ranks, RankInv(r),
         EmplaceClient(r) \/ JoinServer(r) \/ JoinClient(r) \/ StartServerSideFails(r)
  PROVE  RankInv(r)'
<1>1. UNCHANGED <<thread, connectResult, qp, copyInfo, qpInfo, swallowed, overlapped>>
  BY DEF EmplaceClient, JoinServer, JoinClient, StartServerSideFails, table, past
<1>2. \/ pc[r] = "clients" /\ pc' = pc /\ EmplaceClient(r)
      \/ clients' = clients /\ pc'[r] = "failure"
      \/ clients' = clients /\ pc[r] = "join server" /\ pc'[r] = "join client" /\ Ended(r, "server")
      \/ /\ clients' = clients /\ pc[r] = "join client" /\ pc'[r] = "success"
         /\ Ended(r, "client") /\ \A s \in Sides : connectResult[r][s] = "success"
  BY DEF EmplaceClient, JoinServer, JoinClient, StartServerSideFails, Goto, Types
<1>3. ClientsAreTheLowest(r)' /\ (Seen(r, "client") /\ Sound(r) => clients' = clients)
  <2>1. CASE EmplaceClient(r)
    <3>1. clients[r] # Below(r) /\ clients'[r] = clients[r] \cup {Cardinality(clients[r])}
      BY <2>1 DEF EmplaceClient, Types
    <3>2. PICK k \in 0..r - 1 : clients'[r] = Below(k + 1)
      BY <3>1, EmplaceIsNext DEF RankInv
    <3>3. k + 1 \in 0..r
      BY <3>2 DEF Ranks
    <3> QED BY <3>1, <3>2, <3>3 DEF ClientsAreTheLowest, RankInv, SeenAreUp, HasChannels
  <2>2. CASE clients' = clients
    BY <2>2 DEF RankInv, ClientsAreTheLowest
  <2> QED BY <1>2, <2>1, <2>2
<1>4. ThreadsAreReal(r)'
  BY <1>1, <1>2 DEF RankInv, ThreadsAreReal
<1>5. MainIsLast(r)'
  BY <1>1, <1>2 DEF RankInv, MainIsLast, Ended
<1>6. Sound(r)' => Sound(r)
  BY <1>1, <1>2 DEF Sound
<1>7. SeenAreUp(r)'
  BY <1>1, <1>3, <1>6 DEF RankInv, SeenAreUp, Seen, HasChannels
<1>8. LastIsWhole(r)'
  BY <1>1, <1>6 DEF RankInv, LastIsWhole, Through
<1> QED BY <1>3, <1>4, <1>5, <1>7, <1>8 DEF RankInv

\* The main thread that fails or shuts down: a rank that is not sound.
LEMMA FailureKeeps ==
  ASSUME Types, NEW r \in Ranks, RankInv(r), StartClientSideFails(r) \/ Shutdown(r)
  PROVE  RankInv(r)'
<1>1. /\ pc'[r] \in {"failure", "closed"} /\ clients'[r] = {}
      /\ UNCHANGED <<thread, connectResult, copyInfo, qpInfo, overlapped>>
  BY DEF StartClientSideFails, Shutdown, CloseClient, Goto, table, Types
<1>2. ClientsAreTheLowest(r)'
  <2>1. 0 \in 0..r /\ Below(0) = {}
    BY DEF Below, Ranks
  <2> QED BY <1>1, <2>1 DEF ClientsAreTheLowest
<1>3. ThreadsAreReal(r)' /\ MainIsLast(r)' /\ SeenAreUp(r)' /\ LastIsWhole(r)'
  BY <1>1 DEF RankInv, ThreadsAreReal, MainIsLast, SeenAreUp, LastIsWhole, Sound
<1> QED BY <1>2, <1>3 DEF RankInv

\* A side that gets a socket or makes a queue pair.
LEMMA ConnectKeeps ==
  ASSUME Types, NEW r \in Ranks, RankInv(r), NEW s \in Sides, NEW q \in Ranks,
         GetSocket(r, s, q) \/ CreateOneQp(r, s, q)
  PROVE  RankInv(r)'
<1>1. /\ UNCHANGED <<pc, clients, connectResult, copyInfo, qpInfo, swallowed, overlapped>>
      /\ thread[r][s] \in {"sockets", "create"}
  BY DEF GetSocket, CreateOneQp, main, table, past
<1>2. \A p \in Ranks : qp[r][p] = "up" => qp'[r][p] = "up"
  BY DEF GetSocket, CreateOneQp, Types, Pairs
<1>3. /\ thread'[r][s] \in {"sockets", "create", "status"}
      /\ \A t \in Sides \ {s} : thread'[r][t] = thread[r][t]
  <2>1. thread' = thread \/ Run(r, s, "create") \/ Run(r, s, "status")
    BY DEF GetSocket, CreateOneQp
  <2> QED BY <1>1, <2>1, RunIsOf
<1>4. ClientsAreTheLowest(r)'
  BY <1>1 DEF RankInv, ClientsAreTheLowest
<1>5. ThreadsAreReal(r)'
  <2>1. pc[r] = "start" \/ pc[r] = "clients" => thread'[r]["client"] = thread[r]["client"]
    BY <1>1, <1>3 DEF RankInv, ThreadsAreReal, Sides
  <2> QED BY <1>1, <1>3, <2>1 DEF RankInv, ThreadsAreReal, Working
<1>6. MainIsLast(r)'
  BY <1>1, <1>3 DEF RankInv, MainIsLast, Ended, Sides
<1>7. SeenAreUp(r)'
  <2>1. \A t \in Sides : Peers(r, t) \subseteq Ranks
    BY PeersAreTheOthers DEF Others
  <2> QED BY <1>1, <1>2, <1>3, <2>1 DEF RankInv, SeenAreUp, Sound, Seen, HasChannels, Sides
<1>8. LastIsWhole(r)'
  <2>1. \A t \in Sides : thread'[r][t] = "copy" <=> thread[r][t] = "copy"
    BY <1>1, <1>3
  <2>2. \A t \in Sides : Other(t) \in Sides
    BY OtherSide DEF Sides
  <2> QED BY <1>1, <2>1, <2>2 DEF RankInv, LastIsWhole, Sound, Through
<1> QED BY <1>4, <1>5, <1>6, <1>7, <1>8 DEF RankInv

\* A side that sees all its queue pairs up puts the table together: if the other
\* has nothing left to add, its queue pairs are up as well.
LEMMA FillKeeps ==
  ASSUME Types, NEW r \in Ranks, RankInv(r), NEW s \in Sides, FillQpInfo(r, s)
  PROVE  RankInv(r)'
<1>1. /\ UNCHANGED <<pc, clients, connectResult, qp, qpInfo, swallowed>>
      /\ thread[r][s] = "status" /\ AllUp(r, s) /\ HasChannels(r)
  BY DEF FillQpInfo, main, past
<1>2. /\ thread'[r][s] = "copy"
      /\ \A t \in Sides \ {s} : thread'[r][t] = thread[r][t]
  BY RunIsOf DEF FillQpInfo
<1>3. /\ copyInfo'[r][s] = {q \in Others(r) : qp[r][q] # "none"}
      /\ \A t \in Sides \ {s} : copyInfo'[r][t] = copyInfo[r][t]
  BY DEF FillQpInfo, Types
<1>4. /\ r \notin overlapped' => r \notin overlapped /\ thread[r][Other(s)] # "copy"
  BY DEF FillQpInfo, Overlap
<1>5. \A q \in Peers(r, s) : qp[r][q] = "up"
  BY <1>1 DEF AllUp, Connections, Peers, HasChannels
<1>6. Other(s) \in Sides \ {s} /\ Sides = {s, Other(s)} /\ Other(Other(s)) = s
  BY OtherSide DEF Sides
<1>7. ClientsAreTheLowest(r)'
  BY <1>1 DEF RankInv, ClientsAreTheLowest
<1>8. ThreadsAreReal(r)'
  BY <1>1, <1>2 DEF RankInv, ThreadsAreReal, Working, Sides
<1>9. MainIsLast(r)'
  BY <1>1, <1>2 DEF RankInv, MainIsLast, Ended, Sides
<1>10. SeenAreUp(r)'
  BY <1>1, <1>2, <1>5 DEF RankInv, SeenAreUp, Sound, Seen, HasChannels
<1>11. LastIsWhole(r)'
  <2>1. \A t \in Sides : copyInfo'[r][t] \subseteq Others(r)
    BY <1>3 DEF RankInv, LastIsWhole
  <2>2. ~Through(r, s)
    BY <1>1 DEF RankInv, ThreadsAreReal, Through, Working
  <2>3. ASSUME Sound(r), Through(r, Other(s)) PROVE copyInfo'[r][s] = Others(r)
    <3>1. \A q \in Peers(r, Other(s)) : qp[r][q] = "up"
      BY <1>6, <2>3 DEF RankInv, SeenAreUp, Seen, Through
    <3>2. Others(r) = Peers(r, s) \cup Peers(r, Other(s))
      BY OtherSide, PeersAreTheOthers DEF Sides
    <3> QED BY <1>3, <1>5, <3>1, <3>2
  <2>4. (Sound(r)' <=> Sound(r)) /\ \A t \in Sides : Through(r, t)' <=> Through(r, t)
    BY <1>1 DEF Sound, Through
  <2> QED BY <1>1, <1>2, <1>4, <1>6, <2>1, <2>2, <2>3, <2>4 DEF RankInv, LastIsWhole
<1> QED BY <1>7, <1>8, <1>9, <1>10, <1>11 DEF RankInv

\* A side that has copied the table it put together.
LEMMA CopyKeeps ==
  ASSUME Types, NEW r \in Ranks, RankInv(r), NEW s \in Sides, CopyToDevice(r, s)
  PROVE  RankInv(r)'
<1>1. /\ UNCHANGED <<pc, clients, qp, swallowed, overlapped>> /\ thread[r][s] = "copy"
      /\ Peers(r, s) # {}
  BY DEF CopyToDevice, main, past, RankInv, ThreadsAreReal
<1>2. /\ thread'[r][s] = "ended"
      /\ \A t \in Sides \ {s} : thread'[r][t] = thread[r][t]
  BY RunIsOf DEF CopyToDevice
<1>3. /\ connectResult'[r][s] = "success"
      /\ \A t \in Sides \ {s} : connectResult'[r][t] = connectResult[r][t]
  BY ResultIsOf DEF CopyToDevice
<1>4. /\ copyInfo'[r][s] = {} /\ qpInfo'[r] = copyInfo[r][s]
      /\ \A t \in Sides \ {s} : copyInfo'[r][t] = copyInfo[r][t]
  BY DEF CopyToDevice, Types
<1>5. Other(s) \in Sides \ {s} /\ Sides = {s, Other(s)} /\ Other(Other(s)) = s
  BY OtherSide DEF Sides
<1>6. ClientsAreTheLowest(r)'
  BY <1>1 DEF RankInv, ClientsAreTheLowest
<1>7. ThreadsAreReal(r)'
  BY <1>1, <1>2, <1>3 DEF RankInv, ThreadsAreReal, Working, Sides
<1>8. MainIsLast(r)'
  BY <1>1, <1>2, <1>3 DEF RankInv, MainIsLast, Ended, Sides
<1>9. SeenAreUp(r)'
  BY <1>1, <1>2, <1>3 DEF RankInv, SeenAreUp, Sound, Seen, HasChannels, Sides
<1>10. LastIsWhole(r)'
  <2>1. /\ qpInfo'[r] \subseteq Others(r)
        /\ \A t \in Sides : copyInfo'[r][t] \subseteq Others(r)
    BY <1>4 DEF RankInv, LastIsWhole
  <2>2. ASSUME Sound(r), r \notin overlapped
        PROVE  /\ \A t \in Sides : thread'[r][t] # "copy"
               /\ Through(r, Other(s)) => qpInfo'[r] = Others(r)
    BY <1>1, <1>2, <1>4, <1>5, <2>2 DEF RankInv, LastIsWhole
  <2>3. (Sound(r)' <=> Sound(r)) /\ (Through(r, Other(s))' <=> Through(r, Other(s)))
    BY <1>1, <1>3, <1>5 DEF Sound, Through
  <2> QED BY <1>1, <1>5, <2>1, <2>2, <2>3 DEF LastIsWhole
<1> QED BY <1>6, <1>7, <1>8, <1>9, <1>10 DEF RankInv

\* A side that gives up: it has nothing to say for itself any more.
LEMMA GiveUpKeeps ==
  ASSUME Types, NEW r \in Ranks, RankInv(r), NEW s \in Sides, thread[r][s] \in Working,
         \/ FillQpInfoFindsNoChannel(r, s) \/ StatusTimesOut(r, s) \/ SideFails(r, s)
  PROVE  RankInv(r)'
<1>1. /\ GiveUp(r, s) /\ UNCHANGED <<pc, qpInfo, overlapped>>
      /\ connectResult[r][s] = "unset" /\ Peers(r, s) # {}
  BY DEF FillQpInfoFindsNoChannel, StatusTimesOut, SideFails, GiveUp, table, RankInv,
         ThreadsAreReal, Working
<1>2. /\ thread'[r][s] = "ended"
      /\ \A t \in Sides \ {s} : thread'[r][t] = thread[r][t]
  BY <1>1, RunIsOf DEF GiveUp
<1>3. \A t \in Sides : copyInfo'[r][t] = copyInfo[r][t] \/ (t = s /\ copyInfo'[r][t] = {})
  <2>1. copyInfo' = copyInfo \/ copyInfo' = [copyInfo EXCEPT ![r][s] = {}]
    BY DEF FillQpInfoFindsNoChannel, StatusTimesOut, SideFails, table
  <2>2. CASE copyInfo' = [copyInfo EXCEPT ![r][s] = {}]
    BY <2>2 DEF Types
  <2> QED BY <2>1, <2>2
<1>4. /\ \A t \in Sides \ {s} : connectResult'[r][t] = connectResult[r][t]
      /\ Sound(r)' => Sound(r) /\ connectResult'[r][s] # "success"
  <2>1. CASE s = "client"
    BY <1>1, <2>1 DEF GiveUp, Sound
  <2>2. CASE s # "client" /\ thread[r][s] = "sockets"
    BY <1>1, <2>2, ResultIsOf DEF GiveUp, Sound
  <2>3. CASE s # "client" /\ thread[r][s] # "sockets"
    BY <1>1, <2>3, ResultIsOf DEF GiveUp, Sound
  <2> QED BY <2>1, <2>2, <2>3
<1>5. /\ s = "client" => clients'[r] = {} /\ \A q \in Above(r) : qp'[r][q] = qp[r][q]
      /\ s # "client" => UNCHANGED <<clients, qp>>
  <2>1. \A q \in Above(r) : q \in Ranks /\ q \notin Below(r)
    BY DEF Above, Below, Ranks
  <2>2. CASE s = "client"
    <3>1. CloseClient(r)
      BY <1>1, <2>2 DEF GiveUp
    <3> QED BY <2>1, <2>2, <3>1 DEF CloseClient, Types, Pairs
  <2>3. CASE s # "client"
    BY <1>1, <2>3 DEF GiveUp
  <2> QED BY <2>2, <2>3
<1>6. ClientsAreTheLowest(r)'
  <2>1. 0 \in 0..r /\ Below(0) = {}
    BY DEF Below, Ranks
  <2> QED BY <1>5, <2>1 DEF RankInv, ClientsAreTheLowest
<1>7. ThreadsAreReal(r)'
  BY <1>1, <1>2, <1>4 DEF RankInv, ThreadsAreReal, Working, Sides
<1>8. MainIsLast(r)'
  BY <1>1, <1>2, <1>4 DEF RankInv, MainIsLast, Ended, Sides, Working
<1>9. SeenAreUp(r)'
  <2>1. Sound(r)' => ~Seen(r, s)'
    BY <1>2, <1>4 DEF Seen
  <2>2. \A t \in Sides \ {s} : Seen(r, t)' <=> Seen(r, t)
    BY <1>2, <1>4 DEF Seen
  <2>3. CASE s = "client"
    BY <1>4, <1>5, <2>1, <2>2, <2>3 DEF RankInv, SeenAreUp, Peers, Sides
  <2>4. CASE s # "client"
    BY <1>4, <1>5, <2>1, <2>2, <2>4 DEF RankInv, SeenAreUp, HasChannels, Sides
  <2> QED BY <2>3, <2>4
<1>10. LastIsWhole(r)'
  <2>1. Sound(r)' => ~Through(r, s)' /\ thread'[r][s] # "copy"
    BY <1>1, <1>2, <1>4 DEF Through
  <2>2. Other(s) \in Sides \ {s} /\ Sides = {s, Other(s)} /\ Other(Other(s)) = s
    BY OtherSide DEF Sides
  <2>3. \A t \in Sides : copyInfo'[r][t] \subseteq Others(r)
    BY <1>3 DEF RankInv, LastIsWhole
  <2> QED BY <1>1, <1>2, <1>4, <2>1, <2>2, <2>3 DEF RankInv, LastIsWhole
<1> QED BY <1>6, <1>7, <1>8, <1>9, <1>10 DEF RankInv

-----------------------------------------------------------------------------
\* Every step of a rank keeps its own part of the invariant.
LEMMA OwnStepKeeps ==
  ASSUME Types, NEW r \in Ranks, RankInv(r), RankStep(r)
  PROVE  RankInv(r)'
<1>1. \A s \in Sides :
        StatusTimesOut(r, s) \/ FillQpInfoFindsNoChannel(r, s) \/ SideFails(r, s)
          => thread[r][s] \in Working
  BY DEF StatusTimesOut, FillQpInfoFindsNoChannel, SideFails, Working
<1> QED BY <1>1, StartKeeps, MainKeeps, FailureKeeps, ConnectKeeps, FillKeeps, CopyKeeps,
     GiveUpKeeps DEF RankStep, Rank, Failing, Main, Thread

\* The inductive invariant, of which everything below is a consequence.
THEOREM QpInvariant == Spec => []IInv
<1>1. ASSUME IInv, Next PROVE IInv'
  <2> PICK p \in Ranks : RankStep(p)
    BY <1>1 DEF Next, RankStep
  <2>1. Types'
    BY <1>1, TypesInductive DEF IInv, RankInv
  <2>2. ASSUME NEW r \in Ranks PROVE RankInv(r)'
    BY <1>1, OwnStepKeeps, OthersKeep DEF IInv
  <2> QED BY <2>1, <2>2 DEF IInv
<1>2. ASSUME IInv, UNCHANGED vars PROVE IInv'
  <2>1. UNCHANGED <<pc, thread, connectResult, clients, qp, copyInfo, qpInfo, swallowed,
                    overlapped>>
    BY <1>2 DEF vars, main, table, past
  <2>2. Types'
    BY <1>2, <2>1 DEF IInv, Types
  <2>3. ASSUME NEW r \in Ranks PROVE RankInv(r)'
    <3>1. ClientsAreTheLowest(r)' /\ ThreadsAreReal(r)' /\ MainIsLast(r)'
      BY <1>2, <2>1 DEF IInv, RankInv, ClientsAreTheLowest, ThreadsAreReal, MainIsLast, Ended
    <3>2. SeenAreUp(r)'
      BY <1>2, <2>1 DEF IInv, RankInv, SeenAreUp, Sound, Seen, HasChannels
    <3>3. LastIsWhole(r)'
      BY <1>2, <2>1 DEF IInv, RankInv, LastIsWhole, Sound, Through
    <3> QED BY <3>1, <3>2, <3>3 DEF RankInv
  <2> QED BY <2>2, <2>3 DEF IInv
<1>3. IInv /\ [Next]_vars => IInv'
  BY <1>1, <1>2
<1> QED BY InitInv, <1>3, PTL DEF Spec

\* When Connect reports success every queue pair of the rank is up, whatever
\* failed and timed out before and at the other ranks, for any number of ranks.
\* It need not be where the server side swallowed a failure.
THEOREM QpSuccessIsConnected == Spec => []SuccessIsConnected
<1>1. IInv => SuccessIsConnected
  <2> SUFFICES ASSUME IInv, NEW r \in Ranks, pc[r] = "success", r \notin swallowed
               PROVE  \A q \in Others(r) : qp[r][q] = "up"
    BY DEF SuccessIsConnected
  <2>1. \A s \in Sides : \A q \in Peers(r, s) : qp[r][q] = "up"
    BY DEF IInv, RankInv, MainIsLast, SeenAreUp, Sound, Seen
  <2> QED BY <2>1, PeersAreTheOthers DEF Sides
<1> QED BY <1>1, QpInvariant, PTL

\* Then the device's table has the queue pairs of all ranks, if the rank's two
\* sides did not put theirs together at the same time (FillQpInfo).
THEOREM QpTableIsWhole == Spec => []TableIsWholeIfNoOverlap
<1>1. IInv => TableIsWholeIfNoOverlap
  BY DEF IInv, RankInv, MainIsLast, LastIsWhole, Sound, Through, TableIsWholeIfNoOverlap
<1> QED BY <1>1, QpInvariant, PTL
=============================================================================
