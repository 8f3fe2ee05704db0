----------------------------- MODULE QpManager ------------------------------
(***************************************************************************)
(* How the ranks connect their RDMA queue pairs: FixedRanksQpManager       *)
(* (src/host/transport/device_rdma/fixed_ranks_qp_manager.cpp) under       *)
(* RdmaTransportManager::Prepare and Connect.                              *)
(*                                                                         *)
(* Every rank serves the ranks above it and is a client of those below,    *)
(* each role in a thread of its own: wait for the sockets, make a queue    *)
(* pair for each, wait until all are connected, and write the table of     *)
(* queue pairs to the device.  Both threads write the whole table, from    *)
(* what both roles have at that moment.  The main thread starts both,      *)
(* waits for both, and reports success if both results say so.             *)
(*                                                                         *)
(* The network is external: a socket comes to be when its client has       *)
(* called and its server listens, and a queue pair is up when both ends    *)
(* have connected theirs; one whose other end is closed stays up.          *)
(***************************************************************************)
EXTENDS Naturals, FiniteSets

CONSTANTS rankCount,
          MaxFailures          \* bound: library calls that fail

rankCountAssumption == rankCount \in Nat \ {0}
ASSUME rankCountAssumption

Ranks == 0..rankCount - 1
Others(r) == Ranks \ {r}
Below(r) == {q \in Ranks : q < r}
Above(r) == {q \in Ranks : q > r}
Last == rankCount - 1

Sides == {"server", "client"}
Other(s) == CHOOSE t \in Sides : t # s

VARIABLES
  pc,              \* the main thread in Startup and WaitingConnectionReady
  thread,          \* thread[r][s]: where the thread of a side is
  connectResult,   \* serverConnectResult, clientConnectResult
  clients,         \* the keys of clientConnections_
  listening,       \* the server socket and its white list are there
  called,          \* RaSocketBatchConnect has been called
  socketFd,        \* socketFd[r][q]: r holds its end of the socket to q
  qp,              \* qp[r][q]: r's queue pair to q: none, connecting or up
  copyInfo,        \* copyInfo[r][s]: the table as a side has put it together
  qpInfo,          \* the table on r's device: the ranks whose queues are in it
  failures,
  \* what the properties look back at:
  timedOut,        \* a rank waited a minute for its queue pairs
  swallowed,       \* ranks whose server side failed and reported success
  overlapped       \* ranks whose two sides were in FillQpInfo at the same time

table == <<copyInfo, qpInfo, overlapped>>
main == <<pc, clients, listening, called>>
past == <<failures, timedOut, swallowed>>
vars == <<main, thread, connectResult, socketFd, qp, table, past>>

Init ==
  /\ pc = [r \in Ranks |-> "start"]
  /\ thread = [r \in Ranks |-> [s \in Sides |-> "none"]]
  /\ connectResult = [r \in Ranks |-> [s \in Sides |-> "unset"]]
  /\ clients = [r \in Ranks |-> {}]
  /\ listening = [r \in Ranks |-> FALSE]
  /\ called = [r \in Ranks |-> FALSE]
  /\ socketFd = [r \in Ranks |-> [q \in Ranks |-> FALSE]]
  /\ qp = [r \in Ranks |-> [q \in Ranks |-> "none"]]
  /\ copyInfo = [r \in Ranks |-> [s \in Sides |-> {}]]
  /\ qpInfo = [r \in Ranks |-> {}]
  /\ failures = 0
  /\ timedOut = FALSE
  /\ swallowed = {}
  /\ overlapped = {}

Goto(r, next) == pc' = [pc EXCEPT ![r] = next]
Run(r, s, next) == thread' = [thread EXCEPT ![r][s] = next]
Result(r, s, code) == connectResult' = [connectResult EXCEPT ![r][s] = code]

A_Failure == failures < MaxFailures /\ failures' = failures + 1

\* serverConnections_ has a channel for every rank above from the start.
Connections(r, s) == IF s = "server" THEN Above(r) ELSE clients[r]

\* CloseClientConnections: queue pairs destroyed, sockets closed, no channel left.
CloseClient(r) ==
  /\ qp' = [qp EXCEPT ![r] = [q \in Ranks |-> IF q \in Below(r) THEN "none" ELSE @[q]]]
  /\ socketFd' = [socketFd EXCEPT ![r] =
                    [q \in Ranks |-> IF q \in Below(r) THEN FALSE ELSE @[q]]]
  /\ clients' = [clients EXCEPT ![r] = {}]

-----------------------------------------------------------------------------
\* Mutant: the last rank serves nobody and says nothing.
StartServerSideLeavesResult(r) ==
  /\ pc[r] = "start"
  /\ Goto(r, "clients")
  /\ IF r = Last
     THEN UNCHANGED <<listening, thread>>
     ELSE /\ listening' = [listening EXCEPT ![r] = TRUE]
          /\ Run(r, "server", "sockets")
  /\ UNCHANGED <<clients, called, connectResult, socketFd, qp, table, past>>

\* StartServerSide: the last rank serves nobody.
StartServerSide(r) ==
  /\ pc[r] = "start"
  /\ Goto(r, "clients")
  /\ IF r = Last
     THEN Result(r, "server", "success") /\ UNCHANGED <<listening, thread>>
     ELSE /\ listening' = [listening EXCEPT ![r] = TRUE]
          /\ Run(r, "server", "sockets")
          /\ UNCHANGED connectResult
  /\ UNCHANGED <<clients, called, socketFd, qp, table, past>>

\* No server socket, or no white list: Startup fails with nothing started.
StartServerSideFails(r) ==
  /\ pc[r] = "start" /\ r # Last
  /\ A_Failure
  /\ Goto(r, "failure")
  /\ UNCHANGED <<clients, listening, called, thread, connectResult, socketFd, qp,
                 table, timedOut, swallowed>>

\* StartClientSide makes a channel for every rank below, one after the other...
EmplaceClient(r) ==
  /\ pc[r] = "clients" /\ clients[r] # Below(r)
  /\ clients' = [clients EXCEPT ![r] = @ \cup {Cardinality(@)}]
  /\ UNCHANGED <<pc, listening, called, thread, connectResult, socketFd, qp, table, past>>

\* ...and then calls them all; the first rank has nobody to call.
StartClientSide(r) ==
  /\ pc[r] = "clients" /\ clients[r] = Below(r)
  /\ Goto(r, "join server")
  /\ IF r = 0
     THEN Result(r, "client", "success") /\ UNCHANGED <<called, thread>>
     ELSE /\ called' = [called EXCEPT ![r] = TRUE]
          /\ Run(r, "client", "sockets")
          /\ UNCHANGED connectResult
  /\ UNCHANGED <<clients, listening, socketFd, qp, table, past>>

\* Startup fails, with the server side's thread running.
StartClientSideFails(r) ==
  /\ pc[r] = "clients" /\ r # 0
  /\ A_Failure
  /\ CloseClient(r)
  /\ Goto(r, "failure")
  /\ UNCHANGED <<listening, called, thread, connectResult, table, timedOut, swallowed>>

Ended(r, s) == thread[r][s] \in {"none", "ended"}

\* WaitingConnectionReady joins the server side's thread, then the client's.
JoinServer(r) ==
  /\ pc[r] = "join server" /\ Ended(r, "server")
  /\ Goto(r, "join client")
  /\ UNCHANGED <<clients, listening, called, thread, connectResult, socketFd, qp,
                 table, past>>

\* Mutant: one side that succeeds is enough.
JoinClientAsksOneSide(r) ==
  /\ pc[r] = "join client" /\ Ended(r, "client")
  /\ Goto(r, IF \E s \in Sides : connectResult[r][s] = "success"
             THEN "success" ELSE "failure")
  /\ UNCHANGED <<clients, listening, called, thread, connectResult, socketFd, qp,
                 table, past>>

JoinClient(r) ==
  /\ pc[r] = "join client" /\ Ended(r, "client")
  /\ Goto(r, IF \A s \in Sides : connectResult[r][s] = "success"
             THEN "success" ELSE "failure")
  /\ UNCHANGED <<clients, listening, called, thread, connectResult, socketFd, qp,
                 table, past>>

\* Shutdown, after a failure: both threads are joined, everything is closed.
Shutdown(r) ==
  /\ pc[r] = "failure" /\ \A s \in Sides : Ended(r, s)
  /\ Goto(r, "closed")
  /\ listening' = [listening EXCEPT ![r] = FALSE]
  /\ clients' = [clients EXCEPT ![r] = {}]
  /\ qp' = [qp EXCEPT ![r] = [q \in Ranks |-> "none"]]
  /\ socketFd' = [socketFd EXCEPT ![r] = [q \in Ranks |-> FALSE]]
  /\ UNCHANGED <<called, thread, connectResult, table, past>>

-----------------------------------------------------------------------------
\* A side gives up.  The client's closes its channels and leaves its result
\* unset; the server's sets its result, and sets it to success after all when
\* it comes from CreateQpWaitingReady, since nothing returns there.
GiveUp(r, s) ==
  /\ Run(r, s, "ended")
  /\ IF s = "client"
     THEN CloseClient(r) /\ UNCHANGED <<connectResult, swallowed>>
     ELSE /\ UNCHANGED <<clients, socketFd, qp>>
          /\ IF thread[r][s] = "sockets"
             THEN Result(r, s, "failed") /\ UNCHANGED swallowed
             ELSE /\ Result(r, s, "success")
                  /\ swallowed' = swallowed \cup {r}
  /\ UNCHANGED <<pc, listening, called>>

\* WaitConnectionsReady: RaGetSockets delivers the socket between a client that
\* has called and a server that listens, if the other end has not given up.
Callable(r, q) ==
  LET server == IF r < q THEN r ELSE q
      client == IF r < q THEN q ELSE r
  IN  listening[server] /\ called[client] /\ server \in clients[client]

\* There is no limit to the wait: the variable timeout is not used.
GetSocket(r, s, q) ==
  /\ thread[r][s] = "sockets"
  /\ q \in Connections(r, s) /\ ~socketFd[r][q]
  /\ Callable(r, q)
  /\ socketFd' = [socketFd EXCEPT ![r][q] = TRUE]
  /\ IF \A p \in Connections(r, s) \ {q} : socketFd[r][p]
     THEN Run(r, s, "create")
     ELSE UNCHANGED thread
  /\ UNCHANGED <<main, connectResult, qp, table, past>>

\* CreateQpWaitingReady: each channel gets a queue pair, the memory regions are
\* registered with it, and it is told to connect.
CreateOneQp(r, s, q) ==
  /\ thread[r][s] = "create"
  /\ q \in Connections(r, s) /\ qp[r][q] = "none"
  /\ qp' = IF qp[q][r] = "none"
           THEN [qp EXCEPT ![r][q] = "connecting"]
           ELSE [qp EXCEPT ![r][q] = "up", ![q][r] = "up"]
  /\ IF \A p \in Connections(r, s) \ {q} : qp[r][p] # "none"
     THEN Run(r, s, "status")
     ELSE UNCHANGED thread
  /\ UNCHANGED <<main, connectResult, socketFd, table, past>>

AllUp(r, s) == \A q \in Connections(r, s) : qp[r][q] = "up"

\* FillQpInfo puts the table together from the channels of both sides.  The
\* entry of a channel that has no queue pair yet is empty; a rank that has no
\* channel yet is an error.
HasChannels(r) == clients[r] = Below(r)

Overlap(r, s) ==
  overlapped' = IF thread[r][Other(s)] = "copy" THEN overlapped \cup {r} ELSE overlapped

\* Mutant: a side puts only its own queue pairs into the table.
FillQpInfoOfTheSide(r, s) ==
  /\ thread[r][s] = "status" /\ AllUp(r, s) /\ HasChannels(r)
  /\ copyInfo' = [copyInfo EXCEPT ![r][s] = Connections(r, s)]
  /\ Overlap(r, s)
  /\ Run(r, s, "copy")
  /\ UNCHANGED <<main, connectResult, socketFd, qp, qpInfo, past>>

FillQpInfo(r, s) ==
  /\ thread[r][s] = "status" /\ AllUp(r, s) /\ HasChannels(r)
  /\ copyInfo' = [copyInfo EXCEPT ![r][s] = {q \in Others(r) : qp[r][q] # "none"}]
  /\ Overlap(r, s)
  /\ Run(r, s, "copy")
  /\ UNCHANGED <<main, connectResult, socketFd, qp, qpInfo, past>>

FillQpInfoFindsNoChannel(r, s) ==
  /\ thread[r][s] = "status" /\ AllUp(r, s) /\ ~HasChannels(r)
  /\ GiveUp(r, s)
  /\ UNCHANGED <<table, failures, timedOut>>

\* AclrtMemcpy of the whole table.
CopyToDevice(r, s) ==
  /\ thread[r][s] = "copy"
  /\ qpInfo' = [qpInfo EXCEPT ![r] = copyInfo[r][s]]
  /\ copyInfo' = [copyInfo EXCEPT ![r][s] = {}]
  /\ Run(r, s, "ended")
  /\ Result(r, s, "success")
  /\ UNCHANGED <<main, socketFd, qp, overlapped, past>>

\* One of the library calls of a side fails.
SideFails(r, s) ==
  /\ thread[r][s] \in {"sockets", "create", "status", "copy"}
  /\ A_Failure
  /\ GiveUp(r, s)
  /\ copyInfo' = [copyInfo EXCEPT ![r][s] = {}]
  /\ UNCHANGED <<qpInfo, overlapped, timedOut>>

\* Mutant: this wait has no limit either.
StatusNeverTimesOut(r, s) == FALSE /\ UNCHANGED vars

\* A minute is over before all are seen to be up.
StatusTimesOut(r, s) ==
  /\ thread[r][s] = "status"
  /\ timedOut' = TRUE
  /\ GiveUp(r, s)
  /\ UNCHANGED <<table, failures>>

-----------------------------------------------------------------------------
Main(r) ==
  \/ StartServerSide(r) \/ StartClientSide(r)
  \/ EmplaceClient(r) \/ JoinServer(r) \/ JoinClient(r)

Thread(r, s) ==
  \/ \E q \in Ranks : GetSocket(r, s, q) \/ CreateOneQp(r, s, q)
  \/ FillQpInfo(r, s) \/ FillQpInfoFindsNoChannel(r, s) \/ CopyToDevice(r, s)

Failing(r) ==
  \/ StartServerSideFails(r) \/ StartClientSideFails(r) \/ Shutdown(r)
  \/ \E s \in Sides : SideFails(r, s)

Rank(r) ==
  \/ Main(r)
  \/ \E s \in Sides : Thread(r, s) \/ StatusTimesOut(r, s)

Next == \E r \in Ranks : Rank(r) \/ Failing(r)

Spec == Init /\ [][Next]_vars

\* Threads go on, and a minute of waiting ends.  No step can be taken twice, so
\* every behaviour comes to an end, and fairness of all the ranks together is
\* fairness of each thread.
FairSpec == Spec /\ WF_vars(\E r \in Ranks : Rank(r))

-----------------------------------------------------------------------------
\* When Connect reports success every queue pair of the rank is up, unless its
\* server side failed and reported success (line 195 lacks a return).
SuccessIsConnected ==
  \A r \in Ranks : pc[r] = "success" /\ r \notin swallowed =>
    \A q \in Others(r) : qp[r][q] = "up"

\* Then the device's table has the queues of every rank.  The code does not see
\* to it: refuted in MCQpManager_overlap.
TableIsWhole ==
  \A r \in Ranks : pc[r] = "success" /\ r \notin swallowed => qpInfo[r] = Others(r)

\* It does unless both sides were filling the table at the same time: one put
\* together before the other side's queue pairs were made may be the last copied.
TableIsWholeIfNoOverlap ==
  \A r \in Ranks :
    pc[r] = "success" /\ r \notin swallowed /\ r \notin overlapped => qpInfo[r] = Others(r)

\* All ranks connect if no library call fails and nothing takes a minute.
EveryoneConnects ==
  <>(failures > 0 \/ timedOut \/ \A r \in Ranks : pc[r] = "success")

\* The ranks whose socket r waits for in vain, since they gave up before it
\* came to be.
GaveUp(r) ==
  {q \in Others(r) :
     /\ ~socketFd[r][q]
     /\ \/ pc[q] \in {"failure", "closed"}
        \/ thread[q]["client"] = "ended" /\ connectResult[q]["client"] # "success"}

\* Whatever fails, Connect returns in the end, unless it waits for the socket
\* of a rank that gave up: that wait has no limit.
ConnectReturns ==
  <>[](\A r \in Ranks : pc[r] \in {"success", "failure", "closed"} \/ GaveUp(r) # {})
=============================================================================
