---------------------------- MODULE UidBootstrap ----------------------------
(***************************************************************************)
(* The unique-id bootstrap (shmemi_bootstrap_uid.cpp, uid_socket.cpp): the *)
(* ranks introduce themselves to a root thread of rank 0, which tells each *)
(* the address of the next one; they connect to a ring, gather everyone's  *)
(* address around it, and then run the collectives of the library:         *)
(* allgathers around the ring and barriers of one connection per message.  *)
(* A rank listens on one socket for the ring and for all barriers, so that *)
(* what comes early is put aside.  Ranks and their addresses are the same  *)
(* numbers.  A transfer fits into the buffers of a socket, so that sending *)
(* does not wait.  A rank whose collective failed may go on with the next. *)
(***************************************************************************)
EXTENDS Integers, Sequences, SequencesExt, Dissemination

CONSTANTS nranks,
          Program,     \* the collectives each rank calls after its init
          MaxTimeOuts  \* bound on the waits that run out

ASSUME UidAssumption ==
  /\ nranks \in Nat \ {0, 1}
  /\ Program \in Seq({"gather", "barrier"})
  /\ MaxTimeOuts \in Nat

Ranks == 0..(nranks - 1)

VARIABLES root,        \* the root thread: where it is and whom it talks to
          joined,      \* ranks whose addresses the root has
          rootBacklog, \* connections to the root it has not accepted
          pc,          \* where a rank is
          next,        \* the address the root has told a rank, or nranks
          backlog,     \* connections to a rank's listen_sock not yet accepted
          unexpected,  \* unexpected_conns of a rank, the latest first
          ring,        \* ring_recv_sock: the rank at its other end, or nranks
          stream,      \* what a rank has sent to its ring_send_sock and was not read
          out,         \* the buffer of a rank's gather
          peers,       \* peer_addrs of a rank
          step,        \* the loop counter of a collective
          calls,       \* how many collectives a rank has called
          done,        \* the last collective that returned success
          timeOuts,    \* how many waits have run out
          refused      \* ranks whose message found the receiver closed

rendezvous == <<root, joined, rootBacklog, next>>
failures == <<timeOuts, refused>>
vars == <<rendezvous, pc, backlog, unexpected, ring, stream, out, peers, step,
          calls, done, failures>>

Next(r) == (r + 1) % nranks
Minus(r, d) == (r + nranks - d) % nranks

\* The slices of a gather: whose data of which call.  The gather at the end of
\* the init is call 0, and its data are the addresses.
Slice(call, r) == [call |-> call, owner |-> r]
Empty == [s \in Ranks |-> Slice(0, nranks)]

Init ==
  /\ root = [at |-> "absent", client |-> 0]
  /\ joined = {}
  /\ rootBacklog = <<>>
  /\ pc = [r \in Ranks |-> "idle"]
  /\ next = [r \in Ranks |-> nranks]
  /\ backlog = [r \in Ranks |-> <<>>]
  /\ unexpected = [r \in Ranks |-> <<>>]
  /\ ring = [r \in Ranks |-> nranks]
  /\ stream = [r \in Ranks |-> <<>>]
  /\ out = [r \in Ranks |-> Empty]
  /\ peers = [r \in Ranks |-> [s \in Ranks |-> nranks]]
  /\ step = [r \in Ranks |-> 0]
  /\ calls = [r \in Ranks |-> 0]
  /\ done = [r \in Ranks |-> -1]
  /\ timeOuts = 0
  /\ refused = {}

Goto(r, at) == pc' = [pc EXCEPT ![r] = at]

-----------------------------------------------------------------------------
(* The rendezvous at the root. *)

CreateRoot == root' = [root EXCEPT !.at = "collect"]

\* A rank begins to listen; rank 0 starts the root thread before.
Start(r) ==
  /\ pc[r] = "idle"
  /\ IF r = 0 THEN CreateRoot ELSE root' = root
  /\ Goto(r, "connect")
  /\ UNCHANGED <<joined, rootBacklog, next, backlog, unexpected, ring, stream,
                 out, peers, step, calls, done, failures>>

\* A connection that is refused is tried again until the root listens.
ConnectToRoot(r) ==
  /\ pc[r] = "connect"
  /\ root.at \notin {"absent", "ended"}
  /\ rootBacklog' = Append(rootBacklog, r)
  /\ Goto(r, "version")
  /\ UNCHANGED <<root, joined, next, backlog, unexpected, ring, stream, out,
                 peers, step, calls, done, failures>>

RootAccept ==
  /\ root.at = "collect" /\ rootBacklog # <<>>
  /\ root' = [at |-> "version", client |-> Head(rootBacklog)]
  /\ rootBacklog' = Tail(rootBacklog)
  /\ UNCHANGED <<joined, next, pc, backlog, unexpected, ring, stream, out,
                 peers, step, calls, done, failures>>

\* The rank has the version of the root and sends its addresses.
Introduce(r) ==
  /\ pc[r] = "version"
  /\ root = [at |-> "version", client |-> r]
  /\ root' = [root EXCEPT !.at = "info"]
  /\ Goto(r, "next")
  /\ UNCHANGED <<joined, rootBacklog, next, backlog, unexpected, ring, stream,
                 out, peers, step, calls, done, failures>>

\* The addresses of a rank are taken; those of the last one end the loop.
RootCollect ==
  /\ root.at = "info"
  /\ joined' = joined \cup {root.client}
  /\ root' = IF joined' = Ranks THEN [at |-> "answer", client |-> 0]
             ELSE [root EXCEPT !.at = "collect"]
  /\ UNCHANGED <<rootBacklog, next, pc, backlog, unexpected, ring, stream, out,
                 peers, step, calls, done, failures>>

\* Each rank in its turn is told the address of the next one; after the last the
\* root closes its socket and ends.
RootAnswer ==
  /\ root.at = "answer"
  /\ next' = [next EXCEPT ![root.client] = Next(root.client)]
  /\ root' = IF root.client = nranks - 1 THEN [root EXCEPT !.at = "ended"]
             ELSE [root EXCEPT !.client = @ + 1]
  /\ UNCHANGED <<joined, rootBacklog, pc, backlog, unexpected, ring, stream, out,
                 peers, step, calls, done, failures>>

\* Any error ends the root for good: no connection for too long,
RootTimesOut ==
  /\ root.at = "collect" /\ rootBacklog = <<>>
  /\ timeOuts < MaxTimeOuts
  /\ root' = [root EXCEPT !.at = "ended"]
  /\ timeOuts' = timeOuts + 1
  /\ UNCHANGED <<joined, rootBacklog, next, pc, backlog, unexpected, ring, stream,
                 out, peers, step, calls, done, refused>>

\* or a rank that gave up before it introduced itself or could be told.
RootLosesClient ==
  /\ root.at \in {"version", "answer"} /\ pc[root.client] = "failed"
  /\ root' = [root EXCEPT !.at = "ended"]
  /\ UNCHANGED <<joined, rootBacklog, next, pc, backlog, unexpected, ring, stream,
                 out, peers, step, calls, done, failures>>

-----------------------------------------------------------------------------
(* Connections between the ranks. *)

\* A rank listens from its start on; one that has failed may still have its
\* sockets open.
IsOpen(r) == pc[r] \notin {"idle", "closed"}
MayBeClosed(r) == pc[r] \in {"failed", "closed"}

\* A connection of from to a rank; tag 0 stands for the ring.
Connect(to, from, tag) ==
  backlog' = [backlog EXCEPT ![to] = Append(@, [from |-> from, tag |-> tag])]

\* The first connection that has come, of which the magic number was right.
Accept(r) ==
  /\ backlog[r] # <<>>
  /\ backlog' = [backlog EXCEPT ![r] = Tail(@)]

\* Mutant: a rank connects to the previous one.
ConnectBackwards(r) ==
  /\ pc[r] = "next" /\ next[r] # nranks
  /\ Connect(Minus(r, 1), r, 0)
  /\ Goto(r, "ring")
  /\ UNCHANGED <<rendezvous, unexpected, ring, stream, out, peers, step, calls,
                 done, failures>>

\* The rank has been told the next one, and connects its ring_send_sock to it.
ConnectToNext(r) ==
  /\ pc[r] = "next" /\ next[r] # nranks
  /\ IsOpen(next[r])
  /\ Connect(next[r], r, 0)
  /\ Goto(r, "ring")
  /\ UNCHANGED <<rendezvous, unexpected, ring, stream, out, peers, step, calls,
                 done, failures>>

\* Whatever connection comes first is taken for the ring, and the addresses are
\* gathered in place, starting with the rank's own.
AcceptRing(r) ==
  /\ pc[r] = "ring" /\ Accept(r)
  /\ ring' = [ring EXCEPT ![r] = Head(backlog[r]).from]
  /\ out' = [out EXCEPT ![r][r] = Slice(0, r)]
  /\ Goto(r, "gatherSend")
  /\ UNCHANGED <<rendezvous, unexpected, stream, peers, step, calls, done, failures>>

-----------------------------------------------------------------------------
(* The collectives. *)

\* A rank calls its next collective.
Enter(r) ==
  /\ pc[r] = "ready" /\ calls[r] < Len(Program)
  /\ calls' = [calls EXCEPT ![r] = @ + 1]
  /\ step' = [step EXCEPT ![r] = 0]
  /\ IF Program[calls'[r]] = "gather"
     THEN /\ out' = [out EXCEPT ![r] = [Empty EXCEPT ![r] = Slice(calls'[r], r)]]
          /\ Goto(r, "gatherSend")
     ELSE out' = out /\ Goto(r, "barrierSend")
  /\ UNCHANGED <<rendezvous, backlog, unexpected, ring, stream, peers, done, failures>>

\* A step of the gather sends the slice that came last, at first the rank's own.
GatherSend(r) ==
  /\ pc[r] = "gatherSend" /\ IsOpen(next[r])
  /\ stream' = [stream EXCEPT ![r] = Append(@, out[r][Minus(r, step[r])])]
  /\ Goto(r, "gatherRecv")
  /\ UNCHANGED <<rendezvous, backlog, unexpected, ring, out, peers, step, calls,
                 done, failures>>

\* The gather of the init returns the addresses the barriers use.
GatherRecv(r) ==
  /\ pc[r] = "gatherRecv" /\ stream[ring[r]] # <<>>
  /\ out' = [out EXCEPT ![r][Minus(r, step[r] + 1)] = Head(stream[ring[r]])]
  /\ stream' = [stream EXCEPT ![ring[r]] = Tail(@)]
  /\ IF step[r] + 1 < nranks - 1
     THEN /\ step' = [step EXCEPT ![r] = @ + 1]
          /\ Goto(r, "gatherSend")
          /\ UNCHANGED <<done, peers>>
     ELSE /\ done' = [done EXCEPT ![r] = calls[r]]
          /\ peers' = IF calls[r] = 0
                      THEN [peers EXCEPT ![r] = [s \in Ranks |-> out'[r][s].owner]]
                      ELSE peers
          /\ Goto(r, "ready")
          /\ step' = step
  /\ UNCHANGED <<rendezvous, backlog, unexpected, ring, calls, failures>>

\* Round k of a barrier, from 0 on, is between ranks Shift[k] apart and has tag k + 1.
Mask(r) == Shift[step[r]]
Tag(r) == step[r] + 1
Source(r) == Minus(r, Mask(r))
Destination(r) == (r + Mask(r)) % nranks

\* bootstrap_send: a connection of its own, with rank, tag and data.
BarrierSend(r) ==
  LET to == peers[r][Destination(r)]
  IN  /\ pc[r] = "barrierSend"
      /\ IsOpen(to)
      /\ Connect(to, r, Tag(r))
      /\ Goto(r, "barrierRecv")
      /\ UNCHANGED <<rendezvous, unexpected, ring, stream, out, peers, step, calls,
                     done, failures>>

\* Mutant: the barrier ends a round early when ranks are no power of two.
RoundDoneTooSoon(r) ==
  IF 4 * Mask(r) <= nranks
  THEN /\ step' = [step EXCEPT ![r] = @ + 1]
       /\ Goto(r, "barrierSend")
       /\ done' = done
  ELSE /\ done' = [done EXCEPT ![r] = calls[r]]
       /\ Goto(r, "ready")
       /\ step' = step

\* A message of the round was received: the next round, or the end.
RoundDone(r) ==
  IF 2 * Mask(r) < nranks
  THEN /\ step' = [step EXCEPT ![r] = @ + 1]
       /\ Goto(r, "barrierSend")
       /\ done' = done
  ELSE /\ done' = [done EXCEPT ![r] = calls[r]]
       /\ Goto(r, "ready")
       /\ step' = step

Wanted(r) == [from |-> Source(r), tag |-> Tag(r)]

\* Mutant: the connection stays in the list.
DequeueKeepsIt(r) ==
  /\ pc[r] = "barrierRecv"
  /\ Wanted(r) \in ToSet(unexpected[r])
  /\ RoundDone(r)
  /\ UNCHANGED <<rendezvous, backlog, unexpected, ring, stream, out, peers, calls,
                 failures>>

\* bootstrap_recv looks at the connections put aside first.
DequeueUnexpected(r) ==
  /\ pc[r] = "barrierRecv"
  /\ Wanted(r) \in ToSet(unexpected[r])
  /\ unexpected' = [unexpected EXCEPT ![r] = RemoveFirst(@, Wanted(r))]
  /\ RoundDone(r)
  /\ UNCHANGED <<rendezvous, backlog, ring, stream, out, peers, calls, failures>>

\* Mutant: a connection that is not wanted is closed.
AcceptDropsOthers(r) ==
  /\ pc[r] = "barrierRecv" /\ Wanted(r) \notin ToSet(unexpected[r])
  /\ Accept(r)
  /\ unexpected' = unexpected
  /\ IF Head(backlog[r]) = Wanted(r)
     THEN RoundDone(r)
     ELSE UNCHANGED <<step, done, pc>>
  /\ UNCHANGED <<rendezvous, ring, stream, out, peers, calls, failures>>

\* Then it accepts connections until the wanted one comes, and puts the others
\* aside.
AcceptExpected(r) ==
  /\ pc[r] = "barrierRecv" /\ Wanted(r) \notin ToSet(unexpected[r])
  /\ Accept(r)
  /\ IF Head(backlog[r]) = Wanted(r)
     THEN RoundDone(r) /\ unexpected' = unexpected
     ELSE /\ unexpected' = [unexpected EXCEPT ![r] = <<Head(backlog[r])>> \o @]
          /\ UNCHANGED <<step, done, pc>>
  /\ UNCHANGED <<rendezvous, ring, stream, out, peers, calls, failures>>

\* A rank that has made all its calls closes its sockets and what it put aside.
Finalize(r) ==
  /\ pc[r] = "ready" /\ calls[r] = Len(Program)
  /\ Goto(r, "closed")
  /\ UNCHANGED <<rendezvous, backlog, unexpected, ring, stream, out, peers, step,
                 calls, done, failures>>

-----------------------------------------------------------------------------
\* An error in the init is returned and leaves the rank out; one in a
\* collective leaves it to the caller to go on.
AfterError(r) == IF done[r] = -1 THEN "failed" ELSE "ready"

\* What a rank waits for has not come: an answer of the root, a connection, data
\* from the ring.
Waiting(r) ==
  \/ pc[r] = "connect" /\ root.at \in {"absent", "ended"}
  \/ pc[r] = "version" /\ root # [at |-> "version", client |-> r]
  \/ pc[r] = "next" /\ next[r] = nranks
  \/ pc[r] = "ring" /\ backlog[r] = <<>>
  \/ pc[r] = "gatherRecv" /\ stream[ring[r]] = <<>>
  \/ /\ pc[r] = "barrierRecv" /\ backlog[r] = <<>>
     /\ Wanted(r) \notin ToSet(unexpected[r])

\* Every wait has a timeout; a peer or root that has closed its end is noticed
\* at once.
TimeOut(r) ==
  /\ Waiting(r) /\ timeOuts < MaxTimeOuts
  /\ timeOuts' = timeOuts + 1
  /\ Goto(r, AfterError(r))
  /\ UNCHANGED <<rendezvous, backlog, unexpected, ring, stream, out, peers, step,
                 calls, done, refused>>

\* The receiver of a message has closed its socket.
Refused(r) ==
  /\ \/ pc[r] = "gatherSend" /\ MayBeClosed(next[r])
     \/ pc[r] = "barrierSend" /\ MayBeClosed(peers[r][Destination(r)])
  /\ refused' = refused \cup {r}
  /\ Goto(r, AfterError(r))
  /\ UNCHANGED <<rendezvous, backlog, unexpected, ring, stream, out, peers, step,
                 calls, done, timeOuts>>

RootStep == RootAccept \/ RootCollect \/ RootAnswer

Step(r) ==
  \/ ConnectToRoot(r) \/ Introduce(r) \/ ConnectToNext(r) \/ AcceptRing(r)
  \/ GatherSend(r) \/ GatherRecv(r)
  \/ BarrierSend(r) \/ DequeueUnexpected(r) \/ AcceptExpected(r)
  \/ Refused(r)

NextStep ==
  \/ RootStep \/ RootTimesOut \/ RootLosesClient
  \/ \E r \in Ranks : Start(r) \/ Step(r) \/ Enter(r) \/ Finalize(r) \/ TimeOut(r)

Spec == Init /\ [][NextStep]_vars

\* The root thread and a rank inside a call go on.
FairSpec == Spec /\ WF_vars(RootStep) /\ \A r \in Ranks : WF_vars(Step(r))

-----------------------------------------------------------------------------
\* An init that has returned has the address of every rank in the order of the
\* ranks, whoever gave up meanwhile: the ring was closed in the right order by
\* ranks that accept whoever comes first.  As long as nothing timed out, a gather
\* holds the data every rank put into that very call: a fast rank's next call
\* does not mix in.
EveryonesData ==
  \A r \in Ranks :
    /\ done[r] >= 0 => \A s \in Ranks : peers[r][s] = s
    /\ pc[r] = "ready" /\ calls[r] > 0 /\ Program[calls[r]] = "gather" /\ timeOuts = 0
         => \A s \in Ranks : out[r][s] = Slice(calls[r], s)

\* As long as nothing timed out, no rank passes a barrier before all have called
\* it, although the tags are the same in every barrier.
EveryoneCame ==
  timeOuts = 0 =>
    \A r, q \in Ranks :
      done[r] > 0 /\ Program[done[r]] = "barrier" => calls[q] >= done[r]

\* As long as nothing timed out, finalize needs no barrier: a rank that has made
\* all its calls has read all that was sent to it, and nobody sends it any more.
CloseIsSafe ==
  timeOuts = 0 =>
    /\ refused = {}
    /\ \A r \in Ranks :
         pc[r] = "closed" =>
           /\ backlog[r] = <<>> /\ unexpected[r] = <<>>
           /\ stream[ring[r]] = <<>>

\* If all ranks start, or make a call, all of them finish it, unless one of them
\* or the root has waited too long.
EveryonePasses ==
  /\ (\A r \in Ranks : pc[r] # "idle") ~>
       ((\A r \in Ranks : done[r] >= 0) \/ timeOuts > 0)
  /\ \A n \in 1..Len(Program) :
       (\A r \in Ranks : calls[r] >= n) ~>
         ((\A r \in Ranks : done[r] >= n) \/ timeOuts > 0)
=============================================================================
