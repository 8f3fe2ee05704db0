-------------------------------- MODULE Link --------------------------------
(***************************************************************************)
(* A TCP link of acc_links between two processes: NonBlockSend on any      *)
(* thread puts a message into the link's queue and re-arms the link in the *)
(* epoll of its worker; the worker, a thread of its own, receives or sends *)
(* one message per event (acc_tcp_worker.h,                                *)
(* acc_tcp_link_complex_default.h) and handles the broken link             *)
(* (acc_tcp_server_default.h).                                             *)
(*                                                                         *)
(* The sockets block: EnableNoBlocking clears O_NONBLOCK                   *)
(* (acc_tcp_link_default.h).  A write ends when the kernel has taken all   *)
(* of it, a receive when there is something, or after SO_RCVTIMEO.  A      *)
(* message is a header of HeaderLen units and a body of BodyLen units; a   *)
(* socket holds SockCap units on the way to one end.                       *)
(***************************************************************************)
EXTENDS Integers, Sequences, FiniteSets, LinkPromise

CONSTANTS EndOf,       \* the end a thread belongs to
          Cap,         \* linkSendQueueSize
          HeaderLen, BodyLen, SockCap

LinkAssumption ==
  /\ IsFiniteSet(Ends) /\ Cardinality(Ends) = 2
  /\ EndOf \in [Threads -> Ends]
  /\ Cap \in Nat \ {0} /\ MaxSends \in Nat
  /\ HeaderLen \in Nat \ {0} /\ BodyLen \in Nat \ {0} /\ SockCap \in Nat \ {0}

ASSUME LinkAssumption

VARIABLES queue,        \* queue_: the messages not yet begun
          established,  \* established_
          added,        \* the link is in the worker's epoll
          mask,         \* the events it is registered for
          ready,        \* it is on epoll's list of ready links
          pc,           \* where the worker is in ProcessEvent
          writing,      \* the units of the message being written, still to go
          got,          \* header_ and data_: the units of the message received so far
          errno,        \* errno of the worker's thread
          wire,         \* per end, the units on their way to it
          gone,         \* the ends whose process has ended
          caller,       \* per thread, where it is in NonBlockSend
          sends         \* per thread, its calls so far

sockets == <<wire, gone>>
epoll == <<added, mask, ready>>
worker == <<pc, writing, got, errno>>
threads == <<caller, sends>>
ends == <<queue, established>>
told == <<accepted, delivered, reported>>
vars == <<ends, epoll, worker, sockets, threads, told>>

MsgLen == HeaderLen + BodyLen
Units(m) == [i \in 1..MsgLen |-> <<m, i>>]

Least(a, b) == IF a < b THEN a ELSE b

Init ==
  /\ queue = [e \in Ends |-> <<>>]
  /\ established = [e \in Ends |-> TRUE]
  /\ added = [e \in Ends |-> TRUE]
  /\ mask = [e \in Ends |-> "inout"]
  /\ ready = [e \in Ends |-> TRUE]
  /\ pc = [e \in Ends |-> "poll"]
  /\ writing = [e \in Ends |-> <<>>]
  /\ got = [e \in Ends |-> <<>>]
  /\ errno = [e \in Ends |-> "none"]
  /\ wire = [e \in Ends |-> <<>>]
  /\ gone = {}
  /\ caller = [t \in Threads |-> "out"]
  /\ sends = [t \in Threads |-> 0]
  /\ accepted = [e \in Ends |-> <<>>]
  /\ delivered = [e \in Ends |-> <<>>]
  /\ reported = [e \in Ends |-> {}]

-----------------------------------------------------------------------------
Runs(t) == EndOf[t] \notin gone

Goto(t, next) == caller' = [caller EXCEPT ![t] = next]

\* NonBlockSend looks at the link; the queue comes later.
NonBlockSend(t) ==
  /\ Runs(t) /\ caller[t] = "out" /\ sends[t] < MaxSends
  /\ sends' = [sends EXCEPT ![t] = @ + 1]
  /\ Goto(t, IF established[EndOf[t]] THEN "enqueue" ELSE "out")
  /\ UNCHANGED <<ends, epoll, worker, sockets, told>>

\* EnqueueBack; ACC_QUEUE_IS_FULL is returned to the caller.
EnqueueBack(t) ==
  LET e == EndOf[t]  m == <<t, sends[t]>>
  IN  /\ Runs(t) /\ caller[t] = "enqueue"
      /\ IF Len(queue[e]) >= Cap
         THEN Goto(t, "out") /\ UNCHANGED <<queue, accepted>>
         ELSE /\ Goto(t, "modify")
              /\ queue' = [queue EXCEPT ![e] = Append(@, m)]
              /\ accepted' = [accepted EXCEPT ![e] = Append(@, m)]
      /\ UNCHANGED <<established, epoll, worker, sockets, sends, delivered, reported>>

Wake(S) == ready' = [e \in Ends |-> ready[e] \/ e \in S]

\* ModifyLink: the link is registered for these events and, as some of them
\* may be present, looked at again; it fails once the link has been removed.
\* The links of S become ready at the same time.
ModifyLink(e, events, S) ==
  /\ mask' = IF added[e] THEN [mask EXCEPT ![e] = events] ELSE mask
  /\ Wake(S \cup (IF added[e] THEN {e} ELSE {}))
  /\ UNCHANGED added

EnqueueAndModifyEpoll(t) ==
  /\ Runs(t) /\ caller[t] = "modify"
  /\ ModifyLink(EndOf[t], "inout", {})
  /\ Goto(t, "out")
  /\ UNCHANGED <<ends, worker, sockets, sends, told>>

-----------------------------------------------------------------------------
Readable(e) == wire[e] # <<>> \/ Peer(e) \in gone
Writable(e) == Len(wire[Peer(e)]) < SockCap \/ Peer(e) \in gone

AtPoll(e) == e \notin gone /\ pc[e] = "poll" /\ added[e] /\ ready[e]

Move(e, next) == pc' = [pc EXCEPT ![e] = next]

\* An event with EPOLLIN is for HandlePollIn, whether there is room to send or
\* not; with EPOLLET the link leaves the list of ready links.
PollIn(e) ==
  /\ AtPoll(e) /\ mask[e] = "inout" /\ Readable(e)
  /\ ready' = [ready EXCEPT ![e] = FALSE]
  /\ Move(e, IF Len(got[e]) < HeaderLen THEN "header" ELSE "body")
  /\ UNCHANGED <<ends, added, mask, writing, got, errno, sockets, threads, told>>

\* Mutant: the message stays in the queue while it is written.
PollOutKeeps(e) ==
  /\ AtPoll(e) /\ mask[e] = "inout" /\ ~Readable(e) /\ Writable(e)
  /\ ready' = [ready EXCEPT ![e] = FALSE]
  /\ IF queue[e] = <<>>
     THEN UNCHANGED <<pc, writing>>
     ELSE /\ writing' = [writing EXCEPT ![e] = Units(Head(queue[e]))]
          /\ Move(e, "write")
  /\ UNCHANGED <<ends, added, mask, got, errno, sockets, threads, told>>

\* HandlePollOut takes the first message off the queue.  When there is none,
\* nothing is registered again.
PollOut(e) ==
  /\ AtPoll(e) /\ mask[e] = "inout" /\ ~Readable(e) /\ Writable(e)
  /\ ready' = [ready EXCEPT ![e] = FALSE]
  /\ IF queue[e] = <<>>
     THEN UNCHANGED <<queue, pc, writing>>
     ELSE /\ queue' = [queue EXCEPT ![e] = Tail(@)]
          /\ writing' = [writing EXCEPT ![e] = Units(Head(queue[e]))]
          /\ Move(e, "write")
  /\ UNCHANGED <<established, added, mask, got, errno, sockets, threads, told>>

\* None of the events is present: the link leaves the list until one is.
PollNothing(e) ==
  /\ AtPoll(e) /\ mask[e] = "inout" /\ ~Readable(e) /\ ~Writable(e)
  /\ ready' = [ready EXCEPT ![e] = FALSE]
  /\ UNCHANGED <<ends, added, mask, worker, sockets, threads, told>>

\* After a failed send the link is registered for EPOLLWRNORM alone.
PollError(e) ==
  /\ AtPoll(e) /\ mask[e] = "wrnorm"
  /\ ready' = [ready EXCEPT ![e] = FALSE]
  /\ Move(e, "break")
  /\ UNCHANGED <<ends, added, mask, writing, got, errno, sockets, threads, told>>

\* recv takes k units from the wire.
Take(e, k) ==
  /\ wire' = [wire EXCEPT ![e] = SubSeq(@, k + 1, Len(@))]
  /\ UNCHANGED gone

\* When that makes room in a full socket, the sender's link becomes ready.
Unblocked(e) == IF Len(wire[e]) = SockCap THEN {Peer(e)} ELSE {}

\* The worker is done with the event and registers the link again.
Rearm(e, S) == Move(e, "poll") /\ ModifyLink(e, "inout", S)

\* recv of the rest of the header.
RecvHeader(e) ==
  LET k == Least(HeaderLen - Len(got[e]), Len(wire[e]))
  IN  /\ e \notin gone /\ pc[e] = "header" /\ wire[e] # <<>>
      /\ got' = [got EXCEPT ![e] = @ \o SubSeq(wire[e], 1, k)]
      /\ Take(e, k)
      /\ IF Len(got'[e]) = HeaderLen
         THEN Move(e, "body") /\ Wake(Unblocked(e)) /\ UNCHANGED <<added, mask>>
         ELSE Rearm(e, Unblocked(e))
      /\ UNCHANGED <<ends, writing, errno, threads, told>>

\* What the request handler is called with: the message the header belongs to
\* when all units are its own, in order; no message otherwise.
Assembled(units) ==
  IF units = Units(units[1][1]) THEN units[1][1] ELSE <<>>

\* Mutant: the body is taken to be complete when something of it has come.
RecvBodyAtOnce(e) ==
  LET k == Least(MsgLen - Len(got[e]), Len(wire[e]))
      units == got[e] \o SubSeq(wire[e], 1, k)
  IN  /\ e \notin gone /\ pc[e] = "body" /\ wire[e] # <<>>
      /\ Take(e, k)
      /\ got' = [got EXCEPT ![e] = <<>>]
      /\ delivered' = [delivered EXCEPT ![e] = Append(@, Assembled(units))]
      /\ Rearm(e, Unblocked(e))
      /\ UNCHANGED <<ends, writing, errno, threads, accepted, reported>>

\* Mutant: the link is not registered again after a whole message.
RecvBodyForgets(e) ==
  LET k == Least(MsgLen - Len(got[e]), Len(wire[e]))
      units == got[e] \o SubSeq(wire[e], 1, k)
  IN  /\ e \notin gone /\ pc[e] = "body" /\ wire[e] # <<>>
      /\ Take(e, k)
      /\ IF Len(units) = MsgLen
         THEN /\ got' = [got EXCEPT ![e] = <<>>]
              /\ delivered' = [delivered EXCEPT ![e] = Append(@, Assembled(units))]
              /\ Move(e, "poll") /\ Wake(Unblocked(e)) /\ UNCHANGED <<added, mask>>
         ELSE /\ got' = [got EXCEPT ![e] = units]
              /\ UNCHANGED delivered
              /\ Rearm(e, Unblocked(e))
      /\ UNCHANGED <<ends, writing, errno, threads, accepted, reported>>

\* recv of the rest of the body; a whole message is handed up.
RecvBody(e) ==
  LET k == Least(MsgLen - Len(got[e]), Len(wire[e]))
      units == got[e] \o SubSeq(wire[e], 1, k)
  IN  /\ e \notin gone /\ pc[e] = "body" /\ wire[e] # <<>>
      /\ Take(e, k)
      /\ IF Len(units) = MsgLen
         THEN /\ got' = [got EXCEPT ![e] = <<>>]
              /\ delivered' = [delivered EXCEPT ![e] = Append(@, Assembled(units))]
         ELSE /\ got' = [got EXCEPT ![e] = units]
              /\ UNCHANGED delivered
      /\ Rearm(e, Unblocked(e))
      /\ UNCHANGED <<ends, writing, errno, threads, accepted, reported>>

Receiving(e) == e \notin gone /\ pc[e] \in {"header", "body"} /\ wire[e] = <<>>

\* Nothing has come for SO_RCVTIMEO: recv fails with EAGAIN.
RecvTimesOut(e) ==
  /\ Receiving(e) /\ Peer(e) \notin gone
  /\ errno' = [errno EXCEPT ![e] = "EAGAIN"]
  /\ Rearm(e, {})
  /\ UNCHANGED <<ends, writing, got, sockets, threads, told>>

\* Mutant: a receive of nothing is a reason to come back.
RecvClosedAgain(e) ==
  /\ Receiving(e) /\ Peer(e) \in gone
  /\ Rearm(e, {})
  /\ UNCHANGED <<ends, writing, got, errno, sockets, threads, told>>

\* recv returns 0 because the peer has closed; the code asks errno, which such
\* a receive leaves as it was.
RecvClosed(e) ==
  /\ Receiving(e) /\ Peer(e) \in gone
  /\ IF errno[e] = "EAGAIN"
     THEN Rearm(e, {})
     ELSE Move(e, "break") /\ UNCHANGED epoll
  /\ UNCHANGED <<ends, writing, got, errno, sockets, threads, told>>

\* The kernel takes k units of the header or the body being written.
Write(e, k) ==
  LET p == Peer(e)
  IN  /\ e \notin gone /\ pc[e] = "write" /\ p \notin gone
      /\ k <= Least(Len(writing[e]), SockCap - Len(wire[p]))
      /\ wire' = [wire EXCEPT ![p] = @ \o SubSeq(writing[e], 1, k)]
      /\ writing' = [writing EXCEPT ![e] = SubSeq(@, k + 1, Len(@))]
      /\ UNCHANGED gone
      /\ IF k < Len(writing[e])
         THEN Wake({p}) /\ UNCHANGED <<pc, added, mask>>
         ELSE Rearm(e, {p})
      /\ UNCHANGED <<ends, got, errno, threads, told>>

\* The peer is gone: the message is deleted, the link registered for the error.
WriteFails(e) ==
  /\ e \notin gone /\ pc[e] = "write" /\ Peer(e) \in gone
  /\ errno' = [errno EXCEPT ![e] = "ECONNRESET"]
  /\ writing' = [writing EXCEPT ![e] = <<>>]
  /\ Move(e, "poll") /\ ModifyLink(e, "wrnorm", {})
  /\ UNCHANGED <<ends, got, sockets, threads, told>>

\* HandleLinkBroken: Break...
Break(e) ==
  /\ e \notin gone /\ pc[e] = "break"
  /\ established' = [established EXCEPT ![e] = FALSE]
  /\ Move(e, "cleanup")
  /\ UNCHANGED <<queue, epoll, writing, got, errno, sockets, threads, told>>

\* ...then what is taken out of the queue is reported as not sent,
CleanUp(e) ==
  /\ e \notin gone /\ pc[e] = "cleanup"
  /\ queue' = [queue EXCEPT ![e] = <<>>]
  /\ reported' = [reported EXCEPT ![e] = @ \cup {queue[e][i] : i \in DOMAIN queue[e]}]
  /\ Move(e, "remove")
  /\ UNCHANGED <<established, epoll, writing, got, errno, sockets, threads,
                 accepted, delivered>>

\* and later, under the server's mutex, the link leaves the epoll.
RemoveLink(e) ==
  /\ e \notin gone /\ pc[e] = "remove"
  /\ added' = [added EXCEPT ![e] = FALSE]
  /\ Move(e, "poll")
  /\ UNCHANGED <<ends, mask, ready, writing, got, errno, sockets, threads, told>>

\* The process of an end ends: the other end's link becomes ready.
Exit(e) ==
  /\ gone = {}
  /\ gone' = {e}
  /\ Wake({Peer(e)})
  /\ UNCHANGED <<ends, added, mask, worker, wire, threads, told>>

-----------------------------------------------------------------------------
Event(e) ==
  \/ PollIn(e) \/ PollOut(e) \/ PollNothing(e) \/ PollError(e)
  \/ RecvHeader(e) \/ RecvBody(e) \/ RecvClosed(e)
  \/ (\E k \in 1..SockCap : Write(e, k)) \/ WriteFails(e)
  \/ Break(e) \/ CleanUp(e) \/ RemoveLink(e)

Send(t) == EnqueueBack(t) \/ EnqueueAndModifyEpoll(t)

Next ==
  \/ \E t \in Threads : NonBlockSend(t) \/ Send(t)
  \/ \E e \in Ends : Event(e) \/ RecvTimesOut(e) \/ Exit(e)

Spec == Init /\ [][Next]_vars

\* The workers and the threads inside NonBlockSend go on; a program need not
\* send, and nothing makes it end or a receive time out.
FairSpec ==
  /\ Spec
  /\ \A e \in Ends : WF_vars(Event(e))
  /\ \A t \in Threads : WF_vars(Send(t))

-----------------------------------------------------------------------------
\* What NonBlockSend has accepted is delivered unless an end goes away: the
\* edge-triggered events are never lost between the threads that send and the
\* worker, whatever part of a message has been received.
EveryMessageArrives ==
  \A e \in Ends : \A n \in 1..Cardinality(Messages) :
    Len(accepted[e]) >= n ~> (Len(delivered[Peer(e)]) >= n \/ gone # {})

\* An end notices that the other has gone and removes the link from its epoll,
\* if no receive of it has timed out: HandlePollIn asks errno.
ExitIsNoticed ==
  \A e \in Ends : (Peer(e) \in gone) ~> (~added[e] \/ errno[e] = "EAGAIN")
=============================================================================
