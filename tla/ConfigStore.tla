---------------------------- MODULE ConfigStore -----------------------------
(***************************************************************************)
(* The ranks' side of the configuration store (TcpConfigStore,             *)
(* store_tcp_config.cpp) on top of its server.  A blocking call registers  *)
(* a context in msgClientContext_, sends its request and sleeps until the  *)
(* thread of the link finds the context and finishes it: because a reply   *)
(* came or because the link broke.  A watch registers a context nobody     *)
(* sleeps on.                                                              *)
(***************************************************************************)
EXTENDS StoreServer

CONSTANTS Operations,   \* per rank, the requests it may make
          QueueSize,    \* linkSendQueueSize
          MaxCalls      \* bound on the calls of one rank

\* A watch is a GET that nobody sleeps on.
OperationsAssumption ==
  /\ MaxCalls \in Nat /\ QueueSize \in Nat
  /\ \A c \in Clients : \A op \in Operations[c] :
       /\ op.mt \in {"SET", "GET", "ADD", "REMOVE", "APPEND", "CAS"}
       /\ op.key \in Keys /\ op.timeout \in Int /\ op.watch \in BOOLEAN
       /\ op.watch => op.mt = "GET"
ASSUME OperationsAssumption

VARIABLES contexts,     \* msgClientContext_: the sequence numbers in it
          watching,     \* those of them whose context is a ClientWatchContext
          call,         \* the call the rank is in
          seqNo,        \* reqSeqGen_
          result,       \* per rank, what its last call returned
          notified      \* what the watches were told

server == <<kvStore, waiters, requests, replies, link, refused>>
clients == <<contexts, watching, call, seqNo, result, notified>>
vars == <<server, clients>>

Idle == [pc |-> "idle"]

Init ==
  /\ kvStore = [k \in Keys |-> Absent]
  /\ waitCtx = {}
  /\ keyWaiters = [k \in Keys |-> {}]
  /\ timedWaiters = [d \in 0..MaxTimeout |-> {}]
  /\ late = {}
  /\ requests = [c \in Clients |-> <<>>]
  /\ replies = {}
  /\ link = [c \in Clients |-> "up"]
  /\ refused = {}
  /\ contexts = [c \in Clients |-> {}]
  /\ watching = [c \in Clients |-> {}]
  /\ call = [c \in Clients |-> Idle]
  /\ seqNo = [c \in Clients |-> 0]
  /\ result = [c \in Clients |-> "none"]
  /\ notified = [c \in Clients |-> {}]

Return(c, code) ==
  /\ call' = [call EXCEPT ![c] = Idle]
  /\ result' = [result EXCEPT ![c] = code]

-----------------------------------------------------------------------------
\* A rank starts a call: its context goes into the table before it is sent.
Call(c, op) ==
  /\ call[c] = Idle
  /\ seqNo[c] < MaxCalls
  /\ seqNo' = [seqNo EXCEPT ![c] = @ + 1]
  /\ contexts' = [contexts EXCEPT ![c] = @ \cup {seqNo'[c]}]
  /\ watching' = [watching EXCEPT ![c] =
                    IF op.watch THEN @ \cup {seqNo'[c]} ELSE @]
  /\ call' = [call EXCEPT ![c] = [pc |-> "registered", seq |-> seqNo'[c], op |-> op]]
  /\ UNCHANGED <<server, result, notified>>

Request(c) ==
  LET op == call[c].op
  IN  [client |-> c, seq |-> call[c].seq, mt |-> op.mt, key |-> op.key,
       value |-> op.value, expect |-> op.expect, timeout |-> op.timeout]

\* NonBlockSend takes the request: a watch returns its id, a call waits.
Send(c) ==
  /\ call[c].pc = "registered"
  /\ link[c] = "up"
  /\ requests' = [requests EXCEPT ![c] = Append(@, Request(c))]
  /\ IF call[c].op.watch
     THEN Return(c, "SUCCESS")
     ELSE call' = [call EXCEPT ![c].pc = "waiting"] /\ UNCHANGED result
  /\ UNCHANGED <<kvStore, waiters, replies, link, refused,
                 contexts, watching, seqNo, notified>>

\* NonBlockSend finds the link broken, or its queue full of what is not on the
\* wire yet: the call returns, its context stays.
SendFails(c) ==
  /\ call[c].pc = "registered"
  /\ link[c] # "up" \/ Len(requests[c]) >= QueueSize
  /\ Return(c, "IO_ERROR")
  /\ UNCHANGED <<server, contexts, watching, seqNo, notified>>

\* ReceiveResponseHandler: the context of the reply leaves the table and is
\* finished; a reply without a context (it was unwatched) is dropped.
Receive(c) ==
  \E a \in replies :
    /\ a.client = c
    /\ replies' = replies \ {a}
    /\ contexts' = [contexts EXCEPT ![c] = @ \ {a.seq}]
    /\ watching' = [watching EXCEPT ![c] = @ \ {a.seq}]
    /\ \/ /\ a.seq \in contexts[c] \ watching[c]
          /\ Return(c, a.code)
          /\ UNCHANGED notified
       \/ /\ a.seq \in watching[c]
          /\ notified' = [notified EXCEPT ![c] = @ \cup {[seq |-> a.seq, code |-> a.code]}]
          /\ UNCHANGED <<call, result>>
       \/ /\ a.seq \notin contexts[c]
          /\ UNCHANGED <<call, result, notified>>
    /\ UNCHANGED <<kvStore, waiters, requests, link, refused, seqNo>>

\* Unwatch of a watch that may have fired already.
Unwatch(c) ==
  /\ call[c] = Idle
  /\ \E s \in watching[c] :
       /\ contexts' = [contexts EXCEPT ![c] = @ \ {s}]
       /\ watching' = [watching EXCEPT ![c] = @ \ {s}]
  /\ UNCHANGED <<server, call, seqNo, result, notified>>

-----------------------------------------------------------------------------
\* A link breaks.  The server notes it and keeps the waiters of the link; the
\* replies under way are lost.
Break(c) ==
  /\ link[c] = "up"
  /\ link' = [link EXCEPT ![c] = "broken"]
  /\ replies' = {a \in replies : a.client # c}
  /\ UNCHANGED <<kvStore, waiters, requests, refused, clients>>

\* Requests still under way when the link broke may be lost too.
Lose(c) ==
  /\ link[c] # "up"
  /\ requests[c] # <<>>
  /\ requests' = [requests EXCEPT ![c] = <<>>]
  /\ UNCHANGED <<kvStore, waiters, replies, link, refused, clients>>

\* Mutant: the broken link finishes the watches and forgets the calls.
LinkBrokenWakesWatchesOnly(c) ==
  /\ link[c] = "broken"
  /\ link' = [link EXCEPT ![c] = "closed"]
  /\ contexts' = [contexts EXCEPT ![c] = {}]
  /\ watching' = [watching EXCEPT ![c] = {}]
  /\ notified' = [notified EXCEPT ![c] =
                    @ \cup [seq : watching[c], code : {"IO_ERROR"}]]
  /\ UNCHANGED <<kvStore, waiters, requests, replies, refused, call, result, seqNo>>

\* LinkBrokenHandler of the client: every context in the table is taken out and
\* finished without a response.  A call that has not been sent yet will find
\* the link broken.
LinkBrokenHandler(c) ==
  /\ link[c] = "broken"
  /\ link' = [link EXCEPT ![c] = "closed"]
  /\ contexts' = [contexts EXCEPT ![c] = {}]
  /\ watching' = [watching EXCEPT ![c] = {}]
  /\ notified' = [notified EXCEPT ![c] =
                    @ \cup [seq : watching[c], code : {"IO_ERROR"}]]
  /\ IF call[c].pc = "waiting"
     THEN Return(c, "IO_ERROR")
     ELSE UNCHANGED <<call, result>>
  /\ UNCHANGED <<kvStore, waiters, requests, replies, refused, seqNo>>

Server == UNCHANGED clients /\ (TimerThread \/ \E c \in Clients : Handle(c))

Client(c) ==
  \/ \E op \in Operations[c] : Call(c, op)
  \/ Send(c) \/ SendFails(c) \/ Receive(c) \/ Unwatch(c)
  \/ Break(c) \/ Lose(c) \/ LinkBrokenHandler(c)

Next == Server \/ \E c \in Clients : Client(c)

Spec == Init /\ [][Next]_vars

\* The worker threads of both sides and the timer thread keep running.  Nothing
\* makes a rank call, a link break or a request get lost.
Fairness ==
  /\ \A c \in Clients :
       /\ WF_vars(Handle(c) /\ UNCHANGED clients)
       /\ WF_vars(Send(c)) /\ WF_vars(SendFails(c)) /\ WF_vars(Receive(c))
       /\ WF_vars(LinkBrokenHandler(c))
  /\ WF_vars(TimerThread /\ UNCHANGED clients)

FairSpec == Spec /\ Fairness

-----------------------------------------------------------------------------
Queued(c, s) == \E i \in 1..Len(requests[c]) : requests[c][i].seq = s
Waits(c, s) == \E w \in waitCtx \cup late : Id(w) = <<c, s>>
AnswersTo(c, s) == {a \in replies : a.client = c /\ a.seq = s}

\* A request is in one place at a time, on its way, waiting or answered, and is
\* answered once: a GET that times out while its key is created gets one of the
\* two answers.  Every answer finds the call it belongs to still waiting, with
\* its context in the table.
AnsweredOnce ==
  /\ \A c \in Clients, s \in 1..MaxCalls :
       /\ Cardinality(AnswersTo(c, s)) <= 1
       /\ ~(Queued(c, s) /\ Waits(c, s))
       /\ AnswersTo(c, s) # {} => ~Queued(c, s) /\ ~Waits(c, s)
  /\ \A a \in replies :
       a.mt # "GET" =>
         /\ a.seq \in contexts[a.client]
         /\ call[a.client].pc = "waiting" /\ call[a.client].seq = a.seq
  /\ \A c \in Clients :
       call[c].pc = "waiting" /\ link[c] # "closed" => call[c].seq \in contexts[c]

Waiting(c) == call[c].pc = "waiting"

\* As long as its link is up a GET without a timeout may wait for ever, and some
\* requests the server gives no reply.
MayHang(c) ==
  /\ link[c] = "up"
  /\ \/ <<c, call[c].seq>> \in refused
     \/ call[c].op.mt = "GET" /\ call[c].op.timeout < 0 /\ Waits(c, call[c].seq)

\* Every other call returns: a waiter is woken by the request that creates its
\* key or by its timeout, and a broken link wakes whoever waits on it.
CallsReturn ==
  \A c \in Clients : (Waiting(c) /\ ~MayHang(c)) ~> (~Waiting(c) \/ MayHang(c))
=============================================================================
