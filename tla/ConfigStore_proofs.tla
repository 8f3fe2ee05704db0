------------------------- MODULE ConfigStore_proofs -------------------------
(***************************************************************************)
(* The store answers every request once and leaves no waiter behind, for   *)
(* any number of clients and keys, whatever links break and however the    *)
(* timer runs.  A request is named by its client and its number; the name  *)
(* is new when it is sent, and from then on it is in one place: on its     *)
(* way, in waitCtx_, with the timer thread, or in a reply.                 *)
(***************************************************************************)
EXTENDS ConfigStore, LinkPromise, FiniteSetTheorems, SequenceTheorems, TLAPS

Times == 0..MaxTimeout

Waiter == [client : Clients, seq : Nat, mt : {"GET"}, key : Keys, deadline : Times \cup {Never}]

RequestsOf(c) ==
  {[client |-> c, seq |-> s, mt |-> op.mt, key |-> op.key,
    value |-> op.value, expect |-> op.expect, timeout |-> op.timeout] :
     s \in Nat, op \in Operations[c]}

CallsOf(c) == {Idle} \cup [pc : {"registered", "waiting"}, seq : Nat, op : Operations[c]]

ServerTypes ==
  /\ DOMAIN kvStore = Keys
  /\ waitCtx \subseteq Waiter /\ late \subseteq Waiter
  /\ DOMAIN keyWaiters = Keys
  /\ DOMAIN timedWaiters = Times
  /\ DOMAIN requests = Clients /\ \A c \in Clients : requests[c] \in Seq(RequestsOf(c))
  /\ \A a \in replies : a.client \in Clients
  /\ link \in [Clients -> {"up", "broken", "closed"}]

ClientTypes ==
  /\ contexts \in [Clients -> SUBSET Nat]
  /\ watching \in [Clients -> SUBSET Nat]
  /\ DOMAIN call = Clients /\ \A c \in Clients : call[c] \in CallsOf(c)
  /\ seqNo \in [Clients -> Nat]

Types == ServerTypes /\ ClientTypes

-----------------------------------------------------------------------------
\* The waiters of the table and those the timer thread has taken out of it.
Parked == waitCtx \cup late

\* No two requests, waiters or replies have the same name, and none that is in
\* one of the places is in another.
NamesDiffer ==
  /\ \A c \in Clients : \A i, j \in 1..Len(requests[c]) :
       requests[c][i].seq = requests[c][j].seq => i = j
  /\ \A v, w \in Parked : Id(v) = Id(w) => v = w
  /\ \A a, b \in replies : Id(a) = Id(b) => a = b

OnePlace ==
  /\ \A c \in Clients : \A i \in 1..Len(requests[c]) :
       /\ \A w \in Parked : Id(w) # <<c, requests[c][i].seq>>
       /\ \A a \in replies : Id(a) # <<c, requests[c][i].seq>>
  /\ \A w \in Parked, a \in replies : Id(w) # Id(a)
  /\ waitCtx \cap late = {}

\* The names in use are of calls that were sent.  One whose context is no watch
\* is of the call that waits now: the context that a failed send leaves behind
\* has a name that was never sent.
Sent(c, s) == s \in 0..seqNo[c] /\ (s = seqNo[c] => call[c].pc # "registered")

Awaited(c, s) == call[c].pc = "waiting" /\ call[c].seq = s

Known(c, s) ==
  Sent(c, s) /\ (link[c] = "up" /\ s \in contexts[c] \ watching[c] => Awaited(c, s))

NamesAreKnown ==
  /\ \A c \in Clients : \A i \in 1..Len(requests[c]) : Known(c, requests[c][i].seq)
  /\ \A w \in Parked : Known(w.client, w.seq)
  /\ \A a \in replies : Known(a.client, a.seq)

\* A call is the latest of its rank and has its context until the link is closed.
CallIsLatest ==
  \A c \in Clients :
    /\ call[c].pc # "idle" => call[c].seq = seqNo[c]
    /\ call[c].pc = "registered" /\ link[c] # "closed" =>
         call[c].seq \in contexts[c] /\ (call[c].seq \in watching[c] <=> call[c].op.watch)
    /\ call[c].pc = "waiting" /\ link[c] # "closed" =>
         call[c].seq \in contexts[c] \ watching[c]
    /\ \A s \in contexts[c] \cup watching[c] : s <= seqNo[c]

\* Whatever is no GET was asked by a call that still waits for the answer.
AnswersAreAwaited ==
  /\ \A c \in Clients : link[c] = "up" => \A i \in 1..Len(requests[c]) :
       requests[c][i].mt # "GET" => Awaited(c, requests[c][i].seq)
  /\ \A a \in replies : link[a.client] = "up" /\ (a.mt # "GET" => Awaited(a.client, a.seq))

IInv ==
  /\ Types /\ NamesDiffer /\ OnePlace /\ NamesAreKnown /\ CallIsLatest
  /\ AnswersAreAwaited /\ WaitersIndexed /\ NoWaiterLeftBehind

-----------------------------------------------------------------------------
\* What the containers are at first.
LEMMA InitInv == Init => IInv
<1> SUFFICES ASSUME Init PROVE IInv
  OBVIOUS
<1>1. Types
  BY DEF Init, Types, ServerTypes, ClientTypes, Times, CallsOf
<1>2. NamesDiffer /\ OnePlace /\ NamesAreKnown /\ AnswersAreAwaited
  BY DEF Init, NamesDiffer, OnePlace, NamesAreKnown, AnswersAreAwaited, Parked
<1>3. CallIsLatest
  BY DEF Init, CallIsLatest, Idle
<1>4. WaitersIndexed /\ NoWaiterLeftBehind
  BY DEF Init, WaitersIndexed, NoWaiterLeftBehind, Deadlines
<1> QED BY <1>1, <1>2, <1>3, <1>4 DEF IInv

\* The first request of a queue and the rest of it.
LEMMA FirstAndRest ==
  ASSUME NEW S, NEW q \in Seq(S), q # <<>>
  PROVE  /\ Len(q) \in Nat \ {0} /\ Head(q) = q[1] /\ Head(q) \in S
         /\ Tail(q) \in Seq(S) /\ Len(Tail(q)) = Len(q) - 1
         /\ \A i \in 1..Len(Tail(q)) : Tail(q)[i] = q[i + 1] /\ i + 1 \in 1..Len(q)
OBVIOUS

-----------------------------------------------------------------------------
\* The server's containers under the three things a handler does to them.
Indexed == WaitersIndexed /\ NoWaiterLeftBehind

\* A request that creates its key takes out all who wait for it.
LEMMA CreateKeeps ==
  ASSUME Types, Indexed, NEW r, r.key \in Keys, NEW value, NEW told, NEW answer,
         Create(r, value, told, answer)
  PROVE  /\ Indexed' /\ waitCtx' = {w \in waitCtx : Id(w) \notin keyWaiters[r.key]}
         /\ DOMAIN kvStore' = Keys /\ DOMAIN keyWaiters' = Keys /\ DOMAIN timedWaiters' = Times
<1> USE DEF Types, ServerTypes
<1> DEFINE ids == keyWaiters[r.key]
<1>1. /\ waitCtx' = {w \in waitCtx : Id(w) \notin ids}
      /\ timedWaiters' = [d \in Times |-> timedWaiters[d] \ ids]
      /\ keyWaiters' = [keyWaiters EXCEPT ![r.key] = {}]
      /\ kvStore' = [kvStore EXCEPT ![r.key] = value]
  BY DEF Create, GetOutWaiters
<1>2. \A w \in waitCtx' : /\ w \in waitCtx /\ Id(w) \notin ids
                          /\ Id(w) \in keyWaiters[w.key] /\ w.key \in Keys /\ w.key # r.key
                          /\ w.deadline \in Times \cup {Never}
  BY <1>1 DEF Indexed, WaitersIndexed, Waiter
<1>3. NoWaiterLeftBehind'
  BY <1>1, <1>2 DEF Indexed, NoWaiterLeftBehind, Exists
<1>4. \A w \in waitCtx' : /\ Id(w) \in keyWaiters'[w.key]
                          /\ w.deadline # Never => Id(w) \in timedWaiters'[w.deadline]
  BY <1>1, <1>2 DEF Indexed, WaitersIndexed
<1>5. \A d \in Times : \A i \in timedWaiters'[d] : \E w \in waitCtx' : Id(w) = i /\ w.deadline = d
  <2> SUFFICES ASSUME NEW d \in Times, NEW i \in timedWaiters'[d]
               PROVE  \E w \in waitCtx' : Id(w) = i /\ w.deadline = d
    OBVIOUS
  <2>1. i \in timedWaiters[d] /\ i \notin ids
    BY <1>1
  <2>2. PICK w \in waitCtx : Id(w) = i /\ w.deadline = d
    BY <2>1 DEF Indexed, WaitersIndexed, Deadlines
  <2> QED BY <1>1, <2>1, <2>2
<1>6. WaitersIndexed'
  BY <1>1, <1>4, <1>5 DEF WaitersIndexed, Deadlines, Id
<1> QED BY <1>1, <1>3, <1>6 DEF Indexed

\* A request that creates no key: nobody waits for what exists already.
LEMMA StoreKeeps ==
  ASSUME Types, Indexed, UNCHANGED waiters, DOMAIN kvStore' = Keys,
         \A k \in Keys : kvStore'[k] # Absent => kvStore[k] # Absent
  PROVE  Indexed'
<1>1. NoWaiterLeftBehind'
  BY DEF Indexed, NoWaiterLeftBehind, Exists, waiters, Types, ServerTypes, Waiter
<1>2. WaitersIndexed'
  BY DEF Indexed, WaitersIndexed, Deadlines, waiters, Id
<1> QED BY <1>1, <1>2 DEF Indexed

\* A GET that becomes a waiter.
LEMMA WaitKeeps ==
  ASSUME Types, Indexed, NEW c \in Clients, NEW r \in RequestsOf(c), r.mt = "GET",
         ~Exists(r.key), r.timeout # 0, r.timeout <= MaxTimeout, Wait(r)
  PROVE  /\ Indexed' /\ DOMAIN keyWaiters' = Keys /\ DOMAIN timedWaiters' = Times
         /\ \E w \in Waiter : Id(w) = Id(r) /\ waitCtx' = waitCtx \cup {w}
<1> USE StoreAssumption DEF Types, ServerTypes
<1> DEFINE deadline == IF r.timeout > 0 THEN r.timeout ELSE Never
           new == [client |-> r.client, seq |-> r.seq, mt |-> r.mt, key |-> r.key,
                   deadline |-> deadline]
<1>1. /\ waitCtx' = waitCtx \cup {new}
      /\ keyWaiters' = [keyWaiters EXCEPT ![r.key] = @ \cup {Id(r)}]
      /\ timedWaiters' = [d \in Times |->
           timedWaiters[d] \cup (IF d = deadline THEN {Id(r)} ELSE {})]
      /\ kvStore' = kvStore
  BY DEF Wait
<1>2. /\ r.client = c /\ r.seq \in Nat /\ r.key \in Keys /\ r.timeout \in Int
  BY OperationsAssumption DEF RequestsOf, OperationsAssumption
<1>3. deadline \in Times \cup {Never} /\ Never \notin Times
  BY <1>2 DEF Times
<1>4. new \in Waiter /\ Id(new) = Id(r) /\ new.key = r.key /\ new.deadline = deadline
  BY <1>2, <1>3 DEF Waiter, Id
<1> HIDE DEF new, deadline
<1>5. NoWaiterLeftBehind'
  BY <1>1, <1>4 DEF Indexed, NoWaiterLeftBehind, Exists
<1>6. \A w \in waitCtx' : /\ Id(w) \in keyWaiters'[w.key]
                          /\ w.deadline # Never => Id(w) \in timedWaiters'[w.deadline]
  <2>1. \A w \in waitCtx : /\ Id(w) \in keyWaiters[w.key] /\ w.key \in Keys
                           /\ w.deadline # Never =>
                                w.deadline \in Times /\ Id(w) \in timedWaiters[w.deadline]
    BY DEF Indexed, WaitersIndexed, Waiter
  <2>2. ASSUME NEW w \in waitCtx PROVE /\ Id(w) \in keyWaiters'[w.key]
                                       /\ w.deadline # Never => Id(w) \in timedWaiters'[w.deadline]
    BY <1>1, <2>1
  <2>3. Id(new) \in keyWaiters'[new.key] /\ (new.deadline # Never => Id(new) \in timedWaiters'[new.deadline])
    BY <1>1, <1>2, <1>3, <1>4
  <2> QED BY <1>1, <2>2, <2>3
<1>7. \A d \in Times : \A i \in timedWaiters'[d] : \E w \in waitCtx' : Id(w) = i /\ w.deadline = d
  <2> SUFFICES ASSUME NEW d \in Times, NEW i \in timedWaiters'[d]
               PROVE  \E w \in waitCtx' : Id(w) = i /\ w.deadline = d
    OBVIOUS
  <2>1. CASE i \in timedWaiters[d]
    BY <1>1, <2>1 DEF Indexed, WaitersIndexed, Deadlines
  <2>2. CASE i \notin timedWaiters[d]
    <3>1. d = deadline /\ i = Id(r)
      BY <1>1, <2>2
    <3> QED BY <1>1, <1>4, <3>1
  <2> QED BY <2>1, <2>2
<1>8. WaitersIndexed'
  BY <1>1, <1>6, <1>7 DEF WaitersIndexed, Deadlines, Id
<1> QED BY <1>1, <1>4, <1>5, <1>8 DEF Indexed

-----------------------------------------------------------------------------
\* What a request does to the names: its own goes into waitCtx_ or, with those
\* of the waiters it takes out, into replies, each once.
Effect(r) ==
  /\ replies \subseteq replies'
  /\ \A a \in replies' \ replies :
       /\ a.client \in Clients /\ link[a.client] = "up"
       /\ \/ Id(a) = Id(r) /\ a.mt = r.mt
          \/ a.mt = "GET" /\ \E w \in waitCtx : w \notin waitCtx' /\ Id(w) = Id(a)
  /\ \A a, b \in replies' \ replies : Id(a) = Id(b) => a = b
  /\ \/ waitCtx' \subseteq waitCtx
     \/ replies' = replies /\ \E w \in Waiter : Id(w) = Id(r) /\ waitCtx' = waitCtx \cup {w}

\* An answer has the name and the type of what it answers.
LEMMA AnswerHasName ==
  \A r, code, value : Id(Answer(r, code, value)) = Id(r) /\ Answer(r, code, value).mt = r.mt
                      /\ Answer(r, code, value).client = r.client
BY DEF Id, Answer

\* A request that is answered alone, or not at all.
LEMMA StoreAnswers ==
  ASSUME NEW r, r.client \in Clients, UNCHANGED waiters, NEW answers,
         Reply(answers), \E code, value : answers \subseteq {Answer(r, code, value)}
  PROVE  Effect(r)
<1>1. PICK code, value : answers \subseteq {Answer(r, code, value)}
  OBVIOUS
<1>2. /\ replies \subseteq replies'
      /\ \A a \in replies' \ replies : a = Answer(r, code, value) /\ link[a.client] = "up"
  BY <1>1 DEF Reply
<1> QED BY <1>2, AnswerHasName DEF Effect, waiters

\* A request that is answered with the waiters it takes out.
LEMMA CreateAnswers ==
  ASSUME Types, NamesDiffer, NEW r, r.client \in Clients, \A w \in waitCtx : Id(w) # Id(r),
         waitCtx' = {w \in waitCtx : Id(w) \notin keyWaiters[r.key]},
         NEW value, NEW told, NEW code, NEW answer,
         Create(r, value, told, Answer(r, code, answer))
  PROVE  Effect(r)
<1>1. /\ replies \subseteq replies'
      /\ \A a \in replies' \ replies :
           /\ link[a.client] = "up"
           /\ \/ a = Answer(r, code, answer)
              \/ \E w \in Woken(r.key) : a = Answer(w, "SUCCESS", told)
  BY DEF Create, Reply
<1>2. \A w \in Woken(r.key) : w \in waitCtx /\ w \notin waitCtx' /\ w.mt = "GET" /\ w.client \in Clients
  BY DEF Woken, Types, ServerTypes, Waiter
<1>3. ASSUME NEW a \in replies' \ replies
      PROVE  /\ a.client \in Clients /\ link[a.client] = "up"
             /\ \/ Id(a) = Id(r) /\ a.mt = r.mt
                \/ a.mt = "GET" /\ \E w \in waitCtx : w \notin waitCtx' /\ Id(w) = Id(a)
  <2>1. CASE a = Answer(r, code, answer)
    BY <1>1, <2>1, AnswerHasName
  <2>2. CASE \E w \in Woken(r.key) : a = Answer(w, "SUCCESS", told)
    <3>1. PICK w \in Woken(r.key) : a = Answer(w, "SUCCESS", told)
      BY <2>2
    <3>2. a.client = w.client /\ a.mt = w.mt /\ Id(a) = Id(w)
      BY <3>1, AnswerHasName
    <3> QED BY <1>1, <1>2, <3>2
  <2> QED BY <1>1, <2>1, <2>2
<1>4. ASSUME NEW a \in replies' \ replies, NEW b \in replies' \ replies, Id(a) = Id(b)
      PROVE  a = b
  <2>1. \A w \in Woken(r.key) : Id(w) # Id(r)
    BY <1>2
  <2>2. ASSUME NEW v \in Woken(r.key), NEW w \in Woken(r.key), a = Answer(v, "SUCCESS", told),
               b = Answer(w, "SUCCESS", told)
        PROVE  a = b
    <3>1. Id(v) = Id(w)
      BY <1>4, <2>2, AnswerHasName
    <3> QED BY <1>2, <2>2, <3>1 DEF NamesDiffer, Parked
  <2>3. ASSUME NEW w \in Woken(r.key)
        PROVE  /\ ~(a = Answer(r, code, answer) /\ b = Answer(w, "SUCCESS", told))
               /\ ~(b = Answer(r, code, answer) /\ a = Answer(w, "SUCCESS", told))
    BY <1>4, <2>1, AnswerHasName
  <2> QED BY <1>1, <2>2, <2>3
<1> QED BY <1>1, <1>3, <1>4 DEF Effect

\* The handlers, one for each type of request.
LEMMA HandleSays ==
  ASSUME Types, Indexed, NamesDiffer, NEW c \in Clients, NEW r \in RequestsOf(c),
         \A w \in waitCtx : Id(w) # Id(r),
         \/ SetHandler(r) \/ GetHandler(r) \/ AddHandler(r)
         \/ RemoveHandler(r) \/ AppendHandler(r) \/ CasHandler(r)
  PROVE  /\ Effect(r) /\ Indexed'
         /\ DOMAIN kvStore' = Keys /\ DOMAIN keyWaiters' = Keys /\ DOMAIN timedWaiters' = Times
<1> DEFINE Goal == /\ Effect(r) /\ Indexed'
                   /\ DOMAIN kvStore' = Keys /\ DOMAIN keyWaiters' = Keys
                   /\ DOMAIN timedWaiters' = Times
<1>1. r.client = c /\ r.key \in Keys
  BY OperationsAssumption DEF RequestsOf, OperationsAssumption
<1>2. ASSUME NEW value, NEW told, NEW code, NEW answer,
             Create(r, value, told, Answer(r, code, answer))
      PROVE  Goal
  BY <1>1, <1>2, CreateKeeps, CreateAnswers
<1>3. ASSUME NEW value, NEW code, NEW answer, Exists(r.key),
Store(r, value, Answer(r, code, answer))
      PROVE  Goal
  <2>1. DOMAIN kvStore' = Keys /\ \A k \in Keys : kvStore'[k] # Absent => kvStore[k] # Absent
    BY <1>1, <1>3 DEF Store, Exists, Types, ServerTypes
  <2>2. UNCHANGED waiters /\ Reply({Answer(r, code, answer)})
    BY <1>3 DEF Store
  <2>3. Indexed'
    BY <2>1, <2>2, StoreKeeps
  <2>4. Effect(r)
    BY <1>1, <2>2, StoreAnswers
  <2> QED BY <2>1, <2>2, <2>3, <2>4 DEF waiters, Types, ServerTypes
<1>4. ASSUME NEW answers, \E code, value : answers \subseteq {Answer(r, code, value)},
             JustReply(answers)
      PROVE  Goal
  <2>1. UNCHANGED waiters /\ kvStore' = kvStore /\ Reply(answers)
    BY <1>4 DEF JustReply
  <2>2. Indexed'
    BY <2>1, StoreKeeps DEF Types, ServerTypes
  <2>3. Effect(r)
    BY <1>1, <1>4, <2>1, StoreAnswers
  <2> QED BY <2>1, <2>2, <2>3 DEF waiters, Types, ServerTypes
<1>5. ASSUME NEW code, NEW value, JustReply({Answer(r, code, value)}) PROVE Goal
  BY <1>4, <1>5
<1>6. ASSUME JustReply({}) PROVE Goal
  BY <1>4, <1>6
<1>7. ASSUME r.mt = "GET", ~Exists(r.key), r.timeout # 0, r.timeout <= MaxTimeout, Wait(r)
      PROVE  Goal
  <2>1. kvStore' = kvStore /\ replies' = replies
    BY <1>7 DEF Wait
  <2>2. /\ Indexed' /\ DOMAIN keyWaiters' = Keys /\ DOMAIN timedWaiters' = Times
        /\ \E w \in Waiter : Id(w) = Id(r) /\ waitCtx' = waitCtx \cup {w}
    BY <1>7, WaitKeeps
  <2>3. Effect(r)
    BY <2>1, <2>2 DEF Effect
  <2> QED BY <2>1, <2>2, <2>3 DEF Types, ServerTypes
<1> HIDE DEF Goal
<1>8. ASSUME SetHandler(r) PROVE Goal
  BY <1>2, <1>3, <1>8 DEF SetHandler
<1>9. ASSUME GetHandler(r) PROVE Goal
  BY <1>5, <1>6, <1>7, <1>9 DEF GetHandler
<1>10. ASSUME AddHandler(r) PROVE Goal
  BY <1>2, <1>3, <1>6, <1>10 DEF AddHandler
<1>11. ASSUME RemoveHandler(r) PROVE Goal
  BY <1>3, <1>5, <1>11 DEF RemoveHandler
<1>12. ASSUME AppendHandler(r) PROVE Goal
  BY <1>2, <1>3, <1>12 DEF AppendHandler
<1>13. ASSUME CasHandler(r) PROVE Goal
  BY <1>2, <1>3, <1>5, <1>13 DEF CasHandler
<1>14. Goal
  BY <1>8, <1>9, <1>10, <1>11, <1>12, <1>13
<1> QED BY <1>14 DEF Goal

\* A request that is handled: its name leaves the queue for where Effect puts it.
LEMMA HandleKeeps ==
  ASSUME IInv, UNCHANGED clients, NEW c \in Clients, Handle(c)
  PROVE  IInv'
<1> DEFINE r == Head(requests[c])
<1> USE DEF IInv
<1>1. /\ requests[c] # <<>> /\ requests' = [requests EXCEPT ![c] = Tail(@)]
      /\ UNCHANGED <<late, link>>
      /\ \/ SetHandler(r) \/ GetHandler(r) \/ AddHandler(r)
         \/ RemoveHandler(r) \/ AppendHandler(r) \/ CasHandler(r)
  BY DEF Handle
<1>2. requests[c] \in Seq(RequestsOf(c)) /\ DOMAIN requests = Clients
  BY DEF Types, ServerTypes
<1>3. /\ Len(requests[c]) \in Nat \ {0} /\ r = requests[c][1] /\ r \in RequestsOf(c)
      /\ requests'[c] \in Seq(RequestsOf(c)) /\ Len(requests'[c]) = Len(requests[c]) - 1
      /\ \A i \in 1..Len(requests'[c]) :
           requests'[c][i] = requests[c][i + 1] /\ i + 1 \in 1..Len(requests[c])
  BY <1>1, <1>2, FirstAndRest
<1> HIDE DEF r
<1>4. 1 \in 1..Len(requests[c]) /\ r.client = c /\ r.seq \in Nat /\ Id(r) = <<c, r.seq>>
  BY <1>3 DEF RequestsOf, Id
<1>5. \A w \in waitCtx : Id(w) # Id(r)
  BY <1>3, <1>4 DEF OnePlace, Parked
<1>6. \A a \in replies : Id(a) # Id(r)
  BY <1>3, <1>4 DEF OnePlace
<1>7. /\ Effect(r) /\ Indexed'
      /\ DOMAIN kvStore' = Keys /\ DOMAIN keyWaiters' = Keys /\ DOMAIN timedWaiters' = Times
  BY <1>1, <1>3, <1>5, HandleSays DEF Indexed
<1>8. DOMAIN requests' = Clients /\ \A d \in Clients : d # c => requests'[d] = requests[d]
  BY <1>1, <1>2
\* A request still on its way is one of those before, and not the one handled.
<1>9. \A d \in Clients : \A i \in 1..Len(requests'[d]) : \E j \in 1..Len(requests[d]) :
        requests'[d][i] = requests[d][j] /\ <<d, requests[d][j].seq>> # Id(r)
  <2> SUFFICES ASSUME NEW d \in Clients, NEW i \in 1..Len(requests'[d])
               PROVE  \E j \in 1..Len(requests[d]) :
                        requests'[d][i] = requests[d][j] /\ <<d, requests[d][j].seq>> # Id(r)
    OBVIOUS
  <2>1. CASE d = c
    <3>1. requests'[c][i] = requests[c][i + 1] /\ i + 1 \in 1..Len(requests[c]) /\ i + 1 # 1
      BY <1>3, <2>1
    <3>2. requests[c][i + 1].seq # r.seq
      BY <1>3, <1>4, <3>1 DEF NamesDiffer
    <3> QED BY <1>4, <2>1, <3>1, <3>2
  <2>2. CASE d # c
    BY <1>4, <1>8, <2>2
  <2> QED BY <2>1, <2>2
<1>10. \A w \in waitCtx' : w \in waitCtx \/ (Id(w) = Id(r) /\ w \in Waiter /\ replies' = replies)
  BY <1>7 DEF Effect
<1>11. \A a \in replies' : \/ a \in replies
                           \/ Id(a) = Id(r) /\ waitCtx' \subseteq waitCtx
                           \/ /\ waitCtx' \subseteq waitCtx
                              /\ \E w \in waitCtx : w \notin waitCtx' /\ Id(w) = Id(a)
  BY <1>7 DEF Effect
\* A waiter after the step is one of those before or the request itself, and
\* no waiter is lost but to a reply.
<1>12. \A w \in Parked' : w \in Parked \/ (Id(w) = Id(r) /\ w \in Waiter /\ replies' = replies)
  BY <1>1, <1>10 DEF Parked
<1>13. \A w \in Parked : Id(w) # Id(r)
  BY <1>3, <1>4 DEF OnePlace
<1>14. Types'
  <2>1. waitCtx' \subseteq Waiter /\ late' \subseteq Waiter
    BY <1>1, <1>10 DEF Types, ServerTypes
  <2>2. \A a \in replies' : a.client \in Clients
    BY <1>7 DEF Effect, Types, ServerTypes
  <2>3. \A d \in Clients : requests'[d] \in Seq(RequestsOf(d))
    BY <1>3, <1>8 DEF Types, ServerTypes
  <2>4. ServerTypes'
    BY <1>1, <1>7, <1>8, <2>1, <2>2, <2>3 DEF Types, ServerTypes
  <2> QED BY <2>4 DEF Types, ClientTypes, clients
<1>15. NamesDiffer'
  <2>1. ASSUME NEW d \in Clients, NEW i \in 1..Len(requests'[d]), NEW j \in 1..Len(requests'[d]),
               requests'[d][i].seq = requests'[d][j].seq
        PROVE  i = j
    <3>1. CASE d = c
      <4>1. /\ requests'[c][i] = requests[c][i + 1] /\ i + 1 \in 1..Len(requests[c])
            /\ requests'[c][j] = requests[c][j + 1] /\ j + 1 \in 1..Len(requests[c])
        BY <1>3, <3>1
      <4>2. i + 1 = j + 1
        BY <2>1, <3>1, <4>1 DEF NamesDiffer
      <4> QED BY <1>3, <3>1, <4>2
    <3>2. CASE d # c
      BY <1>8, <2>1, <3>2 DEF NamesDiffer
    <3> QED BY <3>1, <3>2
  <2>2. \A v, w \in Parked' : Id(v) = Id(w) => v = w
    <3>1. \/ Parked' \subseteq Parked
          \/ \E u \in Waiter : Id(u) = Id(r) /\ Parked' = Parked \cup {u}
      BY <1>1, <1>7 DEF Effect, Parked
    <3> QED BY <1>13, <3>1 DEF NamesDiffer
  <2>3. \A a, b \in replies' : Id(a) = Id(b) => a = b
    <3>1. \A a \in replies' \ replies, b \in replies : Id(a) # Id(b)
      BY <1>6, <1>7 DEF Effect, OnePlace, Parked
    <3> QED BY <1>7, <3>1 DEF Effect, NamesDiffer
  <2> QED BY <2>1, <2>2, <2>3 DEF NamesDiffer, Id
<1>16. OnePlace'
  <2>1. ASSUME NEW d \in Clients, NEW i \in 1..Len(requests'[d])
        PROVE  /\ \A w \in Parked' : Id(w) # <<d, requests'[d][i].seq>>
               /\ \A a \in replies' : Id(a) # <<d, requests'[d][i].seq>>
    <3>1. PICK j \in 1..Len(requests[d]) :
            requests'[d][i] = requests[d][j] /\ <<d, requests[d][j].seq>> # Id(r)
      BY <1>9
    <3>2. /\ \A w \in Parked : Id(w) # <<d, requests[d][j].seq>>
          /\ \A a \in replies : Id(a) # <<d, requests[d][j].seq>>
      BY DEF OnePlace
    <3> QED BY <1>12, <1>11, <3>1, <3>2 DEF Parked
  <2>2. ASSUME NEW w \in Parked', NEW a \in replies' PROVE Id(w) # Id(a)
    <3>1. CASE a \in replies
      BY <1>6, <1>12, <3>1 DEF OnePlace
    <3>2. CASE Id(a) = Id(r) /\ waitCtx' \subseteq waitCtx
      BY <1>1, <1>13, <3>2 DEF Parked
    <3>3. CASE /\ waitCtx' \subseteq waitCtx
               /\ \E v \in waitCtx : v \notin waitCtx' /\ Id(v) = Id(a)
      <4>1. PICK v \in waitCtx : v \notin waitCtx' /\ Id(v) = Id(a)
        BY <3>3
      <4>2. v \notin Parked' /\ Parked' \subseteq Parked
        BY <1>1, <3>3, <4>1 DEF OnePlace, Parked
      <4> QED BY <4>1, <4>2 DEF NamesDiffer, Parked
    <3> QED BY <1>11, <3>1, <3>2, <3>3
  <2>3. waitCtx' \cap late' = {}
    BY <1>1, <1>13, <1>10 DEF OnePlace, Parked
  <2> QED BY <2>1, <2>2, <2>3 DEF OnePlace, Id, Parked
<1>17. call' = call /\ seqNo' = seqNo /\ contexts' = contexts /\ watching' = watching
  BY DEF clients
<1>18. NamesAreKnown'
  <2>1. Known(c, r.seq)
    BY <1>3, <1>4 DEF NamesAreKnown
  <2>2. \A d \in Clients : \A i \in 1..Len(requests'[d]) : Known(d, requests'[d][i].seq)
    BY <1>9 DEF NamesAreKnown
  <2>3. \A w \in Parked' : Known(w.client, w.seq)
    BY <1>4, <1>12, <2>1 DEF NamesAreKnown, Id
  <2>4. \A a \in replies' : Known(a.client, a.seq)
    BY <1>4, <1>11, <2>1 DEF NamesAreKnown, Id, Parked
  <2> QED BY <1>1, <1>17, <2>2, <2>3, <2>4 DEF NamesAreKnown, Known, Sent, Awaited
<1>19. CallIsLatest'
  BY <1>1, <1>17 DEF CallIsLatest
<1>20. AnswersAreAwaited'
  <2>1. link[c] = "up" /\ r.mt # "GET" => Awaited(c, r.seq)
    BY <1>3, <1>4 DEF AnswersAreAwaited
  <2>2. \A d \in Clients : link[d] = "up" => \A i \in 1..Len(requests'[d]) :
          requests'[d][i].mt # "GET" => Awaited(d, requests'[d][i].seq)
    BY <1>9 DEF AnswersAreAwaited
  <2>3. \A a \in replies' : link[a.client] = "up" /\ (a.mt # "GET" => Awaited(a.client, a.seq))
    BY <1>4, <1>7, <2>1 DEF AnswersAreAwaited, Effect, Id
  <2> QED BY <1>1, <1>17, <2>2, <2>3 DEF AnswersAreAwaited, Awaited
<1> QED BY <1>7, <1>14, <1>15, <1>16, <1>18, <1>19, <1>20 DEF Indexed

-----------------------------------------------------------------------------
\* A waiter a millisecond later is the same but for its deadline.
Aged(w) == [w EXCEPT !.deadline = Sooner(@)]

\* So it keeps its name, and its deadline is one of the times or never.
LEMMA AgedIsTheSame ==
  ASSUME NEW w \in Waiter
  PROVE  /\ Aged(w) \in Waiter /\ Id(Aged(w)) = Id(w) /\ Aged(w).key = w.key
         /\ Aged(w).client = w.client /\ Aged(w).seq = w.seq
         /\ Aged(w).deadline = Sooner(w.deadline)
         /\ Sooner(w.deadline) # Never => w.deadline \in Times /\ Sooner(w.deadline) \in Times
BY StoreAssumption DEF Aged, Waiter, Id, Sooner, Times

\* A pass of the timer thread takes the waiters that are due out of the table, or
\* none.
LEMMA TimerSays ==
  ASSUME Types, TimerLooks
  PROVE  \E due :
    /\ due = AgedDeadlines[0] \/ due = {}
    /\ \A v : v \in waitCtx' <=> \E w \in waitCtx : v = Aged(w) /\ Id(w) \notin due
    /\ \A v : v \in late' <=> \E w \in waitCtx : v = Aged(w) /\ Id(w) \in due
    /\ timedWaiters' = [d \in Times |-> IF d = 0 THEN AgedDeadlines[0] \ due ELSE AgedDeadlines[d]]
<1> USE StoreAssumption DEF Types, ServerTypes
<1>1. AgedWaiters = {Aged(w) : w \in waitCtx} /\ \A w \in waitCtx : Id(Aged(w)) = Id(w)
  BY AgedIsTheSame DEF AgedWaiters, Aged
<1>2. DOMAIN AgedDeadlines = Times /\ 0 \in Times
  BY DEF AgedDeadlines, Times
<1>3. AgedDeadlines = [d \in Times |-> AgedDeadlines[d]]
  BY DEF AgedDeadlines
<1>4. late = {}
  BY DEF TimerLooks
<1>5. CASE TimeOut
  <2> DEFINE due == AgedDeadlines[0]
  <2>1. /\ \A v : v \in waitCtx' <=> \E w \in waitCtx : v = Aged(w) /\ Id(w) \notin due
        /\ \A v : v \in late' <=> \E w \in waitCtx : v = Aged(w) /\ Id(w) \in due
    BY <1>1, <1>5 DEF TimeOut
  <2>2. timedWaiters' = [d \in Times |-> IF d = 0 THEN due \ due ELSE AgedDeadlines[d]]
    BY <1>2, <1>3, <1>5 DEF TimeOut
  <2> HIDE DEF due
  <2> QED BY <2>1, <2>2 DEF due
<1>6. CASE TimeOutHidden
  <2>1. /\ \A v : v \in waitCtx' <=> \E w \in waitCtx : v = Aged(w) /\ Id(w) \notin {}
        /\ \A v : v \in late' <=> \E w \in waitCtx : v = Aged(w) /\ Id(w) \in {}
    BY <1>1, <1>4, <1>6 DEF TimeOutHidden
  <2>2. timedWaiters' = [d \in Times |-> IF d = 0 THEN AgedDeadlines[0] \ {} ELSE AgedDeadlines[d]]
    BY <1>2, <1>3, <1>6 DEF TimeOutHidden
  <2> QED BY <2>1, <2>2
<1> QED BY <1>5, <1>6 DEF TimerLooks

\* The timer looks: a waiter that is due leaves waitCtx_, and no other does.
LEMMA TimerLooksKeeps ==
  ASSUME IInv, UNCHANGED clients, TimerThread, TimerLooks
  PROVE  IInv'
<1> USE DEF IInv
<1>1. PICK due :
        /\ due = AgedDeadlines[0] \/ due = {}
        /\ \A v : v \in waitCtx' <=> \E w \in waitCtx : v = Aged(w) /\ Id(w) \notin due
        /\ \A v : v \in late' <=> \E w \in waitCtx : v = Aged(w) /\ Id(w) \in due
        /\ timedWaiters' = [d \in Times |-> IF d = 0 THEN AgedDeadlines[0] \ due ELSE AgedDeadlines[d]]
  BY TimerSays
<1>2. UNCHANGED <<kvStore, keyWaiters, requests, replies, link, contexts, watching, call, seqNo>>
  BY DEF TimerThread, TimerLooks, clients
<1>3. \A w \in waitCtx : w \in Waiter /\ w \in Parked
  BY DEF Types, ServerTypes, Parked
<1>4. \A d \in Times : \A i : i \in AgedDeadlines[d] <=>
        \E e \in Times : Sooner(e) = d /\ i \in timedWaiters[e]
  BY DEF AgedDeadlines, Types, ServerTypes
<1>5. \A v \in Parked' : \E w \in waitCtx :
        /\ v = Aged(w) /\ v \in Waiter /\ Id(v) = Id(w) /\ v.client = w.client /\ v.seq = w.seq
        /\ v.key = w.key
  BY <1>1, <1>3, AgedIsTheSame DEF Parked
<1>6. /\ \A v \in waitCtx' : Id(v) \notin due
      /\ \A v \in late' : Id(v) \in due
  BY <1>1, <1>3, AgedIsTheSame
<1>7. \A i, d : d \in Times /\ i \in timedWaiters'[d] =>
        \E w \in waitCtx : Id(w) = i /\ Sooner(w.deadline) = d /\ i \notin due
  <2> SUFFICES ASSUME NEW d \in Times, NEW i \in timedWaiters'[d]
               PROVE  \E w \in waitCtx : Id(w) = i /\ Sooner(w.deadline) = d /\ i \notin due
    OBVIOUS
  <2>1. i \in AgedDeadlines[d] /\ (d = 0 => i \notin due)
    BY <1>1
  <2>2. PICK e \in Times : Sooner(e) = d /\ i \in timedWaiters[e]
    BY <1>4, <2>1
  <2>3. PICK w \in waitCtx : Id(w) = i /\ w.deadline = e
    BY <2>2 DEF WaitersIndexed, Deadlines, Types, ServerTypes
  <2>4. i \notin due
    <3> SUFFICES ASSUME i \in due PROVE FALSE
      OBVIOUS
    <3>1. 0 \in Times /\ i \in AgedDeadlines[0]
      BY <1>1, StoreAssumption DEF Times
    <3>2. PICK f \in Times : Sooner(f) = 0 /\ i \in timedWaiters[f]
      BY <1>4, <3>1
    <3>3. PICK v \in waitCtx : Id(v) = i /\ v.deadline = f
      BY <3>2 DEF WaitersIndexed, Deadlines, Types, ServerTypes
    <3>4. d = 0
      BY <2>2, <2>3, <3>2, <3>3 DEF NamesDiffer, Parked
    <3> QED BY <2>1, <3>4
  <2> QED BY <2>2, <2>3, <2>4
<1>8. WaitersIndexed'
  <2>1. ASSUME NEW v \in waitCtx'
        PROVE  /\ Id(v) \in keyWaiters'[v.key]
               /\ v.deadline # Never => Id(v) \in timedWaiters'[v.deadline]
    <3>1. PICK w \in waitCtx : v = Aged(w) /\ Id(w) \notin due
      BY <1>1
    <3>2. /\ Id(v) = Id(w) /\ v.key = w.key /\ v.deadline = Sooner(w.deadline)
          /\ v.deadline # Never => w.deadline \in Times /\ v.deadline \in Times
      BY <1>3, <3>1, AgedIsTheSame
    <3>3. ASSUME v.deadline # Never PROVE Id(v) \in timedWaiters'[v.deadline]
      <4>1. w.deadline # Never
        BY <3>2, <3>3, StoreAssumption DEF Times
      <4>2. Id(w) \in AgedDeadlines[v.deadline]
        BY <1>4, <3>2, <3>3, <4>1 DEF WaitersIndexed
      <4> QED BY <1>1, <3>1, <3>2, <3>3, <4>2
    <3> QED BY <1>2, <3>2, <3>3 DEF WaitersIndexed
  <2>2. ASSUME NEW d \in Times, NEW i \in timedWaiters'[d]
        PROVE  \E v \in waitCtx' : Id(v) = i /\ v.deadline = d
    <3>1. PICK w \in waitCtx : Id(w) = i /\ Sooner(w.deadline) = d /\ i \notin due
      BY <1>7, <2>2
    <3>2. Aged(w) \in waitCtx' /\ Id(Aged(w)) = i /\ Aged(w).deadline = d
      BY <1>1, <1>3, <3>1, AgedIsTheSame
    <3> QED BY <3>2
  <2>3. DOMAIN timedWaiters' = Times
    BY <1>1
  <2> QED BY <2>1, <2>2, <2>3 DEF WaitersIndexed, Deadlines, Id
<1>9. NoWaiterLeftBehind'
  BY <1>2, <1>5 DEF NoWaiterLeftBehind, Exists, Parked
<1>10. Types'
  <2>1. waitCtx' \subseteq Waiter /\ late' \subseteq Waiter /\ DOMAIN timedWaiters' = Times
    BY <1>1, <1>5 DEF Parked
  <2> QED BY <1>2, <2>1 DEF Types, ServerTypes, ClientTypes
<1>11. NamesDiffer'
  <2>1. \A v, w \in Parked' : Id(v) = Id(w) => v = w
    BY <1>3, <1>5 DEF NamesDiffer
  <2>2. \A a, b \in replies : Id(a) = Id(b) => a = b
    BY DEF NamesDiffer
  <2> QED BY <1>2, <2>1, <2>2 DEF NamesDiffer, Id
<1>12. OnePlace'
  <2>1. \A d \in Clients : \A i \in 1..Len(requests[d]) :
          /\ \A w \in Parked' : Id(w) # <<d, requests[d][i].seq>>
          /\ \A a \in replies : Id(a) # <<d, requests[d][i].seq>>
    BY <1>3, <1>5 DEF OnePlace
  <2>2. \A v \in Parked', a \in replies : Id(v) # Id(a)
    BY <1>3, <1>5 DEF OnePlace
  <2>3. waitCtx' \cap late' = {}
    BY <1>6
  <2> QED BY <1>2, <2>1, <2>2, <2>3 DEF OnePlace, Id
<1>13. NamesAreKnown'
  <2>1. \A w \in Parked' : Known(w.client, w.seq)
    BY <1>3, <1>5 DEF NamesAreKnown
  <2> QED BY <1>2, <2>1 DEF NamesAreKnown, Known, Sent, Awaited
<1>14. CallIsLatest' /\ AnswersAreAwaited'
  BY <1>2 DEF CallIsLatest, AnswersAreAwaited, Awaited
<1> QED BY <1>8, <1>9, <1>10, <1>11, <1>12, <1>13, <1>14

\* The timer answers: what it has taken out goes into replies if its link is up.
LEMMA TimerAnswersKeeps ==
  ASSUME IInv, UNCHANGED clients, TimerThread, TimerAnswers
  PROVE  IInv'
<1> USE DEF IInv
<1>1. PICK w \in late : late' = late \ {w} /\ Reply({Answer(w, "TIMEOUT", <<>>)})
  BY DEF TimerAnswers
<1>2. UNCHANGED <<kvStore, waitCtx, keyWaiters, timedWaiters, requests, link,
                  contexts, watching, call, seqNo>>
  BY DEF TimerThread, TimerAnswers, clients
<1>3. w \in Parked /\ w \in Waiter /\ w.client \in Clients
  BY DEF Types, ServerTypes, Parked, Waiter
<1>4. Parked' \subseteq Parked /\ w \notin Parked'
  BY <1>1, <1>2 DEF Parked, OnePlace
<1>5. \A a \in replies' : \/ a \in replies
                          \/ /\ a = Answer(w, "TIMEOUT", <<>>) /\ Id(a) = Id(w)
                             /\ a.client = w.client /\ a.seq = w.seq /\ a.mt = "GET"
                             /\ link[a.client] = "up"
  <2>1. Answer(w, "TIMEOUT", <<>>).seq = w.seq /\ w.mt = "GET"
    BY <1>3 DEF Answer, Waiter
  <2> QED BY <1>1, <2>1, AnswerHasName DEF Reply
<1>6. Types'
  <2>1. late' \subseteq Waiter /\ \A a \in replies' : a.client \in Clients
    BY <1>1, <1>3, <1>5 DEF Types, ServerTypes
  <2> QED BY <1>2, <2>1 DEF Types, ServerTypes, ClientTypes
<1>7. NamesDiffer'
  <2>1. \A u, v \in Parked' : Id(u) = Id(v) => u = v
    BY <1>4 DEF NamesDiffer
  <2>2. \A a, b \in replies' : Id(a) = Id(b) => a = b
    BY <1>3, <1>5 DEF NamesDiffer, OnePlace
  <2> QED BY <1>2, <2>1, <2>2 DEF NamesDiffer, Id
<1>8. OnePlace'
  <2>1. \A d \in Clients : \A i \in 1..Len(requests[d]) :
          /\ \A v \in Parked' : Id(v) # <<d, requests[d][i].seq>>
          /\ \A a \in replies' : Id(a) # <<d, requests[d][i].seq>>
    BY <1>3, <1>4, <1>5 DEF OnePlace
  <2>2. \A v \in Parked', a \in replies' : Id(v) # Id(a)
    BY <1>3, <1>4, <1>5 DEF OnePlace, NamesDiffer
  <2>3. waitCtx' \cap late' = {}
    BY <1>1, <1>2 DEF OnePlace
  <2> QED BY <1>2, <2>1, <2>2, <2>3 DEF OnePlace, Id
<1>9. NamesAreKnown'
  <2>1. \A v \in Parked' : Known(v.client, v.seq)
    BY <1>4 DEF NamesAreKnown
  <2>2. \A a \in replies' : Known(a.client, a.seq)
    BY <1>3, <1>5 DEF NamesAreKnown
  <2> QED BY <1>2, <2>1, <2>2 DEF NamesAreKnown, Known, Sent, Awaited
<1>10. CallIsLatest'
  BY <1>2 DEF CallIsLatest
<1>11. AnswersAreAwaited'
  <2>1. \A a \in replies' : link[a.client] = "up" /\ (a.mt # "GET" => Awaited(a.client, a.seq))
    BY <1>5 DEF AnswersAreAwaited
  <2> QED BY <1>2, <2>1 DEF AnswersAreAwaited, Awaited
<1>12. WaitersIndexed' /\ NoWaiterLeftBehind'
  BY <1>2 DEF WaitersIndexed, NoWaiterLeftBehind, Deadlines, Id, Exists
<1> QED BY <1>6, <1>7, <1>8, <1>9, <1>10, <1>11, <1>12

\* So the timer thread keeps the invariant.
LEMMA TimerKeeps ==
  ASSUME IInv, UNCHANGED clients, TimerThread
  PROVE  IInv'
BY TimerLooksKeeps, TimerAnswersKeeps DEF TimerThread

-----------------------------------------------------------------------------
\* A step of a rank that sends nothing leaves the names where they are, but for
\* those it takes out.
LEMMA NothingSent ==
  ASSUME IInv, UNCHANGED <<kvStore, waiters>>, replies' \subseteq replies,
         DOMAIN requests' = Clients,
         \A d \in Clients : requests'[d] = requests[d] \/ requests'[d] = <<>>,
         link' \in [Clients -> {"up", "broken", "closed"}], ClientTypes',
         \A d \in Clients, s \in Nat : Known(d, s) => Known(d, s)',
         CallIsLatest', AnswersAreAwaited'
  PROVE  IInv'
<1> USE DEF IInv
<1>1. UNCHANGED <<kvStore, waitCtx, keyWaiters, timedWaiters, late, Parked>>
  BY DEF waiters, Parked
<1>2. \A d \in Clients : /\ requests'[d] \in Seq(RequestsOf(d))
                         /\ \A i \in 1..Len(requests'[d]) :
                              i \in 1..Len(requests[d]) /\ requests'[d][i] = requests[d][i]
  <2> SUFFICES ASSUME NEW d \in Clients
               PROVE  /\ requests'[d] \in Seq(RequestsOf(d))
                      /\ \A i \in 1..Len(requests'[d]) :
                           i \in 1..Len(requests[d]) /\ requests'[d][i] = requests[d][i]
    OBVIOUS
  <2>1. requests[d] \in Seq(RequestsOf(d))
    BY DEF Types, ServerTypes
  <2>2. CASE requests'[d] = <<>>
    BY <2>2
  <2>3. CASE requests'[d] = requests[d]
    BY <2>1, <2>3
  <2> QED BY <2>2, <2>3
<1>3. Types'
  BY <1>1, <1>2 DEF Types, ServerTypes
<1>4. NamesDiffer'
  <2>1. \A d \in Clients : \A i, j \in 1..Len(requests'[d]) :
          requests'[d][i].seq = requests'[d][j].seq => i = j
    BY <1>2 DEF NamesDiffer
  <2>2. /\ \A v, w \in Parked : Id(v) = Id(w) => v = w
        /\ \A a, b \in replies' : Id(a) = Id(b) => a = b
    BY DEF NamesDiffer
  <2> QED BY <1>1, <2>1, <2>2 DEF NamesDiffer, Id
<1>5. OnePlace'
  <2>1. \A d \in Clients : \A i \in 1..Len(requests'[d]) :
          /\ \A w \in Parked : Id(w) # <<d, requests'[d][i].seq>>
          /\ \A a \in replies' : Id(a) # <<d, requests'[d][i].seq>>
    BY <1>2 DEF OnePlace
  <2>2. (\A w \in Parked, a \in replies' : Id(w) # Id(a)) /\ waitCtx \cap late = {}
    BY DEF OnePlace
  <2> QED BY <1>1, <2>1, <2>2 DEF OnePlace, Id
<1>6. NamesAreKnown'
  <2>1. \A d \in Clients : \A s : Known(d, s) => s \in Nat
    BY DEF Known, Sent, Types, ClientTypes
  <2>2. \A d \in Clients : \A s : Known(d, s) => Known(d, s)'
    BY <2>1
  <2> DEFINE KnownNow(d, s) == /\ s \in 0..seqNo'[d] /\ (s = seqNo'[d] => call'[d].pc # "registered")
                               /\ link'[d] = "up" /\ s \in contexts'[d] \ watching'[d] =>
                                    call'[d].pc = "waiting" /\ call'[d].seq = s
  <2>3. \A d \in Clients : \A s : Known(d, s) => KnownNow(d, s)
    BY <2>2 DEF Known, Sent, Awaited
  <2> HIDE DEF KnownNow
  <2>4. \A d \in Clients : \A i \in 1..Len(requests'[d]) : KnownNow(d, requests'[d][i].seq)
    BY <1>2, <2>3 DEF NamesAreKnown
  <2>5. \A w \in Parked' : KnownNow(w.client, w.seq)
    BY <1>1, <2>3 DEF NamesAreKnown, Types, ServerTypes, Waiter, Parked
  <2>6. \A a \in replies' : KnownNow(a.client, a.seq)
    BY <2>3 DEF NamesAreKnown, Types, ServerTypes
  <2> QED BY <2>4, <2>5, <2>6 DEF NamesAreKnown, Known, Sent, Awaited, KnownNow
<1>7. WaitersIndexed' /\ NoWaiterLeftBehind'
  BY <1>1 DEF WaitersIndexed, NoWaiterLeftBehind, Deadlines, Id, Exists
<1> QED BY <1>3, <1>4, <1>5, <1>6, <1>7

\* A call takes the next number: no name in use is as high.
LEMMA CallKeeps ==
  ASSUME IInv, NEW c \in Clients, NEW op \in Operations[c], Call(c, op)
  PROVE  IInv'
<1> USE DEF IInv
<1> DEFINE s == seqNo[c] + 1
<1>1. /\ call[c].pc = "idle"
      /\ seqNo' = [seqNo EXCEPT ![c] = s]
      /\ contexts' = [contexts EXCEPT ![c] = @ \cup {s}]
      /\ watching' = [watching EXCEPT ![c] = IF op.watch THEN @ \cup {s} ELSE @]
      /\ call' = [call EXCEPT ![c] = [pc |-> "registered", seq |-> s, op |-> op]]
      /\ UNCHANGED <<kvStore, waiters, requests, replies, link>>
  BY DEF Call, Idle, server, waiters, Types, ClientTypes
<1>2. seqNo[c] \in Nat /\ s \in Nat
  BY DEF Types, ClientTypes
<1>3. ClientTypes'
  <2>1. [pc |-> "registered", seq |-> s, op |-> op] \in CallsOf(c)
    BY <1>2 DEF CallsOf
  <2> QED BY <1>1, <1>2, <2>1 DEF Types, ClientTypes
<1>4. \A d \in Clients, n \in Nat : Known(d, n) => Known(d, n)'
  <2>1. \A d \in Clients : d # c => /\ call'[d] = call[d] /\ seqNo'[d] = seqNo[d]
                                    /\ contexts'[d] = contexts[d] /\ watching'[d] = watching[d]
    BY <1>1 DEF Types, ClientTypes
  <2>2. /\ call'[c].pc = "registered" /\ seqNo'[c] = s
        /\ \A n \in Nat : n # s /\ n \in contexts'[c] \ watching'[c] => n \in contexts[c] \ watching[c]
    BY <1>1 DEF Types, ClientTypes
  <2>3. \A d \in Clients, n \in Nat : d # c /\ Known(d, n) => Known(d, n)'
    BY <1>1, <2>1 DEF Known, Sent, Awaited
  <2>4. \A n \in Nat : Known(c, n) => Known(c, n)'
    BY <1>1, <1>2, <2>2 DEF Known, Sent, Awaited
  <2> QED BY <2>3, <2>4
<1>5. CallIsLatest'
  <2>1. s \notin contexts[c] /\ s \notin watching[c]
    BY <1>2 DEF CallIsLatest
  <2>2. ASSUME NEW d \in Clients, d # c
        PROVE  /\ call'[d] = call[d] /\ seqNo'[d] = seqNo[d] /\ contexts'[d] = contexts[d]
               /\ watching'[d] = watching[d] /\ link'[d] = link[d]
    BY <1>1, <2>2 DEF Types, ClientTypes
  <2>3. /\ call'[c] = [pc |-> "registered", seq |-> s, op |-> op] /\ seqNo'[c] = s
        /\ contexts'[c] = contexts[c] \cup {s}
        /\ watching'[c] = (IF op.watch THEN watching[c] \cup {s} ELSE watching[c])
        /\ link' = link
    BY <1>1 DEF Types, ClientTypes
  <2>4. op.watch \in BOOLEAN
    BY OperationsAssumption DEF OperationsAssumption
  <2>5. \A n \in contexts[c] \cup watching[c] : n \in Nat /\ n <= seqNo[c]
    BY DEF CallIsLatest, Types, ClientTypes
  <2>6. \A n \in contexts'[c] \cup watching'[c] : n <= seqNo'[c]
    BY <1>2, <2>3, <2>5
  <2>7. s \in contexts'[c] /\ (s \in watching'[c] <=> op.watch)
    BY <2>1, <2>3, <2>4
  <2> QED BY <2>2, <2>3, <2>6, <2>7 DEF CallIsLatest
<1>6. AnswersAreAwaited'
  BY <1>1 DEF AnswersAreAwaited, Awaited, Types, ServerTypes, ClientTypes
<1> QED BY <1>1, <1>3, <1>4, <1>5, <1>6, NothingSent DEF Types, ServerTypes

\* A call that cannot be sent, and a watch that is given up.
LEMMA GiveUpKeeps ==
  ASSUME IInv, NEW c \in Clients, SendFails(c) \/ Unwatch(c)
  PROVE  IInv'
<1> USE DEF IInv
<1>1. CASE SendFails(c)
  <2>1. /\ call[c].pc = "registered" /\ call' = [call EXCEPT ![c] = Idle]
        /\ UNCHANGED <<kvStore, waiters, requests, replies, link, contexts, watching, seqNo>>
    BY <1>1 DEF SendFails, Return, server, waiters
  <2>2. ClientTypes'
    BY <2>1 DEF Types, ClientTypes, CallsOf
  <2>3. \A d \in Clients, n \in Nat : Known(d, n) => Known(d, n)'
    BY <2>1 DEF Known, Sent, Awaited, Types, ClientTypes, Idle
  <2>4. CallIsLatest'
    BY <2>1 DEF CallIsLatest, Types, ClientTypes, Idle
  <2>5. AnswersAreAwaited'
    BY <2>1 DEF AnswersAreAwaited, Awaited, Types, ServerTypes, ClientTypes
  <2> QED BY <2>1, <2>2, <2>3, <2>4, <2>5, NothingSent DEF Types, ServerTypes
<1>2. CASE Unwatch(c)
  <2>1. PICK s \in watching[c] :
          /\ contexts' = [contexts EXCEPT ![c] = @ \ {s}]
          /\ watching' = [watching EXCEPT ![c] = @ \ {s}]
    BY <1>2 DEF Unwatch
  <2>2. /\ call[c].pc = "idle"
        /\ UNCHANGED <<kvStore, waiters, requests, replies, link, call, seqNo>>
    BY <1>2 DEF Unwatch, Idle, server, waiters
  <2>3. ClientTypes'
    BY <2>1, <2>2 DEF Types, ClientTypes
  <2>4. CallIsLatest'
    BY <2>1, <2>2 DEF CallIsLatest, Types, ClientTypes
  <2>5. \A d \in Clients, n \in Nat : Known(d, n) => Known(d, n)'
    <3>1. \A d \in Clients : contexts'[d] \ watching'[d] \subseteq contexts[d] \ watching[d]
      BY <2>1 DEF Types, ClientTypes
    <3> QED BY <2>2, <3>1 DEF Known, Sent, Awaited
  <2>6. AnswersAreAwaited'
    BY <2>2 DEF AnswersAreAwaited, Awaited
  <2> QED BY <2>2, <2>3, <2>4, <2>5, <2>6, NothingSent DEF Types, ServerTypes
<1> QED BY <1>1, <1>2

\* A link that breaks and what it takes with it; the calls that wait return.
LEMMA LinkKeeps ==
  ASSUME IInv, NEW c \in Clients, Break(c) \/ Lose(c) \/ LinkBrokenHandler(c)
  PROVE  IInv'
<1> USE DEF IInv
<1>1. CASE Break(c)
  <2>1. /\ link[c] = "up" /\ link' = [link EXCEPT ![c] = "broken"]
        /\ replies' = {a \in replies : a.client # c}
        /\ UNCHANGED <<kvStore, waiters, requests, contexts, watching, call, seqNo>>
    BY <1>1 DEF Break, clients, waiters
  <2>2. link' \in [Clients -> {"up", "broken", "closed"}] /\ ClientTypes'
    BY <2>1 DEF Types, ServerTypes, ClientTypes
  <2>3. CallIsLatest'
    BY <2>1 DEF CallIsLatest, Types, ServerTypes
  <2>4. /\ \A d \in Clients : link'[d] = "up" => link[d] = "up"
        /\ \A a \in replies' : a \in replies /\ a.client \in Clients /\ link'[a.client] = link[a.client]
    BY <2>1 DEF Types, ServerTypes
  <2>5. AnswersAreAwaited'
    <3>1. \A d \in Clients : link'[d] = "up" => \A i \in 1..Len(requests[d]) :
            requests[d][i].mt # "GET" => Awaited(d, requests[d][i].seq)
      BY <2>4 DEF AnswersAreAwaited
    <3>2. \A a \in replies' : link'[a.client] = "up" /\ (a.mt # "GET" => Awaited(a.client, a.seq))
      BY <2>4 DEF AnswersAreAwaited
    <3> QED BY <2>1, <3>1, <3>2 DEF AnswersAreAwaited, Awaited
  <2>6. \A d \in Clients, n \in Nat : Known(d, n) => Known(d, n)'
    BY <2>1, <2>4 DEF Known, Sent, Awaited
  <2> QED BY <2>1, <2>2, <2>3, <2>5, <2>6, NothingSent DEF Types, ServerTypes
<1>2. CASE Lose(c)
  <2>1. /\ link[c] # "up" /\ requests' = [requests EXCEPT ![c] = <<>>]
        /\ UNCHANGED <<kvStore, waiters, replies, link, contexts, watching, call, seqNo>>
    BY <1>2 DEF Lose, clients, waiters
  <2>2. /\ DOMAIN requests' = Clients
        /\ \A d \in Clients : requests'[d] = requests[d] \/ (d = c /\ requests'[d] = <<>>)
    BY <2>1 DEF Types, ServerTypes
  <2>3. CallIsLatest' /\ ClientTypes'
    BY <2>1 DEF CallIsLatest, Types, ClientTypes
  <2>4. AnswersAreAwaited'
    BY <2>1, <2>2 DEF AnswersAreAwaited, Awaited
  <2>5. \A d \in Clients, n \in Nat : Known(d, n) => Known(d, n)'
    BY <2>1 DEF Known, Sent, Awaited
  <2> QED BY <2>1, <2>2, <2>3, <2>4, <2>5, NothingSent DEF Types, ServerTypes
<1>3. CASE LinkBrokenHandler(c)
  <2>1. /\ link[c] = "broken" /\ link' = [link EXCEPT ![c] = "closed"]
        /\ contexts' = [contexts EXCEPT ![c] = {}]
        /\ watching' = [watching EXCEPT ![c] = {}]
        /\ call' = (IF call[c].pc = "waiting" THEN [call EXCEPT ![c] = Idle] ELSE call)
        /\ UNCHANGED <<kvStore, waiters, requests, replies, seqNo>>
    BY <1>3 DEF LinkBrokenHandler, Return, waiters
  <2>2. link' \in [Clients -> {"up", "broken", "closed"}] /\ ClientTypes'
    BY <2>1 DEF Types, ServerTypes, ClientTypes, CallsOf
  <2>3. \A d \in Clients, n \in Nat : Known(d, n) => Known(d, n)'
    BY <2>1 DEF Known, Sent, Awaited, Types, ServerTypes, ClientTypes, Idle
  <2>4. CallIsLatest'
    BY <2>1 DEF CallIsLatest, Types, ServerTypes, ClientTypes, Idle
  <2>5. AnswersAreAwaited'
    BY <2>1 DEF AnswersAreAwaited, Awaited, Types, ServerTypes, ClientTypes
  <2> QED BY <2>1, <2>2, <2>3, <2>4, <2>5, NothingSent DEF Types, ServerTypes
<1> QED BY <1>1, <1>2, <1>3

\* A reply that is taken in.  One that ends a call has the number of the call.
LEMMA ReceiveKeeps ==
  ASSUME IInv, NEW c \in Clients, Receive(c)
  PROVE  IInv'
<1> USE DEF IInv
<1>1. PICK a \in replies :
        /\ a.client = c /\ replies' = replies \ {a}
        /\ contexts' = [contexts EXCEPT ![c] = @ \ {a.seq}]
        /\ watching' = [watching EXCEPT ![c] = @ \ {a.seq}]
        /\ \/ a.seq \in contexts[c] \ watching[c] /\ call' = [call EXCEPT ![c] = Idle]
           \/ a.seq \in watching[c] /\ UNCHANGED call
           \/ a.seq \notin contexts[c] /\ UNCHANGED call
  BY DEF Receive, Return
<1>2. UNCHANGED <<kvStore, waiters, requests, link, seqNo>>
  BY DEF Receive, waiters
<1>3. /\ link[c] = "up" /\ a.seq \in Nat /\ a.seq <= seqNo[c]
      /\ a.seq = seqNo[c] => call[c].pc # "registered"
      /\ a.seq \in contexts[c] \ watching[c] => Awaited(c, a.seq)
  BY <1>1 DEF AnswersAreAwaited, NamesAreKnown, Known, Sent, Types, ClientTypes
<1>4. call[c].pc \in {"idle", "registered", "waiting"}
  BY DEF Types, ClientTypes, CallsOf, Idle
<1>5. ClientTypes'
  BY <1>1, <1>2 DEF Types, ClientTypes, CallsOf
<1>7. \A d \in Clients : d # c => /\ call'[d] = call[d] /\ contexts'[d] = contexts[d]
                                  /\ watching'[d] = watching[d]
  BY <1>1 DEF Types, ClientTypes
<1>8. contexts'[c] = contexts[c] \ {a.seq} /\ watching'[c] = watching[c] \ {a.seq}
  BY <1>1 DEF Types, ClientTypes
<1>6. \A d \in Clients, n \in Nat : Known(d, n) => Known(d, n)'
  <2>1. \A d \in Clients, n \in Nat : d # c /\ Known(d, n) => Known(d, n)'
    BY <1>2, <1>7 DEF Known, Sent, Awaited
  <2>2. ASSUME NEW n \in Nat, Known(c, n) PROVE Known(c, n)'
    <3>1. CASE UNCHANGED call
      BY <1>2, <1>8, <2>2, <3>1 DEF Known, Sent, Awaited
    <3>2. CASE a.seq \in contexts[c] \ watching[c] /\ call' = [call EXCEPT ![c] = Idle]
      <4>1. call'[c].pc = "idle" /\ Awaited(c, a.seq)
        BY <1>3, <3>2 DEF Types, ClientTypes, Idle
      <4> QED BY <1>2, <1>8, <2>2, <4>1 DEF Known, Sent, Awaited
    <3> QED BY <1>1, <3>1, <3>2
  <2> QED BY <2>1, <2>2
<1>9. CASE a.seq \in contexts[c] \ watching[c] /\ call' = [call EXCEPT ![c] = Idle]
  <2>1. call[c].pc = "waiting" /\ a.seq = call[c].seq /\ call'[c].pc = "idle"
    BY <1>3, <1>9 DEF Awaited, Types, ClientTypes, Idle
  <2>2. CallIsLatest'
    BY <1>2, <1>7, <1>8, <2>1 DEF CallIsLatest
  <2>3. \A i \in 1..Len(requests[c]) : requests[c][i].mt = "GET"
    <3>1. \A i \in 1..Len(requests[c]) : requests[c][i].seq # a.seq
      BY <1>1 DEF OnePlace, Id
    <3> QED BY <1>3, <2>1, <3>1 DEF AnswersAreAwaited, Awaited
  <2>4. \A b \in replies' : b.client = c => b.mt = "GET"
    <3>1. \A b \in replies' : b.client = c => b.seq # a.seq
      BY <1>1 DEF NamesDiffer, Id
    <3> QED BY <1>1, <2>1, <3>1 DEF AnswersAreAwaited, Awaited
  <2>5. \A d \in Clients : link[d] = "up" => \A i \in 1..Len(requests[d]) :
          requests[d][i].mt # "GET" => call'[d].pc = "waiting" /\ call'[d].seq = requests[d][i].seq
    BY <1>7, <2>3 DEF AnswersAreAwaited, Awaited
  <2>6. \A b \in replies' : link[b.client] = "up" /\ (b.mt # "GET" =>
          call'[b.client].pc = "waiting" /\ call'[b.client].seq = b.seq)
    BY <1>1, <1>7, <2>4 DEF AnswersAreAwaited, Awaited, Types, ServerTypes
  <2>7. AnswersAreAwaited'
    BY <1>2, <2>5, <2>6 DEF AnswersAreAwaited, Awaited
  <2> QED BY <1>1, <1>2, <1>5, <1>6, <2>2, <2>7, NothingSent DEF Types, ServerTypes
<1>10. CASE (a.seq \in watching[c] \/ a.seq \notin contexts[c]) /\ UNCHANGED call
  <2>1. call[c].pc # "idle" => call[c].seq # a.seq
    BY <1>3, <1>4, <1>10 DEF CallIsLatest
  <2>2. CallIsLatest'
    BY <1>2, <1>4, <1>7, <1>8, <1>10, <2>1 DEF CallIsLatest
  <2>3. AnswersAreAwaited'
    BY <1>1, <1>2, <1>10 DEF AnswersAreAwaited, Awaited
  <2> QED BY <1>1, <1>2, <1>5, <1>6, <2>2, <2>3, NothingSent DEF Types, ServerTypes
<1> QED BY <1>1, <1>9, <1>10

\* The name of a request is new when it is sent.
LEMMA SendKeeps ==
  ASSUME IInv, NEW c \in Clients, Send(c)
  PROVE  IInv'
<1> USE DEF IInv
<1> DEFINE r == Request(c)
           op == call[c].op
<1>1. /\ call[c].pc = "registered" /\ link[c] = "up"
      /\ requests' = [requests EXCEPT ![c] = Append(@, r)]
      /\ call' = (IF op.watch THEN [call EXCEPT ![c] = Idle]
                  ELSE [call EXCEPT ![c].pc = "waiting"])
      /\ UNCHANGED <<kvStore, waitCtx, keyWaiters, timedWaiters, late, Parked, replies, link,
                     contexts, watching, seqNo>>
  BY DEF Send, Return, waiters, Parked
<1>2. /\ call[c] = [pc |-> "registered", seq |-> call[c].seq, op |-> op]
      /\ op \in Operations[c] /\ call[c].seq \in Nat /\ call[c].seq = seqNo[c]
  BY <1>1 DEF Types, ClientTypes, CallsOf, Idle, CallIsLatest
<1>3. r \in RequestsOf(c) /\ r.seq = seqNo[c] /\ r.mt = op.mt
  <2>1. r = [client |-> c, seq |-> call[c].seq, mt |-> op.mt, key |-> op.key,
             value |-> op.value, expect |-> op.expect, timeout |-> op.timeout]
    BY DEF Request
  <2>2. op \in Operations[c] /\ call[c].seq \in Nat /\ call[c].seq = seqNo[c]
    BY <1>2
  <2> HIDE DEF op
  <2>3. r \in RequestsOf(c)
    BY <2>1, <2>2 DEF RequestsOf
  <2> QED BY <2>1, <2>2, <2>3
<1>4. op.watch \in BOOLEAN /\ (op.watch => op.mt = "GET")
  BY <1>2, OperationsAssumption DEF OperationsAssumption
<1>5. /\ call'[c].pc = IF op.watch THEN "idle" ELSE "waiting"
      /\ op.watch \/ (call'[c].seq = seqNo[c] /\ call'[c].op = op)
      /\ call'[c] \in CallsOf(c) /\ DOMAIN call' = Clients
      /\ \A d \in Clients : d # c => call'[d] = call[d]
  <2>1. DOMAIN call = Clients
    BY DEF Types, ClientTypes
  <2>2. CASE op.watch
    BY <1>1, <2>1, <2>2 DEF Idle, CallsOf
  <2>3. CASE ~op.watch
    <3>1. call'[c] = [pc |-> "waiting", seq |-> call[c].seq, op |-> op]
      BY <1>1, <1>2, <2>1, <2>3
    <3> QED BY <1>1, <1>2, <2>1, <2>3, <3>1 DEF CallsOf
  <2> QED BY <2>2, <2>3
<1> DEFINE KnownNow(d, s) ==
             /\ s \in 0..seqNo[d] /\ (s = seqNo[d] => call'[d].pc # "registered")
             /\ link[d] = "up" /\ s \in contexts[d] \ watching[d] =>
                  call'[d].pc = "waiting" /\ call'[d].seq = s
<1>6. \A d \in Clients : \A s : Known(d, s) => KnownNow(d, s)
  BY <1>1, <1>4, <1>5 DEF Known, Sent, Awaited
<1>7. ~Sent(c, r.seq) /\ KnownNow(c, r.seq)
  <2>1. ~Sent(c, r.seq)
    BY <1>1, <1>3 DEF Sent
  <2>2. seqNo[c] \in 0..seqNo[c]
    BY <1>2
  <2>3. op.watch => call[c].seq \in watching[c]
    BY <1>1, <1>4 DEF CallIsLatest, Types, ServerTypes
  <2> QED BY <1>2, <1>3, <1>4, <1>5, <2>1, <2>2, <2>3
<1> HIDE DEF r, op, KnownNow
<1>8. /\ requests[c] \in Seq(RequestsOf(c)) /\ requests'[c] = Append(requests[c], r)
      /\ DOMAIN requests' = Clients /\ \A d \in Clients : d # c => requests'[d] = requests[d]
  BY <1>1 DEF Types, ServerTypes
<1>9. /\ requests'[c] \in Seq(RequestsOf(c))
      /\ Len(requests[c]) \in Nat /\ Len(requests'[c]) = Len(requests[c]) + 1
      /\ requests'[c][Len(requests[c]) + 1] = r
      /\ \A i \in 1..Len(requests[c]) : requests'[c][i] = requests[c][i]
  BY <1>3, <1>8
\* A request on its way was so before, or is the new one.
<1>10. \A d \in Clients : \A i \in 1..Len(requests'[d]) :
         \/ i \in 1..Len(requests[d]) /\ requests'[d][i] = requests[d][i]
         \/ d = c /\ i = Len(requests[c]) + 1 /\ requests'[d][i] = r
  BY <1>8, <1>9
<1>11. Types'
  <2>1. \A d \in Clients : requests'[d] \in Seq(RequestsOf(d))
    BY <1>8, <1>9 DEF Types, ServerTypes
  <2>2. ClientTypes'
    BY <1>1, <1>5 DEF Types, ClientTypes
  <2> QED BY <1>1, <1>8, <2>1, <2>2 DEF Types, ServerTypes
<1>12. NamesDiffer'
  <2>1. \A i \in 1..Len(requests[c]) : requests[c][i].seq # r.seq
    BY <1>7 DEF NamesAreKnown, Known
  <2>2. ASSUME NEW d \in Clients, NEW i \in 1..Len(requests'[d]), NEW j \in 1..Len(requests'[d]),
               requests'[d][i].seq = requests'[d][j].seq
        PROVE  i = j
    <3>1. CASE i \in 1..Len(requests[d]) /\ j \in 1..Len(requests[d])
      <4>1. \A n \in 1..Len(requests[d]) : requests'[d][n] = requests[d][n]
        BY <1>8, <1>9
      <4>2. requests[d][i].seq = requests[d][j].seq
        BY <2>2, <3>1, <4>1
      <4> QED BY <3>1, <4>2 DEF NamesDiffer
    <3>2. CASE ~(i \in 1..Len(requests[d]) /\ j \in 1..Len(requests[d]))
      BY <1>10, <2>1, <2>2, <3>2
    <3> QED BY <3>1, <3>2
  <2> QED BY <1>1, <2>2 DEF NamesDiffer, Id
<1>13. OnePlace'
  <2>1. /\ \A w \in Parked : Id(w) # <<c, r.seq>>
        /\ \A a \in replies : Id(a) # <<c, r.seq>>
    BY <1>7 DEF NamesAreKnown, Known, Id
  <2>2. ASSUME NEW d \in Clients, NEW i \in 1..Len(requests'[d])
        PROVE  /\ \A w \in Parked : Id(w) # <<d, requests'[d][i].seq>>
               /\ \A a \in replies : Id(a) # <<d, requests'[d][i].seq>>
    BY <1>10, <2>1 DEF OnePlace
  <2>3. waitCtx \cap late = {}
    BY DEF OnePlace
  <2> QED BY <1>1, <2>2, <2>3 DEF OnePlace, Id
<1>14. NamesAreKnown'
  <2>1. \A d \in Clients : \A i \in 1..Len(requests'[d]) : KnownNow(d, requests'[d][i].seq)
    BY <1>6, <1>7, <1>10 DEF NamesAreKnown
  <2>2. \A w \in Parked : KnownNow(w.client, w.seq)
    BY <1>6 DEF NamesAreKnown, Types, ServerTypes, Waiter, Parked
  <2>3. \A a \in replies : KnownNow(a.client, a.seq)
    BY <1>6 DEF NamesAreKnown, Types, ServerTypes
  <2> QED BY <1>1, <2>1, <2>2, <2>3 DEF NamesAreKnown, Known, Sent, Awaited, KnownNow
<1>15. CallIsLatest'
  <2>1. call[c].seq \in contexts[c] /\ (call[c].seq \in watching[c] <=> op.watch)
    BY <1>1 DEF CallIsLatest, op
  <2> QED BY <1>1, <1>2, <1>4, <1>5, <2>1 DEF CallIsLatest
<1>16. AnswersAreAwaited'
  <2>1. \A i \in 1..Len(requests[c]) : requests[c][i].mt = "GET"
    BY <1>1 DEF AnswersAreAwaited, Awaited
  <2>2. \A a \in replies : a.client = c => a.mt = "GET"
    BY <1>1 DEF AnswersAreAwaited, Awaited
  <2>3. r.mt # "GET" => call'[c].pc = "waiting" /\ call'[c].seq = r.seq
    BY <1>3, <1>4, <1>5
  <2>4. \A d \in Clients : link[d] = "up" => \A i \in 1..Len(requests'[d]) :
          requests'[d][i].mt # "GET" =>
            call'[d].pc = "waiting" /\ call'[d].seq = requests'[d][i].seq
    BY <1>5, <1>10, <2>1, <2>3 DEF AnswersAreAwaited, Awaited
  <2>5. \A a \in replies : link[a.client] = "up" /\ (a.mt # "GET" =>
          call'[a.client].pc = "waiting" /\ call'[a.client].seq = a.seq)
    BY <1>5, <2>2 DEF AnswersAreAwaited, Awaited, Types, ServerTypes
  <2> QED BY <1>1, <2>4, <2>5 DEF AnswersAreAwaited, Awaited
<1>17. WaitersIndexed' /\ NoWaiterLeftBehind'
  BY <1>1 DEF WaitersIndexed, NoWaiterLeftBehind, Deadlines, Id, Exists
<1> QED BY <1>11, <1>12, <1>13, <1>14, <1>15, <1>16, <1>17

-----------------------------------------------------------------------------
\* What every state of the store and its clients satisfies.
THEOREM StoreInvariant == Spec => []IInv
<1>1. Init => IInv
  BY InitInv
<1>2. IInv /\ [Next]_vars => IInv'
  <2> SUFFICES ASSUME IInv, [Next]_vars PROVE IInv'
    OBVIOUS
  <2>1. CASE UNCHANGED clients /\ TimerThread
    BY <2>1, TimerKeeps
  <2>2. ASSUME NEW c \in Clients, Handle(c), UNCHANGED clients PROVE IInv'
    BY <2>2, HandleKeeps
  <2>3. ASSUME NEW c \in Clients, NEW op \in Operations[c], Call(c, op) PROVE IInv'
    BY <2>3, CallKeeps
  <2>4. ASSUME NEW c \in Clients, Send(c) PROVE IInv'
    BY <2>4, SendKeeps
  <2>5. ASSUME NEW c \in Clients, SendFails(c) \/ Unwatch(c) PROVE IInv'
    BY <2>5, GiveUpKeeps
  <2>6. ASSUME NEW c \in Clients, Receive(c) PROVE IInv'
    BY <2>6, ReceiveKeeps
  <2>7. ASSUME NEW c \in Clients, Break(c) \/ Lose(c) \/ LinkBrokenHandler(c) PROVE IInv'
    BY <2>7, LinkKeeps
  <2>8. CASE UNCHANGED vars
    <3> USE <2>8 DEF vars, server, waiters, clients, IInv, Parked
    <3>1. Types'
      BY DEF Types, ServerTypes, ClientTypes
    <3>2. NamesDiffer' /\ OnePlace'
      BY DEF NamesDiffer, OnePlace, Id
    <3>3. NamesAreKnown' /\ CallIsLatest' /\ AnswersAreAwaited'
      BY DEF NamesAreKnown, Known, Sent, CallIsLatest, AnswersAreAwaited, Awaited
    <3>4. WaitersIndexed' /\ NoWaiterLeftBehind'
      BY DEF WaitersIndexed, Deadlines, NoWaiterLeftBehind, Exists, Id
    <3> QED BY <3>1, <3>2, <3>3, <3>4
  <2> QED BY <2>1, <2>2, <2>3, <2>4, <2>5, <2>6, <2>7, <2>8 DEF Next, Server, Client
<1> QED BY <1>1, <1>2, PTL DEF Spec

\* Nobody waits for a key that exists: a GET that came before the SET is woken
\* by it (SetHandler, AddHandler, AppendHandler, CasHandler).
THEOREM StoreNoWaiterLeftBehind == Spec => []NoWaiterLeftBehind
<1>1. IInv => NoWaiterLeftBehind
  BY DEF IInv
<1> QED BY <1>1, StoreInvariant, PTL

\* waitCtx_, keyWaiters_ and timedWaiters_ agree about who waits.
THEOREM StoreWaitersIndexed == Spec => []WaitersIndexed
<1>1. IInv => WaitersIndexed
  BY DEF IInv
<1> QED BY <1>1, StoreInvariant, PTL

\* A request is answered once, and the answer to a call finds it waiting.
THEOREM StoreAnsweredOnce == Spec => []AnsweredOnce
<1>1. IInv => AnsweredOnce
  <2> SUFFICES ASSUME IInv PROVE AnsweredOnce
    OBVIOUS
  <2> USE DEF IInv
  <2>1. ASSUME NEW c \in Clients, NEW s \in 1..MaxCalls
        PROVE  Cardinality(AnswersTo(c, s)) <= 1
    <3>1. \A a, b \in AnswersTo(c, s) : a = b
      BY DEF AnswersTo, NamesDiffer, Id
    <3>2. CASE AnswersTo(c, s) = {}
      BY <3>2, FS_EmptySet
    <3>3. CASE AnswersTo(c, s) # {}
      <4>1. PICK a : AnswersTo(c, s) = {a}
        BY <3>1, <3>3
      <4>2. Cardinality({a}) = 1
        BY FS_Singleton
      <4> QED BY <4>1, <4>2
    <3> QED BY <3>2, <3>3
  <2>2. ASSUME NEW c \in Clients, NEW s \in 1..MaxCalls
        PROVE  /\ ~(Queued(c, s) /\ Waits(c, s))
               /\ AnswersTo(c, s) # {} => ~Queued(c, s) /\ ~Waits(c, s)
    <3>1. Queued(c, s) => \E i \in 1..Len(requests[c]) : requests[c][i].seq = s
      BY DEF Queued
    <3>2. Waits(c, s) => \E w \in Parked : Id(w) = <<c, s>>
      BY DEF Waits, Parked
    <3>3. AnswersTo(c, s) # {} => \E a \in replies : Id(a) = <<c, s>>
      BY DEF AnswersTo, Id
    <3> QED BY <3>1, <3>2, <3>3 DEF OnePlace
  <2>3. ASSUME NEW a \in replies, a.mt # "GET"
        PROVE  /\ a.seq \in contexts[a.client]
               /\ call[a.client].pc = "waiting" /\ call[a.client].seq = a.seq
    BY <2>3 DEF AnswersAreAwaited, Awaited, CallIsLatest, Types, ServerTypes
  <2>4. \A c \in Clients :
          call[c].pc = "waiting" /\ link[c] # "closed" => call[c].seq \in contexts[c]
    BY DEF CallIsLatest
  <2> QED BY <2>1, <2>2, <2>3, <2>4 DEF AnsweredOnce
<1> QED BY <1>1, StoreInvariant, PTL

-----------------------------------------------------------------------------
\* The names under a key, which outlive their waiters, are of requests that have
\* arrived; one whose waiter is still there is under the key it asked for.
OldNamesUnderKeys ==
  \A k \in Keys, c \in Clients, s \in Nat : <<c, s>> \in keyWaiters[k] =>
    Sent(c, s) /\ \A i \in 1..Len(requests[c]) : requests[c][i].seq # s

UnderTheirKey == \A k \in Keys, w \in waitCtx : Id(w) \in keyWaiters[k] => w.key = k

KeyInv == OldNamesUnderKeys /\ UnderTheirKey

\* What was sent stays so.
LEMMA SentStays ==
  ASSUME IInv, Next, NEW d \in Clients, NEW s \in Nat, Sent(d, s)
  PROVE  Sent(d, s)'
<1> USE DEF IInv
<1>1. \/ UNCHANGED <<call, seqNo>>
      \/ \E c \in Clients : \E op \in Operations[c] : Call(c, op)
      \/ \E c \in Clients : call' = [call EXCEPT ![c] = Idle] /\ seqNo' = seqNo
      \/ \E c \in Clients : call' = [call EXCEPT ![c].pc = "waiting"] /\ seqNo' = seqNo
  BY DEF Next, Server, Client, clients, Send, SendFails, Receive, Unwatch, Break, Lose,
         LinkBrokenHandler, Return
<1>2. CASE UNCHANGED <<call, seqNo>>
  BY <1>2 DEF Sent
<1>3. ASSUME NEW c \in Clients, NEW op \in Operations[c], Call(c, op) PROVE Sent(d, s)'
  BY <1>3 DEF Call, Sent, Types, ClientTypes, Idle
<1>4. ASSUME NEW c \in Clients, call' = [call EXCEPT ![c] = Idle], seqNo' = seqNo
      PROVE  Sent(d, s)'
  BY <1>4 DEF Sent, Types, ClientTypes, Idle
<1>5. ASSUME NEW c \in Clients, call' = [call EXCEPT ![c].pc = "waiting"], seqNo' = seqNo
      PROVE  Sent(d, s)'
  <2>1. call'[d].pc = call[d].pc \/ call'[d].pc = "waiting"
    <3>1. d = c => call'[d] = [call[d] EXCEPT !.pc = "waiting"]
      BY <1>5 DEF Types, ClientTypes
    <3>2. call[d] \in CallsOf(d)
      BY DEF Types, ClientTypes
    <3>3. [call[d] EXCEPT !.pc = "waiting"].pc = "waiting"
      BY <3>2 DEF CallsOf, Idle
    <3>4. d # c => call'[d] = call[d]
      BY <1>5 DEF Types, ClientTypes
    <3> QED BY <3>1, <3>3, <3>4
  <2> QED BY <1>5, <2>1 DEF Sent
<1> QED BY <1>1, <1>2, <1>3, <1>4, <1>5

\* What a handler does to the names under the keys: one is added at most, of the
\* request that begins to wait.
LEMMA HandleUnderKeys ==
  ASSUME Types, NEW r, r.key \in Keys,
         \/ SetHandler(r) \/ GetHandler(r) \/ AddHandler(r)
         \/ RemoveHandler(r) \/ AppendHandler(r) \/ CasHandler(r)
  PROVE  /\ \A k \in Keys : \A i : i \in keyWaiters'[k] =>
              i \in keyWaiters[k] \/ (i = Id(r) /\ k = r.key)
         /\ \A w \in waitCtx' : w \in waitCtx \/ (Id(w) = Id(r) /\ w.key = r.key)
<1> DEFINE Goal ==
      /\ \A k \in Keys : \A i : i \in keyWaiters'[k] =>
           i \in keyWaiters[k] \/ (i = Id(r) /\ k = r.key)
      /\ \A w \in waitCtx' : w \in waitCtx \/ (Id(w) = Id(r) /\ w.key = r.key)
<1> USE DEF Types, ServerTypes
<1>1. ASSUME NEW value, NEW told, NEW answer, Create(r, value, told, answer) PROVE Goal
  BY <1>1 DEF Create, GetOutWaiters
<1>2. ASSUME UNCHANGED waiters PROVE Goal
  BY <1>2 DEF waiters
<1>3. ASSUME Wait(r) PROVE Goal
  BY <1>3 DEF Wait, Id
<1> HIDE DEF Goal, Types
<1>4. (\E value, told, answer : Create(r, value, told, answer)) \/ UNCHANGED waiters \/ Wait(r)
  <2>1. \A value, answer : Store(r, value, answer) => UNCHANGED waiters
    BY DEF Store
  <2>2. \A answers : JustReply(answers) => UNCHANGED waiters
    BY DEF JustReply, waiters
  <2>3. CASE SetHandler(r)
    BY <2>1, <2>3 DEF SetHandler
  <2>4. CASE GetHandler(r)
    BY <2>2, <2>4 DEF GetHandler
  <2>5. CASE AddHandler(r)
    BY <2>1, <2>2, <2>5 DEF AddHandler
  <2>6. CASE RemoveHandler(r)
    BY <2>1, <2>2, <2>6 DEF RemoveHandler
  <2>7. CASE AppendHandler(r)
    BY <2>1, <2>7 DEF AppendHandler
  <2>8. CASE CasHandler(r)
    BY <2>1, <2>2, <2>8 DEF CasHandler
  <2> QED BY <2>3, <2>4, <2>5, <2>6, <2>7, <2>8
<1>5. Goal
  BY <1>1, <1>2, <1>3, <1>4
<1> QED BY <1>5 DEF Goal

\* A step of a rank: a request that is sent has a new name, which is under no key.
LEMMA ClientUnderKeys ==
  ASSUME IInv, KeyInv, Next, NEW c \in Clients, Client(c)
  PROVE  KeyInv'
<1> USE DEF IInv, KeyInv
<1>1. UNCHANGED <<waitCtx, keyWaiters>>
  BY DEF Client, Call, Send, SendFails, Receive, Unwatch, Break, Lose, LinkBrokenHandler,
         server, waiters
<1>2. \A d \in Clients : \/ requests'[d] = requests[d]
                         \/ requests'[d] = <<>>
                         \/ d = c /\ Send(c) /\ requests'[d] = Append(requests[d], Request(c))
  BY DEF Client, Call, Send, SendFails, Receive, Unwatch, Break, Lose, LinkBrokenHandler,
         server, Types, ServerTypes
<1>3. ASSUME NEW k \in Keys, NEW d \in Clients, NEW s \in Nat, <<d, s>> \in keyWaiters[k]
      PROVE  Sent(d, s)' /\ \A i \in 1..Len(requests'[d]) : requests'[d][i].seq # s
  <2>1. Sent(d, s) /\ \A i \in 1..Len(requests[d]) : requests[d][i].seq # s
    BY <1>3 DEF OldNamesUnderKeys
  <2>2. Sent(d, s)'
    BY <2>1, SentStays
  <2>3. CASE requests'[d] = requests[d] \/ requests'[d] = <<>>
    BY <2>1, <2>2, <2>3
  <2>4. CASE d = c /\ Send(c) /\ requests'[d] = Append(requests[d], Request(c))
    <3>1. Request(c).seq = seqNo[c] /\ call[c].pc = "registered"
      BY <2>4 DEF Send, Request, CallIsLatest
    <3>2. Request(c).seq # s
      BY <2>1, <2>4, <3>1 DEF Sent
    <3>3. requests[d] \in Seq(RequestsOf(d))
      BY DEF Types, ServerTypes
    <3> QED BY <2>1, <2>2, <2>4, <3>2, <3>3
  <2> QED BY <1>2, <2>3, <2>4
<1>4. OldNamesUnderKeys'
  BY <1>1, <1>3 DEF OldNamesUnderKeys, Sent
<1> QED BY <1>1, <1>4 DEF UnderTheirKey, Id

\* A request that is handled has left the queue, and its name was under no key.
LEMMA ServerUnderKeys ==
  ASSUME IInv, KeyInv, Next, NEW c \in Clients, Handle(c), UNCHANGED clients
  PROVE  KeyInv'
<1> DEFINE r == Head(requests[c])
<1> USE DEF IInv, KeyInv
<1>1. /\ requests[c] # <<>> /\ requests' = [requests EXCEPT ![c] = Tail(@)]
      /\ \/ SetHandler(r) \/ GetHandler(r) \/ AddHandler(r)
         \/ RemoveHandler(r) \/ AppendHandler(r) \/ CasHandler(r)
  BY DEF Handle
<1>2. requests[c] \in Seq(RequestsOf(c)) /\ DOMAIN requests = Clients
  BY DEF Types, ServerTypes
<1>3. /\ r = requests[c][1] /\ r \in RequestsOf(c) /\ Len(requests[c]) \in Nat \ {0}
      /\ requests'[c] = Tail(requests[c]) /\ Len(requests'[c]) = Len(requests[c]) - 1
      /\ \A i \in 1..Len(requests'[c]) :
           requests'[c][i] = requests[c][i + 1] /\ i + 1 \in 1..Len(requests[c])
  BY <1>1, <1>2, FirstAndRest
<1> HIDE DEF r
<1>4. 1 \in 1..Len(requests[c]) /\ r.client = c /\ r.seq \in Nat /\ Id(r) = <<c, r.seq>> /\ r.key \in Keys
  BY <1>3, OperationsAssumption DEF RequestsOf, Id, OperationsAssumption
<1>5. /\ \A k \in Keys : \A i : i \in keyWaiters'[k] =>
           i \in keyWaiters[k] \/ (i = Id(r) /\ k = r.key)
      /\ \A w \in waitCtx' : w \in waitCtx \/ (Id(w) = Id(r) /\ w.key = r.key)
  BY <1>1, <1>4, HandleUnderKeys
\* The request was in the queue, so it was under no key and no waiter.
<1>6. /\ \A k \in Keys : Id(r) \notin keyWaiters[k]
      /\ \A w \in waitCtx : Id(w) # Id(r)
  BY <1>3, <1>4 DEF OldNamesUnderKeys, OnePlace, Parked
<1>7. \A i \in 1..Len(requests'[c]) : requests'[c][i].seq # r.seq
  <2> SUFFICES ASSUME NEW i \in 1..Len(requests'[c]) PROVE requests'[c][i].seq # r.seq
    OBVIOUS
  <2>1. requests'[c][i] = requests[c][i + 1] /\ i + 1 \in 1..Len(requests[c]) /\ i + 1 # 1
    BY <1>3
  <2> QED BY <1>3, <1>4, <2>1 DEF NamesDiffer
<1>8. \A d \in Clients : d # c => requests'[d] = requests[d]
  BY <1>1, <1>2
<1>9. ASSUME NEW k \in Keys, NEW d \in Clients, NEW s \in Nat, <<d, s>> \in keyWaiters'[k]
      PROVE  Sent(d, s)' /\ \A i \in 1..Len(requests'[d]) : requests'[d][i].seq # s
  <2>1. CASE <<d, s>> \in keyWaiters[k]
    <3>1. Sent(d, s) /\ \A i \in 1..Len(requests[d]) : requests[d][i].seq # s
      BY <2>1 DEF OldNamesUnderKeys
    <3>2. \A i \in 1..Len(requests'[d]) : requests'[d][i].seq # s
      <4>1. CASE d # c
        BY <1>8, <3>1, <4>1
      <4>2. CASE d = c
        <5> SUFFICES ASSUME NEW i \in 1..Len(requests'[c]) PROVE requests'[c][i].seq # s
          BY <4>2
        <5>1. requests'[c][i] = requests[c][i + 1] /\ i + 1 \in 1..Len(requests[c])
          BY <1>3
        <5> QED BY <3>1, <4>2, <5>1
      <4> QED BY <4>1, <4>2
    <3> QED BY <3>1, <3>2, SentStays
  <2>2. CASE d = c /\ s = r.seq
    <3>1. Sent(c, r.seq)
      BY <1>3, <1>4 DEF NamesAreKnown, Known
    <3>2. Sent(d, s)'
      BY <2>2, <3>1, SentStays
    <3> QED BY <1>7, <2>2, <3>2
  <2> QED BY <1>4, <1>5, <1>9, <2>1, <2>2
<1>10. OldNamesUnderKeys'
  BY <1>9 DEF OldNamesUnderKeys, Sent
<1>11. \A k \in Keys, w \in waitCtx' : Id(w) \in keyWaiters'[k] => w.key = k
  BY <1>5, <1>6 DEF UnderTheirKey
<1> QED BY <1>10, <1>11 DEF UnderTheirKey, Id

\* The timer leaves what is under the keys.
LEMMA TimerUnderKeys ==
  ASSUME IInv, KeyInv, Next, TimerThread, UNCHANGED clients
  PROVE  KeyInv'
<1> USE DEF IInv, KeyInv
<1>1. UNCHANGED <<keyWaiters, requests, call, seqNo>>
  BY DEF TimerThread, clients
<1>2. \A v \in waitCtx' : \E w \in waitCtx : Id(v) = Id(w) /\ v.key = w.key
  <2>1. CASE TimerLooks
    BY <2>1, TimerSays, AgedIsTheSame DEF Types, ServerTypes
  <2>2. CASE TimerAnswers
    BY <2>2 DEF TimerAnswers
  <2> QED BY <2>1, <2>2 DEF TimerThread
<1>3. OldNamesUnderKeys'
  BY <1>1 DEF OldNamesUnderKeys, Sent
<1>4. \A k \in Keys, w \in waitCtx' : Id(w) \in keyWaiters[k] => w.key = k
  BY <1>2 DEF UnderTheirKey
<1> QED BY <1>1, <1>3, <1>4 DEF UnderTheirKey, Id

\* Every step keeps the names under their keys.
LEMMA KeysInductive == IInv /\ KeyInv /\ [Next]_vars => KeyInv'
<1> SUFFICES ASSUME IInv, KeyInv, [Next]_vars PROVE KeyInv'
  OBVIOUS
<1>1. CASE UNCHANGED vars
  BY <1>1 DEF vars, server, waiters, clients, KeyInv, OldNamesUnderKeys, UnderTheirKey, Sent, Id
<1>2. CASE Next
  BY <1>2, ClientUnderKeys, ServerUnderKeys, TimerUnderKeys DEF Next, Server
<1> QED BY <1>1, <1>2

-----------------------------------------------------------------------------
\* What a GET is told when it succeeds, now or later.
Told == \A a \in replies' \ replies :
          a.mt = "GET" /\ a.code = "SUCCESS" => a.value = kvStore'[a.key]

\* A handler but APPEND's tells the waiters and its caller the value of the key.
LEMMA HandlerTells ==
  ASSUME Types, KeyInv, NEW r, r.key \in Keys,
         \/ SetHandler(r) \/ GetHandler(r) \/ AddHandler(r)
         \/ RemoveHandler(r) \/ CasHandler(r)
  PROVE  Told
<1>1. ASSUME NEW value, NEW answer, Create(r, value, value, Answer(r, "SUCCESS", answer)),
             r.mt # "GET"
      PROVE  Told
  <2> SUFFICES ASSUME NEW a \in replies' \ replies, a.mt = "GET" PROVE a.value = kvStore'[a.key]
    BY DEF Told
  <2>1. a # Answer(r, "SUCCESS", answer)
    BY <1>1, AnswerHasName
  <2>2. PICK w \in Woken(r.key) : a = Answer(w, "SUCCESS", value)
    BY <1>1, <2>1 DEF Create, Reply
  <2>3. a.key = r.key /\ a.value = value
    BY <2>2 DEF Answer, Woken, KeyInv, UnderTheirKey
  <2> QED BY <1>1, <2>3 DEF Create, Types, ServerTypes
<1>2. ASSUME NEW value, NEW answer, Store(r, value, Answer(r, "SUCCESS", answer)), r.mt # "GET"
      PROVE  Told
  BY <1>2, AnswerHasName DEF Store, Reply, Told
<1>3. ASSUME NEW code, NEW value, JustReply({Answer(r, code, value)}),
             r.mt = "GET" /\ code = "SUCCESS" => value = kvStore[r.key]
      PROVE  Told
  BY <1>3 DEF JustReply, Reply, Told, Answer
<1>4. ASSUME JustReply({}) PROVE Told
  BY <1>4 DEF JustReply, Reply, Told
<1>5. ASSUME Wait(r) PROVE Told
  BY <1>5 DEF Wait, Told
<1> HIDE DEF Told
<1>6. CASE SetHandler(r)
  BY <1>1, <1>2, <1>6 DEF SetHandler
<1>7. CASE GetHandler(r)
  BY <1>3, <1>4, <1>5, <1>7 DEF GetHandler
<1>8. CASE AddHandler(r)
  BY <1>1, <1>2, <1>4, <1>8 DEF AddHandler
<1>9. CASE RemoveHandler(r)
  BY <1>2, <1>3, <1>9 DEF RemoveHandler
<1>10. CASE CasHandler(r)
  BY <1>1, <1>2, <1>3, <1>10 DEF CasHandler
<1> QED BY <1>6, <1>7, <1>8, <1>9, <1>10

\* A GET that succeeds is told the value its key has at that moment, whether it
\* found it or waited for it and whoever made it, except by an APPEND.
THEOREM StoreGetReturnsTheValue == Spec => GetReturnsTheValueButForAppend
<1>1. Init => KeyInv
  BY DEF Init, KeyInv, OldNamesUnderKeys, UnderTheirKey
<1>2. IInv /\ KeyInv /\ [Next]_vars =>
        [\A a \in replies' \ replies :
           a.mt = "GET" /\ a.code = "SUCCESS" =>
             a.value = kvStore'[a.key] \/ \E r \in Handled : r.mt = "APPEND"]_replies
  <2> SUFFICES ASSUME IInv, KeyInv, [Next]_vars, NEW a \in replies' \ replies,
                      a.mt = "GET", a.code = "SUCCESS"
               PROVE  a.value = kvStore'[a.key] \/ \E r \in Handled : r.mt = "APPEND"
    OBVIOUS
  <2> USE DEF IInv
  <2>1. CASE UNCHANGED replies \/ replies' \subseteq replies
    BY <2>1
  <2>2. CASE TimerThread
    <3>1. a.code = "TIMEOUT"
      BY <2>2 DEF TimerThread, TimerLooks, TimerAnswers, Reply, Answer
    <3> QED BY <3>1
  <2>3. ASSUME NEW c \in Clients, Handle(c)
        PROVE  a.value = kvStore'[a.key] \/ \E r \in Handled : r.mt = "APPEND"
    <3> DEFINE r == Head(requests[c])
    <3>1. /\ requests[c] # <<>> /\ requests' = [requests EXCEPT ![c] = Tail(@)]
          /\ \/ SetHandler(r) \/ GetHandler(r) \/ AddHandler(r)
             \/ RemoveHandler(r) \/ AppendHandler(r) \/ CasHandler(r)
      BY <2>3 DEF Handle
    <3>2. requests[c] \in Seq(RequestsOf(c)) /\ DOMAIN requests = Clients
      BY DEF Types, ServerTypes
    <3>3. r \in RequestsOf(c)
      BY <3>1, <3>2, FirstAndRest
    <3>4. r \in Handled
      BY <3>1, <3>2 DEF Handled
    <3> HIDE DEF r
    <3>5. r.key \in Keys
      BY <3>3, OperationsAssumption DEF RequestsOf, OperationsAssumption
    <3>6. CASE AppendHandler(r)
      BY <3>4, <3>6 DEF AppendHandler
    <3>7. CASE ~AppendHandler(r)
      <4>1. Told
        BY <3>1, <3>5, <3>7, HandlerTells
      <4> QED BY <4>1 DEF Told
    <3> QED BY <3>6, <3>7
  <2>4. ASSUME NEW c \in Clients, Client(c) PROVE replies' \subseteq replies
    BY <2>4 DEF Client, Call, Send, SendFails, Receive, Unwatch, Break, Lose, LinkBrokenHandler,
                server
  <2>5. CASE UNCHANGED vars
    BY <2>5 DEF vars, server
  <2> QED BY <2>1, <2>2, <2>3, <2>4, <2>5 DEF Next, Server
<1> QED BY <1>1, <1>2, KeysInductive, StoreInvariant, PTL DEF Spec, GetReturnsTheValueButForAppend

-----------------------------------------------------------------------------
(***************************************************************************)
(* The link the requests and replies travel on.  It keeps the message that *)
(* is handed up next in one piece: what an end has received of it, what is *)
(* on the wire and what the other end has still to write are together the  *)
(* messages begun, whole and in order, wherever the sockets cut them.      *)
(***************************************************************************)
CONSTANTS EndOf, Cap, HeaderLen, BodyLen, SockCap

VARIABLES queue, established, added, mask, ready, pc, writing, got, errno, wire, gone,
          caller, sends

Tcp == INSTANCE Link

\* Both modules count with the operator of FiniteSets.
LEMMA SameCardinality ==
  \A S : Tcp!Cardinality(S) = Cardinality(S) /\ Tcp!IsFiniteSet(S) = IsFiniteSet(S)
BY DEF Cardinality, Tcp!Cardinality, IsFiniteSet, Tcp!IsFiniteSet

\* What a unit is: of which message, and which of its units.
Pieces == Tcp!Messages \X (1..Tcp!MsgLen)

\* The variables hold what their types say.
LinkTypes ==
  /\ queue \in [Ends -> Seq(Tcp!Messages)]
  /\ established \in [Ends -> BOOLEAN] /\ added \in [Ends -> BOOLEAN] /\ ready \in [Ends -> BOOLEAN]
  /\ mask \in [Ends -> {"inout", "wrnorm"}]
  /\ pc \in [Ends -> {"poll", "header", "body", "write", "break", "cleanup", "remove"}]
  /\ writing \in [Ends -> Seq(Pieces)]
  /\ got \in [Ends -> Seq(Pieces)]
  /\ errno \in [Ends -> {"none", "EAGAIN", "ECONNRESET"}]
  /\ wire \in [Ends -> Seq(Pieces)]
  /\ gone \subseteq Ends
  /\ caller \in [Threads -> {"out", "enqueue", "modify"}]
  /\ sends \in [Threads -> 0..MaxSends]
  /\ accepted \in [Ends -> Seq(Tcp!Messages)]
  /\ delivered \in [Ends -> Seq(Tcp!Messages)]
  /\ reported \in [Ends -> SUBSET Tcp!Messages]

\* How many messages of an end were handed up at the other one, and how many
\* are between its queue and there.
HandedUp(e) == Len(delivered[Tcp!Peer(e)])
Begun(e) == Len(accepted[e]) - Len(queue[e]) - HandedUp(e)

\* All that is between the queue of an end and the handler of the other.
Stream(e) == got[Tcp!Peer(e)] \o wire[Tcp!Peer(e)] \o writing[e]

\* n messages, whole and in order, from the one after the first d of all.
IsFlow(s, all, d, n) ==
  /\ Len(s) = n * Tcp!MsgLen
  /\ \A k \in 0..n - 1, u \in 1..Tcp!MsgLen : s[k * Tcp!MsgLen + u] = <<all[d + 1 + k], u>>

\* The stream is the messages taken off the queue and not yet handed up, as
\* long as somebody can receive them.
StreamIs(e) == Tcp!Peer(e) \notin gone => IsFlow(Stream(e), accepted[e], HandedUp(e), Begun(e))

\* The queue q is the last of all that was accepted, what was handed up the
\* first.
IsOrder(q, all, done) ==
  /\ Len(done) + Len(q) <= Len(all)
  /\ \A i \in 1..Len(q) : q[i] = all[Len(all) - Len(q) + i]
  /\ \A i \in 1..Len(done) : done[i] = all[i]
QueueIs(e) == IsOrder(queue[e], accepted[e], delivered[Tcp!Peer(e)])

\* A message has the number of a call of its thread, not of a later one.
AcceptedIs(e) ==
  \A i \in 1..Len(accepted[e]), t \in Threads, n \in 1..MaxSends :
    accepted[e][i] = <<t, n>> => n <= sends[t] /\ (caller[t] = "enqueue" => n < sends[t])

\* No message is accepted twice.
AcceptedOnce(e) ==
  \A i, j \in 1..Len(accepted[e]) : accepted[e][i] = accepted[e][j] => i = j

\* A link breaks only when the other end is gone, and then what is reported has
\* not been handed up.
BreaksWhenGone(e) ==
  pc[e] \in {"break", "cleanup"} \/ mask[e] = "wrnorm" \/ reported[e] # {} => Tcp!Peer(e) \in gone
ReportedIs(e) ==
  \A m \in reported[e] : \E i \in HandedUp(e) + 1..Len(accepted[e]) : m = accepted[e][i]

\* What has been received of a message is less than one; a worker that is not
\* writing has nothing left to write.
GotIs(e) ==
  /\ Len(got[e]) < Tcp!MsgLen
  /\ pc[e] = "header" => Len(got[e]) < HeaderLen
WritingIs(e) == pc[e] # "write" => writing[e] = <<>>

Calling == \A t \in Threads : caller[t] = "enqueue" => sends[t] > 0

LinkIInv ==
  /\ LinkTypes /\ Calling
  /\ \A e \in Ends : /\ QueueIs(e) /\ AcceptedIs(e) /\ AcceptedOnce(e)
                     /\ BreaksWhenGone(e) /\ ReportedIs(e)
                     /\ GotIs(e) /\ WritingIs(e) /\ StreamIs(e)

-----------------------------------------------------------------------------
(* The two ends, and sequences as the sockets cut them.                    *)

\* There are two ends, each the peer of the other.
LEMMA Peers ==
  ASSUME Tcp!LinkAssumption
  PROVE \A e \in Ends : /\ Tcp!Peer(e) \in Ends /\ Tcp!Peer(e) # e /\ Tcp!Peer(Tcp!Peer(e)) = e
                        /\ \A p \in Ends : p # e => p = Tcp!Peer(e)
<1>1. IsFiniteSet(Ends) /\ Cardinality(Ends) = 2
  BY SameCardinality DEF Tcp!LinkAssumption
<1>2. Ends # {}
  BY <1>1, FS_EmptySet
<1>3. PICK x \in Ends : TRUE
  BY <1>2
<1>4. IsFiniteSet(Ends \ {x}) /\ Cardinality(Ends \ {x}) = 1
  BY <1>1, <1>3, FS_RemoveElement
<1>5. PICK y : Ends \ {x} = {y}
  BY <1>4, FS_Singleton
<1>6. y # x /\ Ends = {x, y}
  BY <1>3, <1>5
<1>7. Tcp!Peer(x) = y /\ Tcp!Peer(y) = x
  BY <1>6 DEF Tcp!Peer
<1> QED
  BY <1>6, <1>7

\* A sequence cut after k of its elements.
LEMMA Cut ==
  ASSUME NEW S, NEW s \in Seq(S), NEW k \in 0..Len(s)
  PROVE /\ SubSeq(s, 1, k) \in Seq(S) /\ Len(SubSeq(s, 1, k)) = k
        /\ SubSeq(s, k + 1, Len(s)) \in Seq(S) /\ Len(SubSeq(s, k + 1, Len(s))) = Len(s) - k
        /\ \A i \in 1..k : SubSeq(s, 1, k)[i] = s[i]
        /\ \A i \in 1..Len(s) - k : SubSeq(s, k + 1, Len(s))[i] = s[k + i]
<1>1. Len(s) \in Nat /\ \A i \in 1..Len(s) : s[i] \in S
  OBVIOUS
<1>2. SubSeq(s, 1, k) \in Seq(S) /\ Len(SubSeq(s, 1, k)) = k
  BY <1>1
<1>3. SubSeq(s, k + 1, Len(s)) \in Seq(S) /\ Len(SubSeq(s, k + 1, Len(s))) = Len(s) - k
  BY <1>1
<1>4. \A i \in 1..k : SubSeq(s, 1, k)[i] = s[i]
  BY <1>1
<1>5. \A i \in 1..Len(s) - k : SubSeq(s, k + 1, Len(s))[i] = s[k + i]
  BY <1>1
<1> QED
  BY <1>2, <1>3, <1>4, <1>5

\* Two sequences put one after the other.
LEMMA Joined ==
  ASSUME NEW S, NEW s \in Seq(S), NEW t \in Seq(S)
  PROVE /\ s \o t \in Seq(S) /\ Len(s \o t) = Len(s) + Len(t)
        /\ \A i \in 1..Len(s) : (s \o t)[i] = s[i]
        /\ \A i \in 1..Len(t) : (s \o t)[Len(s) + i] = t[i]
OBVIOUS

\* Sequences with the same elements at the same places are the same.
LEMMA SameSequence ==
  ASSUME NEW S, NEW s \in Seq(S), NEW t \in Seq(S), Len(s) = Len(t),
         \A i \in 1..Len(s) : s[i] = t[i]
  PROVE s = t
BY SeqEqual

\* What is cut off the second of two sequences and put behind the first stays
\* where it is.
LEMMA MovesOver ==
  ASSUME NEW S, NEW s \in Seq(S), NEW t \in Seq(S), NEW k \in 0..Len(t)
  PROVE (s \o SubSeq(t, 1, k)) \o SubSeq(t, k + 1, Len(t)) = s \o t
<1> DEFINE x == SubSeq(t, 1, k)
           y == SubSeq(t, k + 1, Len(t))
<1>1. /\ x \in Seq(S) /\ Len(x) = k
      /\ y \in Seq(S) /\ Len(y) = Len(t) - k
      /\ \A i \in 1..k : x[i] = t[i]
      /\ \A i \in 1..Len(t) - k : y[i] = t[k + i]
  BY Cut
<1> HIDE DEF x, y
<1>2. /\ x \o y \in Seq(S) /\ Len(x \o y) = Len(x) + Len(y)
      /\ \A i \in 1..Len(x) : (x \o y)[i] = x[i]
      /\ \A i \in 1..Len(y) : (x \o y)[Len(x) + i] = y[i]
  BY <1>1, Joined
<1>3. Len(t) \in Nat /\ k \in Nat
  OBVIOUS
<1>4. \A i \in 1..Len(t) : (x \o y)[i] = t[i]
  <2> TAKE i \in 1..Len(t)
  <2>1. CASE i <= k
    BY <2>1, <1>1, <1>2, <1>3
  <2>2. CASE ~(i <= k)
    <3>1. i - k \in 1..Len(y) /\ k + (i - k) = i
      BY <2>2, <1>1, <1>3
    <3>2. (x \o y)[Len(x) + (i - k)] = y[i - k]
      BY <3>1, <1>2
    <3>3. y[i - k] = t[k + (i - k)]
      BY <3>1, <1>1
    <3> QED
      BY <3>1, <3>2, <3>3, <1>1
  <2> QED
    BY <2>1, <2>2
<1>5. Len(x \o y) = Len(t)
  BY <1>1, <1>2, <1>3
<1>6. x \o y = t
  BY <1>2, <1>4, <1>5, SameSequence
<1>7. (s \o x) \o y = s \o (x \o y)
  BY <1>1, ConcatAssociative
<1>8. (s \o x) \o y = s \o t
  BY <1>6, <1>7
<1> QED
  BY <1>8 DEF x, y

\* The number of units of the messages before the k-th is at most that of n
\* messages less one message.
LEMMA MessagesFit ==
  ASSUME NEW n \in Nat, NEW k \in 0..n - 1, NEW l \in Nat
  PROVE k * l \in Nat /\ k * l + l <= n * l /\ (k + 1) * l = k * l + l
<1>1. PICK d \in Nat : n = (k + 1) + d
  <2>1. n - (k + 1) \in Nat /\ n = (k + 1) + (n - (k + 1))
    OBVIOUS
  <2> QED
    BY <2>1
<1>2. k \in Nat
  OBVIOUS
<1>3. (k + 1) * l = k * l + l
  BY <1>2
<1>4. ((k + 1) + d) * l = (k + 1) * l + d * l
  BY <1>2
<1>5. k * l \in Nat /\ d * l \in Nat
  BY <1>2
<1> QED
  BY <1>1, <1>3, <1>4, <1>5

-----------------------------------------------------------------------------
(* The units of messages.                                                  *)

\* The lengths of a message and of its parts.
LEMMA Lengths ==
  ASSUME Tcp!LinkAssumption
  PROVE /\ HeaderLen \in Nat \ {0} /\ BodyLen \in Nat \ {0} /\ SockCap \in Nat \ {0}
        /\ Tcp!MsgLen \in Nat \ {0} /\ HeaderLen < Tcp!MsgLen
BY DEF Tcp!LinkAssumption, Tcp!MsgLen

\* The units of a message are as many as they should be, and its own.
LEMMA UnitsOf ==
  ASSUME Tcp!LinkAssumption, NEW m \in Tcp!Messages
  PROVE /\ Tcp!Units(m) \in Seq(Pieces) /\ Len(Tcp!Units(m)) = Tcp!MsgLen
        /\ \A u \in 1..Tcp!MsgLen : Tcp!Units(m)[u] = <<m, u>>
<1>1. Tcp!MsgLen \in Nat
  BY Lengths
<1>2. \A u \in 1..Tcp!MsgLen : <<m, u>> \in Pieces
  BY DEF Pieces
<1>3. Tcp!Units(m) = [u \in 1..Tcp!MsgLen |-> <<m, u>>]
  BY DEF Tcp!Units
<1>4. Tcp!Units(m) \in Seq(Pieces)
  BY <1>1, <1>2, <1>3
<1>5. Len(Tcp!Units(m)) = Tcp!MsgLen
  BY <1>1, <1>3, <1>4
<1> QED
  BY <1>3, <1>4, <1>5

\* A message begun puts all its units behind those of the messages before it.
LEMMA FlowGrows ==
  ASSUME Tcp!LinkAssumption, NEW s \in Seq(Pieces), NEW all \in Seq(Tcp!Messages), NEW d \in Nat,
         NEW n \in Nat,
         d + n + 1 <= Len(all), IsFlow(s, all, d, n)
  PROVE IsFlow(s \o Tcp!Units(all[d + n + 1]), all, d, n + 1)
<1> DEFINE m == all[d + n + 1]
           l == Tcp!MsgLen
           x == Tcp!Units(m)
           y == s \o x
<1>1. l \in Nat
  BY Lengths
<1>2. m \in Tcp!Messages
  OBVIOUS
<1>3. x \in Seq(Pieces) /\ Len(x) = l /\ \A u \in 1..l : x[u] = <<m, u>>
  BY <1>2, UnitsOf
<1>4. Len(s) = n * l
  BY DEF IsFlow
<1>5. \A k \in 0..n - 1, u \in 1..l : s[k * l + u] = <<all[d + 1 + k], u>>
  BY DEF IsFlow
<1> HIDE DEF x, l
<1>6. /\ Len(y) = Len(s) + Len(x)
      /\ \A i \in 1..Len(s) : y[i] = s[i]
      /\ \A i \in 1..Len(x) : y[Len(s) + i] = x[i]
  <2>1. s \in Seq(Pieces) /\ x \in Seq(Pieces)
    BY <1>3
  <2> QED
    BY <2>1, Joined
<1> HIDE DEF y
<1>7. (n + 1) * l = n * l + l
  BY <1>1
<1>8. Len(y) = (n + 1) * l
  BY <1>3, <1>4, <1>6, <1>7
<1>9. ASSUME NEW k \in 0..n, NEW u \in 1..l
      PROVE y[k * l + u] = <<all[d + 1 + k], u>>
  <2>1. CASE k = n
    <3>1. y[n * l + u] = x[u]
      BY <1>3, <1>4, <1>6
    <3>2. d + 1 + k = d + n + 1
      BY <2>1
    <3> QED
      BY <2>1, <3>1, <3>2, <1>3
  <2>2. CASE k # n
    <3>1. k \in 0..n - 1
      BY <2>2
    <3>2. k * l \in Nat /\ k * l + l <= n * l
      BY <3>1, <1>1, MessagesFit
    <3>3. n * l \in Nat
      BY <1>1
    <3> DEFINE kl == k * l
               nl == n * l
    <3>4. kl + u \in 1..nl
      <4> HIDE DEF kl, nl
      <4>1. kl \in Nat /\ nl \in Nat /\ kl + l <= nl
        BY <3>2, <3>3 DEF kl, nl
      <4> QED
        BY <4>1, <1>1
    <3>5. y[k * l + u] = s[k * l + u]
      BY <3>4, <1>4, <1>6
    <3> QED
      BY <3>1, <3>5, <1>5
  <2> QED
    BY <2>1, <2>2
<1>10. (n + 1) - 1 = n
  OBVIOUS
<1>11. IsFlow(y, all, d, n + 1)
  BY <1>8, <1>9, <1>10 DEF IsFlow, l
<1> QED
  BY <1>11 DEF y, x

\* The first MsgLen units are the message that is due; without them the flow
\* begins with the next one.
LEMMA FlowShrinks ==
  ASSUME Tcp!LinkAssumption, NEW x \in Seq(Pieces), NEW y \in Seq(Pieces), Len(x) = Tcp!MsgLen,
         NEW all \in Seq(Tcp!Messages), NEW d \in Nat, NEW n \in Nat,
         d + n <= Len(all), IsFlow(x \o y, all, d, n)
  PROVE /\ n >= 1 /\ all[d + 1] \in Tcp!Messages
        /\ x = Tcp!Units(all[d + 1])
        /\ IsFlow(y, all, d + 1, n - 1)
<1> DEFINE l == Tcp!MsgLen
           s == x \o y
<1>1. l \in Nat \ {0}
  BY Lengths
<1>2. /\ Len(s) = Len(x) + Len(y)
      /\ \A i \in 1..Len(x) : s[i] = x[i]
      /\ \A i \in 1..Len(y) : s[Len(x) + i] = y[i]
  <2>1. Len(s) = Len(x) + Len(y)
    BY Joined
  <2>2. \A i \in 1..Len(x) : s[i] = x[i]
    BY Joined
  <2>3. \A i \in 1..Len(y) : s[Len(x) + i] = y[i]
    BY Joined
  <2> QED
    BY <2>1, <2>2, <2>3
<1>3. Len(s) = n * l
  BY DEF IsFlow
<1>4. \A k \in 0..n - 1, u \in 1..l : s[k * l + u] = <<all[d + 1 + k], u>>
  BY DEF IsFlow
<1>5. Len(x) = l /\ Len(y) \in Nat
  OBVIOUS
<1> HIDE DEF l, s
<1>6. n # 0
  <2> SUFFICES ASSUME n = 0 PROVE FALSE
    OBVIOUS
  <2>1. n * l = 0
    BY <1>1
  <2> QED
    BY <2>1, <1>1, <1>2, <1>3, <1>5
<1>7. n >= 1 /\ n - 1 \in Nat /\ 0 \in 0..n - 1
  BY <1>6
<1>8. all[d + 1] \in Tcp!Messages
  <2>1. d + 1 \in 1..Len(all)
    BY <1>7
  <2> QED
    BY <2>1
<1>9. \A u \in 1..l : x[u] = <<all[d + 1], u>>
  <2> TAKE u \in 1..l
  <2>1. s[0 * l + u] = <<all[d + 1 + 0], u>>
    BY <1>4, <1>7
  <2>2. 0 * l + u = u /\ d + 1 + 0 = d + 1
    BY <1>1
  <2>3. s[u] = x[u]
    BY <1>2, <1>5
  <2> QED
    BY <2>1, <2>2, <2>3
<1>10. x = Tcp!Units(all[d + 1])
  <2>1. /\ Tcp!Units(all[d + 1]) \in Seq(Pieces) /\ Len(Tcp!Units(all[d + 1])) = l
        /\ \A u \in 1..l : Tcp!Units(all[d + 1])[u] = <<all[d + 1], u>>
    BY <1>8, UnitsOf DEF l
  <2> QED
    BY <2>1, <1>5, <1>9, SameSequence
<1>11. n * l = (n - 1) * l + l
  <2>1. n - 1 \in 0..n - 1
    BY <1>7
  <2>2. ((n - 1) + 1) * l = (n - 1) * l + l
    BY <2>1, <1>1, MessagesFit
  <2>3. (n - 1) + 1 = n
    OBVIOUS
  <2> QED
    BY <2>2, <2>3
<1>12. Len(y) = (n - 1) * l
  <2> DEFINE a == n * l
             b == (n - 1) * l
  <2>1. a = b + l /\ Len(s) = a /\ Len(s) = l + Len(y) /\ b \in Int
    <3>1. a = b + l
      BY <1>11
    <3>2. b \in Int
      BY <1>1, <1>7
    <3>3. Len(s) = a
      BY <1>3
    <3>4. Len(s) = l + Len(y)
      BY <1>2, <1>5
    <3> QED
      BY <3>1, <3>2, <3>3, <3>4
  <2> HIDE DEF a, b
  <2>2. Len(y) = b
    BY <2>1, <1>1, <1>5
  <2> QED
    BY <2>2 DEF b
<1>13. ASSUME NEW k \in 0..(n - 1) - 1, NEW u \in 1..l
       PROVE y[k * l + u] = <<all[(d + 1) + 1 + k], u>>
  <2>1. k \in 0..(n - 1) - 1 /\ n - 1 \in Nat
    BY <1>7
  <2>2. k * l \in Nat /\ k * l + l <= (n - 1) * l /\ (k + 1) * l = k * l + l
    BY <2>1, <1>1, MessagesFit
  <2>3. k + 1 \in 0..n - 1
    BY <1>7
  <2>4. s[(k + 1) * l + u] = <<all[d + 1 + (k + 1)], u>>
    BY <2>3, <1>4
  <2> DEFINE kl == k * l
             kll == (k + 1) * l
             b == (n - 1) * l
  <2>5. kl \in Nat /\ kl + l <= b /\ kll = kl + l /\ Len(y) = b
    BY <2>2, <1>12
  <2> HIDE DEF kl, kll, b
  <2>6. kl + u \in 1..Len(y) /\ Len(x) + (kl + u) = kll + u
    BY <2>5, <1>1, <1>5
  <2>7. s[kll + u] = y[kl + u]
    BY <2>6, <1>2
  <2>8. d + 1 + (k + 1) = (d + 1) + 1 + k
    OBVIOUS
  <2> QED
    BY <2>4, <2>7, <2>8 DEF kl, kll
<1>14. IsFlow(y, all, d + 1, n - 1)
  BY <1>12, <1>13 DEF IsFlow, l
<1> QED
  BY <1>7, <1>8, <1>10, <1>14

\* A message accepted at the end of all changes nothing in the flow.
LEMMA FlowKeeps ==
  ASSUME NEW s, NEW all \in Seq(Tcp!Messages), NEW m \in Tcp!Messages, NEW d \in Nat, NEW n \in Nat,
         d + n <= Len(all), IsFlow(s, all, d, n)
  PROVE IsFlow(s, Append(all, m), d, n)
<1>1. \A i \in 1..Len(all) : Append(all, m)[i] = all[i]
  OBVIOUS
<1>2. \A k \in 0..n - 1 : d + 1 + k \in 1..Len(all)
  OBVIOUS
<1>3. \A k \in 0..n - 1 : Append(all, m)[d + 1 + k] = all[d + 1 + k]
  BY <1>1, <1>2
<1> QED
  BY <1>3 DEF IsFlow

\* All that a request handler is called with is the message of the units.
LEMMA AssembledIs ==
  ASSUME Tcp!LinkAssumption, NEW m \in Tcp!Messages
  PROVE Tcp!Assembled(Tcp!Units(m)) = m
<1>1. 1 \in 1..Tcp!MsgLen
  BY Lengths
<1>2. Tcp!Units(m)[1] = <<m, 1>>
  BY <1>1, UnitsOf
<1>3. Tcp!Units(m)[1][1] = m
  BY <1>2
<1> QED
  BY <1>3 DEF Tcp!Assembled

-----------------------------------------------------------------------------
(* Types.                                                                  *)

\* How many units a receive may take.
LEMMA LeastIs ==
  ASSUME NEW x \in Nat, NEW y \in Nat
  PROVE Tcp!Least(x, y) \in 0..x /\ Tcp!Least(x, y) \in 0..y
BY DEF Tcp!Least

\* What of a message a worker takes from its socket.
LEMMA TakenIs ==
  ASSUME LinkTypes, NEW e \in Ends, NEW full \in Nat, Len(got[e]) <= full
  PROVE LET k == Tcp!Least(full - Len(got[e]), Len(wire[e]))
        IN  /\ k \in 0..Len(wire[e]) /\ k <= full - Len(got[e])
            /\ got[e] \o SubSeq(wire[e], 1, k) \in Seq(Pieces)
            /\ Len(got[e] \o SubSeq(wire[e], 1, k)) = Len(got[e]) + k
            /\ SubSeq(wire[e], k + 1, Len(wire[e])) \in Seq(Pieces)
<1> DEFINE k == Tcp!Least(full - Len(got[e]), Len(wire[e]))
<1>1. got[e] \in Seq(Pieces) /\ wire[e] \in Seq(Pieces)
  BY DEF LinkTypes
<1>2. full - Len(got[e]) \in Nat /\ Len(wire[e]) \in Nat
  BY <1>1
<1>3. k \in 0..Len(wire[e]) /\ k <= full - Len(got[e])
  <2> DEFINE x == full - Len(got[e])
             y == Len(wire[e])
  <2>1. x \in Nat /\ y \in Nat
    BY <1>2
  <2> HIDE DEF x, y
  <2>2. Tcp!Least(x, y) \in 0..x /\ Tcp!Least(x, y) \in 0..y
    BY <2>1, LeastIs
  <2>3. k = Tcp!Least(x, y)
    BY DEF x, y
  <2>4. k \in 0..y /\ k <= x
    BY <2>1, <2>2, <2>3
  <2> QED
    BY <2>4 DEF x, y
<1> HIDE DEF k
<1>4. /\ SubSeq(wire[e], 1, k) \in Seq(Pieces) /\ Len(SubSeq(wire[e], 1, k)) = k
      /\ SubSeq(wire[e], k + 1, Len(wire[e])) \in Seq(Pieces)
  BY <1>1, <1>3, Cut
<1>5. /\ got[e] \o SubSeq(wire[e], 1, k) \in Seq(Pieces)
      /\ Len(got[e] \o SubSeq(wire[e], 1, k)) = Len(got[e]) + k
  BY <1>1, <1>4, Joined
<1> QED
  BY <1>3, <1>4, <1>5 DEF k

\* A link is ready or not.
LEMMA WakeTypes ==
  ASSUME LinkTypes, NEW S, Tcp!Wake(S)
  PROVE ready' \in [Ends -> BOOLEAN]
<1>1. ready \in [Ends -> BOOLEAN]
  BY DEF LinkTypes
<1> QED
  BY <1>1 DEF Tcp!Wake

\* The registration of a link is one of two.
LEMMA ModifyTypes ==
  ASSUME LinkTypes, NEW e \in Ends, NEW S, NEW events \in {"inout", "wrnorm"},
         Tcp!ModifyLink(e, events, S)
  PROVE /\ mask' \in [Ends -> {"inout", "wrnorm"}] /\ ready' \in [Ends -> BOOLEAN]
        /\ added' = added
        /\ \A p \in Ends : mask'[p] \in {mask[p], events} /\ (p # e => mask'[p] = mask[p])
<1>1. mask \in [Ends -> {"inout", "wrnorm"}]
  BY DEF LinkTypes
<1>2. ready' \in [Ends -> BOOLEAN]
  BY WakeTypes DEF Tcp!ModifyLink
<1>3. added' = added /\ mask' = IF added[e] THEN [mask EXCEPT ![e] = events] ELSE mask
  BY DEF Tcp!ModifyLink
<1> QED
  BY <1>1, <1>2, <1>3

\* The worker is done with an event.
LEMMA RearmTypes ==
  ASSUME LinkTypes, NEW e \in Ends, NEW S, Tcp!Rearm(e, S)
  PROVE /\ mask' \in [Ends -> {"inout", "wrnorm"}] /\ ready' \in [Ends -> BOOLEAN]
        /\ added' = added
        /\ \A p \in Ends : mask'[p] \in {mask[p], "inout"}
        /\ pc' = [pc EXCEPT ![e] = "poll"]
<1>1. Tcp!ModifyLink(e, "inout", S) /\ pc' = [pc EXCEPT ![e] = "poll"]
  BY DEF Tcp!Rearm, Tcp!Move
<1>2. "inout" \in {"inout", "wrnorm"}
  OBVIOUS
<1> QED
  BY <1>1, <1>2, ModifyTypes

\* The calls of a thread keep to their types.
LEMMA ThreadTypes ==
  ASSUME Tcp!LinkAssumption, LinkTypes, Calling, NEW t \in Threads, Tcp!NonBlockSend(t) \/ Tcp!Send(t)
  PROVE LinkTypes'
<1> DEFINE e == EndOf[t]
<1>1. e \in Ends
  BY DEF Tcp!LinkAssumption
<1>2. CASE Tcp!NonBlockSend(t)
  <2>1. sends[t] + 1 \in 0..MaxSends
    BY <1>2 DEF Tcp!NonBlockSend, LinkTypes, Tcp!LinkAssumption
  <2>2. sends' \in [Threads -> 0..MaxSends]
    BY <1>2, <2>1 DEF Tcp!NonBlockSend, LinkTypes
  <2>3. caller' \in [Threads -> {"out", "enqueue", "modify"}]
    BY <1>2 DEF Tcp!NonBlockSend, LinkTypes, Tcp!Goto
  <2>4. UNCHANGED <<Tcp!ends, Tcp!epoll, Tcp!worker, Tcp!sockets, Tcp!told>>
    BY <1>2 DEF Tcp!NonBlockSend
  <2> QED
    BY <2>2, <2>3, <2>4 DEF LinkTypes, Tcp!ends, Tcp!epoll, Tcp!worker, Tcp!sockets, Tcp!told
<1>3. CASE Tcp!EnqueueBack(t)
  <2> DEFINE m == <<t, sends[t]>>
  <2>1. UNCHANGED <<established, Tcp!epoll, Tcp!worker, Tcp!sockets, sends, delivered, reported>>
    BY <1>3 DEF Tcp!EnqueueBack
  <2>2. caller' \in [Threads -> {"out", "enqueue", "modify"}]
    <3>1. caller' = [caller EXCEPT ![t] = "out"] \/ caller' = [caller EXCEPT ![t] = "modify"]
      BY <1>3 DEF Tcp!EnqueueBack, Tcp!Goto
    <3> QED
      BY <3>1 DEF LinkTypes
  <2>3. CASE Len(queue[e]) >= Cap
    <3>1. UNCHANGED <<queue, accepted>>
      BY <1>3, <2>3 DEF Tcp!EnqueueBack
    <3> QED
      BY <2>1, <2>2, <3>1 DEF LinkTypes, Tcp!epoll, Tcp!worker, Tcp!sockets
  <2>4. CASE ~(Len(queue[e]) >= Cap)
    <3>1. queue' = [queue EXCEPT ![e] = Append(@, m)]
          /\ accepted' = [accepted EXCEPT ![e] = Append(@, m)]
      BY <1>3, <2>4 DEF Tcp!EnqueueBack
    <3>2. m \in Tcp!Messages
      <4>1. caller[t] = "enqueue" /\ sends[t] > 0 /\ sends[t] \in 0..MaxSends
        BY <1>3 DEF Tcp!EnqueueBack, Calling, LinkTypes
      <4>2. sends[t] \in 1..MaxSends
        BY <4>1
      <4> QED
        BY <4>2 DEF Tcp!Messages
    <3>3. Append(queue[e], m) \in Seq(Tcp!Messages) /\ Append(accepted[e], m) \in Seq(Tcp!Messages)
      <4>1. queue[e] \in Seq(Tcp!Messages) /\ accepted[e] \in Seq(Tcp!Messages)
        BY <1>1 DEF LinkTypes
      <4> QED
        BY <4>1, <3>2
    <3>4. queue' \in [Ends -> Seq(Tcp!Messages)] /\ accepted' \in [Ends -> Seq(Tcp!Messages)]
      BY <3>1, <3>3 DEF LinkTypes
    <3> QED
      BY <2>1, <2>2, <3>4 DEF LinkTypes, Tcp!epoll, Tcp!worker, Tcp!sockets
  <2> QED
    BY <2>3, <2>4
<1>4. CASE Tcp!EnqueueAndModifyEpoll(t)
  <2>1. mask' \in [Ends -> {"inout", "wrnorm"}] /\ ready' \in [Ends -> BOOLEAN] /\ added' = added
    <3>1. Tcp!ModifyLink(e, "inout", {}) /\ "inout" \in {"inout", "wrnorm"}
      BY <1>4 DEF Tcp!EnqueueAndModifyEpoll
    <3> QED
      BY <3>1, <1>1, ModifyTypes
  <2>2. caller' \in [Threads -> {"out", "enqueue", "modify"}]
    BY <1>4 DEF Tcp!EnqueueAndModifyEpoll, LinkTypes, Tcp!Goto
  <2>3. UNCHANGED <<Tcp!ends, Tcp!worker, Tcp!sockets, sends, Tcp!told>>
    BY <1>4 DEF Tcp!EnqueueAndModifyEpoll
  <2> QED
    BY <2>1, <2>2, <2>3 DEF LinkTypes, Tcp!ends, Tcp!worker, Tcp!sockets, Tcp!told
<1> QED
  BY <1>2, <1>3, <1>4 DEF Tcp!Send

-----------------------------------------------------------------------------
(* What receiving and sending do to the stream.                            *)

\* Of a messages accepted, q wait and h were handed up: the others are begun.
LEMMA BegunIs ==
  ASSUME NEW a \in Nat, NEW q \in Nat, NEW h \in Nat
  PROVE /\ h + q <= a => a - q - h \in Nat /\ h + (a - q - h) <= a
        /\ a - q - h >= 1 => h + 1 <= a - q
OBVIOUS

\* The stream and its parts are sequences of units.
LEMMA StreamTypes ==
  ASSUME Tcp!LinkAssumption, LinkTypes, NEW e \in Ends
  PROVE /\ got[Tcp!Peer(e)] \in Seq(Pieces) /\ wire[Tcp!Peer(e)] \in Seq(Pieces)
        /\ writing[e] \in Seq(Pieces) /\ Stream(e) \in Seq(Pieces)
        /\ queue[e] \in Seq(Tcp!Messages) /\ accepted[e] \in Seq(Tcp!Messages)
        /\ delivered[Tcp!Peer(e)] \in Seq(Tcp!Messages)
        /\ HandedUp(e) \in Nat /\ Len(queue[e]) \in Nat /\ Len(accepted[e]) \in Nat
        /\ QueueIs(e) => Begun(e) \in Nat /\ HandedUp(e) + Begun(e) <= Len(accepted[e])
<1>1. Tcp!Peer(e) \in Ends
  BY Peers
<1>2. got[Tcp!Peer(e)] \in Seq(Pieces) /\ wire[Tcp!Peer(e)] \in Seq(Pieces) /\ writing[e] \in Seq(Pieces)
  BY <1>1 DEF LinkTypes
<1>3. /\ queue[e] \in Seq(Tcp!Messages) /\ accepted[e] \in Seq(Tcp!Messages)
      /\ delivered[Tcp!Peer(e)] \in Seq(Tcp!Messages)
  BY <1>1 DEF LinkTypes
<1>4. got[Tcp!Peer(e)] \o wire[Tcp!Peer(e)] \in Seq(Pieces)
  BY <1>2
<1>5. Stream(e) \in Seq(Pieces)
  BY <1>2, <1>4 DEF Stream
<1>6. HandedUp(e) \in Nat /\ Len(queue[e]) \in Nat /\ Len(accepted[e]) \in Nat
  BY <1>3 DEF HandedUp
<1>7. ASSUME QueueIs(e)
      PROVE Begun(e) \in Nat /\ HandedUp(e) + Begun(e) <= Len(accepted[e])
  <2>1. HandedUp(e) + Len(queue[e]) <= Len(accepted[e])
    BY <1>7 DEF QueueIs, IsOrder, HandedUp
  <2> QED
    BY <2>1, <1>6, BegunIs DEF Begun
<1> QED
  BY <1>2, <1>3, <1>5, <1>6, <1>7

\* What stays of the wire when a worker has taken up to full units of a message.
Taken(e, full) == Tcp!Least(full - Len(got[e]), Len(wire[e]))
Held(e, full) == got[e] \o SubSeq(wire[e], 1, Taken(e, full))
Left(e, full) == SubSeq(wire[e], Taken(e, full) + 1, Len(wire[e]))

\* A worker takes units in order, and leaves the others in order.
LEMMA TakeKeeps ==
  ASSUME LinkTypes, NEW e \in Ends, NEW full \in Nat, Len(got[e]) <= full
  PROVE /\ Held(e, full) \in Seq(Pieces) /\ Left(e, full) \in Seq(Pieces)
        /\ Len(Held(e, full)) <= full
        /\ Held(e, full) \o Left(e, full) = got[e] \o wire[e]
<1> DEFINE k == Taken(e, full)
<1>1. got[e] \in Seq(Pieces) /\ wire[e] \in Seq(Pieces)
  BY DEF LinkTypes
<1>2. /\ k \in 0..Len(wire[e]) /\ k <= full - Len(got[e])
      /\ got[e] \o SubSeq(wire[e], 1, k) \in Seq(Pieces)
      /\ Len(got[e] \o SubSeq(wire[e], 1, k)) = Len(got[e]) + k
      /\ SubSeq(wire[e], k + 1, Len(wire[e])) \in Seq(Pieces)
  BY TakenIs DEF Taken
<1> HIDE DEF k
<1>3. (got[e] \o SubSeq(wire[e], 1, k)) \o SubSeq(wire[e], k + 1, Len(wire[e])) = got[e] \o wire[e]
  BY <1>1, <1>2, MovesOver
<1>4. Len(got[e]) + k <= full
  BY <1>1, <1>2
<1> QED
  BY <1>2, <1>3, <1>4 DEF Held, Left, k

\* A part of the header received.
LEMMA RecvHeaderSays ==
  ASSUME Tcp!LinkAssumption, LinkTypes, NEW e \in Ends, GotIs(e), Tcp!RecvHeader(e)
  PROVE /\ Held(e, HeaderLen) \in Seq(Pieces) /\ Left(e, HeaderLen) \in Seq(Pieces)
        /\ Len(Held(e, HeaderLen)) <= HeaderLen
        /\ Held(e, HeaderLen) \o Left(e, HeaderLen) = got[e] \o wire[e]
        /\ got' = [got EXCEPT ![e] = Held(e, HeaderLen)]
        /\ wire' = [wire EXCEPT ![e] = Left(e, HeaderLen)]
        /\ \/ pc' = [pc EXCEPT ![e] = "body"]
           \/ pc' = [pc EXCEPT ![e] = "poll"]
        /\ mask' \in [Ends -> {"inout", "wrnorm"}] /\ ready' \in [Ends -> BOOLEAN]
        /\ added' = added
        /\ \A p \in Ends : mask'[p] \in {mask[p], "inout"}
        /\ UNCHANGED <<Tcp!ends, writing, errno, gone, Tcp!threads, Tcp!told>>
<1>1. Len(got[e]) <= HeaderLen /\ HeaderLen \in Nat
  <2>1. Len(got[e]) < HeaderLen
    BY DEF Tcp!RecvHeader, GotIs
  <2>2. Len(got[e]) \in Nat
    BY DEF LinkTypes
  <2> QED
    BY <2>1, <2>2, Lengths
<1>2. /\ Held(e, HeaderLen) \in Seq(Pieces) /\ Left(e, HeaderLen) \in Seq(Pieces)
      /\ Len(Held(e, HeaderLen)) <= HeaderLen
      /\ Held(e, HeaderLen) \o Left(e, HeaderLen) = got[e] \o wire[e]
  BY <1>1, TakeKeeps
<1>3. /\ got' = [got EXCEPT ![e] = Held(e, HeaderLen)]
      /\ wire' = [wire EXCEPT ![e] = Left(e, HeaderLen)]
      /\ UNCHANGED <<Tcp!ends, writing, errno, gone, Tcp!threads, Tcp!told>>
  BY DEF Tcp!RecvHeader, Tcp!Take, Held, Left, Taken
<1>4. \/ Tcp!Move(e, "body") /\ Tcp!Wake(Tcp!Unblocked(e)) /\ UNCHANGED <<added, mask>>
      \/ Tcp!Rearm(e, Tcp!Unblocked(e))
  BY DEF Tcp!RecvHeader
<1>5. CASE Tcp!Move(e, "body") /\ Tcp!Wake(Tcp!Unblocked(e)) /\ UNCHANGED <<added, mask>>
  <2>1. ready' \in [Ends -> BOOLEAN]
    BY <1>5, WakeTypes
  <2>2. mask' = mask /\ added' = added /\ pc' = [pc EXCEPT ![e] = "body"]
    BY <1>5 DEF Tcp!Move
  <2>3. mask' \in [Ends -> {"inout", "wrnorm"}]
    BY <2>2 DEF LinkTypes
  <2> QED
    BY <1>2, <1>3, <2>1, <2>2, <2>3
<1>6. CASE Tcp!Rearm(e, Tcp!Unblocked(e))
  <2>1. /\ mask' \in [Ends -> {"inout", "wrnorm"}] /\ ready' \in [Ends -> BOOLEAN]
        /\ added' = added
        /\ \A p \in Ends : mask'[p] \in {mask[p], "inout"}
        /\ pc' = [pc EXCEPT ![e] = "poll"]
    BY <1>6, RearmTypes
  <2> QED
    BY <1>2, <1>3, <2>1
<1> QED
  BY <1>4, <1>5, <1>6

\* A part of the body received, or all that is left of it: then it is the
\* message that is due.
LEMMA RecvBodySays ==
  ASSUME Tcp!LinkAssumption, LinkIInv, NEW e \in Ends, Tcp!RecvBody(e)
  PROVE LET f == Tcp!Peer(e) IN
        /\ e \notin gone
        /\ Held(e, Tcp!MsgLen) \in Seq(Pieces) /\ Left(e, Tcp!MsgLen) \in Seq(Pieces)
        /\ Held(e, Tcp!MsgLen) \o Left(e, Tcp!MsgLen) = got[e] \o wire[e]
        /\ wire' = [wire EXCEPT ![e] = Left(e, Tcp!MsgLen)]
        /\ pc' = [pc EXCEPT ![e] = "poll"]
        /\ mask' \in [Ends -> {"inout", "wrnorm"}] /\ ready' \in [Ends -> BOOLEAN]
        /\ added' = added
        /\ \A p \in Ends : mask'[p] \in {mask[p], "inout"}
        /\ UNCHANGED <<Tcp!ends, writing, errno, gone, Tcp!threads, accepted, reported>>
        /\ \/ /\ got' = [got EXCEPT ![e] = Held(e, Tcp!MsgLen)] /\ delivered' = delivered
              /\ Len(Held(e, Tcp!MsgLen)) < Tcp!MsgLen
           \/ /\ got' = [got EXCEPT ![e] = <<>>]
              /\ HandedUp(f) + 1 <= Len(accepted[f]) - Len(queue[f])
              /\ accepted[f][HandedUp(f) + 1] \in Tcp!Messages
              /\ delivered' = [delivered EXCEPT ![e] = Append(@, accepted[f][HandedUp(f) + 1])]
              /\ IsFlow(Left(e, Tcp!MsgLen) \o writing[f], accepted[f], HandedUp(f) + 1, Begun(f) - 1)
<1> DEFINE f == Tcp!Peer(e)
           x == Held(e, Tcp!MsgLen)
           y == Left(e, Tcp!MsgLen)
<1>1. LinkTypes /\ GotIs(e)
  BY DEF LinkIInv
<1>2. f \in Ends /\ Tcp!Peer(f) = e
  BY Peers
<1>3. e \notin gone
  BY DEF Tcp!RecvBody
<1>4. QueueIs(f) /\ IsFlow(Stream(f), accepted[f], HandedUp(f), Begun(f))
  BY <1>2, <1>3 DEF LinkIInv, StreamIs
<1>5. Len(got[e]) <= Tcp!MsgLen /\ Tcp!MsgLen \in Nat
  <2>1. Len(got[e]) \in Nat /\ Len(got[e]) < Tcp!MsgLen
    BY <1>1 DEF LinkTypes, GotIs
  <2> QED
    BY <2>1, Lengths
<1>6. x \in Seq(Pieces) /\ y \in Seq(Pieces) /\ Len(x) <= Tcp!MsgLen /\ x \o y = got[e] \o wire[e]
  BY <1>1, <1>5, TakeKeeps
<1>7. /\ wire' = [wire EXCEPT ![e] = y]
      /\ Tcp!Rearm(e, Tcp!Unblocked(e))
      /\ UNCHANGED <<Tcp!ends, writing, errno, gone, Tcp!threads, accepted, reported>>
  BY DEF Tcp!RecvBody, Tcp!Take, Left, Taken
<1>8. /\ mask' \in [Ends -> {"inout", "wrnorm"}] /\ ready' \in [Ends -> BOOLEAN]
      /\ added' = added
      /\ \A p \in Ends : mask'[p] \in {mask[p], "inout"}
      /\ pc' = [pc EXCEPT ![e] = "poll"]
  BY <1>1, <1>7, RearmTypes
<1>9. IF Len(x) = Tcp!MsgLen
      THEN /\ got' = [got EXCEPT ![e] = <<>>]
           /\ delivered' = [delivered EXCEPT ![e] = Append(@, Tcp!Assembled(x))]
      ELSE got' = [got EXCEPT ![e] = x] /\ delivered' = delivered
  BY DEF Tcp!RecvBody, Held, Taken
<1>10. CASE Len(x) # Tcp!MsgLen
  <2>1. Len(x) < Tcp!MsgLen
    BY <1>5, <1>6, <1>10
  <2>2. got' = [got EXCEPT ![e] = x] /\ delivered' = delivered
    BY <1>9, <1>10
  <2> QED
    BY <1>3, <1>6, <1>7, <1>8, <2>1, <2>2
<1>11. CASE Len(x) = Tcp!MsgLen
  <2> DEFINE d == HandedUp(f)
             n == Begun(f)
             all == accepted[f]
             w == writing[f]
  <2>1. /\ w \in Seq(Pieces) /\ all \in Seq(Tcp!Messages) /\ d \in Nat /\ n \in Nat /\ d + n <= Len(all)
        /\ Len(queue[f]) \in Nat /\ Len(all) \in Nat
    BY <1>1, <1>2, <1>4, StreamTypes
  <2>2. Stream(f) = x \o (y \o w)
    <3>1. Stream(f) = (x \o y) \o w
      BY <1>2, <1>6 DEF Stream
    <3>2. x \in Seq(Pieces) /\ y \in Seq(Pieces) /\ w \in Seq(Pieces)
      <4>1. w \in Seq(Pieces)
        BY ONLY <2>1
      <4>2. x \in Seq(Pieces) /\ y \in Seq(Pieces)
        BY ONLY <1>6
      <4> QED BY ONLY <4>1, <4>2
    <3> HIDE DEF x, y, w
    <3>3. (x \o y) \o w = x \o (y \o w)
      BY ONLY <3>2, ConcatAssociative
    <3> QED
      BY <3>1, <3>3
  <2>3. y \o w \in Seq(Pieces)
    BY <1>6, <2>1
  <2>4. IsFlow(x \o (y \o w), all, d, n)
    BY <1>4, <2>2
  <2> HIDE DEF x, y, w, d, n, all
  <2>5. /\ n >= 1 /\ all[d + 1] \in Tcp!Messages
        /\ x = Tcp!Units(all[d + 1])
        /\ IsFlow(y \o w, all, d + 1, n - 1)
    <3> DEFINE z == y \o w
    <3>1. z \in Seq(Pieces) /\ IsFlow(x \o z, all, d, n)
      BY <2>3, <2>4
    <3> HIDE DEF z
    <3>2. /\ n >= 1 /\ all[d + 1] \in Tcp!Messages
          /\ x = Tcp!Units(all[d + 1])
          /\ IsFlow(z, all, d + 1, n - 1)
      BY <3>1, <1>6, <1>11, <2>1, FlowShrinks
    <3> QED
      BY <3>2 DEF z
  <2>6. Tcp!Assembled(x) = all[d + 1]
    BY <2>5, AssembledIs
  <2>7. d + 1 <= Len(all) - Len(queue[f])
    <3>1. n = Len(all) - Len(queue[f]) - d
      BY DEF n, all, d, Begun
    <3>2. Len(all) - Len(queue[f]) - d >= 1
      BY <3>1, <2>5
    <3> QED
      BY <3>2, <2>1, BegunIs
  <2>8. got' = [got EXCEPT ![e] = <<>>] /\ delivered' = [delivered EXCEPT ![e] = Append(@, all[d + 1])]
    BY <1>9, <1>11, <2>6
  <2> QED
    BY <1>3, <1>6, <1>7, <1>8, <2>5, <2>7, <2>8 DEF x, y, w, d, n, all
<1> QED
  BY <1>10, <1>11

\* A worker puts the first k units it is writing on the wire; it is done with
\* the message when no unit is left.
LEMMA WriteSays ==
  ASSUME Tcp!LinkAssumption, LinkTypes, NEW e \in Ends, NEW k \in 1..SockCap, Tcp!Write(e, k)
  PROVE LET p == Tcp!Peer(e)
            w == SubSeq(writing[e], k + 1, Len(writing[e]))
            x == wire[p] \o SubSeq(writing[e], 1, k)
        IN  /\ p \notin gone /\ pc[e] = "write"
            /\ w \in Seq(Pieces) /\ x \in Seq(Pieces)
            /\ x \o w = wire[p] \o writing[e]
            /\ wire' = [wire EXCEPT ![p] = x]
            /\ writing' = [writing EXCEPT ![e] = w]
            /\ mask' \in [Ends -> {"inout", "wrnorm"}] /\ ready' \in [Ends -> BOOLEAN]
            /\ added' = added
            /\ \A q \in Ends : mask'[q] \in {mask[q], "inout"}
            /\ \/ pc' = pc
               \/ pc' = [pc EXCEPT ![e] = "poll"] /\ w = <<>>
            /\ UNCHANGED <<Tcp!ends, got, errno, gone, Tcp!threads, Tcp!told>>
<1> DEFINE p == Tcp!Peer(e)
           r == writing[e]
           w == SubSeq(r, k + 1, Len(r))
           x == wire[p] \o SubSeq(r, 1, k)
<1>1. p \in Ends
  BY Peers
<1>2. r \in Seq(Pieces) /\ wire[p] \in Seq(Pieces)
  BY <1>1 DEF LinkTypes
<1>3. k \in 0..Len(r)
  <2>1. k <= Tcp!Least(Len(r), SockCap - Len(wire[p]))
    BY DEF Tcp!Write
  <2>2. Len(r) \in Nat /\ SockCap - Len(wire[p]) \in Int /\ k \in Nat
    BY <1>2, Lengths
  <2>3. Tcp!Least(Len(r), SockCap - Len(wire[p])) <= Len(r)
    BY <2>2 DEF Tcp!Least
  <2>4. Tcp!Least(Len(r), SockCap - Len(wire[p])) \in Int
    BY <2>2 DEF Tcp!Least
  <2> QED
    BY <2>1, <2>2, <2>3, <2>4
<1>4. /\ p \notin gone /\ pc[e] = "write"
      /\ wire' = [wire EXCEPT ![p] = x]
      /\ writing' = [writing EXCEPT ![e] = w]
      /\ UNCHANGED <<Tcp!ends, got, errno, gone, Tcp!threads, Tcp!told>>
      /\ IF k < Len(r)
         THEN Tcp!Wake({p}) /\ UNCHANGED <<pc, added, mask>>
         ELSE Tcp!Rearm(e, {p})
  BY DEF Tcp!Write
<1> HIDE DEF r, p
<1>5. /\ SubSeq(r, 1, k) \in Seq(Pieces)
      /\ w \in Seq(Pieces) /\ Len(w) = Len(r) - k
  BY <1>2, <1>3, Cut
<1>6. x \in Seq(Pieces)
  <2> DEFINE z == SubSeq(r, 1, k)
  <2>1. z \in Seq(Pieces)
    BY <1>5
  <2> HIDE DEF z
  <2>2. wire[p] \o z \in Seq(Pieces)
    BY <2>1, <1>2
  <2> QED
    BY <2>2 DEF z
<1>7. x \o w = wire[p] \o r
  <2> DEFINE v == wire[p]
  <2>1. v \in Seq(Pieces)
    BY <1>2
  <2> HIDE DEF v
  <2>2. (v \o SubSeq(r, 1, k)) \o SubSeq(r, k + 1, Len(r)) = v \o r
    BY <2>1, <1>2, <1>3, MovesOver
  <2> QED
    BY <2>2 DEF v
<1>8. CASE k < Len(r)
  <2>1. Tcp!Wake({p}) /\ UNCHANGED <<pc, added, mask>>
    BY <1>4, <1>8
  <2>2. ready' \in [Ends -> BOOLEAN]
    BY <2>1, WakeTypes
  <2>3. mask' \in [Ends -> {"inout", "wrnorm"}]
    BY <2>1 DEF LinkTypes
  <2> HIDE DEF x, w
  <2> QED
    BY <1>4, <1>5, <1>6, <1>7, <2>1, <2>2, <2>3 DEF x, w, r, p
<1>9. CASE ~(k < Len(r))
  <2>1. Tcp!Rearm(e, {p})
    BY <1>4, <1>9
  <2>2. /\ mask' \in [Ends -> {"inout", "wrnorm"}] /\ ready' \in [Ends -> BOOLEAN]
        /\ added' = added
        /\ \A q \in Ends : mask'[q] \in {mask[q], "inout"}
        /\ pc' = [pc EXCEPT ![e] = "poll"]
    BY <2>1, RearmTypes
  <2>3. Len(w) = 0
    BY <1>2, <1>3, <1>5, <1>9
  <2> HIDE DEF x, w
  <2>4. w = <<>>
    BY <1>5, <2>3
  <2> QED
    BY <1>4, <1>5, <1>6, <1>7, <2>2, <2>4 DEF x, w, r, p
<1> QED
  BY <1>8, <1>9

\* A worker with room to send takes the first message off its queue, if there
\* is one.
LEMMA PollOutSays ==
  ASSUME LinkTypes, NEW e \in Ends, Tcp!PollOut(e)
  PROVE /\ pc[e] = "poll" /\ mask[e] = "inout" /\ ready' \in [Ends -> BOOLEAN]
        /\ UNCHANGED <<established, added, mask, got, errno, Tcp!sockets, Tcp!threads, Tcp!told>>
        /\ \/ UNCHANGED <<queue, pc, writing>>
           \/ /\ Len(queue[e]) >= 1 /\ queue[e][1] \in Tcp!Messages
              /\ Tail(queue[e]) \in Seq(Tcp!Messages)
              /\ queue' = [queue EXCEPT ![e] = Tail(@)]
              /\ writing' = [writing EXCEPT ![e] = Tcp!Units(queue[e][1])]
              /\ pc' = [pc EXCEPT ![e] = "write"]
<1>1. /\ pc[e] = "poll" /\ mask[e] = "inout"
      /\ ready' = [ready EXCEPT ![e] = FALSE]
      /\ UNCHANGED <<established, added, mask, got, errno, Tcp!sockets, Tcp!threads, Tcp!told>>
      /\ IF queue[e] = <<>>
         THEN UNCHANGED <<queue, pc, writing>>
         ELSE /\ queue' = [queue EXCEPT ![e] = Tail(@)]
              /\ writing' = [writing EXCEPT ![e] = Tcp!Units(Head(queue[e]))]
              /\ pc' = [pc EXCEPT ![e] = "write"]
  BY DEF Tcp!PollOut, Tcp!AtPoll, Tcp!Move
<1>2. ready' \in [Ends -> BOOLEAN]
  BY <1>1 DEF LinkTypes
<1>3. CASE queue[e] # <<>>
  <2>1. queue[e] \in Seq(Tcp!Messages)
    BY DEF LinkTypes
  <2>2. Len(queue[e]) >= 1 /\ Head(queue[e]) = queue[e][1]
    BY <2>1, <1>3
  <2>3. queue[e][1] \in Tcp!Messages
    BY <2>1, <2>2
  <2>4. Tail(queue[e]) \in Seq(Tcp!Messages)
    BY <2>1, <1>3
  <2> QED
    BY <1>1, <1>2, <1>3, <2>2, <2>3, <2>4
<1> QED
  BY <1>1, <1>2, <1>3

\* What the handlers of events and the end of a process leave the variables
\* with.
LEMMA EventTypes ==
  ASSUME Tcp!LinkAssumption, LinkIInv, NEW e \in Ends,
         Tcp!Event(e) \/ Tcp!RecvTimesOut(e) \/ Tcp!Exit(e)
  PROVE LinkTypes'
<1>1. LinkTypes /\ GotIs(e)
  BY DEF LinkIInv
<1>2. CASE Tcp!PollIn(e)
  BY <1>1, <1>2 DEF LinkTypes, Tcp!PollIn, Tcp!Move, Tcp!ends, Tcp!sockets, Tcp!threads, Tcp!told
<1>3. CASE Tcp!PollOut(e)
  <2>1. /\ ready' \in [Ends -> BOOLEAN]
        /\ UNCHANGED <<established, added, mask, got, errno, Tcp!sockets, Tcp!threads, Tcp!told>>
        /\ \/ UNCHANGED <<queue, pc, writing>>
           \/ /\ queue[e][1] \in Tcp!Messages
              /\ Tail(queue[e]) \in Seq(Tcp!Messages)
              /\ queue' = [queue EXCEPT ![e] = Tail(@)]
              /\ writing' = [writing EXCEPT ![e] = Tcp!Units(queue[e][1])]
              /\ pc' = [pc EXCEPT ![e] = "write"]
    BY <1>1, <1>3, PollOutSays
  <2>2. CASE UNCHANGED <<queue, pc, writing>>
    BY <1>1, <2>1, <2>2 DEF LinkTypes, Tcp!sockets, Tcp!threads, Tcp!told
  <2>3. CASE /\ queue[e][1] \in Tcp!Messages
             /\ Tail(queue[e]) \in Seq(Tcp!Messages)
             /\ queue' = [queue EXCEPT ![e] = Tail(@)]
             /\ writing' = [writing EXCEPT ![e] = Tcp!Units(queue[e][1])]
             /\ pc' = [pc EXCEPT ![e] = "write"]
    <3>1. Tcp!Units(queue[e][1]) \in Seq(Pieces)
      BY <2>3, UnitsOf
    <3>2. writing' \in [Ends -> Seq(Pieces)]
      BY <1>1, <2>3, <3>1 DEF LinkTypes
    <3>3. queue' \in [Ends -> Seq(Tcp!Messages)]
      BY <1>1, <2>3 DEF LinkTypes
    <3>4. pc' \in [Ends -> {"poll", "header", "body", "write", "break", "cleanup", "remove"}]
      BY <1>1, <2>3 DEF LinkTypes
    <3> QED
      BY <1>1, <2>1, <3>2, <3>3, <3>4 DEF LinkTypes, Tcp!sockets, Tcp!threads, Tcp!told
  <2> QED
    BY <2>1, <2>2, <2>3
<1>4. CASE Tcp!PollNothing(e)
  BY <1>1, <1>4 DEF LinkTypes, Tcp!PollNothing, Tcp!ends, Tcp!worker, Tcp!sockets, Tcp!threads,
       Tcp!told
<1>5. CASE Tcp!PollError(e)
  BY <1>1, <1>5 DEF LinkTypes, Tcp!PollError, Tcp!Move, Tcp!ends, Tcp!sockets, Tcp!threads, Tcp!told
<1>6. CASE Tcp!RecvHeader(e)
  <2>1. /\ Held(e, HeaderLen) \in Seq(Pieces) /\ Left(e, HeaderLen) \in Seq(Pieces)
        /\ got' = [got EXCEPT ![e] = Held(e, HeaderLen)]
        /\ wire' = [wire EXCEPT ![e] = Left(e, HeaderLen)]
        /\ \/ pc' = [pc EXCEPT ![e] = "body"]
           \/ pc' = [pc EXCEPT ![e] = "poll"]
        /\ mask' \in [Ends -> {"inout", "wrnorm"}] /\ ready' \in [Ends -> BOOLEAN]
        /\ added' = added
        /\ UNCHANGED <<Tcp!ends, writing, errno, gone, Tcp!threads, Tcp!told>>
    BY <1>1, <1>6, RecvHeaderSays
  <2>2. got' \in [Ends -> Seq(Pieces)] /\ wire' \in [Ends -> Seq(Pieces)]
    BY <1>1, <2>1 DEF LinkTypes
  <2>3. pc' \in [Ends -> {"poll", "header", "body", "write", "break", "cleanup", "remove"}]
    BY <1>1, <2>1 DEF LinkTypes
  <2> QED
    BY <1>1, <2>1, <2>2, <2>3 DEF LinkTypes, Tcp!ends, Tcp!threads, Tcp!told
<1>7. CASE Tcp!RecvBody(e)
  <2> DEFINE m == accepted[Tcp!Peer(e)][HandedUp(Tcp!Peer(e)) + 1]
  <2>1. /\ Held(e, Tcp!MsgLen) \in Seq(Pieces) /\ Left(e, Tcp!MsgLen) \in Seq(Pieces)
        /\ wire' = [wire EXCEPT ![e] = Left(e, Tcp!MsgLen)]
        /\ pc' = [pc EXCEPT ![e] = "poll"]
        /\ mask' \in [Ends -> {"inout", "wrnorm"}] /\ ready' \in [Ends -> BOOLEAN]
        /\ added' = added
        /\ UNCHANGED <<Tcp!ends, writing, errno, gone, Tcp!threads, accepted, reported>>
        /\ \/ got' = [got EXCEPT ![e] = Held(e, Tcp!MsgLen)] /\ delivered' = delivered
           \/ /\ got' = [got EXCEPT ![e] = <<>>]
              /\ m \in Tcp!Messages
              /\ delivered' = [delivered EXCEPT ![e] = Append(@, m)]
    BY <1>7, RecvBodySays
  <2> HIDE DEF m
  <2>2. wire' \in [Ends -> Seq(Pieces)]
    BY <1>1, <2>1 DEF LinkTypes
  <2>3. <<>> \in Seq(Pieces)
    OBVIOUS
  <2>4. got' \in [Ends -> Seq(Pieces)]
    <3>1. got \in [Ends -> Seq(Pieces)]
      BY <1>1 DEF LinkTypes
    <3>2. ASSUME NEW y \in Seq(Pieces), got' = [got EXCEPT ![e] = y] PROVE got' \in [Ends -> Seq(Pieces)]
      BY <3>1, <3>2
    <3> QED
      BY <2>1, <2>3, <3>2
  <2>5. ASSUME m \in Tcp!Messages PROVE Append(delivered[e], m) \in Seq(Tcp!Messages)
    <3>1. delivered[e] \in Seq(Tcp!Messages)
      BY <1>1 DEF LinkTypes
    <3> QED
      BY <3>1, <2>5
  <2>6. delivered' \in [Ends -> Seq(Tcp!Messages)]
    <3>1. delivered \in [Ends -> Seq(Tcp!Messages)]
      BY <1>1 DEF LinkTypes
    <3>2. CASE delivered' = delivered
      BY <3>1, <3>2
    <3>3. CASE m \in Tcp!Messages /\ delivered' = [delivered EXCEPT ![e] = Append(@, m)]
      <4>1. Append(delivered[e], m) \in Seq(Tcp!Messages)
        BY <2>5, <3>3
      <4> QED
        BY <3>1, <3>3, <4>1
    <3> QED
      BY <2>1, <3>2, <3>3
  <2>7. pc' \in [Ends -> {"poll", "header", "body", "write", "break", "cleanup", "remove"}]
    BY <1>1, <2>1 DEF LinkTypes
  <2> QED
    BY <1>1, <2>1, <2>2, <2>4, <2>6, <2>7 DEF LinkTypes, Tcp!ends, Tcp!threads
<1>8. CASE Tcp!RecvClosed(e) \/ Tcp!RecvTimesOut(e)
  <2>1. /\ mask' \in [Ends -> {"inout", "wrnorm"}] /\ ready' \in [Ends -> BOOLEAN]
        /\ added' = added
        /\ pc' = [pc EXCEPT ![e] = "poll"] \/ pc' = [pc EXCEPT ![e] = "break"]
    <3>1. \/ Tcp!Rearm(e, {})
          \/ pc' = [pc EXCEPT ![e] = "break"] /\ UNCHANGED Tcp!epoll
      BY <1>8 DEF Tcp!RecvClosed, Tcp!RecvTimesOut, Tcp!Move
    <3>2. CASE Tcp!Rearm(e, {})
      BY <1>1, <3>2, RearmTypes
    <3>3. CASE pc' = [pc EXCEPT ![e] = "break"] /\ UNCHANGED Tcp!epoll
      BY <1>1, <3>3 DEF Tcp!epoll, LinkTypes
    <3> QED
      BY <3>1, <3>2, <3>3
  <2>2. pc' \in [Ends -> {"poll", "header", "body", "write", "break", "cleanup", "remove"}]
    BY <1>1, <2>1 DEF LinkTypes
  <2>3. /\ errno' = [errno EXCEPT ![e] = "EAGAIN"] \/ errno' = errno
        /\ UNCHANGED <<Tcp!ends, writing, got, Tcp!sockets, Tcp!threads, Tcp!told>>
    BY <1>8 DEF Tcp!RecvClosed, Tcp!RecvTimesOut
  <2>4. errno' \in [Ends -> {"none", "EAGAIN", "ECONNRESET"}]
    BY <1>1, <2>3 DEF LinkTypes
  <2> QED
    BY <1>1, <2>1, <2>2, <2>3, <2>4 DEF LinkTypes, Tcp!ends, Tcp!sockets, Tcp!threads, Tcp!told
<1>9. ASSUME NEW k \in 1..SockCap, Tcp!Write(e, k)
      PROVE LinkTypes'
  <2> DEFINE p == Tcp!Peer(e)
             w == SubSeq(writing[e], k + 1, Len(writing[e]))
             x == wire[p] \o SubSeq(writing[e], 1, k)
  <2>1. /\ w \in Seq(Pieces) /\ x \in Seq(Pieces)
        /\ wire' = [wire EXCEPT ![p] = x]
        /\ writing' = [writing EXCEPT ![e] = w]
        /\ mask' \in [Ends -> {"inout", "wrnorm"}] /\ ready' \in [Ends -> BOOLEAN]
        /\ added' = added
        /\ pc' = pc \/ pc' = [pc EXCEPT ![e] = "poll"]
        /\ UNCHANGED <<Tcp!ends, got, errno, gone, Tcp!threads, Tcp!told>>
    BY <1>1, <1>9, WriteSays
  <2> HIDE DEF p, w, x
  <2>2. wire' \in [Ends -> Seq(Pieces)] /\ writing' \in [Ends -> Seq(Pieces)]
    BY <1>1, <2>1 DEF LinkTypes
  <2>3. pc' \in [Ends -> {"poll", "header", "body", "write", "break", "cleanup", "remove"}]
    BY <1>1, <2>1 DEF LinkTypes
  <2> QED
    BY <1>1, <2>1, <2>2, <2>3 DEF LinkTypes, Tcp!ends, Tcp!threads, Tcp!told
<1>10. CASE Tcp!WriteFails(e)
  <2>1. /\ mask' \in [Ends -> {"inout", "wrnorm"}] /\ ready' \in [Ends -> BOOLEAN]
        /\ added' = added
    <3>1. Tcp!ModifyLink(e, "wrnorm", {}) /\ "wrnorm" \in {"inout", "wrnorm"}
      BY <1>10 DEF Tcp!WriteFails
    <3> QED
      BY <1>1, <3>1, ModifyTypes
  <2>2. /\ errno' = [errno EXCEPT ![e] = "ECONNRESET"]
        /\ writing' = [writing EXCEPT ![e] = <<>>]
        /\ pc' = [pc EXCEPT ![e] = "poll"]
        /\ UNCHANGED <<Tcp!ends, got, Tcp!sockets, Tcp!threads, Tcp!told>>
    BY <1>10 DEF Tcp!WriteFails, Tcp!Move
  <2>3. <<>> \in Seq(Pieces)
    OBVIOUS
  <2>4. writing' \in [Ends -> Seq(Pieces)]
    BY <1>1, <2>2, <2>3 DEF LinkTypes
  <2>5. /\ errno' \in [Ends -> {"none", "EAGAIN", "ECONNRESET"}]
        /\ pc' \in [Ends -> {"poll", "header", "body", "write", "break", "cleanup", "remove"}]
    BY <1>1, <2>2 DEF LinkTypes
  <2> QED
    BY <1>1, <2>1, <2>2, <2>4, <2>5 DEF LinkTypes, Tcp!ends, Tcp!sockets, Tcp!threads, Tcp!told
<1>11. CASE Tcp!Break(e)
  BY <1>1, <1>11 DEF LinkTypes, Tcp!Break, Tcp!Move, Tcp!epoll, Tcp!sockets, Tcp!threads, Tcp!told
<1>12. CASE Tcp!CleanUp(e)
  <2>1. /\ queue' = [queue EXCEPT ![e] = <<>>]
        /\ reported' = [reported EXCEPT ![e] = @ \cup {queue[e][i] : i \in DOMAIN queue[e]}]
        /\ pc' = [pc EXCEPT ![e] = "remove"]
        /\ UNCHANGED <<established, Tcp!epoll, writing, got, errno, Tcp!sockets, Tcp!threads,
                       accepted, delivered>>
    BY <1>12 DEF Tcp!CleanUp, Tcp!Move
  <2>2. <<>> \in Seq(Tcp!Messages)
    OBVIOUS
  <2>3. queue' \in [Ends -> Seq(Tcp!Messages)]
    BY <1>1, <2>1, <2>2 DEF LinkTypes
  <2>4. {queue[e][i] : i \in DOMAIN queue[e]} \subseteq Tcp!Messages
    <3>1. queue[e] \in Seq(Tcp!Messages)
      BY <1>1 DEF LinkTypes
    <3> QED
      BY <3>1
  <2>5. reported' \in [Ends -> SUBSET Tcp!Messages]
    BY <1>1, <2>1, <2>4 DEF LinkTypes
  <2>6. pc' \in [Ends -> {"poll", "header", "body", "write", "break", "cleanup", "remove"}]
    BY <1>1, <2>1 DEF LinkTypes
  <2> QED
    BY <1>1, <2>1, <2>3, <2>5, <2>6 DEF LinkTypes, Tcp!epoll, Tcp!sockets, Tcp!threads
<1>13. CASE Tcp!Exit(e)
  <2>1. ready' \in [Ends -> BOOLEAN]
    BY <1>1, <1>13, WakeTypes DEF Tcp!Exit
  <2>2. gone' = {e} /\ UNCHANGED <<Tcp!ends, added, mask, Tcp!worker, wire, Tcp!threads, Tcp!told>>
    BY <1>13 DEF Tcp!Exit
  <2> QED
    BY <1>1, <2>1, <2>2 DEF LinkTypes, Tcp!ends, Tcp!worker, Tcp!threads, Tcp!told
<1>14. CASE Tcp!RemoveLink(e)
  <2>1. /\ added' = [added EXCEPT ![e] = FALSE]
        /\ pc' = [pc EXCEPT ![e] = "poll"]
        /\ UNCHANGED <<Tcp!ends, mask, ready, writing, got, errno, Tcp!sockets, Tcp!threads, Tcp!told>>
    BY <1>14 DEF Tcp!RemoveLink, Tcp!Move
  <2>2. /\ added' \in [Ends -> BOOLEAN]
        /\ pc' \in [Ends -> {"poll", "header", "body", "write", "break", "cleanup", "remove"}]
    BY <1>1, <2>1 DEF LinkTypes
  <2> QED
    BY <1>1, <2>1, <2>2 DEF LinkTypes, Tcp!ends, Tcp!sockets, Tcp!threads, Tcp!told
<1>15. Tcp!Event(e) \/ Tcp!RecvTimesOut(e) \/ Tcp!Exit(e)
  OBVIOUS
<1> QED
  BY <1>2, <1>3, <1>4, <1>5, <1>6, <1>7, <1>8, <1>9, <1>10, <1>11, <1>12, <1>13, <1>14, <1>15
  DEF Tcp!Event

-----------------------------------------------------------------------------
(* What a step is for the messages.                                        *)

\* A call goes on, or a thread begins one.
CallsGoOn ==
  \A t \in Threads :
    \/ sends'[t] = sends[t] /\ (caller'[t] = "enqueue" => caller[t] = "enqueue")
    \/ sends'[t] = sends[t] + 1

\* Units move in the streams that somebody receives, or nothing moves.
Moves ==
  /\ UNCHANGED <<queue, accepted, delivered, reported>>
  /\ \A e \in Ends : Tcp!Peer(e) \notin gone => Stream(e)' = Stream(e)

\* A thread's message is accepted.
Accepts(t) ==
  LET e == EndOf[t]  m == <<t, sends[t]>>
  IN  /\ e \in Ends /\ m \in Tcp!Messages
      /\ caller[t] = "enqueue" /\ caller' = [caller EXCEPT ![t] = "modify"]
      /\ queue' = [queue EXCEPT ![e] = Append(@, m)]
      /\ accepted' = [accepted EXCEPT ![e] = Append(@, m)]
      /\ UNCHANGED <<sends, delivered, reported, got, wire, writing>>

\* The worker of an end begins the first message of its queue.
Begins(e) ==
  /\ writing[e] = <<>> /\ Len(queue[e]) >= 1
  /\ queue' = [queue EXCEPT ![e] = Tail(@)]
  /\ writing' = [writing EXCEPT ![e] = Tcp!Units(queue[e][1])]
  /\ UNCHANGED <<accepted, delivered, reported, got, wire>>

\* A message of f is handed up at the other end.
HandsUp(f) ==
  /\ Tcp!Peer(f) \notin gone
  /\ HandedUp(f) + 1 <= Len(accepted[f]) - Len(queue[f])
  /\ delivered' = [delivered EXCEPT ![Tcp!Peer(f)] = Append(@, accepted[f][HandedUp(f) + 1])]
  /\ UNCHANGED <<queue, accepted, reported>>
  /\ IsFlow(Stream(f)', accepted[f], HandedUp(f) + 1, Begun(f) - 1)
  /\ Stream(Tcp!Peer(f))' = Stream(Tcp!Peer(f))

\* The queue of an end is reported.
Reports(e) ==
  /\ Tcp!Peer(e) \in gone
  /\ queue' = [queue EXCEPT ![e] = <<>>]
  /\ reported' = [reported EXCEPT ![e] = @ \cup {queue[e][i] : i \in DOMAIN queue[e]}]
  /\ UNCHANGED <<accepted, delivered, got, wire, writing>>

Step ==
  \/ Moves \/ (\E t \in Threads : Accepts(t))
  \/ \E e \in Ends : Begins(e) \/ HandsUp(e) \/ Reports(e)

\* When neither side of the stream moves the stream does not.
LEMMA NothingMoves ==
  ASSUME UNCHANGED <<queue, accepted, delivered, reported, got, wire, writing>>
  PROVE Moves
BY DEF Moves, Stream

\* Three pieces of a stream, put together in either order.
LEMMA Regroup ==
  ASSUME NEW s \in Seq(Pieces), NEW t \in Seq(Pieces), NEW u \in Seq(Pieces)
  PROVE (s \o t) \o u = s \o (t \o u)
BY ConcatAssociative

\* What is held and left at one end of the stream is the stream.
LEMMA StreamMoves ==
  ASSUME Tcp!LinkAssumption, LinkTypes, NEW e \in Ends, NEW h, NEW r,
         h \o r = got[e] \o wire[e],
         got' = [got EXCEPT ![e] = h], wire' = [wire EXCEPT ![e] = r],
         UNCHANGED <<queue, accepted, delivered, reported, writing>>
  PROVE Moves
<1>1. ASSUME NEW x \in Ends PROVE Stream(x)' = Stream(x)
  <2>1. Tcp!Peer(x) \in Ends
    BY Peers
  <2>2. CASE Tcp!Peer(x) = e
    <3>1. got'[Tcp!Peer(x)] = h /\ wire'[Tcp!Peer(x)] = r
      BY <2>2 DEF LinkTypes
    <3> QED
      BY <2>2, <3>1 DEF Stream
  <2>3. CASE Tcp!Peer(x) # e
    <3>1. got'[Tcp!Peer(x)] = got[Tcp!Peer(x)] /\ wire'[Tcp!Peer(x)] = wire[Tcp!Peer(x)]
      BY <2>1, <2>3 DEF LinkTypes
    <3> QED
      BY <3>1 DEF Stream
  <2> QED
    BY <2>2, <2>3
<1> QED
  BY <1>1 DEF Moves

\* What threads do.
LEMMA ThreadStep ==
  ASSUME Tcp!LinkAssumption, LinkIInv, NEW t \in Threads, Tcp!NonBlockSend(t) \/ Tcp!Send(t)
  PROVE CallsGoOn /\ Calling' /\ (Moves \/ Accepts(t)) /\ gone' = gone
<1>1. LinkTypes /\ Calling
  BY DEF LinkIInv
<1>2. EndOf[t] \in Ends
  BY DEF Tcp!LinkAssumption
<1>3. CASE Tcp!NonBlockSend(t)
  <2>1. sends' = [sends EXCEPT ![t] = @ + 1] /\ UNCHANGED <<Tcp!ends, Tcp!epoll, Tcp!worker, Tcp!sockets, Tcp!told>>
    BY <1>3 DEF Tcp!NonBlockSend
  <2>2. caller' = [caller EXCEPT ![t] = "enqueue"] \/ caller' = [caller EXCEPT ![t] = "out"]
    BY <1>3 DEF Tcp!NonBlockSend, Tcp!Goto
  <2>3. sends[t] \in Nat /\ sends[t] + 1 > 0
    BY <1>1 DEF LinkTypes
  <2>4. CallsGoOn
    BY <1>1, <2>1, <2>2 DEF CallsGoOn, LinkTypes
  <2>5. Calling'
    BY <1>1, <2>1, <2>2, <2>3 DEF Calling, LinkTypes
  <2>6. Moves
    BY <2>1, NothingMoves DEF Tcp!ends, Tcp!worker, Tcp!sockets, Tcp!told
  <2> QED
    BY <2>1, <2>4, <2>5, <2>6 DEF Tcp!sockets
<1>4. CASE Tcp!EnqueueBack(t)
  <2>1. /\ caller[t] = "enqueue"
        /\ UNCHANGED <<established, Tcp!epoll, Tcp!worker, Tcp!sockets, sends, delivered, reported>>
    BY <1>4 DEF Tcp!EnqueueBack
  <2>2. caller' = [caller EXCEPT ![t] = "out"] \/ caller' = [caller EXCEPT ![t] = "modify"]
    BY <1>4 DEF Tcp!EnqueueBack, Tcp!Goto
  <2>3. CallsGoOn /\ Calling'
    BY <1>1, <2>1, <2>2 DEF CallsGoOn, Calling, LinkTypes
  <2>4. CASE Len(queue[EndOf[t]]) >= Cap
    <3>1. UNCHANGED <<queue, accepted>>
      BY <1>4, <2>4 DEF Tcp!EnqueueBack
    <3>2. Moves
      BY <2>1, <3>1, NothingMoves DEF Tcp!worker, Tcp!sockets
    <3> QED
      BY <2>1, <2>3, <3>2 DEF Tcp!sockets
  <2>5. CASE ~(Len(queue[EndOf[t]]) >= Cap)
    <3>1. <<t, sends[t]>> \in Tcp!Messages
      <4>1. sends[t] > 0 /\ sends[t] \in 0..MaxSends
        BY <1>1, <2>1 DEF Calling, LinkTypes
      <4>2. sends[t] \in 1..MaxSends
        BY <4>1
      <4> QED
        BY <4>2 DEF Tcp!Messages
    <3>2. /\ caller' = [caller EXCEPT ![t] = "modify"]
          /\ queue' = [queue EXCEPT ![EndOf[t]] = Append(@, <<t, sends[t]>>)]
          /\ accepted' = [accepted EXCEPT ![EndOf[t]] = Append(@, <<t, sends[t]>>)]
      BY <1>4, <2>5 DEF Tcp!EnqueueBack, Tcp!Goto
    <3>3. Accepts(t)
      BY <1>2, <2>1, <3>1, <3>2 DEF Accepts, Tcp!worker, Tcp!sockets
    <3> QED
      BY <2>1, <2>3, <3>3 DEF Tcp!sockets
  <2> QED
    BY <2>4, <2>5
<1>5. CASE Tcp!EnqueueAndModifyEpoll(t)
  <2>1. caller' = [caller EXCEPT ![t] = "out"] /\ UNCHANGED <<Tcp!ends, Tcp!worker, Tcp!sockets, sends, Tcp!told>>
    BY <1>5 DEF Tcp!EnqueueAndModifyEpoll, Tcp!Goto
  <2>2. CallsGoOn /\ Calling'
    BY <1>1, <2>1 DEF CallsGoOn, Calling, LinkTypes
  <2>3. Moves
    BY <2>1, NothingMoves DEF Tcp!ends, Tcp!worker, Tcp!sockets, Tcp!told
  <2> QED
    BY <2>1, <2>2, <2>3 DEF Tcp!sockets
<1> QED
  BY <1>3, <1>4, <1>5 DEF Tcp!Send

\* What the worker of an end does, and the end of its process.
LEMMA EventStep ==
  ASSUME Tcp!LinkAssumption, LinkIInv, NEW e \in Ends,
         Tcp!Event(e) \/ Tcp!RecvTimesOut(e) \/ Tcp!Exit(e)
  PROVE /\ UNCHANGED Tcp!threads /\ gone \subseteq gone'
        /\ Moves \/ Begins(e) \/ HandsUp(Tcp!Peer(e)) \/ Reports(e)
<1> DEFINE f == Tcp!Peer(e)
<1>1. LinkTypes /\ GotIs(e) /\ WritingIs(e) /\ BreaksWhenGone(e)
  BY DEF LinkIInv
<1>2. f \in Ends /\ f # e /\ Tcp!Peer(f) = e
  BY Peers
<1>3. CASE Tcp!PollIn(e) \/ Tcp!PollError(e)
  <2>1. UNCHANGED <<Tcp!ends, writing, got, Tcp!sockets, Tcp!threads, Tcp!told>>
    BY <1>3 DEF Tcp!PollIn, Tcp!PollError
  <2>2. Moves
    BY <2>1, NothingMoves DEF Tcp!ends, Tcp!sockets, Tcp!told
  <2> QED
    BY <2>1, <2>2 DEF Tcp!sockets
<1>4. CASE Tcp!PollNothing(e)
  <2>1. UNCHANGED <<Tcp!ends, Tcp!worker, Tcp!sockets, Tcp!threads, Tcp!told>>
    BY <1>4 DEF Tcp!PollNothing
  <2>2. Moves
    BY <2>1, NothingMoves DEF Tcp!ends, Tcp!worker, Tcp!sockets, Tcp!told
  <2> QED
    BY <2>1, <2>2 DEF Tcp!sockets
<1>5. CASE Tcp!RecvClosed(e) \/ Tcp!RecvTimesOut(e)
  <2>1. UNCHANGED <<Tcp!ends, writing, got, Tcp!sockets, Tcp!threads, Tcp!told>>
    BY <1>5 DEF Tcp!RecvClosed, Tcp!RecvTimesOut
  <2>2. Moves
    BY <2>1, NothingMoves DEF Tcp!ends, Tcp!sockets, Tcp!told
  <2> QED
    BY <2>1, <2>2 DEF Tcp!sockets
<1>6. CASE Tcp!Break(e)
  <2>1. UNCHANGED <<queue, writing, got, Tcp!sockets, Tcp!threads, Tcp!told>>
    BY <1>6 DEF Tcp!Break
  <2>2. Moves
    BY <2>1, NothingMoves DEF Tcp!sockets, Tcp!told
  <2> QED
    BY <2>1, <2>2 DEF Tcp!sockets
<1>7. CASE Tcp!Exit(e)
  <2>1. gone = {} /\ UNCHANGED <<Tcp!ends, Tcp!worker, wire, Tcp!threads, Tcp!told>>
    BY <1>7 DEF Tcp!Exit
  <2>2. Moves
    BY <2>1, NothingMoves DEF Tcp!ends, Tcp!worker, Tcp!told
  <2> QED
    BY <2>1, <2>2
<1>8. CASE Tcp!PollOut(e)
  <2>1. /\ pc[e] = "poll"
        /\ UNCHANGED <<got, Tcp!sockets, Tcp!threads, Tcp!told>>
        /\ \/ UNCHANGED <<queue, pc, writing>>
           \/ /\ Len(queue[e]) >= 1
              /\ queue' = [queue EXCEPT ![e] = Tail(@)]
              /\ writing' = [writing EXCEPT ![e] = Tcp!Units(queue[e][1])]
    BY <1>1, <1>8, PollOutSays
  <2>2. CASE UNCHANGED <<queue, pc, writing>>
    <3>1. Moves
      BY <2>1, <2>2, NothingMoves DEF Tcp!sockets, Tcp!told
    <3> QED
      BY <2>1, <3>1 DEF Tcp!sockets
  <2>3. CASE /\ Len(queue[e]) >= 1
             /\ queue' = [queue EXCEPT ![e] = Tail(@)]
             /\ writing' = [writing EXCEPT ![e] = Tcp!Units(queue[e][1])]
    <3>1. writing[e] = <<>>
      BY <1>1, <2>1 DEF WritingIs
    <3>2. Begins(e)
      BY <2>1, <2>3, <3>1 DEF Begins, Tcp!sockets, Tcp!told
    <3> QED
      BY <2>1, <3>2 DEF Tcp!sockets
  <2> QED
    BY <2>1, <2>2, <2>3
<1>9. CASE Tcp!RecvHeader(e)
  <2> DEFINE h == Held(e, HeaderLen)
             r == Left(e, HeaderLen)
  <2>1. /\ h \o r = got[e] \o wire[e]
        /\ got' = [got EXCEPT ![e] = h]
        /\ wire' = [wire EXCEPT ![e] = r]
        /\ UNCHANGED <<Tcp!ends, writing, errno, gone, Tcp!threads, Tcp!told>>
    BY <1>1, <1>9, RecvHeaderSays
  <2> HIDE DEF h, r
  <2>2. UNCHANGED <<queue, accepted, delivered, reported, writing>>
    BY <2>1 DEF Tcp!ends, Tcp!told
  <2>3. Moves
    BY <1>1, <2>1, <2>2, StreamMoves
  <2> QED
    BY <2>1, <2>3
<1>10. CASE Tcp!RecvBody(e)
  <2> DEFINE h == Held(e, Tcp!MsgLen)
             r == Left(e, Tcp!MsgLen)
             m == accepted[f][HandedUp(f) + 1]
  <2>1. /\ e \notin gone
        /\ r \in Seq(Pieces)
        /\ h \o r = got[e] \o wire[e]
        /\ wire' = [wire EXCEPT ![e] = r]
        /\ UNCHANGED <<Tcp!ends, writing, errno, gone, Tcp!threads, accepted, reported>>
        /\ \/ got' = [got EXCEPT ![e] = h] /\ delivered' = delivered
           \/ /\ got' = [got EXCEPT ![e] = <<>>]
              /\ HandedUp(f) + 1 <= Len(accepted[f]) - Len(queue[f])
              /\ delivered' = [delivered EXCEPT ![e] = Append(@, m)]
              /\ IsFlow(r \o writing[f], accepted[f], HandedUp(f) + 1, Begun(f) - 1)
    BY <1>10, RecvBodySays
  <2> HIDE DEF h, r, f
  <2>2. CASE got' = [got EXCEPT ![e] = h] /\ delivered' = delivered
    <3>1. UNCHANGED <<queue, accepted, delivered, reported, writing>>
      BY <2>1, <2>2 DEF Tcp!ends
    <3>2. Moves
      BY <1>1, <2>1, <2>2, <3>1, StreamMoves
    <3> QED
      BY <2>1, <3>2
  <2>3. CASE /\ got' = [got EXCEPT ![e] = <<>>]
             /\ HandedUp(f) + 1 <= Len(accepted[f]) - Len(queue[f])
             /\ delivered' = [delivered EXCEPT ![e] = Append(@, m)]
             /\ IsFlow(r \o writing[f], accepted[f], HandedUp(f) + 1, Begun(f) - 1)
    <3>1. got'[e] = <<>> /\ got'[f] = got[f] /\ wire'[e] = r /\ wire'[f] = wire[f]
      BY <1>1, <1>2, <2>1, <2>3 DEF LinkTypes
    <3>2. Stream(f)' = r \o writing[f]
      <4>1. Stream(f)' = (got'[e] \o wire'[e]) \o writing'[f]
        BY <1>2 DEF Stream
      <4>2. <<>> \o r = r
        BY <2>1
      <4> QED
        BY <2>1, <3>1, <4>1, <4>2
    <3>3. Stream(Tcp!Peer(f))' = Stream(Tcp!Peer(f))
      <4>1. Stream(e)' = (got'[f] \o wire'[f]) \o writing'[e]
        BY DEF Stream, f
      <4>2. Stream(e) = (got[f] \o wire[f]) \o writing[e]
        BY DEF Stream, f
      <4> QED
        BY <1>2, <2>1, <3>1, <4>1, <4>2
    <3>4. HandsUp(f)
      BY <1>2, <2>1, <2>3, <3>2, <3>3 DEF HandsUp, Tcp!ends
    <3> QED
      BY <2>1, <3>4 DEF f
  <2> QED
    BY <2>1, <2>2, <2>3
<1>11. ASSUME NEW k \in 1..SockCap, Tcp!Write(e, k)
       PROVE UNCHANGED Tcp!threads /\ gone \subseteq gone' /\ Moves
  <2> DEFINE w == SubSeq(writing[e], k + 1, Len(writing[e]))
             v == wire[f] \o SubSeq(writing[e], 1, k)
  <2>1. /\ w \in Seq(Pieces) /\ v \in Seq(Pieces)
        /\ v \o w = wire[f] \o writing[e]
        /\ wire' = [wire EXCEPT ![f] = v]
        /\ writing' = [writing EXCEPT ![e] = w]
        /\ UNCHANGED <<Tcp!ends, got, errno, gone, Tcp!threads, Tcp!told>>
    BY <1>1, <1>11, WriteSays
  <2> HIDE DEF v, w, f
  <2>2. got[f] \in Seq(Pieces) /\ wire[f] \in Seq(Pieces) /\ writing[e] \in Seq(Pieces)
    BY <1>1, <1>2 DEF LinkTypes
  <2>3. wire'[f] = v /\ writing'[e] = w /\ wire'[e] = wire[e] /\ writing'[f] = writing[f]
    BY <1>1, <1>2, <2>1 DEF LinkTypes
  <2>4. Stream(e)' = Stream(e)
    <3> DEFINE g == got[f]
               a == wire[f]
               b == writing[e]
    <3>1. Stream(e)' = (g \o v) \o w
      BY <2>1, <2>3 DEF Stream, f
    <3>2. Stream(e) = (g \o a) \o b
      BY DEF Stream, f
    <3>3. g \in Seq(Pieces) /\ a \in Seq(Pieces) /\ b \in Seq(Pieces) /\ v \o w = a \o b
      BY <2>1, <2>2
    <3>4. v \in Seq(Pieces) /\ w \in Seq(Pieces)
      BY <2>1
    <3> HIDE DEF g, a, b
    <3>5. (g \o v) \o w = g \o (v \o w)
      BY <3>3, <3>4, Regroup
    <3>6. (g \o a) \o b = g \o (a \o b)
      BY <3>3, Regroup
    <3> QED
      BY <3>1, <3>2, <3>3, <3>5, <3>6
  <2>5. Stream(f)' = Stream(f)
    <3>1. Stream(f)' = (got'[e] \o wire'[e]) \o writing'[f]
      BY <1>2 DEF Stream
    <3>2. Stream(f) = (got[e] \o wire[e]) \o writing[f]
      BY <1>2 DEF Stream
    <3> QED
      BY <2>1, <2>3, <3>1, <3>2
  <2>6. \A x \in Ends : x = e \/ x = f
    BY Peers DEF f
  <2>7. Moves
    BY <2>1, <2>4, <2>5, <2>6 DEF Moves, Tcp!ends, Tcp!told
  <2> QED
    BY <2>1, <2>7
<1>12. CASE Tcp!WriteFails(e)
  <2>1. /\ f \in gone
        /\ writing' = [writing EXCEPT ![e] = <<>>]
        /\ UNCHANGED <<Tcp!ends, got, Tcp!sockets, Tcp!threads, Tcp!told>>
    BY <1>12 DEF Tcp!WriteFails
  <2>2. ASSUME NEW x \in Ends, Tcp!Peer(x) \notin gone PROVE Stream(x)' = Stream(x)
    <3>1. x # e
      BY <2>1, <2>2
    <3>2. writing'[x] = writing[x]
      BY <1>1, <2>1, <3>1 DEF LinkTypes
    <3> QED
      BY <2>1, <3>2 DEF Stream, Tcp!sockets
  <2>3. Moves
    BY <2>1, <2>2 DEF Moves, Tcp!ends, Tcp!told
  <2> QED
    BY <2>1, <2>3 DEF Tcp!sockets
<1>13. CASE Tcp!CleanUp(e)
  <2>1. /\ pc[e] = "cleanup"
        /\ queue' = [queue EXCEPT ![e] = <<>>]
        /\ reported' = [reported EXCEPT ![e] = @ \cup {queue[e][i] : i \in DOMAIN queue[e]}]
        /\ UNCHANGED <<writing, got, Tcp!sockets, Tcp!threads, accepted, delivered>>
    BY <1>13 DEF Tcp!CleanUp
  <2>2. f \in gone
    BY <1>1, <2>1 DEF BreaksWhenGone
  <2>3. Reports(e)
    BY <2>1, <2>2 DEF Reports, Tcp!sockets
  <2> QED
    BY <2>1, <2>3 DEF Tcp!sockets
<1>14. CASE Tcp!RemoveLink(e)
  <2>1. UNCHANGED <<Tcp!ends, writing, got, Tcp!sockets, Tcp!threads, Tcp!told>>
    BY <1>14 DEF Tcp!RemoveLink
  <2>2. Moves
    BY <2>1, NothingMoves DEF Tcp!ends, Tcp!sockets, Tcp!told
  <2> QED
    BY <2>1, <2>2 DEF Tcp!sockets
<1>15. Tcp!Event(e) \/ Tcp!RecvTimesOut(e) \/ Tcp!Exit(e)
  OBVIOUS
<1> QED
  BY <1>3, <1>4, <1>5, <1>6, <1>7, <1>8, <1>9, <1>10, <1>11, <1>12, <1>13, <1>14, <1>15
  DEF Tcp!Event

-----------------------------------------------------------------------------
(* The order of the messages.                                              *)

\* A message accepted goes behind all others.
LEMMA OrderAccepts ==
  ASSUME NEW q \in Seq(Tcp!Messages), NEW all \in Seq(Tcp!Messages), NEW done \in Seq(Tcp!Messages),
         NEW m \in Tcp!Messages, IsOrder(q, all, done)
  PROVE IsOrder(Append(q, m), Append(all, m), done)
<1> DEFINE q2 == Append(q, m)
           all2 == Append(all, m)
<1>1. /\ Len(q) \in Nat /\ Len(all) \in Nat /\ Len(done) \in Nat
      /\ Len(done) + Len(q) <= Len(all)
      /\ \A i \in 1..Len(q) : q[i] = all[Len(all) - Len(q) + i]
      /\ \A i \in 1..Len(done) : done[i] = all[i]
  BY DEF IsOrder
<1>2. Len(q2) = Len(q) + 1 /\ q2[Len(q) + 1] = m /\ \A i \in 1..Len(q) : q2[i] = q[i]
  OBVIOUS
<1>3. Len(all2) = Len(all) + 1 /\ all2[Len(all) + 1] = m /\ \A i \in 1..Len(all) : all2[i] = all[i]
  OBVIOUS
<1> HIDE DEF q2, all2
<1>4. Len(done) + Len(q2) <= Len(all2)
  BY <1>1, <1>2, <1>3
<1>5. ASSUME NEW i \in 1..Len(q2) PROVE q2[i] = all2[Len(all2) - Len(q2) + i]
  <2>1. Len(all2) - Len(q2) + i = Len(all) - Len(q) + i
    BY <1>1, <1>2, <1>3
  <2>2. CASE i = Len(q) + 1
    <3>1. Len(all) - Len(q) + i = Len(all) + 1
      BY <1>1, <2>2
    <3> QED
      BY <1>2, <1>3, <2>1, <2>2, <3>1
  <2>3. CASE i # Len(q) + 1
    <3>1. i \in 1..Len(q) /\ Len(all) - Len(q) + i \in 1..Len(all)
      BY <1>1, <1>2, <2>3
    <3> QED
      BY <1>1, <1>2, <1>3, <2>1, <3>1
  <2> QED
    BY <2>2, <2>3
<1>6. ASSUME NEW i \in 1..Len(done) PROVE done[i] = all2[i]
  <2>1. i \in 1..Len(all)
    BY <1>1
  <2> QED
    BY <1>1, <1>3, <2>1
<1>7. IsOrder(q2, all2, done)
  BY <1>4, <1>5, <1>6 DEF IsOrder
<1> QED
  BY <1>7 DEF q2, all2

\* The first message of the queue is the one after those begun.
LEMMA OrderBegins ==
  ASSUME NEW q \in Seq(Tcp!Messages), NEW all \in Seq(Tcp!Messages), NEW done \in Seq(Tcp!Messages),
         Len(q) >= 1, IsOrder(q, all, done)
  PROVE /\ IsOrder(Tail(q), all, done) /\ Len(Tail(q)) = Len(q) - 1
        /\ q[1] = all[Len(all) - Len(q) + 1]
<1> DEFINE q2 == Tail(q)
<1>1. /\ Len(q) \in Nat /\ Len(all) \in Nat /\ Len(done) \in Nat
      /\ Len(done) + Len(q) <= Len(all)
      /\ \A i \in 1..Len(q) : q[i] = all[Len(all) - Len(q) + i]
      /\ \A i \in 1..Len(done) : done[i] = all[i]
  BY DEF IsOrder
<1>2. q # <<>>
  OBVIOUS
<1>3. Len(q2) = Len(q) - 1 /\ \A i \in 1..Len(q) - 1 : q2[i] = q[i + 1]
  BY <1>2
<1> HIDE DEF q2
<1>4. Len(done) + Len(q2) <= Len(all)
  BY <1>1, <1>3
<1>5. ASSUME NEW i \in 1..Len(q2) PROVE q2[i] = all[Len(all) - Len(q2) + i]
  <2>1. i + 1 \in 1..Len(q) /\ i \in 1..Len(q) - 1
    BY <1>1, <1>3
  <2>2. Len(all) - Len(q2) + i = Len(all) - Len(q) + (i + 1)
    BY <1>1, <1>3
  <2> QED
    BY <1>1, <1>3, <2>1, <2>2
<1>6. IsOrder(q2, all, done)
  BY <1>1, <1>4, <1>5 DEF IsOrder
<1>7. 1 \in 1..Len(q)
  BY <1>1
<1> QED
  BY <1>1, <1>3, <1>6, <1>7 DEF q2

\* The message handed up is the next one.
LEMMA OrderHandsUp ==
  ASSUME NEW q \in Seq(Tcp!Messages), NEW all \in Seq(Tcp!Messages), NEW done \in Seq(Tcp!Messages),
         Len(done) + 1 <= Len(all) - Len(q), IsOrder(q, all, done)
  PROVE IsOrder(q, all, Append(done, all[Len(done) + 1]))
<1> DEFINE n == Len(done) + 1
           m == all[n]
           done2 == Append(done, m)
<1>1. /\ Len(q) \in Nat /\ Len(all) \in Nat /\ Len(done) \in Nat
      /\ \A i \in 1..Len(q) : q[i] = all[Len(all) - Len(q) + i]
      /\ \A i \in 1..Len(done) : done[i] = all[i]
  <2>1. Len(q) \in Nat /\ Len(all) \in Nat /\ Len(done) \in Nat
    OBVIOUS
  <2>2. IsOrder(q, all, done)
    OBVIOUS
  <2> HIDE DEF n, m, done2
  <2> QED
    BY <2>1, <2>2 DEF IsOrder
<1>2. Len(done2) = n /\ done2[n] = m /\ \A i \in 1..Len(done) : done2[i] = done[i]
  <2> HIDE DEF m
  <2> QED
    OBVIOUS
<1> HIDE DEF done2
<1>3. Len(done2) + Len(q) <= Len(all)
  <2> DEFINE a == Len(all)
             b == Len(q)
             d == Len(done)
  <2>1. a \in Nat /\ b \in Nat /\ d \in Nat /\ d + 1 <= a - b /\ Len(done2) = d + 1
    BY <1>1, <1>2
  <2> HIDE DEF a, b, d
  <2>2. (d + 1) + b <= a
    BY <2>1
  <2> QED
    BY <2>1, <2>2 DEF a, b, d
<1>4. ASSUME NEW i \in 1..Len(done2) PROVE done2[i] = all[i]
  <2>1. i \in 1..Len(done) \/ i = n
    BY <1>1, <1>2
  <2>2. done2[n] = all[n]
    BY <1>2
  <2> HIDE DEF n, m
  <2> QED
    BY <1>1, <1>2, <2>1, <2>2
<1>5. IsOrder(q, all, done2)
  BY <1>1, <1>3, <1>4 DEF IsOrder
<1> QED
  BY <1>5 DEF done2

\* Every step keeps the order of the messages of every end.
LEMMA OrderKeeps ==
  ASSUME Tcp!LinkAssumption, LinkIInv, Step, NEW x \in Ends
  PROVE QueueIs(x)'
<1>1. LinkTypes /\ QueueIs(x)
  BY DEF LinkIInv
<1>2. Tcp!Peer(x) \in Ends
  BY Peers
<1>3. /\ queue[x] \in Seq(Tcp!Messages) /\ accepted[x] \in Seq(Tcp!Messages)
      /\ delivered[Tcp!Peer(x)] \in Seq(Tcp!Messages)
  BY <1>1, StreamTypes
<1>4. ASSUME queue'[x] = queue[x], accepted'[x] = accepted[x],
delivered'[Tcp!Peer(x)] = delivered[Tcp!Peer(x)]
      PROVE QueueIs(x)'
  BY <1>1, <1>4 DEF QueueIs
<1>5. CASE Moves
  BY <1>4, <1>5 DEF Moves
<1>6. ASSUME NEW t \in Threads, Accepts(t) PROVE QueueIs(x)'
  <2> DEFINE m == <<t, sends[t]>>
  <2>1. /\ m \in Tcp!Messages /\ delivered' = delivered
        /\ queue' = [queue EXCEPT ![EndOf[t]] = Append(@, m)]
        /\ accepted' = [accepted EXCEPT ![EndOf[t]] = Append(@, m)]
    BY <1>6 DEF Accepts
  <2> HIDE DEF m
  <2>2. CASE x = EndOf[t]
    <3>1. queue'[x] = Append(queue[x], m) /\ accepted'[x] = Append(accepted[x], m)
      BY <1>1, <2>1, <2>2 DEF LinkTypes
    <3>2. IsOrder(Append(queue[x], m), Append(accepted[x], m), delivered[Tcp!Peer(x)])
      BY <1>1, <1>3, <2>1, OrderAccepts DEF QueueIs
    <3> QED
      BY <2>1, <3>1, <3>2 DEF QueueIs
  <2>3. CASE x # EndOf[t]
    <3>1. queue'[x] = queue[x] /\ accepted'[x] = accepted[x]
      BY <1>1, <2>1, <2>3 DEF LinkTypes
    <3> QED
      BY <1>4, <2>1, <3>1
  <2> QED
    BY <2>2, <2>3
<1>7. ASSUME NEW e \in Ends, Begins(e) PROVE QueueIs(x)'
  <2>1. /\ Len(queue[e]) >= 1 /\ queue' = [queue EXCEPT ![e] = Tail(@)]
        /\ UNCHANGED <<accepted, delivered>>
    BY <1>7 DEF Begins
  <2>2. CASE x = e
    <3>1. queue'[x] = Tail(queue[x])
      BY <1>1, <2>1, <2>2 DEF LinkTypes
    <3>2. IsOrder(Tail(queue[x]), accepted[x], delivered[Tcp!Peer(x)])
      BY <1>1, <1>3, <2>1, <2>2, OrderBegins DEF QueueIs
    <3> QED
      BY <2>1, <3>1, <3>2 DEF QueueIs
  <2>3. CASE x # e
    <3>1. queue'[x] = queue[x]
      BY <1>1, <2>1, <2>3 DEF LinkTypes
    <3> QED
      BY <1>4, <2>1, <3>1
  <2> QED
    BY <2>2, <2>3
<1>8. ASSUME NEW f \in Ends, HandsUp(f) PROVE QueueIs(x)'
  <2> DEFINE m == accepted[f][HandedUp(f) + 1]
  <2>1. /\ HandedUp(f) + 1 <= Len(accepted[f]) - Len(queue[f])
        /\ delivered' = [delivered EXCEPT ![Tcp!Peer(f)] = Append(@, m)]
        /\ UNCHANGED <<queue, accepted>>
    BY <1>8 DEF HandsUp
  <2>2. CASE x = f
    <3>1. delivered'[Tcp!Peer(x)] = Append(delivered[Tcp!Peer(x)], m)
      <4> HIDE DEF m
      <4> QED
        BY <1>1, <1>2, <2>1, <2>2 DEF LinkTypes
    <3>2. IsOrder(queue[x], accepted[x], Append(delivered[Tcp!Peer(x)], m))
      BY <1>1, <1>3, <2>1, <2>2, OrderHandsUp DEF QueueIs, HandedUp
    <3> QED
      BY <2>1, <3>1, <3>2 DEF QueueIs
  <2>3. CASE x # f
    <3>1. Tcp!Peer(x) # Tcp!Peer(f)
      BY <2>3, Peers
    <3> HIDE DEF m
    <3>2. delivered'[Tcp!Peer(x)] = delivered[Tcp!Peer(x)]
      BY <1>1, <1>2, <2>1, <3>1 DEF LinkTypes
    <3> QED
      BY <1>4, <2>1, <3>2
  <2> QED
    BY <2>2, <2>3
<1>9. ASSUME NEW e \in Ends, Reports(e) PROVE QueueIs(x)'
  <2>1. queue' = [queue EXCEPT ![e] = <<>>] /\ UNCHANGED <<accepted, delivered>>
    BY <1>9 DEF Reports
  <2>2. CASE x = e
    <3>1. queue'[x] = <<>>
      BY <1>1, <2>1, <2>2 DEF LinkTypes
    <3>2. Len(delivered[Tcp!Peer(x)]) + Len(queue[x]) <= Len(accepted[x])
          /\ \A i \in 1..Len(delivered[Tcp!Peer(x)]) : delivered[Tcp!Peer(x)][i] = accepted[x][i]
      BY <1>1 DEF QueueIs, IsOrder
    <3>3. /\ Len(delivered[Tcp!Peer(x)]) \in Nat /\ Len(queue[x]) \in Nat /\ Len(accepted[x]) \in Nat
      BY <1>3
    <3>4. Len(delivered[Tcp!Peer(x)]) + 0 <= Len(accepted[x])
      <4> DEFINE a == Len(accepted[x])
                 b == Len(queue[x])
                 d == Len(delivered[Tcp!Peer(x)])
      <4>1. a \in Nat /\ b \in Nat /\ d \in Nat /\ d + b <= a
        BY <3>2, <3>3
      <4> HIDE DEF a, b, d
      <4>2. d + 0 <= a
        BY <4>1
      <4> QED
        BY <4>2 DEF a, d
    <3>5. IsOrder(<<>>, accepted[x], delivered[Tcp!Peer(x)])
      BY <3>2, <3>4 DEF IsOrder
    <3> QED
      BY <2>1, <3>1, <3>5 DEF QueueIs
  <2>3. CASE x # e
    <3>1. queue'[x] = queue[x]
      BY <1>1, <2>1, <2>3 DEF LinkTypes
    <3> QED
      BY <1>4, <2>1, <3>1
  <2> QED
    BY <2>2, <2>3
<1> QED
  BY <1>5, <1>6, <1>7, <1>8, <1>9 DEF Step

-----------------------------------------------------------------------------
(* Which messages are accepted, and which reported.                        *)

\* No message is accepted twice, for its number is its call's.
LEMMA AcceptedKeeps ==
  ASSUME LinkIInv, Step, CallsGoOn, NEW x \in Ends
  PROVE AcceptedIs(x)' /\ AcceptedOnce(x)'
<1>1. LinkTypes /\ AcceptedIs(x) /\ AcceptedOnce(x)
  BY DEF LinkIInv
<1>2. \A t \in Threads : sends[t] \in Nat
  BY <1>1 DEF LinkTypes
<1>3. ASSUME accepted'[x] = accepted[x] PROVE AcceptedIs(x)' /\ AcceptedOnce(x)'
  <2>1. ASSUME NEW i \in 1..Len(accepted'[x]), NEW t \in Threads, NEW n \in 1..MaxSends,
               accepted'[x][i] = <<t, n>>
        PROVE n <= sends'[t] /\ (caller'[t] = "enqueue" => n < sends'[t])
    <3>1. n <= sends[t] /\ (caller[t] = "enqueue" => n < sends[t])
      BY <1>1, <1>3, <2>1 DEF AcceptedIs
    <3>2. \/ sends'[t] = sends[t] /\ (caller'[t] = "enqueue" => caller[t] = "enqueue")
          \/ sends'[t] = sends[t] + 1
      BY DEF CallsGoOn
    <3> QED
      BY <1>2, <3>1, <3>2
  <2>2. AcceptedIs(x)'
    BY <2>1 DEF AcceptedIs
  <2>3. AcceptedOnce(x)'
    BY <1>1, <1>3 DEF AcceptedOnce
  <2> QED
    BY <2>2, <2>3
<1>4. ASSUME NEW t \in Threads, Accepts(t) PROVE AcceptedIs(x)' /\ AcceptedOnce(x)'
  <2> DEFINE m == <<t, sends[t]>>
             all == accepted[x]
  <2>1. /\ m \in Tcp!Messages /\ caller[t] = "enqueue" /\ caller' = [caller EXCEPT ![t] = "modify"]
        /\ sends' = sends
        /\ accepted' = [accepted EXCEPT ![EndOf[t]] = Append(@, m)]
    BY <1>4 DEF Accepts
  <2>2. caller'[t] # "enqueue" /\ \A u \in Threads : caller'[u] = "enqueue" => caller[u] = "enqueue"
    BY <1>1, <2>1 DEF LinkTypes
  <2>3. CASE x # EndOf[t]
    <3> HIDE DEF m
    <3>1. accepted'[x] = accepted[x]
      BY <1>1, <2>1, <2>3 DEF LinkTypes
    <3> QED
      BY <1>3, <3>1
  <2>4. CASE x = EndOf[t]
    <3>1. accepted'[x] = Append(all, m)
      <4> HIDE DEF m
      <4> QED
        BY <1>1, <2>1, <2>4 DEF LinkTypes
    <3>2. all \in Seq(Tcp!Messages) /\ Len(all) \in Nat
      BY <1>1 DEF LinkTypes
    <3>3. \A i \in 1..Len(all) : all[i] # m
      <4> SUFFICES ASSUME NEW i \in 1..Len(all), all[i] = m PROVE FALSE
        OBVIOUS
      <4>1. sends[t] \in 1..MaxSends
        BY <2>1 DEF Tcp!Messages
      <4>2. sends[t] < sends[t]
        BY <1>1, <2>1, <4>1 DEF AcceptedIs
      <4> QED
        BY <1>2, <4>2
    <3> HIDE DEF all
    <3>4. /\ Len(accepted'[x]) = Len(all) + 1
          /\ accepted'[x][Len(all) + 1] = m
          /\ \A i \in 1..Len(all) : accepted'[x][i] = all[i]
      <4> HIDE DEF m
      <4> QED
        BY <2>1, <3>1, <3>2
    <3>5. \A i \in 1..Len(accepted'[x]) : i \in 1..Len(all) \/ i = Len(all) + 1
      BY <3>2, <3>4
    <3>6. AcceptedOnce(x)'
      <4>1. ASSUME NEW i \in 1..Len(accepted'[x]), NEW j \in 1..Len(accepted'[x]),
                   accepted'[x][i] = accepted'[x][j]
            PROVE i = j
        <5>1. \A k, l \in 1..Len(all) : all[k] = all[l] => k = l
          BY <1>1 DEF AcceptedOnce, all
        <5> HIDE DEF m
        <5> QED
          BY <3>3, <3>4, <3>5, <4>1, <5>1
      <4> QED
        BY <4>1 DEF AcceptedOnce
    <3>7. AcceptedIs(x)'
      <4>1. ASSUME NEW i \in 1..Len(accepted'[x]), NEW u \in Threads, NEW n \in 1..MaxSends,
                   accepted'[x][i] = <<u, n>>
            PROVE n <= sends'[u] /\ (caller'[u] = "enqueue" => n < sends'[u])
        <5>1. CASE i = Len(all) + 1
          <6>1. u = t /\ n = sends[t]
            BY <3>4, <4>1, <5>1
          <6> QED
            BY <1>2, <2>1, <2>2, <6>1
        <5>2. CASE i \in 1..Len(all)
          <6>1. all[i] = <<u, n>>
            BY <3>4, <4>1, <5>2
          <6>2. n <= sends[u] /\ (caller[u] = "enqueue" => n < sends[u])
            BY <1>1, <5>2, <6>1 DEF AcceptedIs, all
          <6> QED
            BY <2>1, <2>2, <6>2
        <5> QED
          BY <3>5, <5>1, <5>2
      <4> QED
        BY <4>1 DEF AcceptedIs
    <3> QED
      BY <3>6, <3>7
  <2> QED
    BY <2>3, <2>4
<1>5. CASE Moves
  BY <1>3, <1>5 DEF Moves
<1>6. ASSUME NEW e \in Ends, Begins(e) \/ HandsUp(e) \/ Reports(e)
      PROVE AcceptedIs(x)' /\ AcceptedOnce(x)'
  <2>1. accepted' = accepted
    BY <1>6 DEF Begins, HandsUp, Reports
  <2> QED
    BY <1>3, <2>1
<1> QED
  BY <1>4, <1>5, <1>6 DEF Step

\* What is reported was waiting in the queue, and nothing is handed up after
\* that.
LEMMA ReportedKeeps ==
  ASSUME Tcp!LinkAssumption, LinkIInv, Step, NEW x \in Ends
  PROVE ReportedIs(x)'
<1>1. LinkTypes /\ QueueIs(x) /\ ReportedIs(x) /\ BreaksWhenGone(x)
  BY DEF LinkIInv
<1>2. Tcp!Peer(x) \in Ends
  BY Peers
<1>3. ASSUME reported'[x] = reported[x], accepted'[x] = accepted[x],
             delivered'[Tcp!Peer(x)] = delivered[Tcp!Peer(x)]
      PROVE ReportedIs(x)'
  BY <1>1, <1>3 DEF ReportedIs, HandedUp
<1>4. CASE Moves
  BY <1>3, <1>4 DEF Moves
<1>5. ASSUME NEW t \in Threads, Accepts(t) PROVE ReportedIs(x)'
  <2> DEFINE m == <<t, sends[t]>>
  <2>1. /\ m \in Tcp!Messages /\ delivered' = delivered /\ reported' = reported
        /\ accepted' = [accepted EXCEPT ![EndOf[t]] = Append(@, m)]
    BY <1>5 DEF Accepts
  <2> HIDE DEF m
  <2>2. CASE x # EndOf[t]
    <3>1. accepted'[x] = accepted[x]
      BY <1>1, <2>1, <2>2 DEF LinkTypes
    <3> QED
      BY <1>3, <2>1, <3>1
  <2>3. CASE x = EndOf[t]
    <3> DEFINE all == accepted[x]
    <3>1. accepted'[x] = Append(all, m)
      BY <1>1, <2>1, <2>3 DEF LinkTypes
    <3>2. all \in Seq(Tcp!Messages) /\ Len(all) \in Nat /\ HandedUp(x) \in Nat
      BY <1>1, StreamTypes
    <3>3. HandedUp(x)' = HandedUp(x)
      BY <2>1 DEF HandedUp
    <3>4. \A r \in reported[x] : \E i \in HandedUp(x) + 1..Len(all) : r = all[i]
      BY <1>1 DEF ReportedIs
    <3> HIDE DEF all
    <3>5. /\ Len(accepted'[x]) = Len(all) + 1
          /\ \A i \in 1..Len(all) : accepted'[x][i] = all[i]
      BY <2>1, <3>1, <3>2
    <3>6. \A i \in HandedUp(x) + 1..Len(all) :
            i \in 1..Len(all) /\ i \in HandedUp(x) + 1..Len(all) + 1
      BY <3>2
    <3>7. ASSUME NEW r \in reported'[x]
          PROVE \E i \in HandedUp(x)' + 1..Len(accepted'[x]) : r = accepted'[x][i]
      <4>1. PICK i \in HandedUp(x) + 1..Len(all) : r = all[i]
        BY <2>1, <3>4
      <4>2. i \in 1..Len(all) /\ i \in HandedUp(x)' + 1..Len(accepted'[x])
        BY <3>3, <3>5, <3>6
      <4>3. r = accepted'[x][i]
        BY <3>5, <4>1, <4>2
      <4> QED
        BY <4>2, <4>3
    <3> QED
      BY <3>7 DEF ReportedIs
  <2> QED
    BY <2>2, <2>3
<1>6. ASSUME NEW e \in Ends, Begins(e) PROVE ReportedIs(x)'
  BY <1>3, <1>6 DEF Begins
<1>7. ASSUME NEW f \in Ends, HandsUp(f) PROVE ReportedIs(x)'
  <2>1. UNCHANGED <<accepted, reported>> /\ Tcp!Peer(f) \notin gone
    BY <1>7 DEF HandsUp
  <2>2. CASE x = f
    <3>1. reported[x] = {}
      BY <1>1, <2>1, <2>2 DEF BreaksWhenGone
    <3> QED
      BY <2>1, <3>1 DEF ReportedIs
  <2>3. CASE x # f
    <3> DEFINE m == accepted[f][HandedUp(f) + 1]
    <3>1. delivered' = [delivered EXCEPT ![Tcp!Peer(f)] = Append(@, m)]
      BY <1>7 DEF HandsUp
    <3>2. Tcp!Peer(x) # Tcp!Peer(f)
      BY <2>3, Peers
    <3> HIDE DEF m
    <3>3. delivered'[Tcp!Peer(x)] = delivered[Tcp!Peer(x)]
      BY <1>1, <1>2, <3>1, <3>2 DEF LinkTypes
    <3> QED
      BY <1>3, <2>1, <3>3
  <2> QED
    BY <2>2, <2>3
<1>8. ASSUME NEW e \in Ends, Reports(e) PROVE ReportedIs(x)'
  <2>1. /\ reported' = [reported EXCEPT ![e] = @ \cup {queue[e][i] : i \in DOMAIN queue[e]}]
        /\ UNCHANGED <<accepted, delivered>>
    BY <1>8 DEF Reports
  <2>2. CASE x # e
    <3>1. reported'[x] = reported[x]
      BY <1>1, <2>1, <2>2 DEF LinkTypes
    <3> QED
      BY <1>3, <2>1, <3>1
  <2>3. CASE x = e
    <3>1. reported'[x] = reported[x] \cup {queue[x][i] : i \in DOMAIN queue[x]}
      BY <1>1, <2>1, <2>3 DEF LinkTypes
    <3>2. /\ queue[x] \in Seq(Tcp!Messages) /\ Len(queue[x]) \in Nat /\ Len(accepted[x]) \in Nat
          /\ HandedUp(x) \in Nat
      BY <1>1, StreamTypes
    <3>3. /\ HandedUp(x) + Len(queue[x]) <= Len(accepted[x])
          /\ \A i \in 1..Len(queue[x]) :
               queue[x][i] = accepted[x][Len(accepted[x]) - Len(queue[x]) + i]
      BY <1>1 DEF QueueIs, IsOrder, HandedUp
    <3>4. ASSUME NEW r \in reported'[x]
          PROVE \E i \in HandedUp(x) + 1..Len(accepted[x]) : r = accepted[x][i]
      <4>1. CASE r \in reported[x]
        BY <1>1, <4>1 DEF ReportedIs
      <4>2. CASE r \notin reported[x]
        <5>1. PICK i \in DOMAIN queue[x] : r = queue[x][i]
          BY <3>1, <4>2
        <5>2. i \in 1..Len(queue[x])
          BY <3>2
        <5> DEFINE k == Len(accepted[x]) - Len(queue[x]) + i
                   a == Len(accepted[x])
                   b == Len(queue[x])
                   h == HandedUp(x)
        <5>3. r = accepted[x][k]
          BY <3>3, <5>1, <5>2
        <5>4. a \in Nat /\ b \in Nat /\ h \in Nat /\ h + b <= a /\ i \in 1..b
          BY <3>2, <3>3, <5>2
        <5>5. k = a - b + i
          OBVIOUS
        <5> HIDE DEF k, a, b, h
        <5>6. k \in h + 1..a
          BY <5>4, <5>5
        <5> QED
          BY <5>3, <5>6 DEF a, h
      <4> QED
        BY <4>1, <4>2
    <3>5. HandedUp(x)' = HandedUp(x)
      BY <2>1 DEF HandedUp
    <3> QED
      BY <2>1, <3>4, <3>5 DEF ReportedIs
  <2> QED
    BY <2>2, <2>3
<1> QED
  BY <1>4, <1>5, <1>6, <1>7, <1>8 DEF Step

-----------------------------------------------------------------------------
(* The stream, and where the workers are.                                  *)

\* Every step keeps the streams that somebody receives whole and in order.
LEMMA StreamKeeps ==
  ASSUME Tcp!LinkAssumption, LinkIInv, Step, gone \subseteq gone', NEW x \in Ends
  PROVE StreamIs(x)'
<1> SUFFICES ASSUME Tcp!Peer(x) \notin gone'
             PROVE IsFlow(Stream(x)', accepted'[x], HandedUp(x)', Begun(x)')
  BY DEF StreamIs
<1> DEFINE all == accepted[x]
           q == queue[x]
           h == HandedUp(x)
           n == Begun(x)
           s == Stream(x)
<1>1. LinkTypes /\ QueueIs(x) /\ Tcp!Peer(x) \notin gone
  BY DEF LinkIInv
<1>2. IsFlow(s, all, h, n)
  BY <1>1 DEF LinkIInv, StreamIs
<1>3. /\ s \in Seq(Pieces) /\ all \in Seq(Tcp!Messages) /\ q \in Seq(Tcp!Messages)
      /\ delivered[Tcp!Peer(x)] \in Seq(Tcp!Messages)
      /\ h \in Nat /\ n \in Nat /\ h + n <= Len(all)
      /\ Len(q) \in Nat /\ Len(all) \in Nat
  BY <1>1, StreamTypes
<1>4. n = Len(all) - Len(q) - h /\ h = Len(delivered[Tcp!Peer(x)])
  BY DEF Begun, HandedUp
<1>5. Tcp!Peer(x) \in Ends
  BY Peers
<1>6. ASSUME Stream(x)' = s, accepted'[x] = all, queue'[x] = q,
             delivered'[Tcp!Peer(x)] = delivered[Tcp!Peer(x)]
      PROVE IsFlow(Stream(x)', accepted'[x], HandedUp(x)', Begun(x)')
  <2>1. HandedUp(x)' = h /\ Begun(x)' = n
    BY <1>6 DEF HandedUp, Begun
  <2> QED
    BY <1>2, <1>6, <2>1
<1>7. CASE Moves
  BY <1>1, <1>6, <1>7 DEF Moves
<1>8. ASSUME NEW t \in Threads, Accepts(t)
      PROVE IsFlow(Stream(x)', accepted'[x], HandedUp(x)', Begun(x)')
  <2> DEFINE m == <<t, sends[t]>>
  <2>1. /\ m \in Tcp!Messages
        /\ queue' = [queue EXCEPT ![EndOf[t]] = Append(@, m)]
        /\ accepted' = [accepted EXCEPT ![EndOf[t]] = Append(@, m)]
        /\ UNCHANGED <<delivered, got, wire, writing>>
    BY <1>8 DEF Accepts
  <2>2. Stream(x)' = s /\ HandedUp(x)' = h
    BY <2>1 DEF Stream, HandedUp
  <2> HIDE DEF m
  <2>3. CASE x # EndOf[t]
    <3>1. queue'[x] = queue[x] /\ accepted'[x] = accepted[x]
      BY <1>1, <2>1, <2>3 DEF LinkTypes
    <3> QED
      BY <1>6, <2>1, <2>2, <3>1
  <2>4. CASE x = EndOf[t]
    <3>1. queue'[x] = Append(q, m) /\ accepted'[x] = Append(all, m)
      BY <1>1, <2>1, <2>4 DEF LinkTypes
    <3>2. Begun(x)' = Len(Append(all, m)) - Len(Append(q, m)) - h
      BY <2>2, <3>1 DEF Begun
    <3> HIDE DEF all, q, h, n, s
    <3>3. Len(Append(all, m)) = Len(all) + 1 /\ Len(Append(q, m)) = Len(q) + 1
      BY <1>3, <2>1
    <3>4. Begun(x)' = n
      BY <1>3, <1>4, <3>2, <3>3
    <3>5. IsFlow(s, Append(all, m), h, n)
      BY <1>2, <1>3, <2>1, FlowKeeps
    <3> QED
      BY <2>2, <3>1, <3>4, <3>5
  <2> QED
    BY <2>3, <2>4
<1>9. ASSUME NEW e \in Ends, Begins(e)
      PROVE IsFlow(Stream(x)', accepted'[x], HandedUp(x)', Begun(x)')
  <2>1. /\ writing[e] = <<>> /\ Len(queue[e]) >= 1
        /\ queue' = [queue EXCEPT ![e] = Tail(@)]
        /\ writing' = [writing EXCEPT ![e] = Tcp!Units(queue[e][1])]
        /\ UNCHANGED <<accepted, delivered, got, wire>>
    BY <1>9 DEF Begins
  <2>2. CASE x # e
    <3>1. queue'[x] = queue[x] /\ writing'[x] = writing[x]
      BY <1>1, <2>1, <2>2 DEF LinkTypes
    <3>2. Stream(x)' = s
      BY <2>1, <3>1 DEF Stream
    <3> QED
      BY <1>6, <2>1, <3>1, <3>2
  <2>3. CASE x = e
    <3>1. queue'[x] = Tail(q) /\ writing'[x] = Tcp!Units(q[1])
      BY <1>1, <2>1, <2>3 DEF LinkTypes
    <3>2. Len(Tail(q)) = Len(q) - 1 /\ q[1] = all[Len(all) - Len(q) + 1]
      BY <1>1, <1>3, <2>1, <2>3, OrderBegins DEF QueueIs
    <3>3. s = got[Tcp!Peer(x)] \o wire[Tcp!Peer(x)]
      <4> DEFINE y == got[Tcp!Peer(x)] \o wire[Tcp!Peer(x)]
      <4>1. got[Tcp!Peer(x)] \in Seq(Pieces) /\ wire[Tcp!Peer(x)] \in Seq(Pieces)
        BY <1>1, StreamTypes
      <4>2. y \in Seq(Pieces)
        BY <4>1
      <4>3. s = y \o <<>>
        BY <2>1, <2>3 DEF Stream
      <4> HIDE DEF y, s
      <4>4. y \o <<>> = y
        BY <4>2
      <4> QED
        BY <4>3, <4>4 DEF y
    <3>4. Stream(x)' = s \o Tcp!Units(q[1])
      BY <2>1, <3>1, <3>3 DEF Stream
    <3>5. accepted'[x] = all /\ HandedUp(x)' = h /\ Begun(x)' = Len(all) - Len(Tail(q)) - h
      BY <2>1, <3>1 DEF HandedUp, Begun
    <3>6. Len(q) >= 1
      BY <2>1, <2>3
    <3> HIDE DEF all, q, h, n, s
    <3> DEFINE a == Len(all)
               b == Len(q)
    <3>7. a \in Nat /\ b \in Nat /\ b >= 1 /\ h \in Nat /\ n = a - b - h
      BY <1>3, <1>4, <3>6
    <3>8. Begun(x)' = a - (b - 1) - h
      BY <3>2, <3>5
    <3>9. q[1] = all[a - b + 1]
      BY <3>2
    <3> HIDE DEF a, b
    <3>10. Begun(x)' = n + 1 /\ h + n + 1 = a - b + 1 /\ h + n + 1 <= a
      BY <3>7, <3>8
    <3>11. h + n + 1 <= Len(all) /\ q[1] = all[h + n + 1]
      BY <3>9, <3>10 DEF a
    <3>12. IsFlow(s \o Tcp!Units(all[h + n + 1]), all, h, n + 1)
      BY <1>2, <1>3, <3>11, FlowGrows
    <3> QED
      BY <3>4, <3>5, <3>10, <3>11, <3>12
  <2> QED
    BY <2>2, <2>3
<1>10. ASSUME NEW f \in Ends, HandsUp(f)
       PROVE IsFlow(Stream(x)', accepted'[x], HandedUp(x)', Begun(x)')
  <2> DEFINE m == accepted[f][HandedUp(f) + 1]
  <2>1. /\ delivered' = [delivered EXCEPT ![Tcp!Peer(f)] = Append(@, m)]
        /\ UNCHANGED <<queue, accepted>>
        /\ IsFlow(Stream(f)', accepted[f], HandedUp(f) + 1, Begun(f) - 1)
        /\ Stream(Tcp!Peer(f))' = Stream(Tcp!Peer(f))
    BY <1>10 DEF HandsUp
  <2> HIDE DEF m
  <2>2. CASE x = f
    <3>1. delivered'[Tcp!Peer(x)] = Append(delivered[Tcp!Peer(x)], m)
      BY <1>1, <1>5, <2>1, <2>2 DEF LinkTypes
    <3>2. Len(delivered'[Tcp!Peer(x)]) = Len(delivered[Tcp!Peer(x)]) + 1
      BY <1>3, <3>1
    <3>3. HandedUp(x)' = h + 1
      BY <3>2 DEF HandedUp
    <3>4. Begun(x)' = Len(all) - Len(q) - (h + 1)
      BY <2>1, <3>3 DEF Begun
    <3>5. IsFlow(Stream(x)', all, h + 1, n - 1) /\ accepted'[x] = all
      BY <2>1, <2>2
    <3> HIDE DEF all, q, h, n
    <3>6. Begun(x)' = n - 1
      BY <1>3, <1>4, <3>4
    <3> QED
      BY <3>3, <3>5, <3>6
  <2>3. CASE x # f
    <3>1. x = Tcp!Peer(f) /\ Tcp!Peer(x) # Tcp!Peer(f)
      BY <2>3, Peers
    <3>2. delivered'[Tcp!Peer(x)] = delivered[Tcp!Peer(x)]
      BY <1>1, <1>5, <2>1, <3>1 DEF LinkTypes
    <3> QED
      BY <1>6, <2>1, <3>1, <3>2
  <2> QED
    BY <2>2, <2>3
<1>11. ASSUME NEW e \in Ends, Reports(e)
       PROVE IsFlow(Stream(x)', accepted'[x], HandedUp(x)', Begun(x)')
  <2>1. /\ Tcp!Peer(e) \in gone /\ queue' = [queue EXCEPT ![e] = <<>>]
        /\ UNCHANGED <<accepted, delivered, got, wire, writing>>
    BY <1>11 DEF Reports
  <2>2. x # e
    BY <1>1, <2>1
  <2>3. queue'[x] = queue[x]
    BY <1>1, <2>1, <2>2 DEF LinkTypes
  <2>4. Stream(x)' = s
    BY <2>1 DEF Stream
  <2> QED
    BY <1>6, <2>1, <2>3, <2>4
<1> QED
  BY <1>7, <1>8, <1>9, <1>10, <1>11 DEF Step

\* The part of the invariant that is about the worker of an end.
WorkerIs(e) == BreaksWhenGone(e) /\ GotIs(e) /\ WritingIs(e)

\* It holds of the end whose worker does not move.
LEMMA WorkerStays ==
  ASSUME NEW x \in Ends, WorkerIs(x), gone \subseteq gone',
         pc'[x] = pc[x], mask'[x] \in {mask[x], "inout"}, reported'[x] = reported[x],
         got'[x] = got[x], writing'[x] = writing[x]
  PROVE WorkerIs(x)'
<1>1. BreaksWhenGone(x)'
  BY DEF WorkerIs, BreaksWhenGone
<1>2. GotIs(x)' /\ WritingIs(x)'
  BY DEF WorkerIs, GotIs, WritingIs
<1> QED
  BY <1>1, <1>2 DEF WorkerIs

\* Threads do not move the worker.
LEMMA ThreadsLeaveWorkers ==
  ASSUME Tcp!LinkAssumption, LinkIInv, NEW t \in Threads, Tcp!NonBlockSend(t) \/ Tcp!Send(t),
         NEW x \in Ends
  PROVE WorkerIs(x)'
<1>1. LinkTypes /\ WorkerIs(x)
  BY DEF LinkIInv, WorkerIs
<1>2. EndOf[t] \in Ends
  BY DEF Tcp!LinkAssumption
<1>3. CASE Tcp!NonBlockSend(t)
  <2>1. UNCHANGED <<pc, mask, reported, got, writing, gone>>
    BY <1>3 DEF Tcp!NonBlockSend, Tcp!epoll, Tcp!worker, Tcp!sockets, Tcp!told
  <2> QED
    BY <1>1, <2>1, WorkerStays
<1>4. CASE Tcp!EnqueueBack(t)
  <2>1. UNCHANGED <<pc, mask, reported, got, writing, gone>>
    BY <1>4 DEF Tcp!EnqueueBack, Tcp!epoll, Tcp!worker, Tcp!sockets
  <2> QED
    BY <1>1, <2>1, WorkerStays
<1>5. CASE Tcp!EnqueueAndModifyEpoll(t)
  <2>1. UNCHANGED <<pc, reported, got, writing, gone>>
    BY <1>5 DEF Tcp!EnqueueAndModifyEpoll, Tcp!worker, Tcp!sockets, Tcp!told
  <2>2. Tcp!ModifyLink(EndOf[t], "inout", {}) /\ "inout" \in {"inout", "wrnorm"}
    BY <1>5 DEF Tcp!EnqueueAndModifyEpoll
  <2>3. mask'[x] \in {mask[x], "inout"}
    BY <1>1, <1>2, <2>2, ModifyTypes
  <2> QED
    BY <1>1, <2>1, <2>3, WorkerStays
<1> QED
  BY <1>3, <1>4, <1>5 DEF Tcp!Send

\* The worker of an end stays in its part of the invariant, and the other one.
LEMMA EventsKeepWorkers ==
  ASSUME Tcp!LinkAssumption, LinkIInv, NEW e \in Ends,
         Tcp!Event(e) \/ Tcp!RecvTimesOut(e) \/ Tcp!Exit(e), NEW x \in Ends
  PROVE WorkerIs(x)'
<1> DEFINE f == Tcp!Peer(e)
<1>1. LinkTypes /\ WorkerIs(e) /\ WorkerIs(x)
  BY DEF LinkIInv, WorkerIs
<1>2. Tcp!Peer(x) \in Ends /\ Tcp!Peer(x) # x
  BY Peers
<1>3. /\ pc[e] \in {"break", "cleanup"} \/ mask[e] = "wrnorm" \/ reported[e] # {} => f \in gone
      /\ Len(got[e]) < Tcp!MsgLen
      /\ pc[e] = "header" => Len(got[e]) < HeaderLen
      /\ pc[e] # "write" => writing[e] = <<>>
  BY <1>1 DEF WorkerIs, BreaksWhenGone, GotIs, WritingIs
<1>4. gone \subseteq gone'
  BY EventStep
<1>5. ASSUME x # e, \A p \in Ends : p # e => pc'[p] = pc[p],
             mask'[x] \in {mask[x], "inout"}, reported'[x] = reported[x],
             got'[x] = got[x], writing'[x] = writing[x]
      PROVE WorkerIs(x)'
  BY <1>1, <1>4, <1>5, WorkerStays
<1>6. ASSUME /\ pc'[e] \in {"break", "cleanup"} \/ mask'[e] = "wrnorm" \/ reported'[e] # {}
                => f \in gone'
             /\ Len(got'[e]) < Tcp!MsgLen
             /\ pc'[e] = "header" => Len(got'[e]) < HeaderLen
             /\ pc'[e] # "write" => writing'[e] = <<>>
      PROVE WorkerIs(e)'
  BY <1>6 DEF WorkerIs, BreaksWhenGone, GotIs, WritingIs
<1>7. CASE Tcp!PollIn(e)
  <2>1. /\ pc[e] = "poll" /\ pc' = [pc EXCEPT ![e] = IF Len(got[e]) < HeaderLen THEN "header" ELSE "body"]
        /\ mask[e] = "inout"
        /\ UNCHANGED <<mask, reported, got, writing>>
    BY <1>7 DEF Tcp!PollIn, Tcp!AtPoll, Tcp!Move, Tcp!told
  <2>2. /\ \A p \in Ends : p # e => pc'[p] = pc[p]
        /\ pc'[e] \in {"header", "body"} /\ (pc'[e] = "header" => Len(got[e]) < HeaderLen)
    BY <1>1, <2>1 DEF LinkTypes
  <2>3. WorkerIs(e)'
    BY <1>3, <1>4, <1>6, <2>1, <2>2
  <2> QED
    BY <1>5, <2>1, <2>2, <2>3
<1>8. CASE Tcp!PollOut(e)
  <2>1. /\ pc[e] = "poll" /\ UNCHANGED <<mask, got, reported>>
        /\ \/ UNCHANGED <<queue, pc, writing>>
           \/ /\ writing' = [writing EXCEPT ![e] = Tcp!Units(queue[e][1])]
              /\ pc' = [pc EXCEPT ![e] = "write"]
    BY <1>1, <1>8, PollOutSays DEF Tcp!told
  <2>2. CASE UNCHANGED <<queue, pc, writing>>
    BY <1>1, <1>4, <2>1, <2>2, WorkerStays
  <2>3. CASE /\ writing' = [writing EXCEPT ![e] = Tcp!Units(queue[e][1])]
             /\ pc' = [pc EXCEPT ![e] = "write"]
    <3>1. /\ \A p \in Ends : p # e => pc'[p] = pc[p] /\ writing'[p] = writing[p]
          /\ pc'[e] = "write"
      BY <1>1, <2>3 DEF LinkTypes
    <3>2. WorkerIs(e)'
      BY <1>3, <1>4, <1>6, <2>1, <3>1
    <3> QED
      BY <1>5, <2>1, <3>1, <3>2
  <2> QED
    BY <2>1, <2>2, <2>3
<1>9. CASE Tcp!PollNothing(e)
  <2>1. UNCHANGED <<pc, mask, reported, got, writing>>
    BY <1>9 DEF Tcp!PollNothing, Tcp!worker, Tcp!told
  <2> QED
    BY <1>1, <1>4, <2>1, WorkerStays
<1>10. CASE Tcp!PollError(e) \/ Tcp!Break(e)
  <2>1. /\ \/ pc[e] = "poll" /\ mask[e] = "wrnorm" /\ pc' = [pc EXCEPT ![e] = "break"]
           \/ pc[e] = "break" /\ pc' = [pc EXCEPT ![e] = "cleanup"]
        /\ UNCHANGED <<mask, reported, got, writing>>
    <3>1. CASE Tcp!PollError(e)
      BY <3>1 DEF Tcp!PollError, Tcp!AtPoll, Tcp!Move, Tcp!told
    <3>2. CASE Tcp!Break(e)
      BY <3>2 DEF Tcp!Break, Tcp!Move, Tcp!epoll, Tcp!told
    <3> QED
      BY <1>10, <3>1, <3>2
  <2>2. /\ \A p \in Ends : p # e => pc'[p] = pc[p]
        /\ pc'[e] \in {"break", "cleanup"} /\ pc[e] # "write" /\ f \in gone
    BY <1>1, <1>3, <2>1 DEF LinkTypes
  <2>3. WorkerIs(e)'
    BY <1>3, <1>4, <1>6, <2>1, <2>2
  <2> QED
    BY <1>5, <2>1, <2>2, <2>3
<1>11. CASE Tcp!RecvHeader(e)
  <2> DEFINE h == Held(e, HeaderLen)
  <2>1. /\ h \in Seq(Pieces) /\ Len(h) <= HeaderLen
        /\ got' = [got EXCEPT ![e] = h]
        /\ \/ pc' = [pc EXCEPT ![e] = "body"]
           \/ pc' = [pc EXCEPT ![e] = "poll"]
        /\ \A p \in Ends : mask'[p] \in {mask[p], "inout"}
        /\ UNCHANGED <<writing, reported>>
    BY <1>1, <1>11, RecvHeaderSays DEF WorkerIs, Tcp!told
  <2>2. pc[e] = "header"
    BY <1>11 DEF Tcp!RecvHeader
  <2> HIDE DEF h
  <2>3. Len(h) < Tcp!MsgLen
    BY <2>1, Lengths
  <2>4. /\ \A p \in Ends : p # e => pc'[p] = pc[p] /\ got'[p] = got[p]
        /\ pc'[e] \in {"body", "poll"} /\ got'[e] = h
    BY <1>1, <2>1 DEF LinkTypes
  <2>5. WorkerIs(e)'
    BY <1>3, <1>4, <1>6, <2>1, <2>2, <2>3, <2>4
  <2> QED
    BY <1>5, <2>1, <2>4, <2>5
<1>12. CASE Tcp!RecvBody(e)
  <2> DEFINE h == Held(e, Tcp!MsgLen)
  <2>1. /\ pc' = [pc EXCEPT ![e] = "poll"]
        /\ \A p \in Ends : mask'[p] \in {mask[p], "inout"}
        /\ UNCHANGED <<writing, reported>>
        /\ \/ got' = [got EXCEPT ![e] = h] /\ Len(h) < Tcp!MsgLen
           \/ got' = [got EXCEPT ![e] = <<>>]
    BY <1>12, RecvBodySays
  <2>2. pc[e] = "body"
    BY <1>12 DEF Tcp!RecvBody
  <2> HIDE DEF h
  <2>3. Len(<<>>) < Tcp!MsgLen
    BY Lengths
  <2>4. /\ \A p \in Ends : p # e => pc'[p] = pc[p] /\ got'[p] = got[p]
        /\ pc'[e] = "poll" /\ (got'[e] = <<>> \/ (got'[e] = h /\ Len(h) < Tcp!MsgLen))
    <3>1. /\ \A p \in Ends : p # e => pc'[p] = pc[p]
          /\ pc'[e] = "poll"
      BY <1>1, <2>1 DEF LinkTypes
    <3>2. got \in [Ends -> Seq(Pieces)]
      BY <1>1 DEF LinkTypes
    <3>3. CASE got' = [got EXCEPT ![e] = h] /\ Len(h) < Tcp!MsgLen
      BY <3>1, <3>2, <3>3
    <3>4. CASE got' = [got EXCEPT ![e] = <<>>]
      BY <3>1, <3>2, <3>4
    <3> QED
      BY <2>1, <3>3, <3>4
  <2>5. WorkerIs(e)'
    BY <1>3, <1>4, <1>6, <2>1, <2>2, <2>3, <2>4
  <2> QED
    BY <1>5, <2>1, <2>4, <2>5
<1>13. CASE Tcp!RecvClosed(e) \/ Tcp!RecvTimesOut(e)
  <2>1. /\ pc[e] \in {"header", "body"}
        /\ \/ Tcp!Rearm(e, {})
           \/ pc' = [pc EXCEPT ![e] = "break"] /\ mask' = mask /\ f \in gone
        /\ UNCHANGED <<writing, got, reported>>
    BY <1>13 DEF Tcp!RecvClosed, Tcp!RecvTimesOut, Tcp!Receiving, Tcp!Move, Tcp!epoll, Tcp!told
  <2>2. /\ \A p \in Ends : mask'[p] \in {mask[p], "inout"}
        /\ \/ pc' = [pc EXCEPT ![e] = "poll"]
           \/ pc' = [pc EXCEPT ![e] = "break"] /\ f \in gone
    <3>1. CASE Tcp!Rearm(e, {})
      BY <1>1, <3>1, RearmTypes
    <3>2. CASE pc' = [pc EXCEPT ![e] = "break"] /\ mask' = mask /\ f \in gone
      BY <3>2
    <3> QED
      BY <2>1, <3>1, <3>2
  <2>3. /\ \A p \in Ends : p # e => pc'[p] = pc[p]
        /\ pc'[e] = "poll" \/ (pc'[e] = "break" /\ f \in gone)
    BY <1>1, <2>2 DEF LinkTypes
  <2>4. WorkerIs(e)'
    BY <1>3, <1>4, <1>6, <2>1, <2>2, <2>3
  <2> QED
    BY <1>5, <2>1, <2>2, <2>3, <2>4
<1>14. ASSUME NEW k \in 1..SockCap, Tcp!Write(e, k)
       PROVE WorkerIs(x)'
  <2> DEFINE w == SubSeq(writing[e], k + 1, Len(writing[e]))
  <2>1. /\ pc[e] = "write"
        /\ writing' = [writing EXCEPT ![e] = w]
        /\ \A p \in Ends : mask'[p] \in {mask[p], "inout"}
        /\ \/ pc' = pc
           \/ pc' = [pc EXCEPT ![e] = "poll"] /\ w = <<>>
        /\ UNCHANGED <<got, reported>>
    BY <1>1, <1>14, WriteSays DEF Tcp!told
  <2> HIDE DEF w
  <2>2. /\ \A p \in Ends : p # e => pc'[p] = pc[p] /\ writing'[p] = writing[p]
        /\ pc'[e] = "write" \/ (pc'[e] = "poll" /\ writing'[e] = <<>>)
    BY <1>1, <2>1 DEF LinkTypes
  <2>3. WorkerIs(e)'
    BY <1>3, <1>4, <1>6, <2>1, <2>2
  <2> QED
    BY <1>5, <2>1, <2>2, <2>3
<1>15. CASE Tcp!WriteFails(e)
  <2>1. /\ pc[e] = "write" /\ f \in gone
        /\ writing' = [writing EXCEPT ![e] = <<>>]
        /\ pc' = [pc EXCEPT ![e] = "poll"]
        /\ Tcp!ModifyLink(e, "wrnorm", {}) /\ "wrnorm" \in {"inout", "wrnorm"}
        /\ UNCHANGED <<got, reported>>
    BY <1>15 DEF Tcp!WriteFails, Tcp!Move, Tcp!told
  <2>2. \A p \in Ends : p # e => mask'[p] = mask[p]
    BY <1>1, <2>1, ModifyTypes
  <2>3. /\ \A p \in Ends : p # e => pc'[p] = pc[p] /\ writing'[p] = writing[p]
        /\ pc'[e] = "poll" /\ writing'[e] = <<>>
    BY <1>1, <2>1 DEF LinkTypes
  <2>4. WorkerIs(e)'
    BY <1>3, <1>4, <1>6, <2>1, <2>3
  <2> QED
    BY <1>5, <2>1, <2>2, <2>3, <2>4
<1>16. CASE Tcp!CleanUp(e)
  <2>1. /\ pc[e] = "cleanup"
        /\ reported' = [reported EXCEPT ![e] = @ \cup {queue[e][i] : i \in DOMAIN queue[e]}]
        /\ pc' = [pc EXCEPT ![e] = "remove"]
        /\ UNCHANGED <<mask, writing, got>>
    BY <1>16 DEF Tcp!CleanUp, Tcp!Move, Tcp!epoll
  <2>2. /\ \A p \in Ends : p # e => pc'[p] = pc[p] /\ reported'[p] = reported[p]
        /\ pc'[e] = "remove"
    BY <1>1, <2>1 DEF LinkTypes
  <2>3. WorkerIs(e)'
    BY <1>3, <1>4, <1>6, <2>1, <2>2
  <2> QED
    BY <1>5, <2>1, <2>2, <2>3
<1>17. CASE Tcp!Exit(e)
  <2>1. UNCHANGED <<pc, mask, reported, got, writing>>
    BY <1>17 DEF Tcp!Exit, Tcp!worker, Tcp!told
  <2> QED
    BY <1>1, <1>4, <2>1, WorkerStays
<1>18. CASE Tcp!RemoveLink(e)
  <2>1. /\ pc[e] = "remove" /\ pc' = [pc EXCEPT ![e] = "poll"]
        /\ UNCHANGED <<mask, reported, got, writing>>
    BY <1>18 DEF Tcp!RemoveLink, Tcp!Move, Tcp!told
  <2>2. /\ \A p \in Ends : p # e => pc'[p] = pc[p]
        /\ pc'[e] = "poll"
    BY <1>1, <2>1 DEF LinkTypes
  <2>3. WorkerIs(e)'
    BY <1>3, <1>4, <1>6, <2>1, <2>2
  <2> QED
    BY <1>5, <2>1, <2>2, <2>3
<1>19. Tcp!Event(e) \/ Tcp!RecvTimesOut(e) \/ Tcp!Exit(e)
  OBVIOUS
<1> QED
  BY <1>7, <1>8, <1>9, <1>10, <1>11, <1>12, <1>13, <1>14, <1>15, <1>16, <1>17, <1>18, <1>19
  DEF Tcp!Event

-----------------------------------------------------------------------------
(* What the link promises.                                                 *)

\* At first nothing was sent.
LEMMA InitIInv ==
  ASSUME Tcp!LinkAssumption
  PROVE Tcp!Init => LinkIInv
<1> SUFFICES ASSUME Tcp!Init PROVE LinkIInv
  OBVIOUS
<1>1. <<>> \in Seq(Tcp!Messages) /\ <<>> \in Seq(Pieces) /\ Len(<<>>) = 0
  OBVIOUS
<1>2. 0 \in 0..MaxSends
  BY DEF Tcp!LinkAssumption
<1>3. LinkTypes
  BY <1>1, <1>2 DEF Tcp!Init, LinkTypes
<1>4. Calling
  BY DEF Tcp!Init, Calling
<1>5. ASSUME NEW e \in Ends
      PROVE /\ QueueIs(e) /\ AcceptedIs(e) /\ AcceptedOnce(e) /\ ReportedIs(e)
            /\ WorkerIs(e) /\ StreamIs(e)
  <2>1. /\ queue[e] = <<>> /\ accepted[e] = <<>> /\ delivered[Tcp!Peer(e)] = <<>>
        /\ got[e] = <<>> /\ got[Tcp!Peer(e)] = <<>> /\ wire[Tcp!Peer(e)] = <<>> /\ writing[e] = <<>>
        /\ reported[e] = {} /\ pc[e] = "poll" /\ mask[e] = "inout"
    BY Peers DEF Tcp!Init
  <2>2. QueueIs(e)
    BY <1>1, <2>1 DEF QueueIs, IsOrder
  <2>3. AcceptedIs(e) /\ AcceptedOnce(e)
    BY <1>1, <2>1 DEF AcceptedIs, AcceptedOnce
  <2>4. ReportedIs(e)
    BY <2>1 DEF ReportedIs
  <2>5. WorkerIs(e)
    BY <1>1, <2>1, Lengths DEF WorkerIs, BreaksWhenGone, GotIs, WritingIs
  <2>6. StreamIs(e)
    <3>1. Begun(e) = 0 /\ Len(Stream(e)) = 0
      <4>1. Begun(e) = 0
        <5>1. Begun(e) = Len(<<>>) - Len(<<>>) - Len(<<>>)
          BY <2>1 DEF Begun, HandedUp
        <5>2. Len(<<>>) = 0 /\ 0 - 0 - 0 = 0
          OBVIOUS
        <5> QED
          BY <5>1, <5>2
      <4>2. Stream(e) = (<<>> \o <<>>) \o <<>>
        BY <2>1 DEF Stream
      <4> QED
        BY <4>1, <4>2
    <3>2. 0 * Tcp!MsgLen = 0 /\ 0..0 - 1 = {}
      BY Lengths
    <3>3. IsFlow(Stream(e), accepted[e], HandedUp(e), 0)
      BY <3>1, <3>2 DEF IsFlow
    <3> QED
      BY <3>1, <3>3 DEF StreamIs
  <2> QED
    BY <2>2, <2>3, <2>4, <2>5, <2>6
<1> QED
  BY <1>3, <1>4, <1>5 DEF LinkIInv, WorkerIs

\* Every step is one of those that move messages.
LEMMA NextIsStep ==
  ASSUME Tcp!LinkAssumption, LinkIInv, Tcp!Next
  PROVE LinkTypes' /\ Calling' /\ CallsGoOn /\ Step /\ gone \subseteq gone'
        /\ \A x \in Ends : WorkerIs(x)'
<1>1. LinkTypes /\ Calling
  BY DEF LinkIInv
<1>2. ASSUME NEW t \in Threads, Tcp!NonBlockSend(t) \/ Tcp!Send(t)
      PROVE LinkTypes' /\ Calling' /\ CallsGoOn /\ Step /\ gone \subseteq gone'
            /\ \A x \in Ends : WorkerIs(x)'
  <2>1. LinkTypes'
    BY <1>1, <1>2, ThreadTypes
  <2>2. CallsGoOn /\ Calling' /\ (Moves \/ Accepts(t)) /\ gone' = gone
    BY <1>2, ThreadStep
  <2>3. \A x \in Ends : WorkerIs(x)'
    BY <1>2, ThreadsLeaveWorkers
  <2> QED
    BY <2>1, <2>2, <2>3 DEF Step
<1>3. ASSUME NEW e \in Ends, Tcp!Event(e) \/ Tcp!RecvTimesOut(e) \/ Tcp!Exit(e)
      PROVE LinkTypes' /\ Calling' /\ CallsGoOn /\ Step /\ gone \subseteq gone'
            /\ \A x \in Ends : WorkerIs(x)'
  <2>1. LinkTypes'
    BY <1>3, EventTypes
  <2>2. /\ UNCHANGED Tcp!threads /\ gone \subseteq gone'
        /\ Moves \/ Begins(e) \/ HandsUp(Tcp!Peer(e)) \/ Reports(e)
    BY <1>3, EventStep
  <2>3. Step
    BY <2>2, Peers DEF Step
  <2>4. Calling' /\ CallsGoOn
    BY <1>1, <2>2 DEF Calling, CallsGoOn, Tcp!threads
  <2>5. \A x \in Ends : WorkerIs(x)'
    BY <1>3, EventsKeepWorkers
  <2> QED
    BY <2>1, <2>2, <2>3, <2>4, <2>5
<1> QED
  BY <1>2, <1>3 DEF Tcp!Next

\* The invariant is inductive.
LEMMA NextIInv ==
  ASSUME Tcp!LinkAssumption
  PROVE LinkIInv /\ [Tcp!Next]_Tcp!vars => LinkIInv'
<1> SUFFICES ASSUME LinkIInv, [Tcp!Next]_Tcp!vars PROVE LinkIInv'
  OBVIOUS
<1>1. CASE Tcp!Next
  <2>1. LinkTypes' /\ Calling' /\ CallsGoOn /\ Step /\ gone \subseteq gone'
        /\ \A x \in Ends : WorkerIs(x)'
    BY <1>1, NextIsStep
  <2>2. ASSUME NEW x \in Ends
        PROVE /\ QueueIs(x)' /\ AcceptedIs(x)' /\ AcceptedOnce(x)'
              /\ ReportedIs(x)' /\ StreamIs(x)'
    BY <2>1, OrderKeeps, AcceptedKeeps, ReportedKeeps, StreamKeeps
  <2> QED
    BY <2>1, <2>2 DEF LinkIInv, WorkerIs
<1>2. CASE UNCHANGED Tcp!vars
  <2>1. UNCHANGED <<queue, accepted, delivered, reported, got, wire, writing>>
        /\ UNCHANGED <<established, added, ready, mask, pc, errno, gone, caller, sends>>
    BY <1>2 DEF Tcp!vars, Tcp!ends, Tcp!epoll, Tcp!worker, Tcp!sockets, Tcp!threads, Tcp!told
  <2>2. LinkTypes' /\ Calling'
    BY <2>1 DEF LinkIInv, LinkTypes, Calling
  <2>3. ASSUME NEW x \in Ends
        PROVE QueueIs(x)' /\ AcceptedIs(x)' /\ AcceptedOnce(x)' /\ ReportedIs(x)'
              /\ BreaksWhenGone(x)' /\ GotIs(x)' /\ WritingIs(x)' /\ StreamIs(x)'
    <3>1. QueueIs(x)' /\ AcceptedIs(x)' /\ AcceptedOnce(x)' /\ ReportedIs(x)'
      BY <2>1 DEF LinkIInv, QueueIs, AcceptedIs, AcceptedOnce, ReportedIs, HandedUp
    <3>2. BreaksWhenGone(x)' /\ GotIs(x)' /\ WritingIs(x)'
      BY <2>1 DEF LinkIInv, BreaksWhenGone, GotIs, WritingIs
    <3>3. StreamIs(x)'
      BY <2>1 DEF LinkIInv, StreamIs, Stream, HandedUp, Begun
    <3> QED
      BY <3>1, <3>2, <3>3
  <2> QED
    BY <2>2, <2>3 DEF LinkIInv
<1> QED
  BY <1>1, <1>2

\* What is reported has not been handed up: it is another message of the same
\* end, further on.
LEMMA ReportedLater ==
  ASSUME Tcp!LinkAssumption
  PROVE LinkIInv => ReportedNotDelivered
<1> SUFFICES ASSUME LinkIInv, NEW e \in Ends, NEW i \in DOMAIN delivered[e],
                    delivered[e][i] \in reported[Tcp!Peer(e)]
             PROVE FALSE
  BY DEF ReportedNotDelivered, Peer, Tcp!Peer
<1> DEFINE f == Tcp!Peer(e)
<1>1. f \in Ends /\ Tcp!Peer(f) = e
  BY Peers
<1>2. LinkTypes /\ QueueIs(f) /\ AcceptedOnce(f) /\ ReportedIs(f)
  BY <1>1 DEF LinkIInv
<1>3. /\ delivered[e] \in Seq(Tcp!Messages) /\ Len(accepted[f]) \in Nat /\ Len(queue[f]) \in Nat
      /\ HandedUp(f) \in Nat /\ HandedUp(f) = Len(delivered[e])
  BY <1>1, <1>2, StreamTypes DEF HandedUp
<1>4. /\ HandedUp(f) + Len(queue[f]) <= Len(accepted[f])
      /\ \A k \in 1..HandedUp(f) : delivered[e][k] = accepted[f][k]
  BY <1>1, <1>2 DEF QueueIs, IsOrder, HandedUp
<1>5. i \in 1..HandedUp(f)
  BY <1>3
<1>6. PICK j \in HandedUp(f) + 1..Len(accepted[f]) : delivered[e][i] = accepted[f][j]
  BY <1>2 DEF ReportedIs
<1>7. accepted[f][i] = accepted[f][j]
  BY <1>4, <1>5, <1>6
<1>8. i \in 1..Len(accepted[f]) /\ j \in 1..Len(accepted[f]) /\ i # j
  <2> DEFINE h == HandedUp(f)
             a == Len(accepted[f])
             b == Len(queue[f])
  <2>1. h \in Nat /\ a \in Nat /\ b \in Nat /\ h + b <= a /\ i \in 1..h /\ j \in h + 1..a
    BY <1>3, <1>4, <1>5, <1>6
  <2> HIDE DEF h, a, b
  <2>2. i \in 1..a /\ j \in 1..a /\ i # j
    BY <2>1
  <2> QED
    BY <2>2 DEF a
<1> QED
  BY <1>2, <1>7, <1>8 DEF AcceptedOnce

\* In every state of a link what is between the queue of an end and the handler
\* of the other is the messages begun, whole and in order, and the other parts
\* of the invariant hold.
THEOREM LinkInvariant ==
  ASSUME Tcp!LinkAssumption
  PROVE Tcp!Spec => []LinkIInv
BY InitIInv, NextIInv, PTL DEF Tcp!Spec

\* A message reported as not sent because the link broke was not handed to the
\* request handler of the other end, and never will be, whatever threads send
\* and however the sockets cut the messages.
THEOREM LinkReports ==
  ASSUME Tcp!LinkAssumption
  PROVE Tcp!Spec => []ReportedNotDelivered
BY LinkInvariant, ReportedLater, PTL

\* The first step of a channel.
LEMMA ChannelInit == Tcp!Init => AbstractChannel!Init
BY DEF Tcp!Init, AbstractChannel!Init

\* A step of the link accepts a message, or hands up the next one, or changes
\* neither what is accepted nor what is handed up.
LEMMA ChannelStep ==
  ASSUME Tcp!LinkAssumption, LinkIInv, Tcp!Next
  PROVE [AbstractChannel!Next]_<<accepted, delivered>>
<1>1. LinkTypes /\ Step
  BY NextIsStep DEF LinkIInv
<1>2. CASE Moves
  BY <1>2 DEF Moves
<1>3. ASSUME NEW t \in Threads, Accepts(t)
      PROVE AbstractChannel!Next
  <2> DEFINE m == <<t, sends[t]>>
  <2>1. /\ EndOf[t] \in Ends /\ m \in Tcp!Messages
        /\ accepted' = [accepted EXCEPT ![EndOf[t]] = Append(@, m)] /\ delivered' = delivered
    BY <1>3 DEF Accepts
  <2> HIDE DEF m
  <2>2. AbstractChannel!Accept(EndOf[t], m)
    BY <2>1 DEF AbstractChannel!Accept
  <2> QED
    BY <2>1, <2>2 DEF AbstractChannel!Next, Messages, Tcp!Messages
<1>4. ASSUME NEW f \in Ends, HandsUp(f)
      PROVE AbstractChannel!Next
  <2> DEFINE p == Tcp!Peer(f)
  <2>1. /\ HandedUp(f) + 1 <= Len(accepted[f]) - Len(queue[f])
        /\ delivered' = [delivered EXCEPT ![p] = Append(@, accepted[f][HandedUp(f) + 1])]
        /\ accepted' = accepted /\ HandedUp(f) = Len(delivered[p])
    BY <1>4 DEF HandsUp, HandedUp
  <2>2. p \in Ends \ {f}
    BY Peers
  <2>3. Len(accepted[f]) \in Nat /\ Len(queue[f]) \in Nat /\ HandedUp(f) \in Nat
    BY <1>1, StreamTypes
  <2> HIDE DEF p
  <2>4. Len(delivered[p]) < Len(accepted[f])
    <3> DEFINE a == Len(accepted[f])
               b == Len(queue[f])
               h == Len(delivered[p])
    <3>1. a \in Nat /\ b \in Nat /\ h \in Nat /\ h + 1 <= a - b
      BY <2>1, <2>3
    <3> HIDE DEF a, b, h
    <3>2. h < a
      BY <3>1
    <3> QED
      BY <3>2 DEF a, h
  <2>5. delivered' = [delivered EXCEPT ![p] = Append(@, accepted[f][Len(@) + 1])]
    BY <1>1, <2>1, <2>2 DEF LinkTypes
  <2>6. AbstractChannel!Deliver(f, p)
    BY <2>1, <2>4, <2>5 DEF AbstractChannel!Deliver
  <2> QED
    BY <2>2, <2>6 DEF AbstractChannel!Next
<1>5. ASSUME NEW e \in Ends, Begins(e) \/ Reports(e)
      PROVE UNCHANGED <<accepted, delivered>>
  BY <1>5 DEF Begins, Reports
<1> QED
  BY <1>1, <1>2, <1>3, <1>4, <1>5 DEF Step

\* The link is a channel: what an end accepts reaches the other end whole, once
\* and in order, however the sockets cut the messages and until it breaks.
THEOREM LinkIsChannel ==
  ASSUME Tcp!LinkAssumption
  PROVE Tcp!Spec => ImplementsChannel
<1>1. LinkIInv /\ [Tcp!Next]_Tcp!vars => [AbstractChannel!Next]_<<accepted, delivered>>
  <2> SUFFICES ASSUME LinkIInv,
  [Tcp!Next]_Tcp!vars PROVE [AbstractChannel!Next]_<<accepted, delivered>>
    OBVIOUS
  <2>1. CASE Tcp!Next
    BY <2>1, ChannelStep
  <2>2. CASE UNCHANGED Tcp!vars
    BY <2>2 DEF Tcp!vars, Tcp!told
  <2> QED
    BY <2>1, <2>2
<1> QED
  BY <1>1, LinkInvariant, ChannelInit, PTL DEF Tcp!Spec, ImplementsChannel, AbstractChannel!Spec
=============================================================================
