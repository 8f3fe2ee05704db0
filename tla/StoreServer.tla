---------------------------- MODULE StoreServer -----------------------------
(***************************************************************************)
(* AccStoreServer (store_tcp_config_server.cpp): the key-value store that  *)
(* rank 0 runs for the bootstrap.  A handler runs on the worker thread of  *)
(* the link its request came on and does its work under storeMutex_, so    *)
(* the work of a handler is one step; its replies are sent after the       *)
(* unlock and travel on their own (Reply).  A GET of an absent key waits   *)
(* in three containers at once: by request (waitCtx_), by key              *)
(* (keyWaiters_) and by deadline (timedWaiters_).  The timer thread takes  *)
(* out under the lock the waiters whose time is up, and answers them one   *)
(* by one without it.                                                      *)
(*                                                                         *)
(* A value is a sequence of tokens: integers, which StrToLong reads, and   *)
(* Texts, which it does not.  A request is named by its client and its     *)
(* sequence number, which also stand for the id of its wait context.  A    *)
(* deadline is kept as the milliseconds left to it, 0 once it has passed.  *)
(***************************************************************************)
EXTENDS Integers, Sequences, FiniteSets

CONSTANTS Clients,      \* the ranks with a link to the server
          Keys,
          Texts,        \* tokens that are not numbers
          Absent,       \* no entry in kvStore_
          Never,        \* the deadline of a GET without a timeout
          MaxTimeout    \* INT_MAX, beyond which GET refuses a timeout

ASSUME StoreAssumption ==
  /\ MaxTimeout \in Nat
  /\ Never \notin Int /\ Texts \cap Int = {}

VARIABLES kvStore,       \* kvStore_
          waitCtx,       \* waitCtx_
          keyWaiters,    \* keyWaiters_: the ids under a key, {} for no entry
          timedWaiters,  \* timedWaiters_: the ids under a deadline, {} for none
          late,          \* timeoutContexts of the timer thread, yet to be answered
          requests,      \* per client, the requests on their way to the server
          replies,       \* the replies on their way to the clients
          link,          \* per client, "up" until its link breaks
          refused        \* ghost: the ids of the requests that get no reply

waiters == <<waitCtx, keyWaiters, timedWaiters, late>>

-----------------------------------------------------------------------------
Id(r) == <<r.client, r.seq>>

IsNumber(v) == Len(v) = 1 /\ v[1] \notin Texts

Answer(r, code, value) ==
  [client |-> r.client, seq |-> r.seq, mt |-> r.mt, key |-> r.key,
   code |-> code, value |-> value]

\* ReplyWithMessage: a reply to a link that is down is dropped.
Reply(answers) == replies' = replies \cup {a \in answers : link[a.client] = "up"}

\* Mutant: the contexts leave waitCtx_ and keep their deadline.
GetOutWaitersKeepsDeadlines(ids) ==
  /\ waitCtx' = {w \in waitCtx : Id(w) \notin ids}
  /\ UNCHANGED timedWaiters

\* GetOutWaitersInLock: the contexts of ids leave waitCtx_ and their deadline.
\* An id whose context is gone (it timed out) is passed over.
GetOutWaiters(ids) ==
  /\ waitCtx' = {w \in waitCtx : Id(w) \notin ids}
  /\ timedWaiters' = [d \in DOMAIN timedWaiters |-> timedWaiters[d] \ ids]

Woken(key) == {w \in waitCtx : Id(w) \in keyWaiters[key]}

\* A request creates its key: every waiter of the key is taken out and told a
\* value, which is not always the one stored.
Create(r, value, told, answer) ==
  /\ kvStore' = [kvStore EXCEPT ![r.key] = value]
  /\ GetOutWaiters(keyWaiters[r.key])
  /\ keyWaiters' = [keyWaiters EXCEPT ![r.key] = {}]
  /\ Reply({answer} \cup {Answer(w, "SUCCESS", told) : w \in Woken(r.key)})

\* A request changes a key that exists: nobody waits for it.
Store(r, value, answer) ==
  /\ kvStore' = [kvStore EXCEPT ![r.key] = value]
  /\ UNCHANGED waiters
  /\ Reply({answer})

JustReply(answers) ==
  /\ UNCHANGED <<kvStore, waiters>>
  /\ Reply(answers)

Exists(key) == kvStore[key] # Absent

-----------------------------------------------------------------------------
SetHandler(r) ==
  /\ r.mt = "SET"
  /\ \/ ~Exists(r.key) /\ Create(r, r.value, r.value, Answer(r, "SUCCESS", <<>>))
     \/ Exists(r.key) /\ Store(r, r.value, Answer(r, "SUCCESS", <<>>))

\* The GET becomes a waiter; only a positive timeout has a deadline.
Wait(r) ==
  LET deadline == IF r.timeout > 0 THEN r.timeout ELSE Never
  IN  /\ waitCtx' = waitCtx \cup
           {[client |-> r.client, seq |-> r.seq, mt |-> r.mt, key |-> r.key,
             deadline |-> deadline]}
      /\ keyWaiters' = [keyWaiters EXCEPT ![r.key] = @ \cup {Id(r)}]
      /\ timedWaiters' = [d \in DOMAIN timedWaiters |->
                            timedWaiters[d] \cup (IF d = deadline THEN {Id(r)} ELSE {})]
      /\ UNCHANGED <<kvStore, replies>>

\* Mutant: the key is looked up before the lock is taken, and a GET may wait
\* for a key that was created in between.
GetHandlerLooksTooEarly(r) ==
  /\ r.mt = "GET"
  /\ \/ Exists(r.key) /\ JustReply({Answer(r, "SUCCESS", kvStore[r.key])})
     \/ ~Exists(r.key) /\ r.timeout = 0 /\ JustReply({Answer(r, "NOT_EXIST", <<>>)})
     \/ ~Exists(r.key) /\ r.timeout > MaxTimeout /\ JustReply({})
     \/ r.timeout # 0 /\ r.timeout <= MaxTimeout /\ Wait(r)

\* The value of the key, at once or when it is created; a timeout of 0 does not
\* wait, a negative one waits for ever, one above INT_MAX gets no reply.
GetHandler(r) ==
  /\ r.mt = "GET"
  /\ \/ Exists(r.key) /\ JustReply({Answer(r, "SUCCESS", kvStore[r.key])})
     \/ ~Exists(r.key) /\ r.timeout = 0 /\ JustReply({Answer(r, "NOT_EXIST", <<>>)})
     \/ ~Exists(r.key) /\ r.timeout > MaxTimeout /\ JustReply({})
     \/ ~Exists(r.key) /\ r.timeout # 0 /\ r.timeout <= MaxTimeout /\ Wait(r)

\* Adding to a text gets no reply.
AddHandler(r) ==
  /\ r.mt = "ADD"
  /\ \/ ~Exists(r.key) /\ Create(r, r.value, r.value, Answer(r, "SUCCESS", r.value))
     \/ /\ Exists(r.key) /\ IsNumber(kvStore[r.key])
        /\ LET sum == <<kvStore[r.key][1] + r.value[1]>>
           IN  Store(r, sum, Answer(r, "SUCCESS", sum))
     \/ Exists(r.key) /\ ~IsNumber(kvStore[r.key]) /\ JustReply({})

\* The ids of the waiters of a removed key cannot exist: it had a value.
RemoveHandler(r) ==
  /\ r.mt = "REMOVE"
  /\ \/ Exists(r.key) /\ Store(r, Absent, Answer(r, "SUCCESS", <<>>))
     \/ ~Exists(r.key) /\ JustReply({Answer(r, "NOT_EXIST", <<>>)})

\* The waiters are told `value` after it has been moved into kvStore_: a vector
\* that is empty (the copy made for them, reqVal, is not used).
AppendHandler(r) ==
  /\ r.mt = "APPEND"
  /\ \/ ~Exists(r.key) /\ Create(r, r.value, <<>>, Answer(r, "SUCCESS", <<Len(r.value)>>))
     \/ /\ Exists(r.key)
        /\ LET longer == kvStore[r.key] \o r.value
           IN  Store(r, longer, Answer(r, "SUCCESS", <<Len(longer)>>))

\* Mutant: the waiters are told the old value, as the caller is.
CasHandlerTellsTheOldValue(r) ==
  /\ r.mt = "CAS"
  /\ \/ Exists(r.key) /\ kvStore[r.key] = r.expect
          /\ Store(r, r.value, Answer(r, "SUCCESS", kvStore[r.key]))
     \/ Exists(r.key) /\ kvStore[r.key] # r.expect
          /\ JustReply({Answer(r, "SUCCESS", kvStore[r.key])})
     \/ ~Exists(r.key) /\ r.expect = <<>>
          /\ Create(r, r.value, r.expect, Answer(r, "SUCCESS", <<>>))
     \/ ~Exists(r.key) /\ r.expect # <<>> /\ JustReply({Answer(r, "SUCCESS", <<>>)})

\* The reply holds the old value; an empty expected value stands for no key.
CasHandler(r) ==
  /\ r.mt = "CAS"
  /\ \/ Exists(r.key) /\ kvStore[r.key] = r.expect
          /\ Store(r, r.value, Answer(r, "SUCCESS", kvStore[r.key]))
     \/ Exists(r.key) /\ kvStore[r.key] # r.expect
          /\ JustReply({Answer(r, "SUCCESS", kvStore[r.key])})
     \/ ~Exists(r.key) /\ r.expect = <<>>
          /\ Create(r, r.value, r.value, Answer(r, "SUCCESS", <<>>))
     \/ ~Exists(r.key) /\ r.expect # <<>> /\ JustReply({Answer(r, "SUCCESS", <<>>)})

\* The requests that get no reply, now or later: a GET that would wait for too
\* long and an ADD to what is no number.
Refuses(r) ==
  \/ r.mt = "GET" /\ ~Exists(r.key) /\ r.timeout > MaxTimeout
  \/ r.mt = "ADD" /\ Exists(r.key) /\ ~IsNumber(kvStore[r.key])

\* ReceiveMessageHandler, for the next request of a link.
Handle(c) ==
  /\ requests[c] # <<>>
  /\ requests' = [requests EXCEPT ![c] = Tail(@)]
  /\ LET r == Head(requests[c])
     IN  /\ \/ SetHandler(r) \/ GetHandler(r) \/ AddHandler(r)
            \/ RemoveHandler(r) \/ AppendHandler(r) \/ CasHandler(r)
         /\ refused' = refused \cup (IF Refuses(r) THEN {Id(r)} ELSE {})
  /\ UNCHANGED <<late, link>>

-----------------------------------------------------------------------------
Deadlines == {d \in DOMAIN timedWaiters : timedWaiters[d] # {}}

Sooner(d) == IF d = Never \/ d = 0 THEN d ELSE d - 1

\* The waiters and the deadlines a millisecond later.
AgedWaiters == {[w EXCEPT !.deadline = Sooner(@)] : w \in waitCtx}
AgedDeadlines ==
  [d \in DOMAIN timedWaiters |->
     UNION {timedWaiters[e] : e \in {x \in DOMAIN timedWaiters : Sooner(x) = d}}]

\* Mutant: the timer answers the waiters and leaves their contexts.
TimeOutKeepsContexts ==
  LET due == AgedDeadlines[0]
  IN  /\ waitCtx' = AgedWaiters
      /\ late' = {w \in AgedWaiters : Id(w) \in due}
      /\ timedWaiters' = [AgedDeadlines EXCEPT ![0] = {}]

\* The waiters whose deadline has passed are taken out; their ids stay in
\* keyWaiters_.
TimeOut ==
  LET due == AgedDeadlines[0]
  IN  /\ waitCtx' = {w \in AgedWaiters : Id(w) \notin due}
      /\ late' = {w \in AgedWaiters : Id(w) \in due}
      /\ timedWaiters' = [AgedDeadlines EXCEPT ![0] = {}]

\* TimerThreadTask stops at the first entry of timedWaiters_ that has not
\* expired.  The map is unordered: such an entry may come before expired ones
\* and hide them.
TimeOutHidden ==
  /\ \E d \in DOMAIN timedWaiters \ {0} : AgedDeadlines[d] # {}
  /\ waitCtx' = AgedWaiters
  /\ timedWaiters' = AgedDeadlines
  /\ UNCHANGED late

\* A millisecond passes and the timer thread, which has answered all it took out
\* before, looks at the deadlines.
TimerLooks ==
  /\ late = {} /\ Deadlines # {}
  /\ TimeOut \/ TimeOutHidden
  /\ UNCHANGED replies

\* Without the lock it answers the next of those it has taken out.
TimerAnswers ==
  /\ \E w \in late :
       /\ late' = late \ {w}
       /\ Reply({Answer(w, "TIMEOUT", <<>>)})
  /\ UNCHANGED <<waitCtx, timedWaiters>>

TimerThread ==
  /\ TimerLooks \/ TimerAnswers
  /\ UNCHANGED <<kvStore, keyWaiters, requests, link, refused>>

-----------------------------------------------------------------------------
\* Nobody waits for a key that exists: whichever of a GET and a SET, ADD,
\* APPEND or CAS comes first, and whatever was removed or timed out before, the
\* waiter is woken by the request that creates its key.
NoWaiterLeftBehind == \A w \in waitCtx : ~Exists(w.key)

\* The three containers agree: a waiter can be found by its key and, if it has
\* a timeout, by its deadline, and a deadline names live waiters only.
WaitersIndexed ==
  /\ \A w \in waitCtx :
       /\ Id(w) \in keyWaiters[w.key]
       /\ w.deadline # Never => Id(w) \in timedWaiters[w.deadline]
  /\ \A d \in Deadlines : \A i \in timedWaiters[d] :
       \E w \in waitCtx : Id(w) = i /\ w.deadline = d

\* A GET that succeeds returns the value its key has, whether it found the key
\* or waited for it.
GetReturnsTheValue ==
  [][\A a \in replies' \ replies :
       a.mt = "GET" /\ a.code = "SUCCESS" => a.value = kvStore'[a.key]]_replies

\* The requests a step takes off the links.
Handled == {Head(requests[c]) : c \in {d \in Clients : /\ requests[d] # <<>>
                                                      /\ requests'[d] = Tail(requests[d])}}

\* So it does unless an APPEND created the key it was waiting for.
GetReturnsTheValueButForAppend ==
  [][\A a \in replies' \ replies :
       a.mt = "GET" /\ a.code = "SUCCESS" =>
         a.value = kvStore'[a.key] \/ \E r \in Handled : r.mt = "APPEND"]_replies

\* A pass of the timer thread leaves no waiter whose deadline has passed.
TimeoutsAreKept ==
  [][TimerLooks => \A w \in waitCtx' : w.deadline # 0]_timedWaiters
=============================================================================
