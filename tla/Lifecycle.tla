----------------------------- MODULE Lifecycle -----------------------------
(***************************************************************************)
(* The life of a PE: aclshmemx_init_attr, the collective allocations and   *)
(* aclshmem_finalize (shmem_init.cpp, shmem_init_backend.cpp, shmem_mm.cpp,*)
(* shmem_team.cpp), the memory entity they drive (entity/) and the         *)
(* configuration store plugin they meet over.  Init acquires resources in  *)
(* steps, each of which ends in a barrier or an allgather of the group     *)
(* engine; a step that fails ends it there, and only finalize undoes it.   *)
(* PE 0 holds the store, which goes down with it.  The engine numbers its  *)
(* keys from 1 in every session, whatever its server still knows.  A       *)
(* collective is two steps, to join it and to leave it: what the engine    *)
(* does between is in GroupBarrier and GroupAllGather.  The application    *)
(* finalizes a session, whether its init succeeded or not, before the next.*)
(***************************************************************************)
EXTENDS Integers, Sequences, FiniteSets, SequencesExt

CONSTANTS N,             \* the number of PEs
          Roce,          \* is there a transport to exchange addresses for
          MaxSessions,   \* bound on the inits of a PE
          MaxAllocs,     \* the allocations of a session
          MaxFaults      \* bound on the calls that fail for a reason of their own

ASSUME LifecycleAssumption ==
  /\ N \in Nat /\ N >= 2
  /\ Roce \in BOOLEAN
  /\ MaxSessions \in Nat /\ MaxAllocs \in Nat /\ MaxFaults \in Nat

PEs == 0..N - 1
REMOVE_INTERVAL == 2

\* What parts of init acquire, in this order.  Flags of the code are among it:
\* "inited" is inited_ of the backend, "space" the base address of the segment,
\* "initialized" is_aclshmem_initialized.
SetUpDevice == <<"stream", "hybm">>
ReserveHeap == <<"inited", "entity", "ranges", "space">>
SetUpHeap == <<"mapping", "tables">>
TeamInit == << <<"heap", "team", "pool">>, <<"zero pool", "counter">>, <<"zero counter", "core">> >>

\* Every step of init ends in a barrier, or in an allgather of what is exported:
\* the slice of the heap and, with a transport, the address of the entity.
Barrier(gets) == [gets |-> gets, then |-> "barrier"]
AllGather(gets) == [gets |-> gets, then |-> "gather"]

ExchangeSlice == <<AllGather(ReserveHeap \o <<"slice">>), Barrier(<<"imports">>)>>
ExchangeEntity == IF Roce THEN <<AllGather(<<>>), Barrier(<<"connections">>)>> ELSE <<>>

Steps ==
  <<Barrier(SetUpDevice)>> \o ExchangeSlice \o ExchangeEntity
  \o <<Barrier(SetUpHeap \o TeamInit[1]), Barrier(TeamInit[2]),
       Barrier(TeamInit[3] \o <<"initialized", "state">>)>>

InitSteps == Len(Steps)
Everything == UNION {Range(Steps[i].gets) : i \in 1..InitSteps}

VARIABLES pc,        \* what a PE is doing
          at,        \* the step of init, or InitSteps plus the allocation, it is in or before
          held,      \* what a PE has acquired
          session,   \* how many inits it has begun
          link,      \* is it connected to the server of PE 0
          sn,        \* the number of its last barrier and of its last gather
          imported,  \* the slices it has been given
          server,    \* the store of PE 0: what was added to a key, and the keys set
          faults,    \* calls that have failed for a reason of their own
          called,    \* ghost: the calls (init, then allocations) a PE made on this server
          returned,  \* ghost: those it returned from with success, in this session
          gaveUp,    \* ghost: the PEs one of whose calls has failed
          rejoined,  \* ghost: has a PE begun a second session on this server
          skipped    \* ghost: has an allocation returned without a barrier

own == <<pc, at, held, session, link, sn, imported>>
ghosts == <<called, returned, gaveUp, rejoined, skipped>>
vars == <<own, server, faults, ghosts>>

Kinds == {"barrier", "gather"}
Keys == Kinds \X (1..InitSteps + MaxAllocs)
EmptyServer == [up |-> TRUE, added |-> [k \in Keys |-> <<>>], set |-> {}]

Init ==
  /\ pc = [p \in PEs |-> "out"]
  /\ at = [p \in PEs |-> 1]
  /\ held = [p \in PEs |-> {}]
  /\ session = [p \in PEs |-> 0]
  /\ link = [p \in PEs |-> FALSE]
  /\ sn = [p \in PEs |-> [k \in Kinds |-> 0]]
  /\ imported = [p \in PEs |-> {}]
  /\ server = [EmptyServer EXCEPT !.up = FALSE]
  /\ faults = 0
  /\ called = [p \in PEs |-> 0] /\ returned = [p \in PEs |-> 0]
  /\ gaveUp = {} /\ rejoined = FALSE /\ skipped = FALSE

-----------------------------------------------------------------------------
CanBegin(p) == pc[p] = (IF p = 0 THEN "starting" ELSE "out") /\ session[p] < MaxSessions

\* Mutant: the next server knows the keys of the last one.
StartServerKeepsKeys(p) ==
  /\ p = 0 /\ pc[p] = "out" /\ session[p] < MaxSessions
  /\ pc' = [pc EXCEPT ![p] = "starting"]
  /\ server' = [server EXCEPT !.up = TRUE]
  /\ link' = [q \in PEs |-> FALSE]
  /\ called' = [q \in PEs |-> 0]
  /\ returned' = [q \in PEs |-> 0]
  /\ rejoined' = FALSE
  /\ UNCHANGED <<at, held, session, sn, imported, faults, gaveUp, skipped>>

\* The bootstrap of PE 0 takes the server up, with no key.
StartServer(p) ==
  /\ p = 0 /\ pc[p] = "out" /\ session[p] < MaxSessions
  /\ pc' = [pc EXCEPT ![p] = "starting"]
  /\ server' = EmptyServer
  /\ link' = [q \in PEs |-> FALSE]
  /\ called' = [q \in PEs |-> 0]
  /\ returned' = [q \in PEs |-> 0]
  /\ rejoined' = FALSE
  /\ UNCHANGED <<at, held, session, sn, imported, faults, gaveUp, skipped>>

\* PE 0 connects to its own server, the others to the one that is up, be it of
\* the last session or of the next.
Connect(p) ==
  /\ CanBegin(p) /\ server.up
  /\ session' = [session EXCEPT ![p] = @ + 1]
  /\ pc' = [pc EXCEPT ![p] = "init"]
  /\ at' = [at EXCEPT ![p] = 1]
  /\ sn' = [sn EXCEPT ![p] = [k \in Kinds |-> 0]]
  /\ imported' = [imported EXCEPT ![p] = {}]
  /\ link' = [link EXCEPT ![p] = TRUE]
  /\ rejoined' = (rejoined \/ called[p] # 0)
  /\ called' = [called EXCEPT ![p] = IF @ = 0 THEN 1 ELSE @]
  /\ returned' = [returned EXCEPT ![p] = 0]
  /\ UNCHANGED <<held, server, faults, gaveUp, skipped>>

\* The bootstrap fails: the server does not come up, or no connection is made.
\* Init goes no further, and PE 0 takes down the server it may have started.
BootstrapFails(p) ==
  /\ pc[p] \in {"out", "starting"} /\ session[p] < MaxSessions
  /\ faults < MaxFaults
  /\ faults' = faults + 1
  /\ gaveUp' = gaveUp \cup {p}
  /\ pc' = [pc EXCEPT ![p] = "failed"]
  /\ at' = [at EXCEPT ![p] = 1]
  /\ link' = [q \in PEs |-> link[q] /\ q # p /\ p # 0]
  /\ server' = [server EXCEPT !.up = @ /\ p # 0]
  /\ UNCHANGED <<held, session, sn, imported, called, returned, rejoined, skipped>>

-----------------------------------------------------------------------------
Kind(p) == IF at[p] <= InitSteps THEN Steps[at[p]].then ELSE "barrier"
Key(p) == <<Kind(p), sn[p][Kind(p)]>>

\* Mutant: the keys of the collective just before are removed.
OldKeysTooSoon(kind, n) == IF n > 1 THEN {<<kind, n - 1>>} ELSE {}

\* What the first PE to add to key n removes.
OldKeys(kind, n) ==
  IF n > REMOVE_INTERVAL THEN {<<kind, n - REMOVE_INTERVAL>>} ELSE {}

\* What a PE tells the others of its slice: a name that is new in every session.
Export(p) == <<p, session[p]>>

\* The next barrier or allgather: add to its key; the first removes old keys,
\* the last sets the key the others wait for.
Join(p) ==
  LET kind == Kind(p)
      n == sn[p][kind] + 1
      added == [server.added EXCEPT ![<<kind, n>>] = Append(@, Export(p))]
      size == Len(added[<<kind, n>>])
      old == IF size = 1 THEN OldKeys(kind, n) ELSE {}
  IN  /\ sn' = [sn EXCEPT ![p][kind] = n]
      /\ server' = [server EXCEPT
           !.added = [k \in Keys |-> IF k \in old THEN <<>> ELSE added[k]],
           !.set = (@ \ old) \cup (IF size = N THEN {<<kind, n>>} ELSE {})]

HasAlready(p) == at[p] = 1 /\ "hybm" \in held[p]

\* Mutant: init returns without its last barrier.
StepWithoutTheLastBarrier(p) ==
  /\ pc[p] = "init" /\ link[p]
  /\ ~HasAlready(p)
  /\ held' = [held EXCEPT ![p] = @ \cup Range(Steps[at[p]].gets)]
  /\ IF at[p] < InitSteps
     THEN Join(p) /\ pc' = [pc EXCEPT ![p] = "wait"] /\ UNCHANGED at
     ELSE /\ pc' = [pc EXCEPT ![p] = "ready"]
          /\ at' = [at EXCEPT ![p] = @ + 1]
          /\ UNCHANGED <<sn, server>>
  /\ UNCHANGED <<session, link, imported, faults, ghosts>>

\* A step of init up to its collective.  hybm_init fails on memory it already
\* has: its address is fixed, and the driver's table of addresses refuses it.
Step(p) ==
  /\ pc[p] = "init" /\ link[p]
  /\ ~HasAlready(p)
  /\ held' = [held EXCEPT ![p] = @ \cup Range(Steps[at[p]].gets)]
  /\ Join(p)
  /\ pc' = [pc EXCEPT ![p] = "wait"]
  /\ UNCHANGED <<at, session, link, imported, faults, ghosts>>

\* Init is the first call of a session.
Call(p) == at[p] - InitSteps + 1

Waiting(p) == pc[p] = "wait"

\* What a gather has for everyone: the data of as many as there are PEs.
Gathered(p) == server.added[Key(p)]
IsWhole(p) == Kind(p) = "gather" => Len(Gathered(p)) = N

\* The slices a PE may map are those it was given with the first allgather.
Import(p) == IF at[p] = 2 THEN Range(Gathered(p)) ELSE imported[p]

\* The collective has ended: init goes on, or a call returns.
Leave(p) ==
  /\ Waiting(p) /\ link[p]
  /\ Key(p) \in server.set /\ IsWhole(p)
  /\ at' = [at EXCEPT ![p] = @ + 1]
  /\ pc' = [pc EXCEPT ![p] = IF at[p] < InitSteps THEN "init" ELSE "ready"]
  /\ returned' = [returned EXCEPT ![p] = IF at[p] < InitSteps THEN @ ELSE Call(p)]
  /\ imported' = [imported EXCEPT ![p] = Import(p)]
  /\ UNCHANGED <<held, session, link, sn, server, faults, called, gaveUp, rejoined, skipped>>

-----------------------------------------------------------------------------
InTeam == {"pool", "zero pool", "counter", "zero counter", "core"}

\* aclshmemi_team_init ends in aclshmemi_team_finalize when a step of it fails;
\* when it has succeeded the team stays until finalize.
AfterError(has) ==
  IF "team" \in has /\ "core" \notin has THEN has \ InTeam ELSE has

\* A call ends with an error: an init leaves what it has acquired, an
\* allocation gives its memory back.
GiveUp(p, has) ==
  /\ gaveUp' = gaveUp \cup {p}
  /\ IF at[p] <= InitSteps
     THEN /\ pc' = [pc EXCEPT ![p] = "failed"]
          /\ held' = [held EXCEPT ![p] = AfterError(has)]
          /\ UNCHANGED at
     ELSE /\ pc' = [pc EXCEPT ![p] = "ready"]
          /\ at' = [at EXCEPT ![p] = @ + 1]
          /\ UNCHANGED held
  /\ UNCHANGED <<session, link, sn, imported, server, called, returned, rejoined, skipped>>

\* The next thing a step acquires is not to be had.
StepFails(p) ==
  /\ pc[p] = "init" /\ faults < MaxFaults
  /\ \E i \in DOMAIN Steps[at[p]].gets :
       GiveUp(p, held[p] \cup {Steps[at[p]].gets[j] : j \in 1..i - 1})
  /\ faults' = faults + 1

StepRefused(p) ==
  /\ pc[p] = "init" /\ HasAlready(p)
  /\ GiveUp(p, held[p] \cup {"stream"})
  /\ UNCHANGED faults

\* A step acquires all, and finds the server gone.
StepUnlinked(p) ==
  /\ pc[p] = "init" /\ ~link[p] /\ ~HasAlready(p)
  /\ GiveUp(p, held[p] \cup Range(Steps[at[p]].gets))
  /\ UNCHANGED faults

\* The wait for the others runs out, the server goes away meanwhile, or the data
\* are not of as many as they should be.
WaitFails(p) ==
  /\ Waiting(p)
  /\ ~link[p] \/ Key(p) \notin server.set \/ ~IsWhole(p)
  /\ GiveUp(p, held[p])
  /\ UNCHANGED faults

-----------------------------------------------------------------------------
CanAllocate(p) == pc[p] = "ready" /\ at[p] <= InitSteps + MaxAllocs

\* Mutant: an allocation returns without waiting for the others.
AllocateAtOnce(p) ==
  /\ CanAllocate(p) /\ link[p]
  /\ at' = [at EXCEPT ![p] = @ + 1]
  /\ called' = [called EXCEPT ![p] = @ + 1]
  /\ returned' = [returned EXCEPT ![p] = Call(p)]
  /\ UNCHANGED <<pc, held, session, link, sn, imported, server, faults, gaveUp, rejoined, skipped>>

\* aclshmem_malloc with memory, aclshmem_calloc and aclshmem_align whatever
\* they got: a barrier of all.
Allocate(p) ==
  /\ CanAllocate(p) /\ link[p]
  /\ Join(p)
  /\ pc' = [pc EXCEPT ![p] = "wait"]
  /\ called' = [called EXCEPT ![p] = IF @ > Call(p) THEN @ ELSE Call(p)]
  /\ UNCHANGED <<at, held, session, link, imported, faults, returned, gaveUp, rejoined, skipped>>

AllocateUnlinked(p) ==
  /\ CanAllocate(p) /\ ~link[p]
  /\ GiveUp(p, held[p])
  /\ UNCHANGED faults

\* On the dynamic heap aclshmem_malloc without memory, and aclshmem_calloc that
\* could not clear it, return NULL without the barrier.
AllocateSkips(p) ==
  /\ CanAllocate(p) /\ faults < MaxFaults
  /\ faults' = faults + 1
  /\ at' = [at EXCEPT ![p] = @ + 1]
  /\ called' = [called EXCEPT ![p] = IF @ > Call(p) THEN @ ELSE Call(p)]
  /\ skipped' = TRUE
  /\ UNCHANGED <<pc, held, session, link, sn, imported, server, returned, gaveUp, rejoined>>

-----------------------------------------------------------------------------
\* finalize leaves the device's copy of the world team when init did not get to
\* is_aclshmem_initialized,
TeamKept(has) == IF "initialized" \notin has THEN has \cap {"team"} ELSE {}

\* the ranges of addresses when not all were reserved,
RangesKept(has) == IF "space" \notin has THEN has \cap {"ranges"} ELSE {}

\* Mutant: inited_ is not set.
HybmAlwaysKept(has) == has \cap {"hybm"}

\* and the memory of hybm_init when the barrier after it failed.
HybmKept(has) == IF "inited" \notin has THEN has \cap {"hybm"} ELSE {}

\* aclshmem_finalize asks no one: with PE 0 the server goes down.
Finalize(p) ==
  /\ \/ pc[p] = "failed"
     \/ pc[p] = "ready" /\ at[p] > InitSteps + MaxAllocs
  /\ pc' = [pc EXCEPT ![p] = "out"]
  /\ held' = [held EXCEPT ![p] = TeamKept(@) \cup RangesKept(@) \cup HybmKept(@)]
  /\ imported' = [imported EXCEPT ![p] = {}]
  /\ link' = [q \in PEs |-> link[q] /\ q # p /\ p # 0]
  /\ server' = [server EXCEPT !.up = @ /\ p # 0]
  /\ UNCHANGED <<at, session, sn, faults, ghosts>>

-----------------------------------------------------------------------------
\* What a PE does next, if it does not fail.
Go(p) == Step(p) \/ Leave(p) \/ Allocate(p)

Next == \E p \in PEs :
          \/ StartServer(p) \/ Connect(p) \/ BootstrapFails(p) \/ Go(p)
          \/ StepFails(p) \/ StepRefused(p) \/ StepUnlinked(p) \/ WaitFails(p)
          \/ AllocateUnlinked(p) \/ AllocateSkips(p) \/ Finalize(p)

Spec == Init /\ [][Next]_vars

\* Calls go on: neither a timeout nor finalize is needed for that.
FairSpec == Spec /\ \A p \in PEs : WF_vars(Go(p))

-----------------------------------------------------------------------------
IsInitialised(p) == pc[p] \in {"ready", "wait"} /\ at[p] > InitSteps

\* When init has returned on a PE, every other PE of the server has mapped its
\* memory and cleared what barriers use, and holds it until it finalizes: what
\* the PE writes there is neither lost nor overwritten by a memset that comes
\* late.  Only a PE that has begun a second session on the server may break it.
PeersAreReady ==
  \A p, q \in PEs :
    IsInitialised(p) /\ link[p] /\ ~rejoined
      => Everything \subseteq held[q] \/ (~link[q] /\ called[q] # 0)

\* A slice that is imported is the one its PE has in this session: no PE maps
\* what another has exported before, unless one began a second session on the
\* server.
ImportsAreCurrent ==
  \A p \in PEs :
    imported[p] # {} /\ link[p] /\ ~rejoined
      => imported[p] = {<<q, session[q]>> : q \in PEs}

\* A call that has succeeded on a PE has been made on all, timeouts and failures
\* on some of them notwithstanding, unless an allocation returned without its
\* barrier.
CallsAreCollective ==
  \A p, q \in PEs :
    link[p] /\ ~skipped => returned[p] <= called[q]

\* A PE none of whose calls has failed leaves nothing behind when it finalizes.
FinalizeReleases ==
  \A p \in PEs : pc[p] = "out" /\ p \notin gaveUp => held[p] = {}

\* finalize releases all resources, as its declaration says.  The code does not:
\* refuted in MCLifecycle_leak.
FinalizeReleasesAll == \A p \in PEs : pc[p] = "out" => held[p] = {}

\* What a PE imports has a slice of every PE, whoever joined the server again.
\* The code does not see to it: what the first session of a PE has added to an
\* allgather makes the second complete without the others.  Refuted in
\* MCLifecycle_rejoin.
ImportsAreOfEveryone ==
  \A p \in PEs : imported[p] # {} => {slice[1] : slice \in imported[p]} = PEs

\* A call returns, or finds the server gone, without the help of a timeout, as
\* long as no call has failed anywhere.
CallsReturn ==
  \A p \in PEs :
    Waiting(p) /\ (\A q \in PEs : called[q] # 0) ~>
      ~Waiting(p) \/ ~link[p] \/ gaveUp # {} \/ rejoined \/ skipped
=============================================================================
