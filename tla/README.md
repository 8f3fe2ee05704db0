# Verification of the Ascend SHMEM library

TLA+ models of the protocols and algorithms of this repository, the TLC
configurations that check them on small instances, and TLAPS proofs of the
theorems that hold for every size.

The library gives the processing elements (PEs) of a job a symmetric heap that
every PE can read and write. On the host each PE is a rank (a process): the
ranks find each other through a configuration store, exchange their memory
segments, and then allocate symmetric memory and make teams. On the device the
vector cores of the PEs copy data and synchronise through the mapped heaps.

Paths are relative to the root of the repository; `CS/` stands for
`src/host/bootstrap/config_store/`.

## 1. Inventory

| Component | State | Operations | What is hard | What makes it correct |
|---|---|---|---|---|
| Static symmetric heap, `src/host/mem/shmem_mgr.cpp` | idle ranges by address and by size, used ranges by address, under one spin lock | `allocate`, `aligned_allocate`, `release` | long sequences of splits and merges kept in three trees | live blocks never overlap, the trees agree, nothing is lost, NULL only when nothing fits |
| Dynamic heap, `src/host/mem/shmem_dynamic_mm.cpp` | blocks of physical memory, a bump pointer in each, a pool of freed ranges | `allocate` with expansion, `aligned_allocate`, `release`, `cleanup_unused_blocks` | the lock is given up around the driver call; the bump pointer goes down on a free | the same as for the static heap, across the pool and all blocks |
| malloc front end, `src/host/mem/shmem_mm.cpp` | which of the two heaps is used | `aclshmem_malloc`, `calloc`, `align`, `free` | every call is collective: it ends in a barrier on some paths | all PEs take part in the same barriers and get the same offsets |
| Configuration store, server, `CS/store_tcp_config_server.cpp` | `kvStore_`, and the waiting GETs by id, by key and by deadline | SET, GET, ADD, REMOVE, APPEND, CAS; the timer thread | a worker thread per group of links, a timer thread, waiters found through three containers | no waiter is left behind, one answer per request, the value of the key, timeouts are kept |
| Configuration store, client, `CS/store_tcp_config.cpp` | `msgClientContext_`: the calls waiting for a reply | one call per request, watch and unwatch, the broken-link handler | calls register, send and sleep while the link's thread finishes contexts | every call returns |
| Group engine, `CS/store_net_group_engine.cpp` | the number of the next barrier and of the next allgather; keys in the store | `GroupBarrier`, `GroupAllGather`; dynamic join and leave (no caller) | timeouts, lost links, removal of old keys while slow ranks still read them | nobody passes early, needed keys stay, old keys go, calls return |
| TCP links, `CS/acc_links/` | link state, send queue, partially sent and received messages | send, receive, break, accept, connect | sockets that block, edge-triggered epoll, several threads break a link | messages arrive whole, once and in order until the link breaks; it breaks once |
| Store factory, `CS/store_factory.cpp` | a process-wide table of stores | create, destroy | creation races | one store for each address |
| Bootstrap loader and plugins, `src/host/init/bootstrap`, `src/host/bootstrap` | the chosen plugin, its handle | `barrier`, `allgather`, finalize through config store, MPI or unique id | ranks leave at different times | collectives match |
| Unique-id bootstrap, `src/host/bootstrap/shmemi_bootstrap_uid.cpp`, `socket/uid_socket.cpp` | the peers' addresses, a ring of sockets | rendezvous at the root, ring allgather, barrier | blocking sockets, a root thread, several interfaces | every rank gets every rank's data in rank order |
| Initialisation, `src/host/init/` | status, attributes, backend handles | `init_attr`, `finalize`, `set_attr`, the backend's steps | steps that fail half way | a failed init leaves nothing behind and can be repeated |
| Host teams, `src/host/team/shmem_team.cpp` | a mask and a table of teams, device copies | `split_strided`, `split_2d`, `translate_pe`, `destroy` | indices are chosen by each PE alone | PEs of one team use the same slot |
| Device barriers, `src/device/gm2gm/shmemi_device_cc.h`, `shmem_device_so.hpp` | counters and signal slots in the mapped heaps | barriers of the cores of a PE, of a team, across hosts | all cores read and write shared counters without locks; slots are never reset | nobody passes before everybody entered, no signal is missed, everybody passes |
| Device RMA and point-to-point sync, `src/device/gm2gm` | RDMA and SDMA queues | put, get, signal, wait, quiet, fence | queue indices that wrap around | data before signal |
| Memory entity and segments, `src/host/entity`, `src/host/mem/heap` | exported and imported slices | reserve, alloc, export, import, mmap, free | imports that fail half way | every PE maps every peer or none |
| Transport managers, `src/host/transport` | queue pairs and connect threads | open, connect, update ranks, close | background threads that connect to changing sets of ranks | all ranks are connected when connect returns |
| Host sync and data plane, Python, logging, library wrappers | none of their own | launch kernels, call through | nothing | out of scope |

How they interact. `aclshmemx_init_attr` loads a bootstrap plugin; the config
store plugin starts a `TcpConfigStore` on every rank and an `AccStoreServer` on
rank 0, joined by acc_links; the group engine runs barriers and allgathers with
ordinary store calls. Initialisation exchanges memory slices and device
addresses through it, `aclshmem_malloc` and the team calls synchronise through
it. The device code shares only the mapped heap with the host: the team table
and the sync pools that the initialisation clears.

## 2. Modules

| Module | Code | Role |
|---|---|---|
| `RangeTrees` | the containers of ranges both allocators use | ordered maps as sets of ranges: `Emplace`, `LowerBound`, merging |
| `Heap` | what `shmem_host_heap.h` promises | abstract heap: live blocks and the last reply |
| `HeapManager` | `shmem_mgr.cpp` | the best-fit allocator; refines `Heap` |
| `HeapManager_proofs` | | its theorems and those of `DynamicHeap` |
| `DynamicHeap` | `shmem_dynamic_mm.cpp` | the heap with expansion, used by several threads (INSTANCE `HeapManager` for its pool) |
| `StoreServer` | `store_tcp_config_server.cpp` | the request handlers and the timer, without a client |
| `ConfigStore` | `store_tcp_config.cpp` | the ranks' calls, watches and links, composed with the server (EXTENDS `StoreServer`) |
| `ConfigStore_proofs` | | its theorems, the server's and those of `Link` |
| `Barrier` | | abstract barrier of any participants |
| `GroupBarrier` | `store_net_group_engine.cpp` | the ranks' barrier over the store; refines `Barrier` |
| `GatherPromise` | | what the allgather promises: its properties and the state they are about |
| `GroupAllGather` | `store_net_group_engine.cpp` | the ranks' allgather over the store |
| `GroupEngine_proofs` | | the theorems of both |
| `Channel` | | abstract channel: whole messages, once, in order |
| `LinkPromise` | | what a link promises to threads and request handlers |
| `Link` | `CS/acc_links/csrc`: `acc_tcp_link_complex_default.h`, `acc_tcp_worker.h`, `HandleLinkBroken` | a TCP link between two workers; refines `Channel` |
| `UidBootstrap` | `shmemi_bootstrap_uid.cpp`, `socket/uid_socket.cpp` | the unique-id bootstrap: root thread, ring, gathers and barriers, up to the close |
| `Dissemination` | | how far ahead a participant of a dissemination barrier signals in each round |
| `Dissemination_proofs` | | the theorems of `UidBootstrap` and `CoreBarrier` |
| `Teams` | `shmem_team.cpp`, `shmemi_device_cc.h:282-350` | splits, grids and destroys on every PE, and the barriers of several teams at once |
| `Teams_proofs` | | its theorems |
| `QpManager` | `transport/device_rdma/fixed_ranks_qp_manager.cpp`, `device_qp_manager.cpp` | how the ranks connect their queue pairs, as servers and clients |
| `QpManager_proofs` | | its theorems |
| `Lifecycle` | `src/host/init/`, `shmem_mm.cpp`, `entity/`, `mem/heap/`, the config store plugin | init, allocations and finalize of all PEs over one store, session after session |
| `Lifecycle_proofs` | | its theorems |
| `CoreBarrierPromise` | | what the barrier of the cores promises |
| `CoreBarrier` | `shmemi_device_cc.h:45-75` | dissemination barrier of the cores of a device; refines `Barrier` |
| `DeviceBarrier` | `shmemi_device_cc.h:282-350` | the barrier of all cores of all PEs; refines `Barrier` |
| `DeviceBarrier_proofs` | | its theorems |
| `MC*` | | model values, small sets and symmetry for TLC |

`ConfigStore` uses of a link only that it delivers in order until it breaks,
which is `Channel`, and what `Link` implements. A module named `...Promise` states
what callers of an operation rely on apart from how it is done, for the
module that models it and the one that proves it.
`GroupBarrier` and `GroupAllGather` use of the store only that a request is served at once (the
handlers work under one lock) and that a GET ends when its key is set, times
out or loses its link: what `StoreServer` and `ConfigStore` check.
`DeviceBarrier` uses of `CoreBarrier` only what `Barrier` says. `Teams` has one
vector core per PE, so that a PE's part in a barrier is a core's in
`DeviceBarrier`, and adds what that module leaves out: that the slot of a team
depends on an index each PE picks. `Lifecycle` takes a collective of the engine
in two steps, to join it and to leave it; what happens between them is the
subject of `GroupBarrier` and `GroupAllGather`.

How state and actions correspond to the code:

- `HeapManager`: `addressIdle`, `sizeIdle`, `addressUsed` are the three trees
  as sets of ranges `[offset, size]`. An insertion into a map whose key is
  taken does nothing, as `std::map::emplace`. Each entry point is one action
  and one action for its failure, since the spin lock is held throughout.
- `DynamicHeap`: `blocks` are the external `memory_blocks_` with their
  `used_size`; `allocInfo` is both maps of external allocations, which always
  have the same keys. A caller between the two halves of `expand_pool`, where the lock is
  released, is `expanding`. `held` is what the callers know: what they were given
  and have not freed.
- `StoreServer`: `kvStore`, `waitCtx`, `keyWaiters`, `timedWaiters` are the
  members of the same names. Each handler is one operator; `Handle` takes the
  next request of a link, as the worker of that link does, and the replies are
  sent afterwards, in any order between links. Values are sequences of tokens:
  ADD is only defined on numbers, APPEND concatenates. A pass of
  `TimerThreadTask` is many steps, as its lock is released in between:
  `TimerLooks` takes out, one time unit later, the waiters that are late, and
  `TimerAnswers` tells them one by one. As the map of deadlines has no order,
  the pass may stop at any unexpired one (`TimeOutHidden`). `refused` is a ghost: the
  requests to which the server will give no reply (`Refuses`).
- `ConfigStore`: a call registers its context (`Call`), sends (`Send`) and sleeps
  until `Receive` or `LinkBrokenHandler` finishes it, in the steps of
  `SendMessageBlocked`. A link that is broken or whose queue is full refuses the
  request (`SendFails`), and the context of the call stays in the table. What
  the caller sees is `result`.
- `GroupBarrier`: a rank's position in `GroupBarrier()` is `pc`, named after
  the store call it makes next; the keys `<sn>_BA` and `<sn>_BW` are `addKey`
  and `waitKey`.
- `GroupAllGather`: the same for `GroupAllGather()`, with `nextCall` for the
  position, `allGatherGroupSn_`, and the keys `<sn>_GA`, whose `values` are sequences
  of units, and `<sn>_GW`. A unit is a rank and its data, which is
  another in every gather, so that data of the wrong gather would show.
- `Link`: each end has a worker, whose place in `ProcessEvent` is `pc`, and
  threads inside `NonBlockSend` (`caller`). The queue, `established_` and what
  has been received of a message (`got`, for `receiveState_`, `header_` and
  `data_`) are the link's members. `added`, `mask` and `ready` are the worker's
  epoll: an event takes the link off the ready list, EPOLL_CTL_MOD, arriving
  data and room in a full socket put it back. A worker takes EPOLLIN before
  EPOLLOUT, as `ProcessEvent` does. `recv` and `write` are steps of their own
  that wait, since `EnableNoBlocking` makes the sockets block; the branches for
  a partial write and for EAGAIN on a write cannot be reached then.
  `HandleLinkBroken` is three steps: `Break`, `CleanUp`, which reports the queue as
  not sent, and, under the server's mutex, `RemoveLink`.
- `UidBootstrap`: `root` is the thread of `bootstrap_root`, `backlog[r]` the
  connections to the listening socket of `r` nobody has accepted, `unexpected`
  the list of those that came early (`unexpected_conns`), `ring` and `stream`
  the two sockets of the ring. A rank's place in its collective is `pc` and
  `step`, the loop counter. Ranks and addresses are the same numbers; which
  interface an address is of makes no difference to the protocol.
- `Teams`: `mask`, `pool` and `handle` are `g_team_mask`, the table and what the
  program was given, on each PE. A split is one step of a PE, a barrier one step
  for its entry, each visit and its exit. All PEs run one program, chosen at the
  start; `places` is what `shmem_host_team.h` says its teams are. A program with
  a grid begins with the splits of `aclshmem_team_split_2d` of the world
  (`GridAssumption`); `GridIsAGrid` is about that one.
- `QpManager`: the main thread of a rank (`pc`) and the threads of its two sides
  (`thread`), each result a member of the class. `socketFd`, `qp` and `called`
  are the network, which is external. A library call may fail in every place
  where its result is looked at (`...Fails`).
- `Lifecycle`: `held` is what a PE has acquired, by name; `Steps` lists what each
  part of `aclshmemx_init_attr` acquires and the collective it ends with, in the
  order of the code. Before them comes the bootstrap: PE 0 takes the server up
  (`StartServer`), then everyone connects (`Connect`), and each of that may fail
  (`BootstrapFails`). `server` is the store of PE 0, `sn` the engine's numbers,
  `imported` the slices `hybm_import` was given. A step that fails acquires a
  prefix of its list; `AfterError`, `TeamKept`, `RangesKept` and `HybmKept` are
  the places where the code gives back something on an error, or not all:
  a failing `aclshmemi_team_init` gives the team back, a failure after it leaves
  the team to finalize.
- `CoreBarrier`, `DeviceBarrier`: one step per load or store of global memory.
  A core's variables (`count`, `offset`, the loop's rest `todo`) are those of
  the C++ function.

## 3. Runs

| Run | Instance | What it shows |
|---|---|---|
| `heap` | heap of 12 units, ALIGN 2, sizes 0 to beyond the heap | after any sequence of malloc and free: no overlap, nothing lost, the abstract heap implemented |
| `heap_dynamic` | a pool of two units, two blocks of up to six, four callers | violation: after a free that is not of the last allocation of a block, two callers own the same bytes |
| `store` | two ranks, one key, two calls each, timeouts none, 0, bounded, too long; a send queue of one; links may break at any moment | no waiter left behind, containers agree, one answer per call, a GET is told the key's value unless APPEND made it, every call returns, but for requests the server refuses and GETs without a timeout, and these when the link breaks |
| `group_barrier` | three ranks, three barriers, any timeout or broken link | the abstract barrier implemented: nobody passes early; keys in use are not removed, old keys are; everybody passes |
| `group_allgather` | three ranks, three gathers, any timeout or broken link | a gather that succeeds has everyone's data of that gather, in rank order; the data stay until the slowest has read them |
| `link` | two threads send over one link; header and body of two units, a socket of five, a queue of one; either process may end | messages arrive whole, once, in order; no lost edge leaves one behind; a closed peer is noticed |
| `uid_bootstrap` | three ranks; barrier, allgather, barrier, close; up to two waits run out | addresses and data in rank order, no barrier passed early, closing needs no barrier, everybody passes |
| `qp` | three ranks, one library call fails, waits run out | success means connected, the device's table is whole unless both sides filled it at once, all connect without failures, Connect returns but for one wait |
| `teams` | three PEs, three indices, 135 programs of two teams, grids of 1 to 4 columns, a full table; one device call fails | a PE's teams have indices of their own, a split makes the subset asked for, grids are grids; barriers of teams made alike hold and end |
| `lifecycle` | two PEs, two sessions, two allocations each, one call that fails, the bootstrap's included, any wait that runs out | after init all peers are mapped and cleared, slices are current, calls are collective, success leaves nothing behind, calls return without timeouts |
| `core_barrier` | five cores (no power of two), three barriers | the dissemination barrier implements `Barrier`, everybody passes |
| `device_barrier` | three PEs of two cores, three barriers | the team barrier implements `Barrier`, everybody passes |

The `.cfg` files that no run uses are counterexamples to run by hand
(`tlc -config X.cfg M`): each checks a property the code does not have, and the
passing run of the module states the same with the exception named.

| Configuration | Module | What is refuted |
|---|---|---|
| `MCHeapManager_aligned` | `MCHeapManager` | `NoOverlap`: align leaves the carved range in the address tree (`shmem_mgr.cpp:107`); after a free next to it the aligned block is handed out again |
| `MCConfigStore_append` | `MCConfigStore` | `GetReturnsTheValue`: a GET that waited for a key made by APPEND is told a moved-from value (`store_tcp_config_server.cpp:413`) |
| `MCConfigStore_timer` | `MCConfigStore` | `TimeoutsAreKept`: the first entry of an unordered map is taken for the earliest deadline (`:540`) |
| `MCLink_both` | `MCLink` | `EveryMessageArrives`: both ends send more than a socket holds and both workers block in `write` (`acc_tcp_link_default.h:320`) |
| `MCTeams_reuse` | `MCTeams` | `NobodyPassesEarly`: members whose slots have different counters, from other teams they were in (`shmem_team.cpp:465`) |
| `MCQpManager_overlap` | `QpManager` | `TableIsWhole`: a table put together before the other side's queue pairs were made is copied last (`fixed_ranks_qp_manager.cpp:549`) |
| `MCLifecycle_leak` | `Lifecycle` | `FinalizeReleasesAll`: when the first barrier of init fails, finalize keeps the memory of `hybm_init` (`shmem_init_backend.cpp:161`), and the next init of the process is refused it |
| `MCLifecycle_rejoin` | `Lifecycle` | `ImportsAreOfEveryone`: a PE that gave up joins the same server again, and its old entry and its new one complete the allgather without the others |

Bounds. A heap of six units holds blocks with idle neighbours on no, one or
both sides, which is all that `release` tells apart; sizes straddle the unit and
the heap. In the store a second key would only put independent waiters side by
side: the containers relate waiters of one key and of one deadline. Two calls
per rank let a GET follow a removal and a late reply meet the next call. In the third
group barrier or allgather the keys of the first are removed, while slow ranks
may still be in the second. Five cores need three rounds, and the last one wraps around. Two
device barriers let a fast PE be one ahead of a waiting one, three let it be
wrong by two if it could; cores that have no PE to look at, which need more
cores than PEs, are covered by the proof. A socket of five units holds the rest of one message
and a whole second one, so that a message can wait with no further event to
come; a queue of one is full when the second thread comes. In the ring of three
ranks each has a predecessor that is not its successor, and the barrier has two
rounds; after a barrier and a gather the second barrier meets messages of the
first if there are any left. Three teams besides the world, with a limit of
three indices, let a split find the table full, an index be used again and a
grid have a short last row. Three ranks give the middle one both roles; the
ends have one. Two PEs show all of `Lifecycle` that is between a PE and the
holder of the store; the invariants also hold of three PEs without the
transport, with one session and one allocation (657235 states). Two sessions meet
the first one's server, keys and memory; eight barriers of a session pass the
interval at which keys are removed.

CHECK_DEADLOCK is off where the bound on calls ends every behaviour.

## 4. Fairness

Threads inside the library are scheduled: a weakly fair step of a rank or core
that is inside a call (`Step`), of the link's worker and of the server's
worker. Nothing makes a program call again, so entering a barrier or making a
call is never fair, and a link need not break. `EveryonePasses` therefore
says: if all enter, all pass. No property of `GroupBarrier` relies on its
timers. In `Link` the workers and the threads inside `NonBlockSend` go on; no
process need end, and a receive need not time out. In `ConfigStore` the
workers of both sides and the timer thread go on. A call
returns when its reply comes or its link breaks; as long as the link is up the
property excepts a GET without a timeout that waits for its key, and the requests
in `refused`: a GET with a timeout above INT_MAX that would have to wait, and an ADD
to a value that is no number (`store_tcp_config_server.cpp:260`, `:331`).

In `UidBootstrap` the root thread and every rank go on, and no wait need run
out. In `Teams` a PE goes on with its program, its barriers included. In
`QpManager` threads go on and a minute of waiting ends; as no step of it can be
taken twice, one condition for all of them is enough. In `Lifecycle` a step of
init, an allocation and leaving a collective that is complete are weakly fair
for each PE; finalize, timeouts and failures are not, so that `CallsReturn` says
that the collectives end by themselves.

## 5. Proofs

`HeapManager_proofs` proves for every heap size, alignment unit and set of
requests that `TypeOK`, `NoOverlap`, `TreesAgree` and `NothingLost` hold and
that the allocator implements `Heap`. The inductive invariant says that the idle
ranges and the used blocks are pairwise disjoint, cover the heap, that the two
idle trees are equal and no two idle ranges touch, and that all sizes are
multiples of the unit up to the end of the heap. It is needed because `NoOverlap`
alone says nothing of the ranges the next malloc will hand out. The lemmas on
`RangeTrees` say what merging a block with its neighbours covers. The proofs are
about `Spec`, without align, for which the property is false.

It also proves of `DynamicHeap` what is true of it, as `NoOverlap` is not. The
assumption is on the constants of expansion (`DynamicHeapAssumption`: the largest
block is a whole number of alignment units, as in `shmem_dynamic_mm.cpp:19` and
`:326`), a hypothesis of the three theorems, which the constants of `heap_dynamic`
meet.

- `DynamicHeapInvariant`: whatever other threads do while the lock is released,
  the pool stays a partition, the mark of a block is inside it, and what a caller
  holds is a used range of the pool that nobody else holds, or lies in one block.
- `DynamicHeapSharesInBlocks`: so two callers can share bytes only inside one
  external block; neither the pool nor the boundary of a block is ever crossed.
- `DynamicHeapLastFirst`: if only the last allocation of a block is ever freed,
  `NoOverlap` holds. The added invariant is that each allocation in a block is
  below its mark and known with its place and size. So the order of frees is all
  that is wrong with the marks, and the expansion is not part of the fault.

`GroupEngine_proofs` proves of `GroupBarrier` for every finite set of ranks, number of barriers
and interval of at least 2 that nobody passes early, that keys are kept as
long as they are needed and removed afterwards while no barrier has failed, and
that the abstract barrier is implemented. The invariant bounds each count by the
number of ranks that have added to it, so that it reaches the number of ranks
only if all have, also after removals and failures. That old keys go (`OldKeysGone`) is a second
invariant on top: a count is exact until its removal has begun, so the first
rank to add reads 1 and goes to remove, and nobody touches an old key after it,
as every rank is past the old barrier by then.

`DeviceBarrier_proofs` proves for every number of PEs and cores and every K
that all cores use the same count, that nobody passes before all cores of all
PEs have entered, that no waiting core can miss a signal, and the refinement of
`Barrier`. The invariant ties each location of a core to the arrivals at the
core barriers around the loop, and a count in `sync_pool` to the entry of all
cores of its PE.

Of `GroupAllGather` it proves for any number of ranks, gathers and interval
that a gather that succeeds returned everyone's data in rank order
(`EveryonesData`) and that data stay while they are needed (`DataStay`). The
invariant says that the units under a key are each of another rank that has
called that gather: as many units as ranks are then the units of all, and the
length that the ranks compare is enough. Once sorted, the place of a rank's
unit is the number of smaller ranks and so the rank itself (`Place`). That
values stay holds while no gather has failed, as a failed one lets ranks be
apart.

`ConfigStore_proofs` proves for any clients, keys, requests and timeouts,
with links that break at any time, `NoWaiterLeftBehind`, `WaitersIndexed` and
`AnsweredOnce`. Its invariant gives every request a name, the client and the
number, which is new when the request is sent and from then on
in one place (`OnePlace`): in the queue of the link, in `waitCtx_`, with the
timer thread, or in a reply. What a handler does to the names is stated once for all six
(`Effect`, `HandleSays`), what the timer does under the lock in `TimerSays`, hidden
deadlines included. As a refused send leaves its context behind, a context alone
does not tell that its request was sent: `NamesAreKnown` says that what is under
way and has a context belongs to a watch or to the call its client waits in, and
`CallIsLatest` which context is of the call a rank is in.
That a GET is told the value of its key (`GetReturnsTheValueButForAppend`) takes
one more invariant, `KeyInv`: the names left under a key by waiters that timed
out are never used again, so whoever is found under a key asked for that key.

`QpManager_proofs` proves for any number of ranks `SuccessIsConnected` and
`TableIsWholeIfNoOverlap`. A rank's two sides are threads that share its table;
the invariant says for each place of a thread what the side has seen up
(`SeenAreUp`), and that whoever fills the table last fills it with both sides'
queue pairs, unless both did so at once. What the properties except, a server
side whose failure is overwritten and fillings that overlap, the invariant
excepts too.

`Teams_proofs` proves all invariants of `Teams` for any programs, number of PEs
and of indices, whatever device calls fail.

- `IndicesAreTheTeams`: a team is numbered by the splits the program has come
  to, so that the team a split makes has no handle yet, and an index outside the
  mask is of no team the PE holds.
- `AlikeNobodyPassesEarly`: in `SlotsInv` a member's counter is that of the time it
  made the team and one more for each barrier of the team it has entered
  (`Counted`); how many these are follows from the place in the program alone
  (`Follows`), as all PEs run the same one; and whom a barrier has looked at has
  signalled it (`Signalled`). Signals are found in a slot that other teams use
  too. `EarlyDiffers` says what must have happened if a barrier was
  passed early all the same: somebody made the team with another index or another
  counter than one of its members, or that member will not make it alike any more.
- `TeamIsTheSubset`: `Placed` gives the members of a team by place, by induction
  over the numbers of teams, and `Belongs` is the membership that follows.
- `GridIsAGrid`: `SplitTwoDCovers` says for every size and every x_range,
  also where a row or a column is short, that each PE is in one row and one column
  and that these have nobody else in common. The splits of a program are then
  counted to find those of the grid.

Two of these were first stated wrongly, which the attempt to prove them showed.
A PE that is no member can make a team (`shmem_team.cpp:295`), and its
barriers pass early in a team that all members made alike; `Concerned` now
includes it, and the program is one of the instance (`MCOfAnother`). And a team
split from a parent that was destroyed has other members than the interface says.

`Lifecycle_proofs` proves all invariants of `Lifecycle` for any number of PEs, of
allocations and of sessions, with and without a transport, whatever fails or
times out. The inductive invariant has two layers. What a PE does on its own
(`OwnInv`) ties the numbers of its collectives to the step it is in
(`Numbered`) and what it holds to the steps it came through (`Equipped`);
`FinalizeReleases` follows from it. What the store of PE 0 knows comes on top:
additions to a key are sessions that have come to that collective (`MeetInv`),
a complete key has N of them, and if no PE joined again they are those of all
N PEs, which gives `PeersAreReady` and `ImportsAreCurrent`. `CallsAreCollective`
holds even if PEs do join again: a session goes on after its first allgather only
with exactly N additions to its key (`GatherIsExact`), so that no more than N
sessions ever add to a barrier (`BarriersAreCalls`).

`Dissemination_proofs` proves the three invariants of `UidBootstrap` for any
number of ranks and any program of collectives, and that `CoreBarrier`
implements `Barrier` for any number of cores.

- `UidBootstrapInit` is about the init and holds whatever times out. Only the
  rank before connects to a rank that has no ring yet, so the ring is closed as the
  root planned it, and until a rank has every address the stream to it holds
  those of its init only, in the order in which they go around. So an init that
  returned has each address in its place.
- `UidBootstrapInTime` is about the collectives and holds as long as nothing has
  timed out, as `EveryoneCame`, `CloseIsSafe` and the part of `EveryonesData`
  about gathers do. It counts. The slices in a stream are those the sender's
  calls have sent less those the reader's have read. What of a round waits at
  a rank, in the list of accepted connections or not yet accepted, is what one
  rank has sent of it and the other not received (`MessagesAre`): the tags of all
  barriers are the same, and counting is what keeps the barriers apart. In round k of a barrier a rank knows of the `Shift[k]` ranks
  before it that they have come, and a message of the round tells it of as many
  before the sender, until after the last round it knows of all. A rank that closes has
  received as much as the whole program lets anyone send to it, so nothing is left.
- `CoreInvariant`: the same argument where signals are words that are never reset.
  A slot of round k says of the cores that are `Shift[k]` up to `2 * Shift[k] - 1`
  behind its owner that they have entered the barrier of that number
  (`SlotsAreBacked`), which stays true; what a core in a round has heard
  (`HeardOf`) is lost when it leaves, and the shared counter takes its place: it
  is the number of the barrier all cores are in, or of the one before
  (`CounterIs`). The cores all write it on exit, possibly after a faster one has
  entered the next barrier, and it is right because the last to leave writes the
  same number. `CoreSignalsNotMissed` follows: a slot is at most one
  ahead of the core that waits on it.

`ConfigStore_proofs` also proves of `Link`, for any threads, messages, queue and
socket sizes, `ReportedNotDelivered` and the refinement of `Channel`. The
invariant is about streams: the messages an end has begun to write, one after the
other, are what the other end has handed up, then the part of a message it has
read, then what is on the wire, then what is still to be written of the first in
the queue (`StreamIs`). Every piece names its message, and a message is handed up
when all its pieces have come. The rest says where an accepted message is,
begun, queued or reported, and nowhere twice (`AcceptedIs`, `AcceptedOnce`).

`TypeOK` of each of the heap and the barriers, `TreesAgree`, `EveryoneCame` of
the group barrier, `CountsAgree` and `SignalsNotMissed` are proved and listed by
no run: they are parts of the inductive invariants, and the properties of the
runs say more.

Assumptions are those on the constants, named `...Assumption` in the modules,
which TLC evaluates for the instances of the runs, and `DynamicHeapAssumption`,
which theorems state as their hypothesis. Every safety property that a
passing run checks, and every refinement, is also proved. What stays with TLC is
liveness (`EveryonePasses`, `CallsReturn`, `AlikeEveryoneEnds`,
`EveryMessageArrives`, `ExitIsNoticed`, `EveryoneConnects`, `ConnectReturns`),
which needs ENABLED. Of the dynamic heap the property itself is false, and the
theorems say how far it holds.

## 6. Findings

One run ends in a violation on purpose: a free of any external allocation lowers
the mark of its block (`shmem_dynamic_mm.cpp:253`). In another order than last
first that can give away bytes in use; last first it cannot (`DynamicHeapLastFirst`).
The other disagreements with what the repository says are the configurations to
run by hand in section 3.

Exceptions in properties stand for what the code does not do: `ExitIsNoticed`
excepts a link whose receive timed out, since `errno` stays EAGAIN and the closed
peer is never found (`acc_tcp_link_complex_default.h:365`). `SuccessIsConnected`
excepts the ranks whose failed server side reports success, as a return is
missing (`fixed_ranks_qp_manager.cpp:195`). `ConnectReturns` excepts the wait for
the socket of a rank that gave up, which has no limit (`:337`).
`TeamIsTheSubset` excepts parents whose places are not the world's numbers
(`shmem_team.cpp:295`). `CallsAreCollective` excepts what follows an allocation
that returned without its barrier (`shmem_mm.cpp:89`).

## 7. Plan

What is left, the most important first:

1. `SymmetricMalloc`: the heaps of all PEs under the calls of `Lifecycle`;
   offsets stay symmetric as long as the PEs call alike. With it align and the
   statistics of `DynamicHeap`.
2. The server of acc_links: accepting, connecting, the limit on links, shutdown
   and the delayed cleanup; the broadcast of an exit status.
3. The barrier across hosts and the queues of the RDMA and SDMA engines.

## 8. Not modelled

Packing and unpacking of messages, TLS, logging, the Python bindings and the
wrappers of driver libraries have no protocol. The memory model of the device is
taken to be sequentially consistent at the granularity of one load or store:
the code puts cache maintenance and pipe barriers around each of them, whose
effect is the hardware's. A write to a closed peer fails in `Link`; without a
handler for SIGPIPE it ends a C++ program. Lifetimes of C++ objects (a context
destroyed while a notifier still uses it) are not modelled, nor is a reply that
the server cannot queue, which it drops (`acc_tcp_link_complex_default.cpp:51`).

Of the unique-id bootstrap the choice of an interface is left out, of the teams
`translate_pe` and masks of 64 bits and more. `DynamicRanksQpManager` is never
made: the role is always HYBM_ROLE_PEER (`shmem_init_backend.cpp:102`).
`Lifecycle` has the legacy driver's segments; it leaves out the heap on the
host's side, init called again without finalize, a `release_heap` that fails on
a table it finds half allocated (`shmem_init_backend.cpp:386`), and that the
driver's reserved addresses only ever go down (`devmm_svm_gva.cpp:547`). The
puts, gets and signals of the device are single instructions and library calls
of the hardware, with no protocol above them but the barriers.
