----------------------------- MODULE CoreBarrier ----------------------------
(***************************************************************************)
(* aclshmemi_barrier_core_soft (shmemi_device_cc.h): the barrier of the    *)
(* vector cores of one device, a dissemination barrier in global memory.   *)
(* In every round a core signals the core `shift` ahead of it and waits    *)
(* for the core `shift` behind it, and the shift doubles.  The cores share *)
(* one counter, which they read on entry and all write on exit; the slots  *)
(* are never reset, each barrier uses the next count.                      *)
(***************************************************************************)
EXTENDS Integers, Dissemination, CoreBarrierPromise

CONSTANTS LOG_MAX_AIV,  \* slots of a core, one per round
          MaxBarriers   \* bound on the barriers of a core

CoreAssumption ==
  /\ BlockDim \in Nat \ {0}
  /\ LOG_MAX_AIV \in Nat /\ BlockDim <= Shift[LOG_MAX_AIV]
  /\ MaxBarriers \in Nat

ASSUME CoreAssumption

VARIABLES sync_counter,  \* core_sync_counter
          sync_pool,     \* core_sync_pool: the slots of each core
          pc,
          offset,        \* the round a core is in; its shift is Shift[offset]
          count          \* a core's copy of the counter plus one

vars == <<sync_counter, sync_pool, pc, offset, count, entered, passed>>

Init ==
  /\ sync_counter = 0
  /\ sync_pool = [c \in Cores |-> [o \in 0..LOG_MAX_AIV - 1 |-> 0]]
  /\ pc = [c \in Cores |-> "out"]
  /\ offset = [c \in Cores |-> 0]
  /\ count = [c \in Cores |-> 0]
  /\ entered = [c \in Cores |-> 0]
  /\ passed = [c \in Cores |-> 0]

\* Mutant: the rounds end one too early.
RoundOneShort(o) == IF Shift[o + 1] < BlockDim THEN "signal" ELSE "exit"

\* Rounds are run while the shift is below the number of cores.
Round(o) == IF Shift[o] < BlockDim THEN "signal" ELSE "exit"

Goto(c, next) == pc' = [pc EXCEPT ![c] = next]

-----------------------------------------------------------------------------
Enter(c) ==
  /\ pc[c] = "out"
  /\ entered[c] < MaxBarriers
  /\ entered' = [entered EXCEPT ![c] = @ + 1]
  /\ count' = [count EXCEPT ![c] = sync_counter + 1]
  /\ offset' = [offset EXCEPT ![c] = 0]
  /\ Goto(c, Round(0))
  /\ UNCHANGED <<sync_counter, sync_pool, passed>>

Signal(c) ==
  /\ pc[c] = "signal"
  /\ sync_pool' = [sync_pool EXCEPT ![(c + Shift[offset[c]]) % BlockDim][offset[c]] = count[c]]
  /\ Goto(c, "await")
  /\ UNCHANGED <<sync_counter, offset, count, entered, passed>>

\* Mutant: a signal of the next barrier is not taken for one of this.
AwaitExactly(c) ==
  /\ pc[c] = "await"
  /\ sync_pool[c][offset[c]] = count[c]
  /\ offset' = [offset EXCEPT ![c] = @ + 1]
  /\ Goto(c, Round(offset'[c]))
  /\ UNCHANGED <<sync_counter, sync_pool, count, entered, passed>>

\* signal_wait_until_eq_for_barrier: the peer may have entered the next barrier.
Await(c) ==
  /\ pc[c] = "await"
  /\ sync_pool[c][offset[c]] \in {count[c], count[c] + 1}
  /\ offset' = [offset EXCEPT ![c] = @ + 1]
  /\ Goto(c, Round(offset'[c]))
  /\ UNCHANGED <<sync_counter, sync_pool, count, entered, passed>>

Exit(c) ==
  /\ pc[c] = "exit"
  /\ sync_counter' = count[c]
  /\ passed' = [passed EXCEPT ![c] = entered[c]]
  /\ Goto(c, "out")
  /\ UNCHANGED <<sync_pool, offset, count, entered>>

Step(c) == Signal(c) \/ Await(c) \/ Exit(c)

Next == \E c \in Cores : Enter(c) \/ Step(c)

Spec == Init /\ [][Next]_vars

\* A core inside the barrier goes on; nothing makes it enter the next one.
FairSpec == Spec /\ \A c \in Cores : WF_vars(Step(c))

-----------------------------------------------------------------------------
\* If all cores enter a barrier, all pass it.
EveryonePasses ==
  \A n \in 1..MaxBarriers :
    (\A c \in Cores : entered[c] >= n) ~> (\A c \in Cores : passed[c] >= n)
=============================================================================
