-------------------------- MODULE CoreBarrierPromise ------------------------
(***************************************************************************)
(* What the barrier of the vector cores of one device (CoreBarrier)        *)
(* promises to the kernel that calls it.                                   *)
(***************************************************************************)
EXTENDS Integers

CONSTANT BlockDim     \* number of vector cores

VARIABLES entered,   \* per core, the last barrier it entered
          passed     \* per core, the last barrier it passed

Cores == 0..BlockDim - 1

\* A core passes only when all have entered.
AbstractBarrier == INSTANCE Barrier WITH Participants <- Cores
ImplementsBarrier == AbstractBarrier!Spec
=============================================================================
