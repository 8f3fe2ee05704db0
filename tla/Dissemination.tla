---------------------------- MODULE Dissemination ---------------------------
(***************************************************************************)
(* What the dissemination barriers of the vector cores of a device         *)
(* (CoreBarrier) and of the ranks (UidBootstrap) share: how far ahead a    *)
(* participant signals in each round, from round 0 on.                     *)
(***************************************************************************)
EXTENDS Integers

\* The shift is 1 in the first round and doubles from round to round.
Shift[round \in Nat] == IF round = 0 THEN 1 ELSE 2 * Shift[round - 1]
=============================================================================
