------------------------------ MODULE Barrier -------------------------------
(***************************************************************************)
(* What a barrier promises, whoever its participants are: the ranks of a   *)
(* job (GroupBarrier), the vector cores of one device (CoreBarrier) or the *)
(* vector cores of all devices of a team (DeviceBarrier).  A participant   *)
(* that passes a barrier knows that every other one has entered it.  One   *)
(* that gave up enters the next barrier without having passed.             *)
(***************************************************************************)
EXTENDS Naturals

CONSTANT Participants

VARIABLES entered,   \* per participant, the last barrier it entered
          passed     \* per participant, the last barrier it passed

Init ==
  /\ entered = [p \in Participants |-> 0]
  /\ passed = [p \in Participants |-> 0]

Enter(p) ==
  /\ entered' = [entered EXCEPT ![p] = @ + 1]
  /\ UNCHANGED passed

Pass(p) ==
  /\ \A q \in Participants : entered[q] >= entered[p]
  /\ passed' = [passed EXCEPT ![p] = entered[p]]
  /\ UNCHANGED entered

Next == \E p \in Participants : Enter(p) \/ Pass(p)

Spec == Init /\ [][Next]_<<entered, passed>>
=============================================================================
