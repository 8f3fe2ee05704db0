------------------------------- MODULE Channel -------------------------------
(***************************************************************************)
(* What the users of a link rely on, the configuration store above all:    *)
(* the messages an end accepts reach the other end whole, once and in the  *)
(* order they were accepted.  How many of them arrive before the link      *)
(* breaks is left open.                                                    *)
(***************************************************************************)
EXTENDS Naturals, Sequences

CONSTANTS Ends, Messages

VARIABLES accepted,    \* per end, the messages it has accepted
          delivered    \* per end, the messages of the other end it was handed

Init ==
  /\ accepted = [e \in Ends |-> <<>>]
  /\ delivered = [e \in Ends |-> <<>>]

Accept(e, m) ==
  /\ accepted' = [accepted EXCEPT ![e] = Append(@, m)]
  /\ UNCHANGED delivered

Deliver(e, p) ==
  /\ Len(delivered[p]) < Len(accepted[e])
  /\ delivered' = [delivered EXCEPT ![p] = Append(@, accepted[e][Len(@) + 1])]
  /\ UNCHANGED accepted

Next ==
  \E e \in Ends : (\E m \in Messages : Accept(e, m)) \/ \E p \in Ends \ {e} : Deliver(e, p)

Spec == Init /\ [][Next]_<<accepted, delivered>>
=============================================================================
