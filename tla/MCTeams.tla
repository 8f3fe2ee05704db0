------------------------------ MODULE MCTeams ------------------------------
(***************************************************************************)
(* Programs of three PEs: a team of the world that is used or not, and     *)
(* destroyed or not, before a second one, of the world or of the first,    *)
(* is made and used; a grid of two columns; splits until no index is left; *)
(* a team that a PE makes which is no member of it, in place of the member.*)
(***************************************************************************)
EXTENDS Teams

On(op, t) ==
  [op |-> op, team |-> t, start |-> 0, stride |-> 1, size |-> 0, axis |-> "none"]

SplitsOf(parent, size) ==
  {o \in {SplitCall(parent, b, d, n, "none") :
             b \in 0..size - 1, d \in {1, 2}, n \in 1..size} :
     o.start + (o.size - 1) * o.stride < size /\ (o.stride = 1 \/ o.size > 1)}

Larger(calls) == {o \in calls : o.size > 1}

MCPrograms ==
  {<<a>> \o used \o <<b, On("barrier", 2)>> :
     a \in SplitsOf(World, N), b \in Larger(SplitsOf(World, N)),
     used \in {<<>>, <<On("destroy", 1)>>, <<On("barrier", 1)>>,
               <<On("barrier", 1), On("destroy", 1)>>}}

\* The last one asks for more than the parent has.
MCOfTheFirst ==
  {<<a, On("barrier", 1), b, On("barrier", 2), On("barrier", 1)>> :
     a \in Larger(SplitsOf(World, N)),
     b \in SplitsOf(1, N - 1) \cup {SplitCall(1, 0, 1, N, "none")}}

MCGrids ==
  {SplitTwoD(World, N, x) \o <<On("barrier", t), On("barrier", World)>> :
     x \in 1..N + 1, t \in {1, 3}}

MCFull == {<<a, a, a, On("barrier", 2)>> : a \in {SplitCall(World, 0, 1, 2, "none")}}

\* PE 2 makes the team that was to be PE 1's, which used the slot for another.
MCOfAnother ==
  {<<SplitCall(World, 1, 1, 2, "none"), SplitCall(1, 0, 1, 1, "none"),
     SplitCall(World, 1, 1, 1, "none"), On("barrier", 3), On("barrier", 2)>>}

MCAll == MCPrograms \cup MCOfTheFirst \cup MCGrids \cup MCFull \cup MCOfAnother
=============================================================================
