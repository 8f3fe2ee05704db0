------------------------------- MODULE Teams -------------------------------
(***************************************************************************)
(* The teams of src/host/team/shmem_team.cpp and the barriers of a team    *)
(* (src/device/gm2gm/shmemi_device_cc.h:288).                              *)
(*                                                                         *)
(* Every PE keeps its own mask of used indices and its own table of teams, *)
(* and a split is a local calculation on each PE: the members of a team    *)
(* take the first index that is free with them.  The index is all that     *)
(* ties the members together, since it selects the slot of sync_pool and   *)
(* sync_counter that a barrier of the team uses on every one of them.      *)
(*                                                                         *)
(* All PEs run the same program, a sequence of splits, barriers and        *)
(* destroys; a PE that is no member has an invalid handle and its call     *)
(* does nothing.  Teams are numbered in the order of their splits, the     *)
(* world is 0.  A barrier is that of DeviceBarrier with one vector core.   *)
(***************************************************************************)
EXTENDS Integers, Sequences, FiniteSets

CONSTANTS N,                   \* aclshmem_n_pes()
          ACLSHMEM_MAX_TEAMS,
          Programs,            \* sequences of operations
          MaxTeams,            \* bound: splits in a program
          MaxFailures          \* bound: device calls that fail

TeamsAssumption ==
  /\ N \in Nat \ {0} /\ ACLSHMEM_MAX_TEAMS \in Nat \ {0} /\ MaxTeams \in Nat
  /\ \A prog \in Programs :
       /\ prog \in Seq([op : {"split", "barrier", "destroy"}, team : 0..MaxTeams,
                        start : Int, stride : Int, size : Int, axis : {"x", "y", "none"}])
       /\ Cardinality({i \in 1..Len(prog) : prog[i].op = "split"}) <= MaxTeams
ASSUME TeamsAssumption

PEs == 0..N - 1
Slots == 0..ACLSHMEM_MAX_TEAMS - 1
World == 0
Made == 0..MaxTeams            \* the numbers of the teams
Invalid == -1                  \* ACLSHMEM_TEAM_INVALID

\* What a PE made of a split instead of a team.
NotYet == <<Invalid, 0>>       \* it has not come to it
NotMember == <<Invalid, 1>>
Full == <<Invalid, 2>>         \* no index was left
Failed == <<Invalid, 3>>       \* a device call failed

VARIABLES program,
          splits,              \* the splits among them
          places,              \* places[t]: the members of team t by place
          at,                  \* at[p]: p's next operation
          mask,                \* g_team_mask, as the set of its bits
          pool,                \* g_aclshmem_team_pool
          handle,              \* handle[p][t]: what p's program holds of team t
          sync_pool, sync_counter,
          count,               \* the count of p's barrier, 0 outside of one
          visit,               \* the member p's barrier looks at next
          failures,
          \* what the properties look back at:
          made,                \* made[p][t]: the index p gave t, and its counter then
          entered,             \* entered[p][t]: barriers of t that p entered
          early                \* teams with a barrier somebody passed too early

host == <<mask, pool, handle>>
slots == <<sync_pool, sync_counter>>
fixed == <<program, splits, places>>
vars == <<fixed, at, host, slots, count, visit, failures, made, entered, early>>

Team(start, stride, size, mype) ==
  [start |-> start, stride |-> stride, size |-> size, mype |-> mype]

\* pe_mapping, whose first half is a function of start and stride.
Global(team, place) == team.start + place * team.stride

\* The team a split makes has the number of splits up to it.
Number(i) == Cardinality({j \in 1..i : program[j].op = "split"})
SplitAt(t) == CHOOSE i \in 1..Len(program) : program[i].op = "split" /\ Number(i) = t
Splits == [t \in 1..Number(Len(program)) |-> program[SplitAt(t)]]

\* The members of each team by their places in it, as the interface has it
\* (shmem_host_team.h:21): none for a split that asks for more than the parent,
\* or for a parent that comes later.
PlacesFrom(of, t) ==
  IF t = World THEN [i \in PEs |-> i]
  ELSE LET o == splits[t]
           asked == {o.start + i * o.stride : i \in 0..o.size - 1}
       IN  IF o.team \in 0..t - 1 /\ o.stride >= 1 /\ asked \subseteq DOMAIN of[o.team]
           THEN [i \in 0..o.size - 1 |-> of[o.team][o.start + i * o.stride]]
           ELSE <<>>

Places == LET of[t \in 0..Number(Len(program))] == PlacesFrom(of, t) IN of

\* aclshmemi_team_init: the world takes the first index.
Init ==
  /\ program \in Programs
  /\ splits = Splits
  /\ places = Places
  /\ at = [p \in PEs |-> 1]
  /\ mask = [p \in PEs |-> {World}]
  /\ pool = [p \in PEs |-> [s \in Slots |->
               IF s = World THEN Team(0, 1, N, p) ELSE Team(-1, -1, -1, -1)]]
  /\ handle = [p \in PEs |-> [t \in Made |-> IF t = World THEN World ELSE Invalid]]
  /\ sync_pool = [p \in PEs |-> [s \in Slots |-> 0]]
  /\ sync_counter = [p \in PEs |-> [s \in Slots |-> 0]]
  /\ count = [p \in PEs |-> 0]
  /\ visit = [p \in PEs |-> 0]
  /\ failures = 0
  /\ made = [p \in PEs |-> [t \in Made |-> IF t = World THEN <<World, 0>> ELSE NotYet]]
  /\ entered = [p \in PEs |-> [t \in Made |-> 0]]
  /\ early = {}

-----------------------------------------------------------------------------
Call(p) == program[at[p]]
Calls(p, op) == at[p] <= Len(program) /\ count[p] = 0 /\ Call(p).op = op
Advance(p) == at' = [at EXCEPT ![p] = @ + 1]

Valid(p, h) == h \in mask[p]

\* The first index that is free, or none.
Free(p) == {s \in Slots \ mask[p] : \A r \in Slots \ mask[p] : s <= r}

Parent(p) == pool[p][handle[p][Call(p).team]]
GlobalStart(p) == Global(Parent(p), Call(p).start)
GlobalStride(p) == Parent(p).stride * Call(p).stride
GlobalEnd(p) == GlobalStart(p) + GlobalStride(p) * (Call(p).size - 1)

\* The arguments are checked against the parent, one by one, and the last
\* member against the world.
Accepted(p) ==
  /\ Valid(p, handle[p][Call(p).team])
  /\ Call(p).start \in 0..Parent(p).size - 1
  /\ Call(p).size \in 1..Parent(p).size
  /\ Call(p).stride >= 1
  /\ GlobalStart(p) < N /\ GlobalEnd(p) < N

\* Mutant: a PE one stride past the end takes part.
BelongsPastTheEnd(p) ==
  LET d == Parent(p).mype - GlobalStart(p)
  IN  d >= 0 /\ d % GlobalStride(p) = 0 /\ d \div GlobalStride(p) <= Call(p).size

\* The PE's number in the parent stands for its number in the world.
Belongs(p) ==
  LET d == Parent(p).mype - GlobalStart(p)
  IN  d >= 0 /\ d % GlobalStride(p) = 0 /\ d \div GlobalStride(p) < Call(p).size

MyTeam(p) ==
  Team(GlobalStart(p), GlobalStride(p), Call(p).size,
       (Parent(p).mype - GlobalStart(p)) \div GlobalStride(p))

NoTeam(p, why) ==
  /\ made' = [made EXCEPT ![p][Number(at[p])] = why]
  /\ Advance(p)
  /\ UNCHANGED <<fixed, mask, handle, slots, count, visit, entered, early>>

\* aclshmem_team_split_strided on a PE without the parent, with arguments that
\* are refused, or outside of the new team.
SplitOfOthers(p) ==
  /\ Calls(p, "split")
  /\ ~(Accepted(p) /\ Belongs(p))
  /\ NoTeam(p, NotMember)
  /\ UNCHANGED <<pool, failures>>

SplitFull(p) ==
  /\ Calls(p, "split")
  /\ Accepted(p) /\ Belongs(p)
  /\ Free(p) = {}
  /\ NoTeam(p, Full)
  /\ UNCHANGED <<pool, failures>>

Split(p) ==
  /\ Calls(p, "split")
  /\ Accepted(p) /\ Belongs(p)
  /\ \E s \in Free(p) :
       /\ mask' = [mask EXCEPT ![p] = @ \cup {s}]
       /\ pool' = [pool EXCEPT ![p][s] = MyTeam(p)]
       /\ handle' = [handle EXCEPT ![p][Number(at[p])] = s]
       /\ made' = [made EXCEPT ![p][Number(at[p])] = <<s, sync_counter[p][s]>>]
  /\ Advance(p)
  /\ UNCHANGED <<fixed, slots, count, visit, failures, entered, early>>

\* Mutant: the index of a team that could not be made stays taken.
SplitFailsKeepsIndex(p) ==
  /\ Calls(p, "split")
  /\ Accepted(p) /\ Belongs(p)
  /\ failures < MaxFailures /\ failures' = failures + 1
  /\ \E s \in Free(p) :
       /\ pool' = [pool EXCEPT ![p][s] = MyTeam(p)]
       /\ mask' = [mask EXCEPT ![p] = @ \cup {s}]
  /\ made' = [made EXCEPT ![p][Number(at[p])] = Failed]
  /\ Advance(p)
  /\ UNCHANGED <<fixed, handle, slots, count, visit, entered, early>>

\* The device refuses memory, a copy or the new state: the team is destroyed on
\* this PE, and only here.
SplitFails(p) ==
  /\ Calls(p, "split")
  /\ Accepted(p) /\ Belongs(p)
  /\ failures < MaxFailures /\ failures' = failures + 1
  /\ \E s \in Free(p) : pool' = [pool EXCEPT ![p][s] = MyTeam(p)]
  /\ NoTeam(p, Failed)

\* aclshmem_team_destroy: the slot keeps its signals and its counter.
Destroy(p) ==
  /\ Calls(p, "destroy")
  /\ mask' = [mask EXCEPT ![p] = @ \ {handle[p][Call(p).team]}]
  /\ handle' = [handle EXCEPT ![p][Call(p).team] = Invalid]
  /\ Advance(p)
  /\ UNCHANGED <<fixed, pool, slots, count, visit, failures, made, entered, early>>

-----------------------------------------------------------------------------
\* aclshmem_team_split_2d splits in rows and then in columns of a grid x_range
\* wide; x and y are the axes its output parameters are for.
SplitCall(parent, start, stride, size, axis) ==
  [op |-> "split", team |-> parent, start |-> start, stride |-> stride,
   size |-> size, axis |-> axis]

Lesser(a, b) == IF a < b THEN a ELSE b

XTeams(parent, size, x_range) ==
  [i \in 1..(size + x_range - 1) \div x_range |->
     SplitCall(parent, (i - 1) * x_range, 1, Lesser(x_range, size - (i - 1) * x_range), "x")]

\* Mutant: the last row is taken for full.
YTeamsOfFullRows(parent, size, x_range) ==
  [i \in 1..x_range |-> SplitCall(parent, i - 1, x_range, size \div x_range, "y")]

YTeams(parent, size, x_range) ==
  [i \in 1..x_range |->
     SplitCall(parent, i - 1, x_range,
               size \div x_range + IF i <= size % x_range THEN 1 ELSE 0, "y")]

SplitTwoD(parent, size, x_range) ==
  LET range == Lesser(x_range, size)
  IN  XTeams(parent, size, range) \o YTeams(parent, size, range)

\* It makes its splits in a row.  Which splits are of one grid only their axes
\* say, so that a program with a grid has one, and its other splits are of none.
\* The grid is of the world, the first thing the program makes.
GridAssumption ==
  \A prog \in Programs :
    (\E i \in 1..Len(prog) : prog[i].axis = "y") =>
      \E x_range \in 1..N :
        LET grid == SplitTwoD(World, N, x_range)
        IN  /\ Len(grid) <= Len(prog)
            /\ \A i \in 1..Len(grid) : prog[i] = grid[i]
            /\ \A i \in Len(grid) + 1..Len(prog) : prog[i].axis = "none"
ASSUME GridAssumption

-----------------------------------------------------------------------------
\* A PE that is not in the team.
BarrierOfOthers(p) ==
  /\ Calls(p, "barrier")
  /\ handle[p][Call(p).team] = Invalid
  /\ Advance(p)
  /\ UNCHANGED <<fixed, host, slots, count, visit, failures, made, entered, early>>

Enter(p) ==
  /\ Calls(p, "barrier")
  /\ LET h == handle[p][Call(p).team]
     IN  h # Invalid /\ count' = [count EXCEPT ![p] = sync_counter[p][h] + 1]
  /\ visit' = [visit EXCEPT ![p] = 0]
  /\ entered' = [entered EXCEPT ![p][Call(p).team] = @ + 1]
  /\ UNCHANGED <<fixed, at, host, slots, failures, made, early>>

Slot(p) == handle[p][Call(p).team]
Visits(p) == count[p] > 0 /\ visit[p] < pool[p][Slot(p)].size

\* Mutant: the members are taken for neighbours.
VisitedNeighbour(p) == pool[p][Slot(p)].start + visit[p]

Visited(p) == Global(pool[p][Slot(p)], visit[p])

Signal(p) ==
  /\ Visits(p) /\ Visited(p) = p
  /\ sync_pool' = [sync_pool EXCEPT ![p][Slot(p)] = count[p]]
  /\ visit' = [visit EXCEPT ![p] = @ + 1]
  /\ UNCHANGED <<fixed, at, host, sync_counter, count, failures, made, entered, early>>

\* Mutant: any count will do.
AwaitAnything(p) ==
  /\ Visits(p) /\ Visited(p) # p
  /\ sync_pool[Visited(p)][Slot(p)] >= count[p] - 1
  /\ visit' = [visit EXCEPT ![p] = @ + 1]
  /\ UNCHANGED <<fixed, at, host, slots, count, failures, made, entered, early>>

\* The slot read on the other PE is the one this PE uses.
Await(p) ==
  /\ Visits(p) /\ Visited(p) # p
  /\ sync_pool[Visited(p)][Slot(p)] \in {count[p], count[p] + 1}
  /\ visit' = [visit EXCEPT ![p] = @ + 1]
  /\ UNCHANGED <<fixed, at, host, slots, count, failures, made, entered, early>>

Members(t) == {places[t][i] : i \in DOMAIN places[t]}

Behind(p, t) == {q \in Members(t) : entered[q][t] < entered[p][t]}

Exit(p) ==
  /\ count[p] > 0 /\ ~Visits(p)
  /\ sync_counter' = [sync_counter EXCEPT ![p][Slot(p)] = count[p]]
  /\ early' = IF Behind(p, Call(p).team) # {} THEN early \cup {Call(p).team} ELSE early
  /\ count' = [count EXCEPT ![p] = 0]
  /\ Advance(p)
  /\ UNCHANGED <<fixed, host, sync_pool, visit, failures, made, entered>>

Step(p) ==
  \/ SplitOfOthers(p) \/ SplitFull(p) \/ Split(p) \/ SplitFails(p) \/ Destroy(p)
  \/ BarrierOfOthers(p) \/ Enter(p) \/ Signal(p) \/ Await(p) \/ Exit(p)

Done(p) == at[p] > Len(program)

Next == \E p \in PEs : Step(p)

Spec == Init /\ [][Next]_vars

\* A PE goes on with its program.
FairSpec == Spec /\ \A p \in PEs : WF_vars(Step(p))

-----------------------------------------------------------------------------
\* The indices of a PE's teams are those of its mask, each its own, after any
\* splits, destroys and failures: two teams never share a slot on a PE.
IndicesAreTheTeams ==
  \A p \in PEs :
    LET held == {t \in Made : handle[p][t] # Invalid}
    IN  /\ mask[p] = {handle[p][t] : t \in held}
        /\ \A t, u \in held : handle[p][t] = handle[p][u] => t = u

MakesOne(p, t) == made[p][t][1] # Invalid

\* Belongs takes a PE's number in the parent for its number in the world.
NumberedAsWorld(t) == \A i \in DOMAIN places[t] : places[t][i] = i

Destroyed(t, before) ==
  \E i \in 1..Len(program) :
    program[i].op = "destroy" /\ program[i].team = t /\ Number(i) < before

\* The PEs that make a team are the subset of the parent that the split asks
\* for, at their places, if the parent's numbers are those of the world.
TeamIsTheSubset ==
  \A p \in PEs, t \in DOMAIN splits :
    /\ Members(t) # {} /\ NumberedAsWorld(splits[t].team)
    /\ MakesOne(p, t) \/ made[p][t] = NotMember
    /\ MakesOne(p, splits[t].team) /\ ~Destroyed(splits[t].team, t)
    => /\ MakesOne(p, t) <=> (p \in Members(t))
       /\ handle[p][t] # Invalid => places[t][pool[p][handle[p][t]].mype] = p

\* A split in two dimensions gives every PE one team of each axis; the two have
\* only this PE in common, and all members make them alike.
GridIsAGrid ==
  \A p \in PEs :
    LET mine(axis) == {t \in DOMAIN splits :
                         splits[t].axis = axis /\ MakesOne(p, t)}
    IN  /\ Done(p) /\ (\E i \in 1..Len(program) : program[i].axis = "y")
        /\ \A t \in DOMAIN splits : made[p][t] \notin {Full, Failed}
        => \E x \in mine("x"), y \in mine("y") :
             /\ mine("x") = {x} /\ mine("y") = {y}
             /\ Members(x) \cap Members(y) = {p}

\* The members, and the PEs that are none and make the team all the same.
Concerned(t) == Members(t) \cup {p \in PEs : MakesOne(p, t)}

\* Two of them made the team with different indices or on slots with different
\* counters, or only one of them made it.
Differs(t) ==
  \E p, q \in Concerned(t) :
    made[p][t] # NotYet /\ made[q][t] # NotYet /\ made[p][t] # made[q][t]

AllMade(t) == \A p \in Members(t) : made[p][t] # NotYet

\* "Control returns from aclshmem_barrier after all PEs in the team have called
\* aclshmem_barrier" (shmem_device_cc.h:57).
NobodyPassesEarly == early = {}

\* So it does whenever the members made the team alike, and no other PE makes
\* it, whatever other teams they are in, and whatever the slot was used for before.
AlikeNobodyPassesEarly == \A t \in early : AllMade(t) => Differs(t)

\* The PEs of a program whose teams are all made alike, of parents numbered as
\* the world, come to its end.
AlikeEveryoneEnds ==
  <>(\/ \A p \in PEs : Done(p)
     \/ \E t \in DOMAIN splits : Differs(t) \/ ~NumberedAsWorld(splits[t].team))
=============================================================================
