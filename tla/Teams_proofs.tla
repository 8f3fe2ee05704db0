---------------------------- MODULE Teams_proofs ----------------------------
(***************************************************************************)
(* What holds of teams for any number of PEs, of indices and any programs, *)
(* whatever device calls fail.                                             *)
(*                                                                         *)
(* Two teams of a PE never share a slot: a split gives an index that is    *)
(* not in the mask to a team that has none yet, since a program numbers    *)
(* its teams in the order of its splits.                                   *)
(*                                                                         *)
(* A barrier of a team made alike lets nobody pass early: a counter is     *)
(* that of the time the team was made and one more for each barrier the    *)
(* member has entered, and a count written to another's slot is one that   *)
(* the writer has reached itself.                                          *)
(*                                                                         *)
(* A team is the subset its split asks for, and the splits of              *)
(* aclshmem_team_split_2d are the rows and columns of a grid.  What the    *)
(* recursion of Places makes of a team is shown by induction over the set  *)
(* of the numbers of teams for which it holds.                             *)
(***************************************************************************)
EXTENDS Teams, FiniteSetTheorems, SequenceTheorems, WellFoundedInduction, TLAPS

\* The types of what the argument is about.
Types ==
  /\ program \in Programs
  /\ at \in [PEs -> Nat \ {0}]
  /\ mask \in [PEs -> SUBSET Slots]
  /\ handle \in [PEs -> [Made -> Slots \cup {Invalid}]]

\* The teams of which a PE has a handle are those of the splits it has come to.
HandlesArePast ==
  \A p \in PEs, t \in Made : handle[p][t] # Invalid => t <= Number(at[p] - 1)

IInv == Types /\ HandlesArePast /\ IndicesAreTheTeams

-----------------------------------------------------------------------------
\* The number of splits up to an operation counts it if it is one.
LEMMA NumberCounts ==
  ASSUME NEW i \in Nat \ {0}
  PROVE  /\ Number(i - 1) \in Nat /\ Number(i) \in Nat
         /\ program[i].op = "split" => Number(i) = Number(i - 1) + 1
         /\ program[i].op # "split" => Number(i) = Number(i - 1)
<1> DEFINE S(k) == {j \in 1..k : program[j].op = "split"}
<1>1. \A k \in Nat : IsFiniteSet(1..k)
  BY FS_Interval
<1>2. \A k \in Nat : IsFiniteSet(S(k)) /\ Cardinality(S(k)) \in Nat
  BY <1>1, FS_Subset, FS_CardinalityType
<1>3. i - 1 \in Nat /\ i \notin 1..i - 1 /\ 1..i = (1..i - 1) \cup {i}
  OBVIOUS
<1>4. CASE program[i].op = "split"
  <2>1. S(i) = S(i - 1) \cup {i} /\ i \notin S(i - 1)
    BY <1>3, <1>4
  <2> QED BY <1>2, <1>3, <1>4, <2>1, FS_AddElement DEF Number
<1>5. CASE program[i].op # "split"
  <2>1. S(i) = S(i - 1)
    BY <1>3, <1>5
  <2> QED BY <1>2, <1>3, <1>5, <2>1 DEF Number
<1> QED BY <1>4, <1>5

\* A split makes a team with a number in range that has no handle yet.
LEMMA SplitIsFresh ==
  ASSUME IInv, NEW p \in PEs, Calls(p, "split")
  PROVE  Number(at[p]) \in Made /\ handle[p][Number(at[p])] = Invalid
<1> USE TeamsAssumption DEF TeamsAssumption
<1> DEFINE S(k) == {j \in 1..k : program[j].op = "split"}
<1>1. at[p] \in Nat \ {0} /\ at[p] <= Len(program) /\ program[at[p]].op = "split"
  BY DEF Calls, Call, IInv, Types
<1>2. Number(at[p]) = Number(at[p] - 1) + 1 /\ Number(at[p] - 1) \in Nat
  BY <1>1, NumberCounts
<1>3. Number(at[p]) <= MaxTeams
  <2>1. program \in Programs /\ Cardinality(S(Len(program))) <= MaxTeams
    BY DEF IInv, Types
  <2>2. S(at[p]) \subseteq S(Len(program))
    BY <1>1
  <2>3. Len(program) \in Nat
    BY DEF IInv, Types
  <2>4. IsFiniteSet(1..Len(program))
    BY <2>3, FS_Interval
  <2>5. IsFiniteSet(S(Len(program)))
    BY <2>4, FS_Subset
  <2>6. Cardinality(S(at[p])) <= Cardinality(S(Len(program)))
    BY <2>2, <2>5, FS_Subset
  <2>7. Cardinality(S(Len(program))) \in Nat /\ Cardinality(S(at[p])) \in Nat
    BY <2>2, <2>5, FS_Subset, FS_CardinalityType
  <2> HIDE DEF S
  <2>8. Number(at[p]) = Cardinality(S(at[p]))
    BY DEF Number, S
  <2> QED BY <2>1, <2>6, <2>7, <2>8
<1>4. Number(at[p]) \in Made
  BY <1>2, <1>3 DEF Made
<1> QED BY <1>2, <1>4 DEF IInv, HandlesArePast

\* At first there is the world.
LEMMA InitInv == Init => IInv
<1> SUFFICES ASSUME Init PROVE IInv
  OBVIOUS
<1> USE TeamsAssumption DEF TeamsAssumption
<1>1. World \in Made /\ World \in Slots /\ Invalid # World
  BY DEF World, Made, Slots, Invalid
<1>2. Types
  BY <1>1 DEF Init, Types
<1>3. HandlesArePast
  <2>1. Number(1 - 1) \in Nat
    BY NumberCounts
  <2> QED BY <1>1, <2>1 DEF Init, HandlesArePast, World
<1>4. IndicesAreTheTeams
  BY <1>1 DEF Init, IndicesAreTheTeams
<1> QED BY <1>2, <1>3, <1>4 DEF IInv

\* Going on in the program only adds to the splits a PE has come to.
LEMMA PastGrows ==
  ASSUME Types, NEW p \in PEs, at' = at \/ Advance(p), program' = program
  PROVE  \A q \in PEs : /\ at'[q] \in Nat \ {0}
                        /\ (Number(at[q] - 1))' >= Number(at[q] - 1)
                        /\ at' # at /\ q = p => (Number(at[q] - 1))' = Number(at[q])
<1> SUFFICES ASSUME NEW q \in PEs
             PROVE  /\ at'[q] \in Nat \ {0}
                    /\ (Number(at[q] - 1))' >= Number(at[q] - 1)
                    /\ at' # at /\ q = p => (Number(at[q] - 1))' = Number(at[q])
  OBVIOUS
<1>1. at[q] \in Nat \ {0} /\ (at'[q] = at[q] \/ (q = p /\ at'[q] = at[q] + 1))
  BY DEF Types, Advance
<1>2. at' # at /\ q = p => at'[q] = at[q] + 1
  BY DEF Types, Advance
<1>3. /\ Number(at[q] - 1) \in Nat /\ Number(at[q]) \in Nat
      /\ Number(at[q]) >= Number(at[q] - 1)
  BY <1>1, NumberCounts
<1>4. (Number(at[q] - 1))' = Number(at'[q] - 1)
  BY DEF Number
<1>5. at'[q] = at[q] + 1 => at'[q] - 1 = at[q]
  BY <1>1
<1> QED BY <1>1, <1>2, <1>3, <1>4, <1>5

\* A split takes a free index for a new team.
LEMMA SplitKeeps == ASSUME IInv, NEW p \in PEs, Split(p) PROVE IInv'
<1> DEFINE t == Number(at[p])
<1>1. PICK s \in Free(p) : /\ mask' = [mask EXCEPT ![p] = @ \cup {s}]
                           /\ handle' = [handle EXCEPT ![p][t] = s]
  BY DEF Split
<1>2. t \in Made /\ handle[p][t] = Invalid
  BY SplitIsFresh DEF Split
<1>3. s \in Slots \ mask[p] /\ s # Invalid
  BY DEF Free, Slots, Invalid
<1>4. program' = program /\ Advance(p)
  BY DEF Split, fixed
<1>5. at' # at
  BY <1>4 DEF Advance, IInv, Types
<1> HIDE DEF t
<1>6. Types'
  <2>1. at' \in [PEs -> Nat \ {0}]
    BY <1>4 DEF Advance, IInv, Types
  <2>2. mask' \in [PEs -> SUBSET Slots]
    BY <1>1, <1>3 DEF IInv, Types
  <2>3. handle' \in [PEs -> [Made -> Slots \cup {Invalid}]]
    BY <1>1, <1>2, <1>3 DEF IInv, Types
  <2> QED BY <1>4, <2>1, <2>2, <2>3 DEF IInv, Types
<1>7. /\ \A q \in PEs \ {p} : handle'[q] = handle[q] /\ mask'[q] = mask[q]
      /\ \A u \in Made \ {t} : handle'[p][u] = handle[p][u]
      /\ handle'[p][t] = s /\ mask'[p] = mask[p] \cup {s}
  BY <1>1, <1>2 DEF IInv, Types
<1>8. HandlesArePast'
  <2> SUFFICES ASSUME NEW q \in PEs, NEW u \in Made, handle'[q][u] # Invalid
               PROVE  u <= (Number(at[q] - 1))'
    BY DEF HandlesArePast
  <2>1. u \in Nat /\ Number(at[q] - 1) \in Nat
    BY NumberCounts, TeamsAssumption DEF Made, IInv, Types, TeamsAssumption
  <2>2. CASE q = p /\ u = t
    <3>1. (Number(at[q] - 1))' = t
      BY <1>4, <1>5, <2>2, PastGrows DEF IInv, t
    <3> QED BY <2>1, <2>2, <3>1
  <2>3. CASE ~(q = p /\ u = t)
    <3>1. handle[q][u] # Invalid
      BY <1>7, <2>3
    <3>2. u <= Number(at[q] - 1)
      BY <3>1 DEF IInv, HandlesArePast
    <3>3. (Number(at[q] - 1))' >= Number(at[q] - 1)
      BY <1>4, PastGrows DEF IInv
    <3>4. (Number(at[q] - 1))' \in Nat
      <4>1. at'[q] \in Nat \ {0}
        BY <1>6 DEF Types
      <4>2. (Number(at[q] - 1))' = Number(at'[q] - 1)
        BY <1>4 DEF Number
      <4> QED BY <4>1, <4>2, NumberCounts
    <3> QED BY <2>1, <3>2, <3>3, <3>4
  <2> QED BY <2>2, <2>3
<1>9. IndicesAreTheTeams'
  <2> SUFFICES ASSUME NEW q \in PEs
               PROVE  /\ mask'[q] = {handle'[q][u] : u \in {v \in Made : handle'[q][v] # Invalid}}
                      /\ \A u, v \in Made :
                           handle'[q][u] # Invalid /\ handle'[q][u] = handle'[q][v] => u = v
    BY DEF IndicesAreTheTeams
  <2>1. /\ mask[q] = {handle[q][u] : u \in {v \in Made : handle[q][v] # Invalid}}
        /\ \A u, v \in Made : handle[q][u] # Invalid /\ handle[q][u] = handle[q][v] => u = v
    BY DEF IInv, IndicesAreTheTeams
  <2>2. CASE q # p
    BY <1>7, <2>1, <2>2
  <2>3. CASE q = p
    <3>1. \A u \in Made : handle[p][u] # Invalid => handle[p][u] # s
      BY <1>3, <2>1, <2>3
    <3> QED BY <1>2, <1>3, <1>7, <2>1, <2>3, <3>1
  <2> QED BY <2>2, <2>3
<1> QED BY <1>6, <1>8, <1>9 DEF IInv

\* A destroy gives the index back with the handle.
LEMMA DestroyKeeps == ASSUME IInv, NEW p \in PEs, Destroy(p) PROVE IInv'
<1> DEFINE t == Call(p).team
<1>1. /\ mask' = [mask EXCEPT ![p] = @ \ {handle[p][t]}]
      /\ handle' = [handle EXCEPT ![p][t] = Invalid]
      /\ program' = program /\ Advance(p)
  BY DEF Destroy, fixed
<1>2. t \in Made
  <2>1. program \in Programs /\ at[p] \in 1..Len(program)
    BY DEF Destroy, Calls, IInv, Types
  <2> DEFINE Ops == [op : {"split", "barrier", "destroy"}, team : 0..MaxTeams,
                     start : Int, stride : Int, size : Int, axis : {"x", "y", "none"}]
  <2>2. program \in Seq(Ops)
    BY <2>1, TeamsAssumption DEF TeamsAssumption
  <2> HIDE DEF Ops
  <2>3. program[at[p]] \in Ops
    BY <2>1, <2>2
  <2> QED BY <2>3 DEF Call, Made, Ops
<1> HIDE DEF t
<1>3. Types'
  <2>1. at' \in [PEs -> Nat \ {0}]
    BY <1>1 DEF Advance, IInv, Types
  <2> QED BY <1>1, <1>2, <2>1 DEF IInv, Types
<1>4. /\ \A q \in PEs \ {p} : handle'[q] = handle[q] /\ mask'[q] = mask[q]
      /\ \A u \in Made \ {t} : handle'[p][u] = handle[p][u]
      /\ handle'[p][t] = Invalid /\ mask'[p] = mask[p] \ {handle[p][t]}
  BY <1>1, <1>2 DEF IInv, Types
<1>5. HandlesArePast'
  <2> SUFFICES ASSUME NEW q \in PEs, NEW u \in Made, handle'[q][u] # Invalid
               PROVE  u <= (Number(at[q] - 1))'
    BY DEF HandlesArePast
  <2>1. handle[q][u] # Invalid
    BY <1>4
  <2>2. u <= Number(at[q] - 1)
    BY <2>1 DEF IInv, HandlesArePast
  <2>3. (Number(at[q] - 1))' >= Number(at[q] - 1)
    BY <1>1, PastGrows DEF IInv
  <2>4. u \in Nat /\ Number(at[q] - 1) \in Nat
    BY NumberCounts, TeamsAssumption DEF Made, IInv, Types, TeamsAssumption
  <2>5. (Number(at[q] - 1))' \in Nat
    <3>1. at'[q] \in Nat \ {0}
      BY <1>3 DEF Types
    <3>2. (Number(at[q] - 1))' = Number(at'[q] - 1)
      BY <1>1 DEF Number
    <3> QED BY <3>1, <3>2, NumberCounts
  <2> QED BY <2>2, <2>3, <2>4, <2>5
<1>6. IndicesAreTheTeams'
  <2> SUFFICES ASSUME NEW q \in PEs
               PROVE  /\ mask'[q] = {handle'[q][u] : u \in {v \in Made : handle'[q][v] # Invalid}}
                      /\ \A u, v \in Made :
                           handle'[q][u] # Invalid /\ handle'[q][u] = handle'[q][v] => u = v
    BY DEF IndicesAreTheTeams
  <2>1. /\ mask[q] = {handle[q][u] : u \in {v \in Made : handle[q][v] # Invalid}}
        /\ \A u, v \in Made : handle[q][u] # Invalid /\ handle[q][u] = handle[q][v] => u = v
    BY DEF IInv, IndicesAreTheTeams
  <2>2. CASE q # p
    BY <1>4, <2>1, <2>2
  <2>3. CASE q = p
    <3>1. Invalid \notin mask[p]
      BY DEF IInv, Types, Slots, Invalid
    <3> QED BY <1>2, <1>4, <2>1, <2>3, <3>1
  <2> QED BY <2>2, <2>3
<1> QED BY <1>3, <1>5, <1>6 DEF IInv

\* Whatever else a PE does leaves its mask and its handles alone.
LEMMA OthersKeep ==
  ASSUME IInv, NEW p \in PEs, Step(p), ~Split(p), ~Destroy(p)
  PROVE  IInv'
<1>1. UNCHANGED <<program, mask, handle>> /\ (at' = at \/ Advance(p))
  BY DEF Step, SplitOfOthers, SplitFull, SplitFails, NoTeam, BarrierOfOthers, Enter,
     Signal, Await, Exit, fixed, host
<1>2. Types'
  BY <1>1, PastGrows DEF IInv, Types, Advance
<1>3. HandlesArePast'
  <2> SUFFICES ASSUME NEW q \in PEs, NEW u \in Made, handle'[q][u] # Invalid
               PROVE  u <= (Number(at[q] - 1))'
    BY DEF HandlesArePast
  <2>1. u <= Number(at[q] - 1)
    BY <1>1 DEF IInv, HandlesArePast
  <2>2. (Number(at[q] - 1))' >= Number(at[q] - 1)
    BY <1>1, PastGrows DEF IInv
  <2>3. u \in Nat /\ Number(at[q] - 1) \in Nat
    BY NumberCounts, TeamsAssumption DEF Made, IInv, Types, TeamsAssumption
  <2>4. (Number(at[q] - 1))' \in Nat
    <3>1. at'[q] \in Nat \ {0}
      BY <1>2 DEF Types
    <3>2. (Number(at[q] - 1))' = Number(at'[q] - 1)
      BY <1>1 DEF Number
    <3> QED BY <3>1, <3>2, NumberCounts
  <2> QED BY <2>1, <2>2, <2>3, <2>4
<1>4. IndicesAreTheTeams'
  BY <1>1 DEF IInv, IndicesAreTheTeams
<1> QED BY <1>2, <1>3, <1>4 DEF IInv

-----------------------------------------------------------------------------
\* The inductive invariant, of which the rest is a consequence.
THEOREM TeamsInvariant == Spec => []IInv
<1>1. ASSUME IInv, Next PROVE IInv'
  BY <1>1, SplitKeeps, DestroyKeeps, OthersKeep DEF Next
<1>2. ASSUME IInv, UNCHANGED vars PROVE IInv'
  BY <1>2 DEF IInv, Types, HandlesArePast, IndicesAreTheTeams, Number, vars, fixed, host
<1>3. IInv /\ [Next]_vars => IInv'
  BY <1>1, <1>2
<1> QED BY InitInv, <1>3, PTL DEF Spec

\* The indices of a PE's teams are those of g_team_mask, each its own, for any
\* programs of splits, barriers and destroys: two teams of a PE never share the
\* slot of sync_pool their barriers use.
THEOREM TeamsIndices == Spec => []IndicesAreTheTeams
BY TeamsInvariant, PTL DEF IInv
-----------------------------------------------------------------------------
\* An operation of a program.
Ops == [op : {"split", "barrier", "destroy"}, team : 0..MaxTeams,
        start : Int, stride : Int, size : Int, axis : {"x", "y", "none"}]

\* A program is a sequence of operations with no more splits than its bound.
LEMMA ProgramIs ==
  ASSUME Types
  PROVE  /\ program \in Seq(Ops) /\ Len(program) \in Nat
         /\ \A i \in 1..Len(program) : program[i] \in Ops
         /\ Number(Len(program)) <= MaxTeams
<1>1. program \in Seq(Ops)
  BY TeamsAssumption DEF TeamsAssumption, Types, Ops
<1>2. Len(program) \in Nat /\ \A i \in 1..Len(program) : program[i] \in Ops
  <2> HIDE DEF Ops
  <2> QED BY <1>1
<1>3. Number(Len(program)) <= MaxTeams
  BY TeamsAssumption DEF TeamsAssumption, Types, Number
<1> QED BY <1>1, <1>2, <1>3

\* The number of splits grows with the operations.
LEMMA NumberGrows ==
  \A i, j \in Nat : i <= j => Number(i) \in Nat /\ Number(j) \in Nat /\ Number(i) <= Number(j)
<1> DEFINE S(k) == {h \in 1..k : program[h].op = "split"}
<1> SUFFICES ASSUME NEW i \in Nat, NEW j \in Nat, i <= j
             PROVE  Number(i) \in Nat /\ Number(j) \in Nat /\ Number(i) <= Number(j)
  OBVIOUS
<1>1. IsFiniteSet(1..j)
  BY FS_Interval
<1>2. S(i) \subseteq S(j) /\ S(j) \subseteq 1..j
  OBVIOUS
<1>3. IsFiniteSet(S(j)) /\ IsFiniteSet(S(i)) /\ Cardinality(S(i)) <= Cardinality(S(j))
  BY <1>1, <1>2, FS_Subset
<1>4. Cardinality(S(i)) \in Nat /\ Cardinality(S(j)) \in Nat
  BY <1>3, FS_CardinalityType
<1> QED BY <1>3, <1>4 DEF Number

\* A split is found by the number of its team.
LEMMA SplitIs ==
  ASSUME Types, NEW i \in 1..Len(program), program[i].op = "split"
  PROVE  /\ Number(i) \in DOMAIN Splits /\ Number(i) \in Made /\ Number(i) # World
         /\ Number(i) \in 0..Number(Len(program))
         /\ Splits[Number(i)] = program[i]
         /\ Number(i - 1) = Number(i) - 1
         /\ \A j \in 1..i - 1 : Number(j) < Number(i)
<1> USE ProgramIs
<1>1. i \in Nat \ {0} /\ Len(program) \in Nat /\ i <= Len(program)
  OBVIOUS
<1>2. Number(i) = Number(i - 1) + 1 /\ Number(i - 1) \in Nat
  BY <1>1, NumberCounts
<1>3. Number(i) \in 1..Number(Len(program)) /\ Number(i) \in 1..MaxTeams
  <2>1. Number(i) <= Number(Len(program)) /\ Number(Len(program)) \in Nat
    BY <1>1, NumberGrows
  <2> QED BY <1>2, <2>1, TeamsAssumption DEF TeamsAssumption
<1>4. \A j \in 1..Len(program) :
        j < i => Number(j) < Number(i)
  <2> SUFFICES ASSUME NEW j \in 1..Len(program), j < i PROVE Number(j) < Number(i)
    OBVIOUS
  <2>1. j \in Nat /\ i - 1 \in Nat /\ j <= i - 1
    BY <1>1
  <2>2. Number(j) \in Nat /\ Number(j) <= Number(i - 1)
    BY <2>1, NumberGrows
  <2> QED BY <1>2, <2>2
<1>5. \A j \in 1..Len(program) :
        program[j].op = "split" /\ Number(j) = Number(i) => j = i
  <2> SUFFICES ASSUME NEW j \in 1..Len(program), program[j].op = "split", j > i
               PROVE  Number(j) > Number(i)
    BY <1>3, <1>4
  <2>1. j \in Nat \ {0} /\ i \in Nat /\ i <= j - 1 /\ j - 1 \in Nat
    BY <1>1
  <2>2. Number(j) = Number(j - 1) + 1 /\ Number(i) <= Number(j - 1) /\ Number(j - 1) \in Nat
    BY <2>1, NumberCounts, NumberGrows
  <2> QED BY <1>3, <2>2
<1>6. SplitAt(Number(i)) = i
  BY <1>5 DEF SplitAt
<1>7. Number(i) \in DOMAIN Splits /\ Splits[Number(i)] = program[i]
  BY <1>3, <1>6 DEF Splits
<1> QED BY <1>1, <1>2, <1>3, <1>4, <1>7 DEF Made, World

-----------------------------------------------------------------------------
\* Induction, for a set of numbers.
LEMMA InductionOnSets ==
  ASSUME NEW S, 0 \in S, \A n \in Nat : n \in S => n + 1 \in S
  PROVE  Nat \subseteq S
<1> DEFINE R == OpToRel(<, Nat)
           T == Nat \ S
<1>1. IsWellFoundedOn(R, Nat)
  BY NatLessThanWellFounded
<1>2. \A x, y \in Nat : <<x, y>> \in R <=> x < y
  BY DEF OpToRel
<1> HIDE DEF R
<1>3. SUFFICES ASSUME T # {} PROVE FALSE
  OBVIOUS
<1>4. PICK x \in T : \A y \in T : ~(<<y, x>> \in R)
  <2>1. T \subseteq Nat
    OBVIOUS
  <2> HIDE DEF T
  <2> QED BY <1>1, <1>3, <2>1, WFMin
<1>5. x # 0 /\ x - 1 \in Nat /\ x - 1 < x
  OBVIOUS
<1>6. x - 1 \notin T
  BY <1>2, <1>4, <1>5
<1>7. x - 1 \in S /\ x = (x - 1) + 1
  BY <1>5, <1>6
<1> QED BY <1>5, <1>7

\* The places of a team follow from those of the teams before it.
LEMMA PlacesAgree ==
  ASSUME NEW t \in Nat, NEW f, NEW g, \A u \in 0..t - 1 : f[u] = g[u]
  PROVE  PlacesFrom(f, t) = PlacesFrom(g, t)
<1> DEFINE o == splits[t]
<1>1. o.team \in 0..t - 1 => f[o.team] = g[o.team]
  OBVIOUS
<1> QED BY <1>1 DEF PlacesFrom

\* So there are places that follow for as many teams as one likes,
LEMMA PlacesExist ==
  \A n \in Nat : \E f : f = [t \in 0..n |-> PlacesFrom(f, t)]
<1> DEFINE S == {n \in Nat : \E f : f = [t \in 0..n |-> PlacesFrom(f, t)]}
<1>1. 0 \in S
  <2> DEFINE f == [t \in 0..0 |-> PlacesFrom(<<>>, t)]
  <2>1. PlacesFrom(f, 0) = PlacesFrom(<<>>, 0)
    BY PlacesAgree
  <2>2. f = [t \in 0..0 |-> PlacesFrom(f, t)]
    <3>1. \A t \in 0..0 : PlacesFrom(f, t) = PlacesFrom(<<>>, t)
      BY <2>1
    <3> HIDE DEF f
    <3> QED BY <3>1 DEF f
  <2> QED BY <2>2
<1>2. ASSUME NEW n \in Nat, n \in S PROVE n + 1 \in S
  <2>1. PICK f : f = [t \in 0..n |-> PlacesFrom(f, t)]
    BY <1>2
  <2> DEFINE g == [t \in 0..n + 1 |-> IF t <= n THEN f[t] ELSE PlacesFrom(f, t)]
  <2>2. \A t \in 0..n : g[t] = f[t]
    OBVIOUS
  <2> HIDE DEF g
  <2>3. \A t \in 0..n + 1 : PlacesFrom(g, t) = PlacesFrom(f, t)
    <3> SUFFICES ASSUME NEW t \in 0..n + 1 PROVE PlacesFrom(g, t) = PlacesFrom(f, t)
      OBVIOUS
    <3>1. t \in Nat /\ \A u \in 0..t - 1 : g[u] = f[u]
      BY <2>2
    <3> QED BY <3>1, PlacesAgree
  <2>4. \A t \in 0..n : f[t] = PlacesFrom(f, t)
    BY <2>1
  <2>5. \A t \in 0..n + 1 : g[t] = PlacesFrom(g, t)
    BY <2>2, <2>3, <2>4 DEF g
  <2>6. g = [t \in 0..n + 1 |-> PlacesFrom(g, t)]
    <3>1. g = [t \in 0..n + 1 |-> g[t]]
      BY DEF g
    <3> QED BY <2>5, <3>1
  <2> QED BY <2>6
<1> HIDE DEF S
<1>3. Nat \subseteq S
  BY <1>1, <1>2, InductionOnSets
<1> QED BY <1>3 DEF S

\* and Places are.
LEMMA PlacesAre ==
  ASSUME Types
  PROVE  Places = [t \in 0..Number(Len(program)) |-> PlacesFrom(Places, t)]
<1>1. Number(Len(program)) \in Nat
  BY ProgramIs, NumberGrows
<1>2. \E f : f = [t \in 0..Number(Len(program)) |-> PlacesFrom(f, t)]
  BY <1>1, PlacesExist
<1> QED BY <1>2 DEF Places

-----------------------------------------------------------------------------
\* What a PE keeps of a team.
Tuples == [start : Int, stride : Int, size : Int, mype : Int]

\* The types of the rest, and what the program alone says.
MoreTypes ==
  /\ splits = Splits /\ places = Places
  /\ pool \in [PEs -> [Slots -> Tuples]]
  /\ sync_pool \in [PEs -> [Slots -> Nat]] /\ sync_counter \in [PEs -> [Slots -> Nat]]
  /\ count \in [PEs -> Nat] /\ visit \in [PEs -> Nat]
  /\ made \in [PEs -> [Made -> (Slots \cup {Invalid}) \X Nat]]
  /\ entered \in [PEs -> [Made -> Nat]]
  /\ early \subseteq Made

\* Team t has been destroyed by who made it and has come to operation i.
Gone(t, i) ==
  \E d \in 1..i - 1 :
    program[d].op = "destroy" /\ program[d].team = t /\ Number(d) >= t

\* The barriers that who made team t takes part in, up to operation i.
Counts(t, j) ==
  /\ program[j].op = "barrier" /\ program[j].team = t
  /\ Number(j) >= t /\ ~Gone(t, j)
Rounds(t, i) == Cardinality({j \in 1..i - 1 : Counts(t, j)})

InBarrier(p, t) == count[p] > 0 /\ Call(p).team = t

\* What a PE made of a split it has come to, and how many of its barriers it
\* has entered, follow from its place i in the program, with the count of its
\* barrier, its handles, and what it made and entered.
FollowsAs(i, n, handles, makes, enters) ==
  /\ n > 0 => /\ i <= Len(program) /\ program[i].op = "barrier"
              /\ handles[program[i].team] # Invalid
  /\ \A t \in Made :
       /\ makes[t] = NotYet <=> t > Number(i - 1)
       /\ handles[t] # Invalid => handles[t] = makes[t][1]
       /\ makes[t][1] # Invalid =>
            /\ handles[t] = Invalid <=> Gone(t, i)
            /\ enters[t] = Rounds(t, i) + (IF n > 0 /\ program[i].team = t THEN 1 ELSE 0)
       /\ makes[t][1] = Invalid => enters[t] = 0

Follows(p) == FollowsAs(at[p], count[p], handle[p], made[p], entered[p])

\* The counter of a slot goes on from one team to the next.
Counted(p) ==
  /\ count[p] > 0 => count[p] = sync_counter[p][Slot(p)] + 1
  /\ \A s \in Slots :
       sync_pool[p][s] <= sync_counter[p][s] + (IF count[p] > 0 /\ Slot(p) = s THEN 1 ELSE 0)
  /\ \A t \in Made :
       handle[p][t] # Invalid =>
         sync_counter[p][handle[p][t]] + (IF InBarrier(p, t) THEN 1 ELSE 0)
           = made[p][t][2] + entered[p][t]

\* Who p's barrier has looked at has signalled it.
Signalled(p) ==
  count[p] > 0 =>
    \A q \in PEs : \A i \in 0..visit[p] - 1 :
      Global(pool[p][Slot(p)], i) = q => sync_pool[q][Slot(p)] >= count[p]

\* A team a PE holds has PEs for members, those of the interface if it has any
\* by the interface; and the PE knows its place, if its parent's numbers are
\* those of the world.
PlacedAs(p, team, t) ==
  /\ team.start >= 0 /\ team.stride >= 1 /\ team.size >= 1
  /\ Global(team, team.size - 1) < N
  /\ team.mype \in 0..team.size - 1
  /\ Members(t) # {} => /\ DOMAIN places[t] = 0..team.size - 1
                        /\ \A i \in 0..team.size - 1 : places[t][i] = Global(team, i)
  /\ team.start = 0 /\ (team.stride = 1 \/ team.size = 1) => team.mype = p
  /\ team.start = 0 /\ team.mype = 0 => p = 0
  /\ t # World /\ Members(t) # {} /\ NumberedAsWorld(splits[t].team)
       => Global(team, team.mype) = p

Placed(p, t) == PlacedAs(p, pool[p][handle[p][t]], t)

\* A team with a barrier that was passed early differs: for someone it made a
\* team that a member has not, or will not make like that, since the slot has
\* been used more often there.
Parted(p, q, t) ==
  /\ MakesOne(p, t)
  /\ IF made[q][t] = NotYet THEN sync_pool[q][made[p][t][1]] > made[p][t][2]
                            ELSE made[q][t] # made[p][t]

EarlyDiffers == \A t \in early : \E p, q \in PEs : q \in Members(t) /\ Parted(p, q, t)

SlotsInv ==
  /\ IInv /\ MoreTypes
  /\ \A p \in PEs : Follows(p) /\ Counted(p) /\ Signalled(p)
  /\ \A p \in PEs, t \in Made : handle[p][t] # Invalid => Placed(p, t)
  /\ EarlyDiffers

-----------------------------------------------------------------------------
\* The next operation of a PE.
LEMMA CallIs ==
  ASSUME Types, NEW p \in PEs, at[p] <= Len(program)
  PROVE  /\ at[p] \in 1..Len(program) /\ at[p] \in Nat \ {0} /\ at[p] - 1 \in Nat
         /\ Call(p) = program[at[p]] /\ Call(p) \in Ops /\ Call(p).team \in Made
<1>1. at[p] \in 1..Len(program) /\ at[p] \in Nat \ {0} /\ at[p] - 1 \in Nat
  BY ProgramIs DEF Types
<1>2. program[at[p]] \in Ops
  BY <1>1, ProgramIs
<1> QED BY <1>1, <1>2 DEF Call, Ops, Made

\* What an operation adds to the barriers and the end of a team.
LEMMA OneMore ==
  ASSUME Types, NEW i \in 1..Len(program), NEW t
  PROVE  /\ Gone(t, i + 1) <=> \/ Gone(t, i)
                               \/ /\ program[i].op = "destroy" /\ program[i].team = t
                                  /\ Number(i) >= t
         /\ Rounds(t, i) \in Nat
         /\ Rounds(t, i + 1) = Rounds(t, i) + IF Counts(t, i) THEN 1 ELSE 0
<1>0. i \in Nat \ {0} /\ 1..(i + 1) - 1 = (1..i - 1) \cup {i} /\ i \notin 1..i - 1
  BY ProgramIs
<1>1. Gone(t, i + 1) <=> \/ Gone(t, i)
                         \/ /\ program[i].op = "destroy" /\ program[i].team = t
                            /\ Number(i) >= t
  BY <1>0 DEF Gone
<1> DEFINE S(k) == {j \in 1..k - 1 : Counts(t, j)}
<1>2. IsFiniteSet(1..i - 1)
  BY <1>0, FS_Interval
<1>3. IsFiniteSet(S(i)) /\ Cardinality(S(i)) \in Nat
  BY <1>2, FS_Subset, FS_CardinalityType
<1>4. S(i + 1) = IF Counts(t, i) THEN S(i) \cup {i} ELSE S(i)
  BY <1>0
<1>5. i \notin S(i)
  BY <1>0
<1> HIDE DEF S
<1>6. Cardinality(S(i + 1)) = Cardinality(S(i)) + IF Counts(t, i) THEN 1 ELSE 0
  <2>1. CASE Counts(t, i)
    <3>1. Cardinality(S(i) \cup {i}) = Cardinality(S(i)) + 1
      BY <1>3, <1>5, FS_AddElement
    <3> QED BY <1>4, <2>1, <3>1
  <2>2. CASE ~Counts(t, i)
    BY <1>3, <1>4, <2>2
  <2> QED BY <2>1, <2>2
<1>7. Rounds(t, i) = Cardinality(S(i)) /\ Rounds(t, i + 1) = Cardinality(S(i + 1))
  BY DEF Rounds, S
<1> QED BY <1>1, <1>3, <1>6, <1>7

\* The barriers of a team grow with the operations.
LEMMA RoundsGrow ==
  ASSUME NEW i \in Nat, NEW j \in Nat, i <= j, NEW t
  PROVE  Rounds(t, i) \in Nat /\ Rounds(t, j) \in Nat /\ Rounds(t, i) <= Rounds(t, j)
<1> DEFINE S(k) == {h \in 1..k - 1 : Counts(t, h)}
<1>1. IsFiniteSet(1..j - 1)
  BY FS_Interval
<1>2. S(i) \subseteq S(j) /\ S(j) \subseteq 1..j - 1
  OBVIOUS
<1>3. IsFiniteSet(S(j)) /\ IsFiniteSet(S(i)) /\ Cardinality(S(i)) <= Cardinality(S(j))
  BY <1>1, <1>2, FS_Subset
<1>4. Cardinality(S(i)) \in Nat /\ Cardinality(S(j)) \in Nat
  BY <1>3, FS_CardinalityType
<1> QED BY <1>3, <1>4 DEF Rounds

\* There are none before the team is made.
LEMMA NoRounds ==
  ASSUME NEW i \in Nat, NEW t, \A j \in 1..i - 1 : ~(Number(j) >= t)
  PROVE  Rounds(t, i) = 0 /\ ~Gone(t, i)
<1>1. {j \in 1..i - 1 : Counts(t, j)} = {}
  BY DEF Counts
<1> QED BY <1>1, FS_EmptySet DEF Rounds, Gone

-----------------------------------------------------------------------------
\* The steps of a PE in a split.
SplitSteps(p) == SplitOfOthers(p) \/ SplitFull(p) \/ Split(p) \/ SplitFails(p)

\* The team of a split, or why there is none, is new; nothing that a team
\* there is already uses changes.
LEMMA SplitsAre ==
  ASSUME SlotsInv, NEW p \in PEs, SplitSteps(p)
  PROVE  /\ Calls(p, "split") /\ at[p] \in 1..Len(program) /\ Call(p).op = "split" /\ count[p] = 0
         /\ Advance(p)
         /\ UNCHANGED <<program, splits, places, sync_pool, sync_counter, count, visit, entered, early>>
         /\ \E v \in (Slots \cup {Invalid}) \X Nat :
              /\ made' = [made EXCEPT ![p][Number(at[p])] = v]
              /\ v # NotYet
              /\ \/ /\ v[1] = Invalid /\ handle' = handle /\ v \in {NotMember, Full, Failed}
                    /\ v = NotMember <=> ~(Accepted(p) /\ Belongs(p))
                 \/ /\ Accepted(p) /\ Belongs(p)
                    /\ v[1] \in Free(p) /\ v[2] = sync_counter[p][v[1]]
                    /\ handle' = [handle EXCEPT ![p][Number(at[p])] = v[1]]
                    /\ pool'[p][v[1]] = MyTeam(p)
         /\ \A s \in mask[p] : pool'[p][s] = pool[p][s]
         /\ \/ pool' = pool
            \/ /\ Accepted(p) /\ Belongs(p)
               /\ \E s \in Free(p) : pool' = [pool EXCEPT ![p][s] = MyTeam(p)]
<1>0. Types /\ MoreTypes
  BY DEF SlotsInv, IInv
<1>1. Calls(p, "split") /\ Advance(p)
  BY DEF SplitSteps, SplitOfOthers, SplitFull, Split, SplitFails, NoTeam
<1>2. at[p] \in 1..Len(program) /\ Call(p).op = "split" /\ count[p] = 0
  BY <1>0, <1>1, CallIs DEF Calls
<1>3. UNCHANGED <<program, splits, places, sync_pool, sync_counter, count, visit, entered, early>>
  BY DEF SplitSteps, SplitOfOthers, SplitFull, Split, SplitFails, NoTeam, fixed, slots
<1>4. \A s \in Free(p) : s \in Slots \ mask[p] /\ s # Invalid
  BY DEF Free, Slots, Invalid
<1>5. CASE SplitOfOthers(p)
  <2>1. /\ made' = [made EXCEPT ![p][Number(at[p])] = NotMember] /\ handle' = handle
        /\ ~(Accepted(p) /\ Belongs(p)) /\ pool' = pool
    BY <1>5 DEF SplitOfOthers, NoTeam
  <2>2. NotMember \in (Slots \cup {Invalid}) \X Nat /\ NotMember[1] = Invalid /\ NotMember # NotYet
    BY DEF NotMember, NotYet
  <2> QED BY <1>1, <1>2, <1>3, <2>1, <2>2
<1>6. CASE SplitFull(p)
  <2>1. /\ made' = [made EXCEPT ![p][Number(at[p])] = Full] /\ handle' = handle
        /\ Accepted(p) /\ Belongs(p) /\ pool' = pool
    BY <1>6 DEF SplitFull, NoTeam
  <2>2. Full \in (Slots \cup {Invalid}) \X Nat /\ Full[1] = Invalid /\ Full # NotYet /\ Full # NotMember
    BY DEF Full, NotMember, NotYet
  <2> QED BY <1>1, <1>2, <1>3, <2>1, <2>2
<1>7. CASE SplitFails(p)
  <2>1. PICK s \in Free(p) : pool' = [pool EXCEPT ![p][s] = MyTeam(p)]
    BY <1>7 DEF SplitFails
  <2>2. \A r \in mask[p] : pool'[p][r] = pool[p][r]
    BY <1>0, <1>4, <2>1 DEF MoreTypes
  <2>3. /\ made' = [made EXCEPT ![p][Number(at[p])] = Failed] /\ handle' = handle
        /\ Accepted(p) /\ Belongs(p)
    BY <1>7 DEF SplitFails, NoTeam
  <2>4. Failed \in (Slots \cup {Invalid}) \X Nat /\ Failed[1] = Invalid /\ Failed # NotYet /\ Failed # NotMember
    BY DEF Failed, NotMember, NotYet
  <2> QED BY <1>1, <1>2, <1>3, <2>1, <2>2, <2>3, <2>4
<1>8. CASE Split(p)
  <2>1. PICK s \in Free(p) :
          /\ pool' = [pool EXCEPT ![p][s] = MyTeam(p)]
          /\ handle' = [handle EXCEPT ![p][Number(at[p])] = s]
          /\ made' = [made EXCEPT ![p][Number(at[p])] = <<s, sync_counter[p][s]>>]
    BY <1>8 DEF Split
  <2>2. Accepted(p) /\ Belongs(p)
    BY <1>8 DEF Split
  <2>3. \A r \in mask[p] : pool'[p][r] = pool[p][r]
    BY <1>0, <1>4, <2>1 DEF MoreTypes
  <2>4. pool'[p][s] = MyTeam(p)
    BY <1>0, <1>4, <2>1 DEF MoreTypes
  <2>5. PICK v \in (Slots \cup {Invalid}) \X Nat : /\ v = <<s, sync_counter[p][s]>>
                                                   /\ v[1] = s /\ v[2] = sync_counter[p][s]
    <3>1. s \in Slots /\ sync_counter[p][s] \in Nat
      BY <1>0, <1>4 DEF MoreTypes
    <3>2. PICK c \in Nat : c = sync_counter[p][s]
      BY <3>1
    <3>3. <<s, c>> \in (Slots \cup {Invalid}) \X Nat /\ <<s, c>>[1] = s /\ <<s, c>>[2] = c
      BY <3>1, <3>2
    <3> QED BY <3>2, <3>3
  <2>6. v # NotYet
    BY <1>4, <2>5 DEF NotYet
  <2>7. made' = [made EXCEPT ![p][Number(at[p])] = v]
    BY <2>1, <2>5
  <2> QED BY <1>1, <1>2, <1>3, <2>1, <2>2, <2>3, <2>4, <2>5, <2>6, <2>7
<1> QED BY <1>5, <1>6, <1>7, <1>8 DEF SplitSteps

\* What p does is its own affair.
LEMMA OthersStay ==
  ASSUME SlotsInv, NEW p \in PEs, Step(p), NEW q \in PEs, q # p
  PROVE  /\ at'[q] = at[q] /\ handle'[q] = handle[q] /\ pool'[q] = pool[q]
         /\ sync_pool'[q] = sync_pool[q] /\ sync_counter'[q] = sync_counter[q]
         /\ count'[q] = count[q] /\ visit'[q] = visit[q]
         /\ made'[q] = made[q] /\ entered'[q] = entered[q]
<1>0. Types /\ MoreTypes
  BY DEF SlotsInv, IInv
<1>1. CASE SplitSteps(p)
  <2>1. PICK v : made' = [made EXCEPT ![p][Number(at[p])] = v]
    BY <1>1, SplitsAre
  <2>2. made'[q] = made[q]
    BY <1>0, <2>1 DEF MoreTypes
  <2>3. handle'[q] = handle[q]
    BY <1>0, <1>1, SplitsAre DEF Types
  <2>4. pool'[q] = pool[q]
    BY <1>0, <1>1, SplitsAre DEF MoreTypes
  <2>5. at'[q] = at[q]
    BY <1>0, <1>1, SplitsAre DEF Types, Advance
  <2>6. UNCHANGED <<sync_pool, sync_counter, count, visit, entered>>
    BY <1>1, SplitsAre
  <2> QED BY <2>2, <2>3, <2>4, <2>5, <2>6
<1>2. CASE Destroy(p) \/ BarrierOfOthers(p)
  BY <1>0, <1>2 DEF Destroy, BarrierOfOthers, Types, MoreTypes, Advance, host, slots
<1>3. CASE Enter(p) \/ Signal(p) \/ Await(p)
  BY <1>0, <1>3 DEF Enter, Signal, Await, Types, MoreTypes, host, slots
<1>4. CASE Exit(p)
  BY <1>0, <1>4 DEF Exit, Types, MoreTypes, host, slots, Advance
<1> QED BY <1>1, <1>2, <1>3, <1>4 DEF Step, SplitSteps

\* Nor does it change what is fixed.
LEMMA FixedStay == ASSUME NEW p \in PEs, Step(p) PROVE UNCHANGED <<program, splits, places>>
BY DEF Step, SplitOfOthers, SplitFull, Split, SplitFails, NoTeam, Destroy, BarrierOfOthers,
   Enter, Signal, Await, Exit, fixed

\* The program stays as it is, so what follows from it is about the new place.
LEMMA FollowsNext ==
  ASSUME program' = program, NEW p \in PEs,
         FollowsAs(at'[p], count'[p], handle'[p], made'[p], entered'[p])
  PROVE  Follows(p)'
<1>1. Number(at[p] - 1)' = Number(at'[p] - 1)
  BY DEF Number
<1>2. \A t : /\ Gone(t, at[p])' <=> Gone(t, at'[p])
             /\ Rounds(t, at[p])' = Rounds(t, at'[p])
  BY DEF Rounds, Counts, Gone, Number
<1> QED BY <1>1, <1>2 DEF Follows, FollowsAs

\* p's operation i does to a team t of its own what the program says.
LEMMA FollowsSplit ==
  ASSUME SlotsInv, NEW p \in PEs, SplitSteps(p)
  PROVE  FollowsAs(at'[p], count'[p], handle'[p], made'[p], entered'[p])
<1>0. Types /\ MoreTypes /\ Follows(p)
  BY DEF SlotsInv, IInv
<1> DEFINE i == at[p]
           n == Number(i)
<1>1. /\ i \in 1..Len(program) /\ program[i].op = "split" /\ Calls(p, "split")
      /\ i \in Nat \ {0}
  BY <1>0, SplitsAre, CallIs DEF Call
<1>2. n \in Made /\ n # World /\ Number(i - 1) = n - 1 /\ \A k \in 1..i - 1 : Number(k) < n
  BY <1>0, <1>1, SplitIs
<1>3. n \in Nat
  BY <1>2, TeamsAssumption DEF TeamsAssumption, Made
<1>4. handle[p][n] = Invalid
  BY <1>1, SplitIsFresh DEF SlotsInv
<1>5. at'[p] = i + 1 /\ count'[p] = 0 /\ count[p] = 0 /\ entered'[p] = entered[p]
  BY <1>0, SplitsAre DEF Types, Advance
<1>6. PICK v \in (Slots \cup {Invalid}) \X Nat :
        /\ made' = [made EXCEPT ![p][n] = v] /\ v # NotYet
        /\ \/ v[1] = Invalid /\ handle' = handle
           \/ v[1] # Invalid /\ handle' = [handle EXCEPT ![p][n] = v[1]]
  <2>1. \A s \in Free(p) : s # Invalid
    BY DEF Free, Slots, Invalid
  <2> QED BY <2>1, SplitsAre
<1>7. /\ made'[p][n] = v /\ handle'[p][n] = v[1]
      /\ \A t \in Made \ {n} : made'[p][t] = made[p][t] /\ handle'[p][t] = handle[p][t]
  BY <1>0, <1>2, <1>4, <1>6 DEF Types, MoreTypes
<1>8. made[p][n] = NotYet /\ entered[p][n] = 0
  <2>1. made[p][n] = NotYet
    BY <1>0, <1>2, <1>3 DEF Follows, FollowsAs
  <2> QED BY <1>0, <1>2, <2>1 DEF Follows, FollowsAs, NotYet
<1>9. Rounds(n, i + 1) = 0 /\ ~Gone(n, i + 1)
  <2>1. i \in Nat /\ \A k \in 1..i - 1 : Number(k) \in Nat
    BY <1>1, NumberGrows
  <2>2. Rounds(n, i) = 0 /\ ~Gone(n, i)
    BY <1>2, <1>3, <2>1, NoRounds
  <2>3. ~Counts(n, i)
    BY <1>1 DEF Counts
  <2> QED BY <1>0, <1>1, <2>2, <2>3, OneMore
<1> HIDE DEF i, n
<1> SUFFICES ASSUME NEW t \in Made
             PROVE  /\ made'[p][t] = NotYet <=> t > Number((i + 1) - 1)
                    /\ handle'[p][t] # Invalid => handle'[p][t] = made'[p][t][1]
                    /\ made'[p][t][1] # Invalid =>
                         /\ handle'[p][t] = Invalid <=> Gone(t, i + 1)
                         /\ entered'[p][t] = Rounds(t, i + 1)
                    /\ made'[p][t][1] = Invalid => entered'[p][t] = 0
  <2>1. i + 1 \in Nat /\ i + 1 <= i + 1
    BY <1>1
  <2>2. \A t \in Made : Rounds(t, i + 1) \in Nat
    BY <2>1, RoundsGrow
  <2> QED BY <1>5, <2>2 DEF FollowsAs
<1>10. t \in Nat /\ (i + 1) - 1 = i /\ Number(i) = n
  BY <1>1, TeamsAssumption DEF TeamsAssumption, Made, n
<1>11. CASE t = n
  BY <1>3, <1>5, <1>6, <1>7, <1>8, <1>9, <1>10, <1>11
<1>12. CASE t # n
  <2>1. ~Counts(t, i) /\ (Gone(t, i + 1) <=> Gone(t, i)) /\ Rounds(t, i + 1) = Rounds(t, i)
    <3>1. ~Counts(t, i)
      BY <1>1 DEF Counts
    <3> QED BY <1>0, <1>1, <3>1, OneMore
  <2>2. /\ made[p][t] = NotYet <=> t > n - 1
        /\ handle[p][t] # Invalid => handle[p][t] = made[p][t][1]
        /\ made[p][t][1] # Invalid =>
             (handle[p][t] = Invalid <=> Gone(t, i)) /\ entered[p][t] = Rounds(t, i)
        /\ made[p][t][1] = Invalid => entered[p][t] = 0
    <3>1. Rounds(t, i) \in Nat
      BY <1>0, <1>1, OneMore
    <3> QED BY <1>0, <1>2, <1>5, <3>1 DEF Follows, FollowsAs, i
  <2>3. made'[p][t] = made[p][t] /\ handle'[p][t] = handle[p][t]
    BY <1>7, <1>12
  <2>4. t > n - 1 <=> t > n
    BY <1>3, <1>10, <1>12
  <2> QED BY <1>5, <1>10, <2>1, <2>2, <2>3, <2>4
<1> QED BY <1>11, <1>12

\* A destroy, and a barrier of who has no such team.
LEMMA FollowsPast ==
  ASSUME SlotsInv, NEW p \in PEs, Destroy(p) \/ BarrierOfOthers(p) \/ Exit(p)
  PROVE  FollowsAs(at'[p], count'[p], handle'[p], made'[p], entered'[p])
<1>0. Types /\ MoreTypes /\ Follows(p)
  BY DEF SlotsInv, IInv
<1> DEFINE i == at[p]
           u == Call(p).team
<1>1. at[p] <= Len(program)
  BY <1>0 DEF Destroy, BarrierOfOthers, Calls, Exit, Follows, FollowsAs
<1>2. /\ i \in 1..Len(program) /\ i \in Nat \ {0} /\ Call(p) = program[i] /\ u \in Made
      /\ program[i].op # "split"
  BY <1>0, <1>1, CallIs DEF Destroy, BarrierOfOthers, Calls, Exit, Follows, FollowsAs
<1>3. Number(i) = Number(i - 1) /\ Number(i) \in Nat
  BY <1>2, NumberCounts
<1>4. at'[p] = i + 1 /\ count'[p] = 0 /\ entered' = entered /\ made' = made
  <2>1. Advance(p) /\ entered' = entered /\ made' = made
    BY DEF Destroy, BarrierOfOthers, Exit
  <2>2. count'[p] = 0
    BY <1>0 DEF Destroy, BarrierOfOthers, Exit, Calls, MoreTypes
  <2>3. at'[p] = i + 1
    BY <1>0, <2>1 DEF Types, Advance
  <2> QED BY <2>1, <2>2, <2>3
<1>5. \A t \in Made \ {u} : handle'[p][t] = handle[p][t]
  BY <1>0 DEF Destroy, BarrierOfOthers, Exit, Types, host
<1> SUFFICES ASSUME NEW t \in Made
             PROVE  /\ made[p][t] = NotYet <=> t > Number((i + 1) - 1)
                    /\ handle'[p][t] # Invalid => handle'[p][t] = made[p][t][1]
                    /\ made[p][t][1] # Invalid =>
                         /\ handle'[p][t] = Invalid <=> Gone(t, i + 1)
                         /\ entered[p][t] = Rounds(t, i + 1)
                    /\ made[p][t][1] = Invalid => entered[p][t] = 0
  <2>1. i + 1 \in Nat /\ i + 1 <= i + 1
    BY <1>2
  <2>2. \A t \in Made : Rounds(t, i + 1) \in Nat
    BY <2>1, RoundsGrow
  <2> HIDE DEF i
  <2> QED BY <1>4, <2>2 DEF FollowsAs
<1>6. t \in Nat /\ (i + 1) - 1 = i
  BY <1>2, TeamsAssumption DEF TeamsAssumption, Made
<1>7. Rounds(t, i) \in Nat
  BY <1>0, <1>2, OneMore
<1>8. /\ made[p][t] = NotYet <=> t > Number(i)
      /\ handle[p][t] # Invalid => handle[p][t] = made[p][t][1]
      /\ made[p][t][1] # Invalid =>
           /\ handle[p][t] = Invalid <=> Gone(t, i)
           /\ entered[p][t] = Rounds(t, i) + (IF count[p] > 0 /\ u = t THEN 1 ELSE 0)
      /\ made[p][t][1] = Invalid => entered[p][t] = 0
  BY <1>0, <1>2, <1>3 DEF Follows, FollowsAs
<1>9. CASE t # u
  <2>1. ~Counts(t, i) /\ (Gone(t, i + 1) <=> Gone(t, i)) /\ Rounds(t, i + 1) = Rounds(t, i)
    <3>1. ~Counts(t, i)
      BY <1>2, <1>9 DEF Counts
    <3> QED BY <1>0, <1>2, <1>7, <1>9, <3>1, OneMore
  <2> QED BY <1>5, <1>6, <1>7, <1>8, <1>9, <2>1
<1>10. made[p][u][1] # Invalid => Number(i) >= u
  BY <1>0, <1>2, <1>3, TeamsAssumption DEF Follows, FollowsAs, NotYet, TeamsAssumption, Made
<1>11. CASE t = u /\ Destroy(p)
  <2>1. count[p] = 0 /\ program[i].op = "destroy" /\ handle'[p][u] = Invalid
    BY <1>0, <1>2, <1>11 DEF Destroy, Calls, Types
  <2>2. ~Counts(t, i) /\ Rounds(t, i + 1) = Rounds(t, i)
    <3>1. ~Counts(t, i)
      BY <2>1 DEF Counts
    <3> QED BY <1>0, <1>2, <1>7, <3>1, OneMore
  <2>3. made[p][t][1] # Invalid => Gone(t, i + 1)
    BY <1>0, <1>2, <1>10, <1>11, <2>1, OneMore
  <2> QED BY <1>6, <1>7, <1>8, <1>11, <2>1, <2>2, <2>3
<1>12. CASE t = u /\ BarrierOfOthers(p)
  <2>1. /\ count[p] = 0 /\ program[i].op = "barrier" /\ handle'[p][u] = Invalid
        /\ handle[p][u] = Invalid
    BY <1>0, <1>2, <1>12 DEF BarrierOfOthers, Calls, Types, host
  <2>2. made[p][t][1] # Invalid => Gone(t, i)
    BY <1>8, <1>12, <2>1
  <2>3. Gone(t, i + 1) <=> Gone(t, i)
    BY <1>0, <1>2, <2>1, OneMore
  <2>4. made[p][t][1] # Invalid => Rounds(t, i + 1) = Rounds(t, i)
    BY <1>0, <1>2, <1>7, <2>2, OneMore DEF Counts
  <2> QED BY <1>6, <1>7, <1>8, <1>12, <2>1, <2>2, <2>3, <2>4
<1>13. CASE t = u /\ Exit(p)
  <2>1. /\ count[p] > 0 /\ program[i].op = "barrier" /\ handle'[p][u] = handle[p][u]
        /\ handle[p][u] # Invalid
    BY <1>0, <1>2, <1>13 DEF Exit, host, Follows, FollowsAs
  <2>2. made[p][t][1] # Invalid /\ ~Gone(t, i)
    BY <1>8, <1>13, <2>1
  <2>3. Counts(t, i)
    BY <1>2, <1>10, <1>13, <2>1, <2>2 DEF Counts
  <2>4. ~Gone(t, i + 1) /\ Rounds(t, i + 1) = Rounds(t, i) + 1
    BY <1>0, <1>2, <1>7, <2>1, <2>2, <2>3, OneMore
  <2> QED BY <1>6, <1>7, <1>8, <1>13, <2>1, <2>2, <2>4
<1> QED BY <1>9, <1>11, <1>12, <1>13

\* A barrier is entered once.
LEMMA FollowsInside ==
  ASSUME SlotsInv, NEW p \in PEs, Enter(p) \/ Signal(p) \/ Await(p)
  PROVE  FollowsAs(at'[p], count'[p], handle'[p], made'[p], entered'[p])
<1>0. Types /\ MoreTypes /\ Follows(p)
  BY DEF SlotsInv, IInv
<1>1. CASE Signal(p) \/ Await(p)
  BY <1>0, <1>1 DEF Signal, Await, host, Follows
<1>2. CASE Enter(p)
  <2> DEFINE i == at[p]
             u == Call(p).team
  <2>1. /\ i \in 1..Len(program) /\ i \in Nat \ {0} /\ Call(p) = program[i] /\ u \in Made
        /\ program[i].op = "barrier" /\ count[p] = 0 /\ handle[p][u] # Invalid
    BY <1>0, <1>2, CallIs DEF Enter, Calls
  <2>2. handle[p][u] \in Slots
    BY <1>0, <2>1 DEF Types
  <2>3. at' = at /\ handle' = handle /\ made' = made /\ count'[p] > 0
    BY <1>0, <1>2, <2>2 DEF Enter, MoreTypes, host
  <2>4. entered'[p] = [entered[p] EXCEPT ![u] = @ + 1]
    BY <1>0, <1>2 DEF Enter, MoreTypes
  <2>5. made[p][u][1] # Invalid
    BY <1>0, <2>1 DEF Follows, FollowsAs
  <2>6. \A t \in Made : Rounds(t, i) \in Nat /\ entered[p][t] \in Nat
    BY <1>0, <2>1, OneMore DEF MoreTypes
  <2>7. \A t \in Made : entered'[p][t] = entered[p][t] + IF t = u THEN 1 ELSE 0
    BY <1>0, <2>1, <2>4, <2>6 DEF MoreTypes
  <2>8. /\ count'[p] > 0 /\ at'[p] = i
        /\ i <= Len(program) /\ program[i].op = "barrier" /\ handle'[p][program[i].team] # Invalid
    BY <1>0, <2>1, <2>3, ProgramIs
  <2>9. ASSUME NEW t \in Made
        PROVE  /\ made'[p][t] = NotYet <=> t > Number(i - 1)
               /\ handle'[p][t] # Invalid => handle'[p][t] = made'[p][t][1]
               /\ made'[p][t][1] # Invalid =>
                    /\ handle'[p][t] = Invalid <=> Gone(t, i)
                    /\ entered'[p][t] = Rounds(t, i) + (IF program[i].team = t THEN 1 ELSE 0)
               /\ made'[p][t][1] = Invalid => entered'[p][t] = 0
    <3>1. /\ made[p][t] = NotYet <=> t > Number(i - 1)
          /\ handle[p][t] # Invalid => handle[p][t] = made[p][t][1]
          /\ made[p][t][1] # Invalid =>
               (handle[p][t] = Invalid <=> Gone(t, i)) /\ entered[p][t] = Rounds(t, i) + 0
          /\ made[p][t][1] = Invalid => entered[p][t] = 0
      BY <1>0, <2>1 DEF Follows, FollowsAs
    <3>2. entered'[p][t] = entered[p][t] + IF t = u THEN 1 ELSE 0
      BY <2>7
    <3>3. Rounds(t, i) \in Nat
      BY <2>6
    <3> HIDE DEF i
    <3> QED BY <2>1, <2>3, <2>5, <3>1, <3>2, <3>3
  <2> HIDE DEF i
  <2> QED BY <2>8, <2>9 DEF FollowsAs
<1> QED BY <1>1, <1>2

\* So every step keeps what follows from the program.
LEMMA FollowsKept ==
  ASSUME SlotsInv, NEW p \in PEs, Step(p), NEW q \in PEs
  PROVE  Follows(q)'
<1>1. FollowsAs(at'[q], count'[q], handle'[q], made'[q], entered'[q])
  <2>1. CASE q # p
    BY <2>1, OthersStay DEF SlotsInv, Follows
  <2>2. CASE q = p
    BY <2>2, FollowsSplit, FollowsPast, FollowsInside DEF Step, SplitSteps
  <2> QED BY <2>1, <2>2
<1> QED BY <1>1, FixedStay, FollowsNext

-----------------------------------------------------------------------------
\* Products of what is positive.
LEMMA Products ==
  \A a, b \in Int : a >= 1 /\ b >= 1 =>
    a * b \in Int /\ a * b >= 1 /\ (a * b = 1 => a = 1 /\ b = 1)
OBVIOUS

\* Products of what is not negative.
LEMMA NoNegative ==
  \A a, b \in Int : a >= 0 /\ b >= 1 => a * b \in Int /\ a * b >= 0 /\ (a * b = 0 => a = 0)
OBVIOUS

\* A number that is a multiple.
LEMMA DivExact ==
  \A d, g \in Int : d >= 0 /\ g >= 1 /\ d % g = 0 =>
    d \div g \in Int /\ d \div g >= 0 /\ (d \div g) * g = d
OBVIOUS

\* The member of a member.
LEMMA GlobalOfGlobal ==
  \A a, b, c, d, i \in Int : a + (b + i * c) * d = (a + b * d) + i * (d * c)
OBVIOUS

\* The first and the last member bound the others.
LEMMA Between ==
  \A a, d, n, i \in Int : a >= 0 /\ d >= 1 /\ 0 <= i /\ i <= n =>
    a + i * d \in Int /\ 0 <= a + i * d /\ a + i * d <= a + n * d
OBVIOUS

\* The parent of a split, of which the PE has a valid handle.
LEMMA ParentIs ==
  ASSUME SlotsInv, NEW p \in PEs, Calls(p, "split"), Valid(p, handle[p][Call(p).team])
  PROVE  /\ Call(p) \in Ops /\ Parent(p) \in Tuples
         /\ PlacedAs(p, Parent(p), Call(p).team)
         /\ splits[Number(at[p])] = Call(p)
         /\ Number(at[p]) # World /\ Number(at[p]) \in Nat
         /\ Number(at[p]) \in 0..Number(Len(program))
<1>0. Types /\ MoreTypes
  BY DEF SlotsInv, IInv
<1>1. /\ at[p] \in 1..Len(program) /\ program[at[p]].op = "split" /\ Call(p) = program[at[p]]
      /\ Call(p) \in Ops /\ Call(p).team \in Made
  BY <1>0, CallIs DEF Calls
<1>2. handle[p][Call(p).team] \in Slots
  BY <1>0, <1>1 DEF Valid, Types
<1>3. handle[p][Call(p).team] # Invalid
  BY <1>2 DEF Slots, Invalid
<1>4. Parent(p) \in Tuples /\ PlacedAs(p, Parent(p), Call(p).team)
  BY <1>0, <1>1, <1>2, <1>3 DEF SlotsInv, Placed, Parent, MoreTypes
<1>5. /\ splits[Number(at[p])] = Call(p) /\ Number(at[p]) # World /\ Number(at[p]) \in Made
      /\ Number(at[p]) \in 0..Number(Len(program))
  BY <1>0, <1>1, SplitIs DEF MoreTypes
<1> QED BY <1>1, <1>4, <1>5, TeamsAssumption DEF TeamsAssumption, Made

\* The first member of a split that is accepted, and the stride.
LEMMA GlobalsAre ==
  ASSUME SlotsInv, NEW p \in PEs, Calls(p, "split"), Accepted(p)
  PROVE  /\ GlobalStart(p) \in Int /\ GlobalStart(p) >= 0
         /\ GlobalStride(p) \in Int /\ GlobalStride(p) >= 1
         /\ GlobalStart(p) = 0 => Parent(p).start = 0 /\ Call(p).start = 0
         /\ GlobalStride(p) = 1 => Parent(p).stride = 1 /\ Call(p).stride = 1
<1>1. /\ Parent(p).start \in Int /\ Parent(p).stride \in Int
      /\ Parent(p).start >= 0 /\ Parent(p).stride >= 1
      /\ Call(p).start \in Int /\ Call(p).start >= 0
      /\ Call(p).stride \in Int /\ Call(p).stride >= 1
  <2>1. /\ Call(p) \in Ops /\ Parent(p) \in Tuples
        /\ PlacedAs(p, Parent(p), Call(p).team)
    BY ParentIs DEF Accepted
  <2>2. Call(p).start \in 0..Parent(p).size - 1 /\ Call(p).stride >= 1
    BY DEF Accepted
  <2> QED BY <2>1, <2>2 DEF Ops, Tuples, PlacedAs
<1>2. /\ Call(p).start * Parent(p).stride \in Int /\ Call(p).start * Parent(p).stride >= 0
      /\ Call(p).start * Parent(p).stride = 0 => Call(p).start = 0
  BY <1>1, NoNegative
<1>3. /\ Parent(p).stride * Call(p).stride \in Int /\ Parent(p).stride * Call(p).stride >= 1
      /\ Parent(p).stride * Call(p).stride = 1 => Parent(p).stride = 1 /\ Call(p).stride = 1
  BY <1>1, Products
<1>4. /\ GlobalStart(p) = Parent(p).start + Call(p).start * Parent(p).stride
      /\ GlobalStride(p) = Parent(p).stride * Call(p).stride
  BY DEF GlobalStart, GlobalStride, Global
<1> QED BY <1>1, <1>2, <1>3, <1>4

\* The members of a split that is accepted, by the interface.
LEMMA MembersAre ==
  ASSUME SlotsInv, NEW p \in PEs, Calls(p, "split"), Accepted(p), Members(Number(at[p])) # {}
  PROVE  LET t == Number(at[p]) IN
         /\ DOMAIN places[t] = 0..Call(p).size - 1
         /\ \A i \in 0..Call(p).size - 1 : places[t][i] = GlobalStart(p) + i * GlobalStride(p)
         /\ Members(Call(p).team) # {}
<1> DEFINE t == Number(at[p])
           o == Call(p)
           par == Parent(p)
<1>0. Types /\ MoreTypes
  BY DEF SlotsInv, IInv
<1>1. /\ o \in Ops /\ par \in Tuples /\ PlacedAs(p, par, o.team)
      /\ splits[t] = o /\ t # World /\ t \in 0..Number(Len(program))
  BY ParentIs DEF Accepted
<1>2. o.size >= 1 /\ o.size \in Int
  BY <1>1 DEF Accepted, Tuples, PlacedAs
<1>3. places[t] = PlacesFrom(places, t)
  <2>1. Places = [n \in 0..Number(Len(program)) |-> PlacesFrom(Places, n)]
    BY <1>0, PlacesAre
  <2>2. places = Places
    BY <1>0 DEF MoreTypes
  <2> QED BY <1>1, <2>1, <2>2
<1> DEFINE asked == {o.start + i * o.stride : i \in 0..o.size - 1}
<1>4. /\ asked \subseteq DOMAIN places[o.team]
      /\ places[t] = [i \in 0..o.size - 1 |-> places[o.team][o.start + i * o.stride]]
  <2>1. places[t] # <<>>
    BY DEF Members
  <2> QED BY <1>1, <1>3, <2>1 DEF PlacesFrom
<1>5. Members(o.team) # {}
  <2>1. 0 \in 0..o.size - 1
    BY <1>2
  <2>2. o.start + 0 * o.stride \in DOMAIN places[o.team]
    BY <1>4, <2>1
  <2> QED BY <2>2 DEF Members
<1>6. /\ DOMAIN places[o.team] = 0..par.size - 1
      /\ \A i \in 0..par.size - 1 : places[o.team][i] = par.start + i * par.stride
  BY <1>1, <1>5 DEF PlacedAs, Global
<1>7. ASSUME NEW i \in 0..o.size - 1
      PROVE  places[t][i] = GlobalStart(p) + i * GlobalStride(p)
  <2>1. places[t][i] = par.start + (o.start + i * o.stride) * par.stride
    BY <1>4, <1>6
  <2>2. par.start \in Int /\ par.stride \in Int /\ o.start \in Int /\ o.stride \in Int /\ i \in Int
    BY <1>1 DEF Ops, Tuples
  <2> HIDE DEF par, o
  <2>3. par.start + (o.start + i * o.stride) * par.stride
          = (par.start + o.start * par.stride) + i * (par.stride * o.stride)
    BY <2>2, GlobalOfGlobal
  <2> QED BY <2>1, <2>3 DEF GlobalStart, GlobalStride, Global, par, o
<1>8. DOMAIN places[t] = 0..o.size - 1
  BY <1>4
<1> QED BY <1>5, <1>7, <1>8

\* In a team that is numbered as the world a PE has the number it has there.
LEMMA NumbersAreWorlds ==
  ASSUME NEW p, NEW u, NEW team \in Tuples, PlacedAs(p, team, u),
         Members(u) # {}, NumberedAsWorld(u)
  PROVE  team.mype = p
<1>1. /\ team.start \in Int /\ team.stride \in Int /\ team.size \in Int /\ team.size >= 1
      /\ \A i \in 0..team.size - 1 : team.start + i * team.stride = i
  BY DEF Tuples, PlacedAs, NumberedAsWorld, Global
<1>2. team.start = 0
  <2>1. 0 \in 0..team.size - 1
    BY <1>1
  <2> QED BY <1>1, <2>1
<1>3. team.size = 1 \/ team.stride = 1
  <2>1. team.size # 1 => 1 \in 0..team.size - 1
    BY <1>1
  <2> QED BY <1>1, <1>2, <2>1
<1> QED BY <1>2, <1>3 DEF PlacedAs

\* What a member keeps of its new team is right.
LEMMA MyTeamIs ==
  ASSUME SlotsInv, NEW p \in PEs, Calls(p, "split"), Accepted(p), Belongs(p)
  PROVE  MyTeam(p) \in Tuples /\ PlacedAs(p, MyTeam(p), Number(at[p]))
<1> DEFINE t == Number(at[p])
           o == Call(p)
           par == Parent(p)
           my == MyTeam(p)
<1>1. /\ o \in Ops /\ par \in Tuples /\ PlacedAs(p, par, o.team) /\ splits[t] = o
  BY ParentIs DEF Accepted
<1>2. /\ GlobalStart(p) \in Int /\ GlobalStart(p) >= 0
      /\ GlobalStride(p) \in Int /\ GlobalStride(p) >= 1
      /\ GlobalStart(p) = 0 => par.start = 0 /\ o.start = 0
      /\ GlobalStride(p) = 1 => par.stride = 1 /\ o.stride = 1
  BY GlobalsAre
<1>3. /\ my.start = GlobalStart(p) /\ my.stride = GlobalStride(p) /\ my.size = o.size
      /\ my.mype = (par.mype - GlobalStart(p)) \div GlobalStride(p)
      /\ my = [start |-> my.start, stride |-> my.stride, size |-> my.size, mype |-> my.mype]
  BY DEF MyTeam, Team
<1>4. /\ par.mype - GlobalStart(p) >= 0 /\ (par.mype - GlobalStart(p)) % GlobalStride(p) = 0
      /\ my.mype < o.size
  BY <1>3 DEF Belongs
<1>5. par.mype \in Int /\ par.mype - GlobalStart(p) \in Int
  BY <1>1, <1>2 DEF Tuples
<1>6. /\ my.mype \in Int /\ my.mype >= 0
      /\ my.mype * GlobalStride(p) = par.mype - GlobalStart(p)
  BY <1>2, <1>3, <1>4, <1>5, DivExact
<1>7. o.size \in Int /\ o.size >= 1
  BY <1>1 DEF Accepted, Tuples, PlacedAs
<1> HIDE DEF my
<1>8. my \in Tuples
  BY <1>2, <1>3, <1>6, <1>7 DEF Tuples
<1>9. my.mype \in 0..my.size - 1
  BY <1>3, <1>4, <1>6, <1>7
<1>10. Global(my, my.mype) = par.mype
  BY <1>2, <1>3, <1>5, <1>6 DEF Global
<1>11. Global(my, my.size - 1) < N
  <2>1. GlobalEnd(p) < N /\ GlobalEnd(p) = GlobalStart(p) + GlobalStride(p) * (o.size - 1)
    BY DEF Accepted, GlobalEnd
  <2>2. GlobalStride(p) * (o.size - 1) = (o.size - 1) * GlobalStride(p)
    BY <1>2, <1>7
  <2> QED BY <1>3, <2>1, <2>2 DEF Global
<1>12. Members(t) # {} => /\ DOMAIN places[t] = 0..my.size - 1
                          /\ \A i \in 0..my.size - 1 : places[t][i] = Global(my, i)
  BY <1>3, MembersAre DEF Global
<1>13. my.start = 0 /\ my.mype = 0 => p = 0
  <2> SUFFICES ASSUME my.start = 0, my.mype = 0 PROVE p = 0
    OBVIOUS
  <2>1. par.start = 0
    BY <1>2, <1>3
  <2>2. par.mype = 0
    BY <1>2, <1>3, <1>5, <1>6
  <2> QED BY <1>1, <2>1, <2>2 DEF PlacedAs
<1>14. my.start = 0 /\ (my.stride = 1 \/ my.size = 1) => my.mype = p
  <2> SUFFICES ASSUME my.start = 0, my.stride = 1 \/ my.size = 1 PROVE my.mype = p
    OBVIOUS
  <2>1. CASE my.size = 1
    <3>1. my.mype = 0
      BY <1>9, <2>1
    <3> QED BY <1>13, <3>1
  <2>2. CASE my.stride = 1
    <3>1. par.start = 0 /\ par.stride = 1
      BY <1>2, <1>3, <2>2
    <3>2. par.mype = p
      BY <1>1, <3>1 DEF PlacedAs
    <3> QED BY <1>2, <1>3, <1>5, <1>6, <2>2, <3>2
  <2> QED BY <2>1, <2>2
<1>15. t # World /\ Members(t) # {} /\ NumberedAsWorld(splits[t].team) => Global(my, my.mype) = p
  <2> SUFFICES ASSUME Members(t) # {}, NumberedAsWorld(o.team) PROVE par.mype = p
    BY <1>1, <1>10
  <2>1. Members(o.team) # {}
    BY MembersAre
  <2> QED BY <1>1, <2>1, NumbersAreWorlds
<1>16. my.start >= 0 /\ my.stride >= 1 /\ my.size >= 1
  BY <1>2, <1>3, <1>7
<1>17. PlacedAs(p, my, t)
  BY <1>9, <1>11, <1>12, <1>13, <1>14, <1>15, <1>16 DEF PlacedAs
<1> QED BY <1>8, <1>17 DEF my

\* A team of a PE stays as it is.
LEMMA PlacedKept ==
  ASSUME SlotsInv, NEW p \in PEs, Step(p), NEW q \in PEs, NEW t \in Made, handle'[q][t] # Invalid
  PROVE  Placed(q, t)'
<1>0. Types /\ MoreTypes /\ UNCHANGED <<program, splits, places>>
  BY FixedStay DEF SlotsInv, IInv
<1>1. /\ PlacedAs(q, pool'[q][handle'[q][t]], t) => Placed(q, t)'
  BY <1>0 DEF Placed, PlacedAs, Members, NumberedAsWorld, Global
<1>2. handle[q][t] # Invalid => PlacedAs(q, pool[q][handle[q][t]], t) /\ handle[q][t] \in mask[q]
  BY DEF SlotsInv, IInv, IndicesAreTheTeams, Placed
<1>3. CASE q # p
  BY <1>1, <1>2, <1>3, OthersStay
<1>4. CASE q = p /\ SplitSteps(p)
  <2>1. CASE handle'[p] = handle[p]
    BY <1>1, <1>2, <1>4, <2>1, SplitsAre
  <2>2. CASE handle'[p] # handle[p]
    <3>1. PICK s \in Free(p) :
            /\ handle' = [handle EXCEPT ![p][Number(at[p])] = s]
            /\ pool'[p][s] = MyTeam(p) /\ Accepted(p) /\ Belongs(p)
      BY <1>4, <2>2, SplitsAre
    <3>2. Calls(p, "split")
      BY <1>4, SplitsAre
    <3>3. CASE t = Number(at[p])
      <4>1. handle'[p][t] = s
        BY <1>0, <3>1, <3>3 DEF Types
      <4> QED BY <1>1, <1>4, <3>1, <3>2, <3>3, <4>1, MyTeamIs
    <3>4. CASE t # Number(at[p])
      <4>1. handle'[p][t] = handle[p][t]
        BY <1>0, <3>1, <3>4 DEF Types
      <4> QED BY <1>1, <1>2, <1>4, <4>1, SplitsAre
    <3> QED BY <3>3, <3>4
  <2> QED BY <2>1, <2>2
<1>5. CASE q = p /\ ~SplitSteps(p)
  <2>1. pool' = pool /\ (handle' = handle \/ Destroy(p))
    BY <1>5 DEF Step, SplitSteps, Destroy, BarrierOfOthers, Enter, Signal, Await, Exit, host
  <2>2. handle'[p][t] = handle[p][t]
    <3>1. CASE Destroy(p)
      BY <1>0, <1>5, <3>1 DEF Destroy, Types
    <3> QED BY <2>1, <3>1
  <2> QED BY <1>1, <1>2, <1>5, <2>1, <2>2
<1> QED BY <1>3, <1>4, <1>5

\* What makes a PE be in a barrier.
LEMMA InsideIs ==
  ASSUME SlotsInv, NEW p \in PEs, count[p] > 0
  PROVE  /\ at[p] \in 1..Len(program) /\ Call(p) = program[at[p]] /\ Call(p).op = "barrier"
         /\ Call(p).team \in Made /\ handle[p][Call(p).team] # Invalid
         /\ Slot(p) = handle[p][Call(p).team] /\ Slot(p) \in Slots
         /\ pool[p][Slot(p)] \in Tuples /\ PlacedAs(p, pool[p][Slot(p)], Call(p).team)
<1>0. Types /\ MoreTypes
  BY DEF SlotsInv, IInv
<1>1. /\ at[p] <= Len(program) /\ program[at[p]].op = "barrier"
      /\ handle[p][program[at[p]].team] # Invalid
  BY DEF SlotsInv, Follows, FollowsAs
<1>2. at[p] \in 1..Len(program) /\ Call(p) = program[at[p]] /\ Call(p).team \in Made
  BY <1>0, <1>1, CallIs
<1>3. Slot(p) = handle[p][Call(p).team] /\ Slot(p) \in Slots
  BY <1>0, <1>1, <1>2 DEF Types, Slot
<1> QED BY <1>0, <1>1, <1>2, <1>3 DEF SlotsInv, Placed, MoreTypes

\* The fields keep their types.
LEMMA MoreTypesKept ==
  ASSUME SlotsInv, NEW p \in PEs, Step(p)
  PROVE  MoreTypes'
<1>0. Types /\ MoreTypes /\ UNCHANGED <<program, splits, places>>
  BY FixedStay DEF SlotsInv, IInv
<1>1. Splits' = Splits /\ Places' = Places
  <2>1. Splits' = Splits /\ Number(Len(program))' = Number(Len(program))
    BY <1>0 DEF Splits, SplitAt, Number
  <2> QED BY <1>0, <2>1 DEF Places, PlacesFrom
<1>2. splits' = Splits' /\ places' = Places'
  BY <1>0, <1>1 DEF MoreTypes
<1>3. pool' \in [PEs -> [Slots -> Tuples]]
  <2>1. CASE pool' = pool
    BY <1>0, <2>1 DEF MoreTypes
  <2>2. CASE pool' # pool
    <3>1. SplitSteps(p)
      BY <2>2 DEF Step, SplitSteps, Destroy, BarrierOfOthers, Enter, Signal, Await, Exit, host
    <3>2. Calls(p, "split") /\ Accepted(p) /\ Belongs(p)
      BY <2>2, <3>1, SplitsAre
    <3>3. PICK s \in Free(p) : pool' = [pool EXCEPT ![p][s] = MyTeam(p)]
      BY <2>2, <3>1, SplitsAre
    <3>4. MyTeam(p) \in Tuples /\ s \in Slots
      BY <3>2, MyTeamIs DEF Free
    <3>5. pool \in [PEs -> [Slots -> Tuples]]
      BY <1>0 DEF MoreTypes
    <3> QED BY <3>3, <3>4, <3>5
  <2> QED BY <2>1, <2>2
<1>4. CASE SplitSteps(p)
  <2>1. PICK v \in (Slots \cup {Invalid}) \X Nat : made' = [made EXCEPT ![p][Number(at[p])] = v]
    BY <1>4, SplitsAre
  <2>2. made' \in [PEs -> [Made -> (Slots \cup {Invalid}) \X Nat]]
    BY <1>0, <2>1 DEF MoreTypes
  <2>3. UNCHANGED <<sync_pool, sync_counter, count, visit, entered, early>>
    BY <1>4, SplitsAre
  <2> QED BY <1>0, <1>2, <1>3, <2>2, <2>3 DEF MoreTypes
<1>5. CASE Destroy(p) \/ BarrierOfOthers(p)
  BY <1>0, <1>2, <1>3, <1>5 DEF Destroy, BarrierOfOthers, MoreTypes, slots
<1>6. count[p] > 0 => Slot(p) \in Slots /\ Call(p).team \in Made
  BY InsideIs
<1>7. CASE Enter(p)
  <2>1. Call(p).team \in Made
    BY <1>0, <1>7, CallIs DEF Enter, Calls
  <2>2. sync_counter[p][handle[p][Call(p).team]] \in Nat
    BY <1>0, <1>7, <2>1 DEF Enter, Types, MoreTypes
  <2>3. count' \in [PEs -> Nat]
    BY <1>0, <1>7, <2>2 DEF Enter, MoreTypes
  <2>4. entered' \in [PEs -> [Made -> Nat]]
    BY <1>0, <1>7, <2>1 DEF Enter, MoreTypes
  <2>5. visit' \in [PEs -> Nat]
    BY <1>0, <1>7 DEF Enter, MoreTypes
  <2> QED BY <1>0, <1>2, <1>3, <1>7, <2>3, <2>4, <2>5 DEF Enter, MoreTypes, slots
<1>8. CASE Signal(p)
  <2>1. Slot(p) \in Slots
    BY <1>8, InsideIs DEF Signal, Visits
  <2>2. sync_pool' \in [PEs -> [Slots -> Nat]]
    BY <1>0, <1>8, <2>1 DEF Signal, MoreTypes
  <2>3. visit' \in [PEs -> Nat]
    BY <1>0, <1>8 DEF Signal, MoreTypes
  <2> QED BY <1>0, <1>2, <1>3, <1>8, <2>2, <2>3 DEF Signal, MoreTypes
<1>9. CASE Await(p)
  BY <1>0, <1>2, <1>3, <1>9 DEF Await, MoreTypes, slots
<1>10. CASE Exit(p)
  BY <1>0, <1>2, <1>3, <1>6, <1>10 DEF Exit, Slot, MoreTypes
<1> QED BY <1>4, <1>5, <1>7, <1>8, <1>9, <1>10 DEF Step, SplitSteps

\* Counts and counters go together.
LEMMA CountedKept ==
  ASSUME SlotsInv, NEW p \in PEs, Step(p)
  PROVE  Counted(p)'
<1>0. Types /\ MoreTypes /\ program' = program /\ Counted(p)
  BY FixedStay DEF SlotsInv, IInv
<1>1. \A t, u \in Made : handle[p][t] # Invalid /\ handle[p][t] = handle[p][u] => t = u
  BY DEF SlotsInv, IInv, IndicesAreTheTeams
<1>2. CASE SplitSteps(p)
  <2>1. /\ UNCHANGED <<sync_pool, sync_counter, count, entered>> /\ count[p] = 0
        /\ at[p] \in 1..Len(program) /\ program[at[p]].op = "split" /\ Calls(p, "split")
    BY <1>0, <1>2, SplitsAre, CallIs
  <2> DEFINE n == Number(at[p])
  <2>2. n \in Made /\ handle[p][n] = Invalid
    BY <2>1, SplitIsFresh DEF SlotsInv
  <2>3. PICK v \in (Slots \cup {Invalid}) \X Nat :
          /\ made' = [made EXCEPT ![p][n] = v]
          /\ \/ v[1] = Invalid /\ handle' = handle
             \/ v[2] = sync_counter[p][v[1]] /\ handle' = [handle EXCEPT ![p][n] = v[1]]
    BY <1>2, SplitsAre
  <2>4. made[p][n] = NotYet
    BY <1>0, <2>1, <2>2, SplitIs, TeamsAssumption
       DEF SlotsInv, Follows, FollowsAs, Made, TeamsAssumption
  <2>5. entered[p][n] = 0
    BY <2>2, <2>4 DEF SlotsInv, Follows, FollowsAs, NotYet
  <2>6. \A t \in Made \ {n} : handle'[p][t] = handle[p][t] /\ made'[p][t] = made[p][t]
    BY <1>0, <2>3 DEF Types, MoreTypes
  <2>7. made'[p][n] = v /\ (handle'[p][n] # Invalid => handle'[p][n] = v[1] /\ v[2] = sync_counter[p][v[1]])
    BY <1>0, <2>2, <2>3 DEF Types, MoreTypes
  <2> HIDE DEF n
  <2>8. ASSUME NEW t \in Made, handle'[p][t] # Invalid
        PROVE  sync_counter[p][handle'[p][t]] + 0 = made'[p][t][2] + entered[p][t]
    <3>1. CASE t = n
      <4>1. v[1] \in Slots /\ sync_counter[p][v[1]] \in Nat
        BY <1>0, <2>7, <2>8, <3>1 DEF MoreTypes
      <4> QED BY <2>5, <2>7, <2>8, <3>1, <4>1
    <3>2. CASE t # n
      BY <1>0, <2>1, <2>6, <2>8, <3>2 DEF Counted, InBarrier
    <3> QED BY <3>1, <3>2
  <2>9. \A s \in Slots : sync_pool[p][s] <= sync_counter[p][s] + 0
    BY <1>0, <2>1 DEF Counted
  <2> QED BY <2>1, <2>8, <2>9 DEF Counted, InBarrier
<1>3. CASE Destroy(p) \/ BarrierOfOthers(p)
  <2>1. /\ UNCHANGED <<sync_pool, sync_counter, count, entered, made>> /\ count[p] = 0
        /\ \A t \in Made : handle'[p][t] # Invalid => handle'[p][t] = handle[p][t]
    BY <1>0, <1>3 DEF Destroy, BarrierOfOthers, Calls, Types, slots, host
  <2> QED BY <1>0, <2>1 DEF Counted, InBarrier
<1>4. CASE Enter(p)
  <2> DEFINE u == Call(p).team
             h == handle[p][u]
  <2>1. u \in Made /\ h # Invalid /\ h \in Slots /\ count[p] = 0
    BY <1>0, <1>4, CallIs DEF Enter, Calls, Types
  <2>2. UNCHANGED <<sync_pool, sync_counter, handle, made, at>> /\ Slot(p)' = h /\ Call(p)' = Call(p)
    BY <1>0, <1>4 DEF Enter, slots, host, Slot, Call
  <2>3. count'[p] = sync_counter[p][h] + 1 /\ sync_counter[p][h] \in Nat
    BY <1>0, <1>4, <2>1 DEF Enter, MoreTypes
  <2>4. \A t \in Made : entered[p][t] \in Nat /\ entered'[p][t] = entered[p][t] + IF t = u THEN 1 ELSE 0
    BY <1>0, <1>4, <2>1 DEF Enter, MoreTypes
  <2>5. /\ \A s \in Slots : sync_pool[p][s] <= sync_counter[p][s] + 0
        /\ \A t \in Made : handle[p][t] # Invalid =>
             sync_counter[p][handle[p][t]] + 0 = made[p][t][2] + entered[p][t]
    BY <1>0, <2>1 DEF Counted, InBarrier
  <2>6. \A t \in Made : made[p][t][2] \in Nat /\ (handle[p][t] # Invalid => sync_counter[p][handle[p][t]] \in Nat)
    BY <1>0 DEF MoreTypes, Types
  <2>7. \A s \in Slots : sync_pool[p][s] \in Nat /\ sync_counter[p][s] \in Nat
    BY <1>0 DEF MoreTypes
  <2>8. ASSUME NEW t \in Made, handle[p][t] # Invalid
        PROVE  sync_counter[p][handle[p][t]] + (IF u = t THEN 1 ELSE 0) = made[p][t][2] + entered'[p][t]
    BY <2>4, <2>5, <2>6, <2>8
  <2>9. \A s \in Slots : sync_pool[p][s] <= sync_counter[p][s] + (IF h = s THEN 1 ELSE 0)
    BY <2>5, <2>7
  <2>10. count'[p] > 0
    BY <2>3
  <2> HIDE DEF u, h
  <2> QED BY <2>2, <2>3, <2>8, <2>9, <2>10 DEF Counted, InBarrier, u
<1>5. CASE Signal(p)
  <2>0. count[p] > 0
    BY <1>5 DEF Signal, Visits
  <2>1. /\ UNCHANGED <<sync_counter, handle, made, at, count, entered>>
        /\ Slot(p)' = Slot(p) /\ Call(p)' = Call(p)
    BY <1>0, <1>5 DEF Signal, host, Slot, Call
  <2>2. Slot(p) \in Slots
    BY <2>0, InsideIs
  <2>3. \A s \in Slots : sync_pool'[p][s] = IF s = Slot(p) THEN count[p] ELSE sync_pool[p][s]
    BY <1>0, <1>5, <2>2 DEF Signal, MoreTypes
  <2>4. \A s \in Slots : sync_counter[p][s] \in Nat /\ sync_pool[p][s] \in Nat
    BY <1>0 DEF MoreTypes
  <2>5. /\ count[p] = sync_counter[p][Slot(p)] + 1
        /\ \A s \in Slots :
             sync_pool[p][s] <= sync_counter[p][s] + (IF Slot(p) = s THEN 1 ELSE 0)
    BY <1>0, <2>0 DEF Counted
  <2>6. \A s \in Slots :
             sync_pool'[p][s] <= sync_counter[p][s] + (IF Slot(p) = s THEN 1 ELSE 0)
    BY <2>2, <2>3, <2>4, <2>5
  <2>7. \A t : InBarrier(p, t)' <=> InBarrier(p, t)
    BY <2>1 DEF InBarrier
  <2> QED BY <1>0, <2>0, <2>1, <2>6, <2>7 DEF Counted
<1>6. CASE Await(p)
  BY <1>0, <1>6 DEF Await, host, slots, Slot, Call, Counted, InBarrier
<1>7. CASE Exit(p)
  <2> DEFINE u == Call(p).team
  <2>0. count[p] > 0 /\ u \in Made /\ handle[p][u] # Invalid /\ Slot(p) = handle[p][u] /\ Slot(p) \in Slots
    BY <1>7, InsideIs DEF Exit
  <2>1. UNCHANGED <<sync_pool, handle, made, entered>> /\ count'[p] = 0
    BY <1>0, <1>7 DEF Exit, host, MoreTypes
  <2>2. \A s \in Slots : sync_counter[p][s] \in Nat /\ sync_pool[p][s] \in Nat
    BY <1>0 DEF MoreTypes
  <2>3. \A s \in Slots : sync_counter'[p][s] = IF s = Slot(p) THEN count[p] ELSE sync_counter[p][s]
    BY <1>0, <1>7, <2>0 DEF Exit, MoreTypes
  <2>4. /\ count[p] = sync_counter[p][Slot(p)] + 1
        /\ \A s \in Slots :
             sync_pool[p][s] <= sync_counter[p][s] + (IF Slot(p) = s THEN 1 ELSE 0)
        /\ \A t \in Made : handle[p][t] # Invalid =>
             sync_counter[p][handle[p][t]] + (IF u = t THEN 1 ELSE 0) = made[p][t][2] + entered[p][t]
    BY <1>0, <2>0 DEF Counted, InBarrier
  <2> HIDE DEF u
  <2>5. \A s \in Slots : sync_pool[p][s] <= sync_counter'[p][s] + 0
    BY <2>0, <2>2, <2>3, <2>4
  <2>6. ASSUME NEW t \in Made, handle[p][t] # Invalid
        PROVE  sync_counter'[p][handle[p][t]] + 0 = made[p][t][2] + entered[p][t]
    <3>1. handle[p][t] \in Slots
      BY <1>0, <2>6 DEF Types
    <3>2. handle[p][t] = Slot(p) <=> t = u
      BY <1>1, <2>0, <2>6
    <3>3. sync_counter[p][handle[p][t]] \in Nat
      BY <2>2, <3>1
    <3> QED BY <2>2, <2>3, <2>4, <2>6, <3>1, <3>2, <3>3
  <2>7. ~(count'[p] > 0)
    BY <2>1
  <2> QED BY <2>1, <2>5, <2>6, <2>7 DEF Counted, InBarrier
<1> QED BY <1>2, <1>3, <1>4, <1>5, <1>6, <1>7 DEF Step, SplitSteps

\* A signal is never taken back.
LEMMA SignalsGrow ==
  ASSUME SlotsInv, NEW p \in PEs, Step(p), NEW q \in PEs, NEW s \in Slots
  PROVE  /\ sync_pool[q][s] \in Nat /\ sync_pool'[q][s] \in Nat
         /\ sync_pool'[q][s] >= sync_pool[q][s]
<1>0. Types /\ MoreTypes /\ MoreTypes'
  BY MoreTypesKept DEF SlotsInv, IInv
<1>1. sync_pool[q][s] \in Nat /\ sync_pool'[q][s] \in Nat
  BY <1>0 DEF MoreTypes
<1>2. CASE ~Signal(p)
  <2>1. sync_pool' = sync_pool
    BY <1>2, SplitsAre DEF Step, SplitSteps, Destroy, BarrierOfOthers, Enter, Await, Exit, slots
  <2> QED BY <1>1, <2>1
<1>3. CASE Signal(p)
  <2>1. count[p] > 0
    BY <1>3 DEF Signal, Visits
  <2>2. Slot(p) \in Slots
    BY <2>1, InsideIs
  <2>3. /\ count[p] = sync_counter[p][Slot(p)] + 1
        /\ sync_pool[p][Slot(p)] <= sync_counter[p][Slot(p)] + 1
    BY <2>1, <2>2 DEF SlotsInv, Counted
  <2>4. sync_pool'[q][s] = IF q = p /\ s = Slot(p) THEN count[p] ELSE sync_pool[q][s]
    BY <1>0, <1>3, <2>2 DEF Signal, MoreTypes
  <2> QED BY <1>1, <2>3, <2>4
<1> QED BY <1>2, <1>3

\* Who a barrier has looked at stays signalled.
LEMMA SignalledKept ==
  ASSUME SlotsInv, NEW p \in PEs, Step(p), NEW q \in PEs
  PROVE  Signalled(q)'
<1>0. Types /\ MoreTypes /\ program' = program /\ Signalled(q)
  BY FixedStay DEF SlotsInv, IInv
<1>1. CASE q # p
  <2>1. /\ count'[q] = count[q] /\ visit'[q] = visit[q] /\ pool'[q] = pool[q]
        /\ Slot(q)' = Slot(q)
    BY <1>0, <1>1, OthersStay DEF Slot, Call
  <2>2. SUFFICES ASSUME count[q] > 0, NEW r \in PEs, NEW i \in 0..visit[q] - 1,
                        Global(pool[q][Slot(q)], i) = r
                 PROVE  sync_pool'[r][Slot(q)] >= count[q]
    BY <2>1 DEF Signalled, Global
  <2>3. sync_pool[r][Slot(q)] >= count[q]
    BY <1>0, <2>2 DEF Signalled
  <2>4. Slot(q) \in Slots /\ count[q] \in Nat
    BY <1>0, <2>2, InsideIs DEF MoreTypes
  <2> QED BY <2>3, <2>4, SignalsGrow
<1>2. CASE q = p /\ (SplitSteps(p) \/ Destroy(p) \/ BarrierOfOthers(p) \/ Exit(p))
  <2>1. count'[p] = 0
    BY <1>0, <1>2, SplitsAre DEF Destroy, BarrierOfOthers, Exit, Calls, MoreTypes
  <2> QED BY <1>2, <2>1 DEF Signalled
<1>3. CASE q = p /\ Enter(p)
  <2>1. visit'[p] = 0
    BY <1>0, <1>3 DEF Enter, MoreTypes
  <2> QED BY <1>3, <2>1 DEF Signalled
<1>4. CASE q = p /\ (Signal(p) \/ Await(p))
  <2>1. count[p] > 0 /\ visit'[p] = visit[p] + 1 /\ visit[p] \in Nat /\ count[p] \in Nat
    BY <1>0, <1>4 DEF Signal, Await, Visits, MoreTypes
  <2>2. Slot(p) \in Slots
    BY <2>1, InsideIs
  <2>3. UNCHANGED <<count, pool>> /\ Slot(p)' = Slot(p)
    BY <1>0, <1>4 DEF Signal, Await, host, Slot, Call
  <2>4. SUFFICES ASSUME NEW r \in PEs, NEW i \in 0..visit[p],
                        Global(pool[p][Slot(p)], i) = r
                 PROVE  sync_pool'[r][Slot(p)] >= count[p]
    <3>1. visit'[p] - 1 = visit[p]
      BY <2>1
    <3> QED BY <1>4, <2>3, <3>1 DEF Signalled, Global
  <2>5. CASE i < visit[p]
    <3>1. i \in 0..visit[p] - 1
      BY <2>1, <2>5
    <3>2. sync_pool[r][Slot(p)] >= count[p]
      BY <1>0, <1>4, <2>1, <2>4, <3>1 DEF Signalled
    <3> QED BY <2>1, <2>2, <3>2, SignalsGrow
  <2>6. CASE i = visit[p] /\ Signal(p)
    <3>1. r = p
      BY <2>4, <2>6 DEF Signal, Visited
    <3>2. sync_pool'[p][Slot(p)] = count[p]
      BY <1>0, <2>2, <2>6 DEF Signal, MoreTypes
    <3> QED BY <2>1, <3>1, <3>2
  <2>7. CASE i = visit[p] /\ Await(p)
    <3>1. sync_pool[r][Slot(p)] \in {count[p], count[p] + 1}
      BY <2>4, <2>7 DEF Await, Visited
    <3>2. sync_pool[r][Slot(p)] >= count[p]
      BY <2>1, <3>1
    <3> QED BY <2>1, <2>2, <3>2, SignalsGrow
  <2> QED BY <1>4, <2>1, <2>5, <2>6, <2>7
<1> QED BY <1>1, <1>2, <1>3, <1>4 DEF Step, SplitSteps

-----------------------------------------------------------------------------
\* What a PE made of a split stays.
LEMMA MadeStays ==
  ASSUME SlotsInv, NEW p \in PEs, Step(p), NEW q \in PEs, NEW t \in Made
  PROVE  /\ made[q][t] # NotYet => made'[q][t] = made[q][t]
         /\ made[q][t] = NotYet /\ made'[q][t] # NotYet =>
              /\ q = p /\ SplitSteps(p) /\ t = Number(at[p]) /\ count[p] = 0
              /\ MakesOne(p, t)' =>
                   /\ made'[p][t][1] \in Slots
                   /\ made'[p][t][2] = sync_counter[p][made'[p][t][1]]
<1>0. Types /\ MoreTypes
  BY DEF SlotsInv, IInv
<1>1. CASE ~SplitSteps(p) \/ q # p
  <2>1. made'[q] = made[q]
    BY <1>1, OthersStay DEF Step, SplitSteps, Destroy, BarrierOfOthers, Enter, Signal, Await, Exit
  <2> QED BY <2>1
<1>2. CASE SplitSteps(p) /\ q = p
  <2> DEFINE n == Number(at[p])
  <2>1. PICK v \in (Slots \cup {Invalid}) \X Nat :
          /\ made' = [made EXCEPT ![p][n] = v]
          /\ \/ v[1] = Invalid
             \/ v[2] = sync_counter[p][v[1]]
    BY <1>2, SplitsAre
  <2>2. /\ at[p] \in 1..Len(program) /\ program[at[p]].op = "split" /\ Calls(p, "split")
        /\ count[p] = 0
    BY <1>0, <1>2, SplitsAre, CallIs
  <2>3. n \in Made
    BY <2>2, SplitIsFresh DEF SlotsInv
  <2>4. made[p][n] = NotYet
    BY <1>0, <2>2, <2>3, SplitIs, TeamsAssumption
       DEF SlotsInv, Follows, FollowsAs, Made, TeamsAssumption
  <2> HIDE DEF n
  <2>5. made'[p][n] = v /\ \A u \in Made \ {n} : made'[p][u] = made[p][u]
    BY <1>0, <2>1, <2>3 DEF MoreTypes
  <2>6. v[1] # Invalid => v[1] \in Slots /\ v[2] = sync_counter[p][v[1]]
    BY <2>1
  <2> QED BY <1>2, <2>2, <2>4, <2>5, <2>6 DEF MakesOne, n
<1> QED BY <1>1, <1>2

\* Who parted stays so.
LEMMA PartedStay ==
  ASSUME SlotsInv, NEW r \in PEs, Step(r), NEW p \in PEs, NEW q \in PEs, NEW t \in Made,
         Parted(p, q, t)
  PROVE  Parted(p, q, t)'
<1>0. Types /\ MoreTypes
  BY DEF SlotsInv, IInv
<1> DEFINE s == made[p][t][1]
           c == made[p][t][2]
<1>1. made[p][t] # NotYet /\ s \in Slots /\ c \in Nat
  BY <1>0 DEF Parted, MakesOne, NotYet, MoreTypes
<1>2. made'[p][t] = made[p][t] /\ MakesOne(p, t)'
  BY <1>1, MadeStays DEF Parted, MakesOne
<1>3. CASE made[q][t] # NotYet
  <2>1. made'[q][t] = made[q][t]
    BY <1>3, MadeStays
  <2> QED BY <1>2, <1>3, <2>1 DEF Parted
<1>4. CASE made[q][t] = NotYet
  <2>1. sync_pool[q][s] > c
    BY <1>4 DEF Parted
  <2>2. sync_pool'[q][s] > c
    BY <1>1, <2>1, SignalsGrow
  <2>3. CASE made'[q][t] = NotYet
    BY <1>2, <2>2, <2>3 DEF Parted
  <2>4. CASE made'[q][t] # NotYet
    <3>1. q = r /\ count[r] = 0
      BY <1>4, <2>4, MadeStays
    <3>2. sync_pool[q][s] <= sync_counter[q][s] + 0
      BY <1>1, <3>1 DEF SlotsInv, Counted
    <3>3. sync_counter[q][s] > c
      BY <1>0, <1>1, <2>1, <3>2 DEF MoreTypes
    <3>4. made'[q][t] # made[p][t]
      <4> SUFFICES ASSUME made'[q][t] = made[p][t] PROVE FALSE
        OBVIOUS
      <4>1. MakesOne(q, t)'
        BY <1>2 DEF MakesOne
      <4>2. made'[q][t][2] = sync_counter[q][made'[q][t][1]]
        BY <1>4, <2>4, <3>1, <4>1, MadeStays
      <4> QED BY <1>1, <3>3, <4>2
    <3> QED BY <1>2, <2>4, <3>4 DEF Parted
  <2> QED BY <2>3, <2>4
<1> QED BY <1>3, <1>4

\* A PE that made the team as p did has entered as many of its barriers as p
\* has, or its slot shows that it has not signalled p.
LEMMA AlikeIsBehind ==
  ASSUME SlotsInv, NEW p \in PEs, count[p] > 0, NEW q \in PEs,
         made[q][Call(p).team] = made[p][Call(p).team],
         sync_pool[q][Slot(p)] >= count[p]
  PROVE  entered[q][Call(p).team] >= entered[p][Call(p).team]
<1> DEFINE u == Call(p).team
           s == Slot(p)
           c == made[p][u][2]
<1>0. Types /\ MoreTypes
  BY DEF SlotsInv, IInv
<1>1. /\ at[p] \in 1..Len(program) /\ Call(p) = program[at[p]] /\ program[at[p]].op = "barrier"
      /\ u \in Made /\ handle[p][u] # Invalid /\ s = handle[p][u] /\ s \in Slots
  BY InsideIs
<1>2. s = made[p][u][1] /\ MakesOne(p, u) /\ made[p][u] # NotYet
  <2>1. FollowsAs(at[p], count[p], handle[p], made[p], entered[p])
    BY DEF SlotsInv, Follows
  <2>2. handle[p][u] = made[p][u][1]
    BY <2>1, <1>1 DEF FollowsAs
  <2>3. made[p][u][1] # Invalid /\ s = made[p][u][1]
    BY <2>2, <1>1
  <2>4. made[p][u] # NotYet
    BY <2>3 DEF NotYet
  <2> QED
    BY <2>3, <2>4 DEF MakesOne
<1>3. c \in Nat /\ entered[p][u] \in Nat /\ entered[q][u] \in Nat /\ count[p] \in Nat
  BY <1>0, <1>1 DEF MoreTypes
<1>4. count[p] = c + entered[p][u]
  BY <1>1 DEF SlotsInv, Counted, InBarrier
<1>5. MakesOne(q, u) /\ made[q][u][2] = c
  BY <1>2 DEF MakesOne
<1>6. CASE handle[q][u] # Invalid
  <2>1. handle[q][u] = s
    <3>1. FollowsAs(at[q], count[q], handle[q], made[q], entered[q])
      BY DEF SlotsInv, Follows
    <3>2. handle[q][u] = made[q][u][1]
      BY <1>1, <1>6, <3>1 DEF FollowsAs
    <3> QED BY <1>2, <3>2
  <2>2. count[q] > 0 /\ Slot(q) = s => InBarrier(q, u)
    <3> SUFFICES ASSUME count[q] > 0, Slot(q) = s PROVE InBarrier(q, u)
      OBVIOUS
    <3>1. Call(q).team \in Made /\ handle[q][Call(q).team] = handle[q][u]
      BY <2>1, InsideIs
    <3>2. Call(q).team = u
      BY <1>1, <1>6, <3>1 DEF SlotsInv, IInv, IndicesAreTheTeams
    <3> QED BY <3>2 DEF InBarrier
  <2>3. sync_pool[q][s] <= sync_counter[q][s] + (IF count[q] > 0 /\ Slot(q) = s THEN 1 ELSE 0)
    BY <1>1 DEF SlotsInv, Counted
  <2>4. sync_counter[q][s] + (IF InBarrier(q, u) THEN 1 ELSE 0) = c + entered[q][u]
    BY <1>1, <1>5, <1>6, <2>1 DEF SlotsInv, Counted
  <2>5. sync_counter[q][s] \in Nat /\ sync_pool[q][s] \in Nat
    BY <1>0, <1>1 DEF MoreTypes
  <2>6. sync_pool[q][s] <= c + entered[q][u]
    BY <1>3, <2>2, <2>3, <2>4, <2>5
  <2> HIDE DEF u, s, c
  <2>7. c + entered[p][u] <= c + entered[q][u]
    BY <1>3, <1>4, <2>5, <2>6 DEF s
  <2>8. entered[p][u] <= entered[q][u]
    BY <1>3, <2>7
  <2> QED BY <2>8 DEF u
<1>7. CASE handle[q][u] = Invalid
  <2>1. Gone(u, at[q])
    BY <1>1, <1>5, <1>7 DEF SlotsInv, Follows, FollowsAs, MakesOne
  <2>2. ~(count[q] > 0 /\ program[at[q]].team = u)
    BY <1>7 DEF SlotsInv, Follows, FollowsAs
  <2>3. entered[q][u] = Rounds(u, at[q]) + 0
    BY <1>1, <1>5, <2>2 DEF SlotsInv, Follows, FollowsAs, MakesOne
  <2>4. entered[p][u] = Rounds(u, at[p]) + 1 /\ ~Gone(u, at[p])
    BY <1>1, <1>2 DEF SlotsInv, Follows, FollowsAs, MakesOne
  <2>5. at[p] \in Nat \ {0} /\ at[q] \in Nat \ {0} /\ u \in Nat
    BY <1>0, <1>1, TeamsAssumption DEF Types, Made, TeamsAssumption
  <2>6. Number(at[p]) >= u
    <3>1. ~(u > Number(at[p] - 1))
      BY <1>1, <1>2 DEF SlotsInv, Follows, FollowsAs
    <3>2. at[p] - 1 \in Nat /\ at[p] - 1 <= at[p]
      BY <2>5
    <3>3. Number(at[p] - 1) \in Nat /\ Number(at[p]) \in Nat /\ Number(at[p] - 1) <= Number(at[p])
      BY <2>5, <3>2, NumberGrows
    <3> QED BY <2>5, <3>1, <3>3
  <2>7. Counts(u, at[p])
    BY <1>1, <2>4, <2>6 DEF Counts
  <2>8. Rounds(u, at[p] + 1) = Rounds(u, at[p]) + 1
    BY <1>0, <1>1, <2>7, OneMore
  <2>9. PICK d \in 1..at[q] - 1 : program[d].op = "destroy" /\ program[d].team = u /\ Number(d) >= u
    BY <2>1 DEF Gone
  <2>10. d \notin 1..at[p] - 1
    BY <2>4, <2>9 DEF Gone
  <2>11. d # at[p]
    BY <1>1, <2>9
  <2>12. at[p] + 1 <= at[q] /\ at[p] + 1 \in Nat /\ at[q] \in Nat
    BY <2>5, <2>9, <2>10, <2>11
  <2>13. Rounds(u, at[p] + 1) <= Rounds(u, at[q]) /\ Rounds(u, at[p] + 1) \in Nat /\ Rounds(u, at[q]) \in Nat
    BY <2>12, RoundsGrow
  <2>14. entered[p][u] = Rounds(u, at[p] + 1) /\ entered[q][u] = Rounds(u, at[q])
    BY <2>3, <2>4, <2>8, <2>13
  <2> QED BY <2>13, <2>14
<1> QED BY <1>6, <1>7

\* A member that is behind in a barrier that ends has parted.
LEMMA ExitParts ==
  ASSUME SlotsInv, NEW p \in PEs, Exit(p), NEW q \in Behind(p, Call(p).team)
  PROVE  /\ Call(p).team \in Made /\ q \in PEs /\ q \in Members(Call(p).team)
         /\ Parted(p, q, Call(p).team)
<1> DEFINE u == Call(p).team
           s == Slot(p)
           c == made[p][u][2]
           team == pool[p][s]
<1>0. Types /\ MoreTypes /\ count[p] > 0
  BY DEF SlotsInv, IInv, Exit
<1>1. /\ u \in Made /\ handle[p][u] # Invalid /\ s = handle[p][u] /\ s \in Slots
      /\ team \in Tuples /\ PlacedAs(p, team, u)
  BY <1>0, InsideIs
<1>2. q \in Members(u) /\ entered[q][u] < entered[p][u]
  BY DEF Behind
<1>3. PICK i \in 0..team.size - 1 : q = Global(team, i)
  BY <1>1, <1>2 DEF PlacedAs, Members
<1>4. q \in PEs
  <2>1. /\ team.start \in Int /\ team.start >= 0 /\ team.stride \in Int /\ team.stride >= 1
        /\ team.size - 1 \in Int /\ i \in Int /\ 0 <= i /\ i <= team.size - 1
    <3>1. /\ team.start \in Int /\ team.stride \in Int /\ team.size \in Int
          /\ team.start >= 0 /\ team.stride >= 1
      BY <1>1 DEF Tuples, PlacedAs
    <3> HIDE DEF team
    <3> QED BY <1>3, <3>1
  <2>2. /\ team.start + i * team.stride \in Int /\ 0 <= team.start + i * team.stride
        /\ team.start + i * team.stride <= team.start + (team.size - 1) * team.stride
    BY <2>1, Between
  <2>3. team.start + (team.size - 1) * team.stride < N
    BY <1>1 DEF PlacedAs, Global
  <2>4. (team.size - 1) * team.stride \in Int
    BY <2>1
  <2>5. q = team.start + i * team.stride
    BY <1>3 DEF Global
  <2> HIDE DEF team
  <2> QED BY <2>1, <2>2, <2>3, <2>4, <2>5, TeamsAssumption DEF PEs, TeamsAssumption
<1>5. s = made[p][u][1] /\ MakesOne(p, u)
  BY <1>1 DEF SlotsInv, Follows, FollowsAs, MakesOne
<1>6. c \in Nat /\ entered[p][u] \in Nat /\ entered[q][u] \in Nat /\ count[p] \in Nat
  BY <1>0, <1>1, <1>4 DEF MoreTypes
<1>7. count[p] = c + entered[p][u]
  BY <1>0, <1>1 DEF SlotsInv, Counted, InBarrier
<1>8. sync_pool[q][s] >= count[p]
  <2>1. ~(visit[p] < team.size) /\ visit[p] \in Nat
    BY <1>0 DEF Exit, Visits, MoreTypes
  <2>2. i \in 0..visit[p] - 1
    BY <1>1, <1>3, <2>1 DEF Tuples
  <2> QED BY <1>0, <1>3, <1>4, <2>2 DEF SlotsInv, Signalled
<1>9. sync_pool[q][s] > c
  <2>1. sync_pool[q][s] \in Nat
    BY <1>0, <1>1, <1>4 DEF MoreTypes
  <2> HIDE DEF s, c, u
  <2>2. entered[p][u] >= 1
    BY <1>2, <1>6
  <2> QED BY <1>6, <1>7, <1>8, <2>1, <2>2
<1>10. made[q][u] # made[p][u]
  <2> SUFFICES ASSUME made[q][u] = made[p][u] PROVE FALSE
    OBVIOUS
  <2>1. entered[q][u] >= entered[p][u]
    BY <1>0, <1>4, <1>8, AlikeIsBehind
  <2> QED BY <1>2, <1>6, <2>1
<1> QED BY <1>1, <1>2, <1>4, <1>5, <1>9, <1>10 DEF Parted

\* A step lets nobody pass early but where the teams differ.
LEMMA EarlyKept ==
  ASSUME SlotsInv, NEW r \in PEs, Step(r)
  PROVE  EarlyDiffers'
<1>0. MoreTypes /\ UNCHANGED <<program, splits, places>>
  BY FixedStay DEF SlotsInv
<1>1. \A t : Members(t)' = Members(t)
  BY <1>0 DEF Members
<1>2. SUFFICES ASSUME NEW t \in early'
               PROVE  \E p, q \in PEs : q \in Members(t) /\ Parted(p, q, t)'
  BY <1>1 DEF EarlyDiffers
<1>3. CASE t \in early
  <2>1. PICK p, q \in PEs : q \in Members(t) /\ Parted(p, q, t)
    BY <1>3 DEF SlotsInv, EarlyDiffers
  <2>2. t \in Made
    BY <1>0, <1>3 DEF MoreTypes
  <2> QED BY <2>1, <2>2, PartedStay
<1>4. CASE t \notin early
  <2>1. Exit(r)
    BY <1>2, <1>4, SplitsAre
       DEF Step, SplitSteps, Destroy, BarrierOfOthers, Enter, Signal, Await
  <2>2. t = Call(r).team /\ Behind(r, t) # {}
    BY <1>2, <1>4, <2>1 DEF Exit
  <2>3. PICK q \in Behind(r, t) : TRUE
    BY <2>2
  <2>4. t \in Made /\ q \in PEs /\ q \in Members(t) /\ Parted(r, q, t)
    BY <2>1, <2>2, <2>3, ExitParts
  <2> QED BY <2>4, PartedStay
<1> QED BY <1>3, <1>4

\* At first there is the world, and no slot has been used.
LEMMA InitSlots == Init => SlotsInv
<1> SUFFICES ASSUME Init PROVE SlotsInv
  OBVIOUS
<1> USE TeamsAssumption DEF TeamsAssumption
<1>0. IInv /\ Types
  BY InitInv DEF IInv
<1>1. World \in Made /\ World \in Slots /\ Invalid # World /\ World = 0
  BY DEF World, Made, Slots, Invalid
<1>2. MoreTypes
  <2>1. pool \in [PEs -> [Slots -> Tuples]]
    BY DEF Init, PEs, Tuples, Team
  <2>2. made \in [PEs -> [Made -> (Slots \cup {Invalid}) \X Nat]]
    BY <1>1 DEF Init, NotYet
  <2>3. splits = Splits /\ places = Places
    BY DEF Init
  <2>4. sync_pool \in [PEs -> [Slots -> Nat]] /\ sync_counter \in [PEs -> [Slots -> Nat]]
    BY DEF Init
  <2>5. count \in [PEs -> Nat] /\ visit \in [PEs -> Nat] /\ entered \in [PEs -> [Made -> Nat]]
        /\ early \subseteq Made
    BY DEF Init
  <2> QED BY <2>1, <2>2, <2>3, <2>4, <2>5 DEF MoreTypes
<1>3. ASSUME NEW p \in PEs PROVE Follows(p) /\ Counted(p) /\ Signalled(p)
  <2>1. /\ at[p] = 1 /\ count[p] = 0
        /\ handle[p] = [t \in Made |-> IF t = World THEN World ELSE Invalid]
        /\ made[p] = [t \in Made |-> IF t = World THEN <<World, 0>> ELSE NotYet]
        /\ entered[p] = [t \in Made |-> 0]
        /\ sync_pool[p] = [s \in Slots |-> 0] /\ sync_counter[p] = [s \in Slots |-> 0]
    BY DEF Init
  <2>2. Number(1 - 1) = 0
    <3>1. {j \in 1..0 : program[j].op = "split"} = {}
      OBVIOUS
    <3> QED BY <3>1, FS_EmptySet DEF Number
  <2>3. \A t : Rounds(t, 1) = 0 /\ ~Gone(t, 1)
    <3>1. 1 \in Nat /\ 1..1 - 1 = {}
      OBVIOUS
    <3> QED BY <3>1, NoRounds
  <2>4. Follows(p)
    <3>1. ASSUME NEW t \in Made
          PROVE  /\ made[p][t] = NotYet <=> t > Number(1 - 1)
                 /\ handle[p][t] # Invalid => handle[p][t] = made[p][t][1]
                 /\ made[p][t][1] # Invalid => (handle[p][t] = Invalid <=> Gone(t, 1)) /\ entered[p][t] = 0
                 /\ made[p][t][1] = Invalid => entered[p][t] = 0
      BY <1>1, <2>1, <2>2, <2>3 DEF NotYet, Made
    <3> QED BY <2>1, <2>3, <3>1 DEF Follows, FollowsAs
  <2>5. Counted(p)
    BY <1>1, <2>1 DEF Counted, InBarrier
  <2>6. Signalled(p)
    BY <2>1 DEF Signalled
  <2> QED BY <2>4, <2>5, <2>6
<1>4. ASSUME NEW p \in PEs, NEW t \in Made, handle[p][t] # Invalid PROVE Placed(p, t)
  <2>1. t = World /\ pool[p][handle[p][t]] = Team(0, 1, N, p)
    BY <1>1, <1>4 DEF Init
  <2> DEFINE team == Team(0, 1, N, p)
  <2>2. team.start = 0 /\ team.stride = 1 /\ team.size = N /\ team.mype = p
    BY DEF Team
  <2>3. \A i \in Int : Global(team, i) = i
    BY <2>2 DEF Global
  <2>4. places[World] = [i \in PEs |-> i]
    <3>1. Places = [u \in 0..Number(Len(program)) |-> PlacesFrom(Places, u)]
      BY <1>0, PlacesAre
    <3>2. Number(Len(program)) \in Nat
      BY <1>0, ProgramIs, NumberGrows
    <3>3. Places[World] = PlacesFrom(Places, World)
      BY <1>1, <3>1, <3>2
    <3> QED BY <1>2, <3>3 DEF MoreTypes, PlacesFrom
  <2>5. p \in 0..N - 1 /\ N \in Nat /\ N >= 1
    BY DEF PEs
  <2> HIDE DEF team
  <2>6. PlacedAs(p, team, World)
    BY <2>2, <2>3, <2>4, <2>5 DEF PlacedAs, PEs
  <2> QED BY <2>1, <2>6 DEF Placed, team
<1>5. EarlyDiffers
  BY DEF Init, EarlyDiffers
<1> QED BY <1>0, <1>2, <1>3, <1>4, <1>5 DEF SlotsInv

\* What ties the slots of a team together, for any programs: it is inductive.
THEOREM TeamsSlots == Spec => []SlotsInv
<1>1. ASSUME SlotsInv, NEW p \in PEs, Step(p) PROVE SlotsInv'
  <2>1. IInv'
    BY <1>1, SplitKeeps, DestroyKeeps, OthersKeep DEF SlotsInv
  <2>2. ASSUME NEW q \in PEs PROVE (Follows(q) /\ Counted(q) /\ Signalled(q))'
    <3>1. Counted(q)'
      <4>1. CASE q = p
        BY <1>1, <4>1, CountedKept
      <4>2. CASE q # p
        <5>1. /\ handle'[q] = handle[q] /\ sync_pool'[q] = sync_pool[q]
              /\ sync_counter'[q] = sync_counter[q] /\ count'[q] = count[q]
              /\ made'[q] = made[q] /\ entered'[q] = entered[q] /\ at'[q] = at[q]
          BY <1>1, <4>2, OthersStay
        <5>2. program' = program
          BY <1>1, FixedStay
        <5>3. Counted(q)
          BY <1>1 DEF SlotsInv
        <5> QED BY <5>1, <5>2, <5>3 DEF Counted, InBarrier, Slot, Call
      <4> QED BY <4>1, <4>2
    <3> QED BY <1>1, <3>1, FollowsKept, SignalledKept
  <2> QED BY <1>1, <2>1, <2>2, MoreTypesKept, PlacedKept, EarlyKept DEF SlotsInv
<1>2. ASSUME SlotsInv, UNCHANGED vars PROVE SlotsInv'
  <2> USE <1>2 DEF vars, fixed, host, slots
  <2>1. IInv'
    BY DEF SlotsInv, IInv, Types, HandlesArePast, IndicesAreTheTeams, Number
  <2>2. MoreTypes'
    <3>1. Splits' = Splits /\ Number(Len(program))' = Number(Len(program))
      BY DEF Splits, SplitAt, Number
    <3>2. Places' = Places
      BY <3>1 DEF Places, PlacesFrom
    <3> QED BY <3>1, <3>2 DEF SlotsInv, MoreTypes
  <2>3. ASSUME NEW p \in PEs PROVE (Follows(p) /\ Counted(p) /\ Signalled(p))'
    <3>1. Follows(p)'
      BY FollowsNext DEF SlotsInv, Follows
    <3>2. Counted(p)'
      BY DEF SlotsInv, Counted, InBarrier, Slot, Call
    <3>3. Signalled(p)'
      BY DEF SlotsInv, Signalled, Slot, Call, Global
    <3> QED BY <3>1, <3>2, <3>3
  <2>4. ASSUME NEW p \in PEs, NEW t \in Made, handle'[p][t] # Invalid PROVE Placed(p, t)'
    <3>1. Placed(p, t)
      BY <2>4 DEF SlotsInv
    <3> QED BY <3>1 DEF Placed, PlacedAs, Members, NumberedAsWorld, Global
  <2>5. EarlyDiffers'
    BY DEF SlotsInv, EarlyDiffers, Parted, MakesOne, Members
  <2> QED BY <2>1, <2>2, <2>3, <2>4, <2>5 DEF SlotsInv
<1>3. SlotsInv /\ [Next]_vars => SlotsInv'
  BY <1>1, <1>2 DEF Next
<1> QED BY InitSlots, <1>3, PTL DEF Spec

\* The doc's promise of a barrier (shmem_device_cc.h:57), on the slots of teams
\* that are made locally on every PE: nobody passes a barrier of a team early, for
\* any programs, unless two of those that make the team, or should, made it with
\* different indices or on slots with different counters.
THEOREM TeamsNobodyPassesEarly == Spec => []AlikeNobodyPassesEarly
<1>1. ASSUME SlotsInv PROVE AlikeNobodyPassesEarly
  <2>1. SUFFICES ASSUME NEW t \in early, AllMade(t) PROVE Differs(t)
    BY DEF AlikeNobodyPassesEarly
  <2>2. PICK p, q \in PEs : q \in Members(t) /\ Parted(p, q, t)
    BY <1>1, <2>1 DEF SlotsInv, EarlyDiffers
  <2>3. made[q][t] # NotYet /\ made[p][t] # NotYet /\ made[q][t] # made[p][t]
    BY <2>1, <2>2 DEF AllMade, Parted, MakesOne, NotYet
  <2>4. p \in Concerned(t) /\ q \in Concerned(t)
    BY <2>2 DEF Concerned, Parted
  <2> QED BY <2>3, <2>4 DEF Differs
<1> QED BY <1>1, TeamsSlots, PTL

-----------------------------------------------------------------------------
\* Every number of a team is that of a split.
LEMMA SplitAtIs ==
  ASSUME Types, MoreTypes, NEW t \in DOMAIN splits
  PROVE  SplitAt(t) \in 1..Len(program) /\ program[SplitAt(t)].op = "split" /\ Number(SplitAt(t)) = t
<1>1. Number(Len(program)) \in Nat /\ DOMAIN splits = 1..Number(Len(program))
  BY ProgramIs, NumberGrows DEF MoreTypes, Splits
<1>2. \E i \in 1..Len(program) : program[i].op = "split" /\ Number(i) = t
  <2> DEFINE S == {n \in Nat : n <= Len(program) =>
                     \A m \in 1..Number(n) :
                       \E i \in 1..Len(program) : program[i].op = "split" /\ Number(i) = m}
  <2>1. 0 \in S
    <3>1. Number(0) = 0
      <4>1. {j \in 1..0 : program[j].op = "split"} = {}
        OBVIOUS
      <4> QED BY <4>1, FS_EmptySet DEF Number
    <3> QED BY <3>1
  <2>2. ASSUME NEW n \in Nat, n \in S PROVE n + 1 \in S
    <3>1. SUFFICES ASSUME n + 1 <= Len(program), NEW m \in 1..Number(n + 1)
                   PROVE  \E i \in 1..Len(program) : program[i].op = "split" /\ Number(i) = m
      OBVIOUS
    <3>2. n + 1 \in Nat \ {0} /\ (n + 1) - 1 = n /\ n + 1 \in 1..Len(program)
      BY <3>1, ProgramIs
    <3>3. /\ Number(n) \in Nat /\ Number(n + 1) \in Nat
          /\ program[n + 1].op = "split" => Number(n + 1) = Number(n) + 1
          /\ program[n + 1].op # "split" => Number(n + 1) = Number(n)
      BY <3>2, NumberCounts
    <3>4. CASE m \in 1..Number(n)
      BY <2>2, <3>2, <3>4
    <3>5. CASE m \notin 1..Number(n)
      BY <3>1, <3>2, <3>3, <3>5
    <3> QED BY <3>4, <3>5
  <2> HIDE DEF S
  <2>3. Len(program) \in S
    BY <2>1, <2>2, InductionOnSets, ProgramIs
  <2> QED BY <1>1, <2>3 DEF S
<1> QED BY <1>2 DEF SplitAt

\* A team with members has them from its parent, an earlier team.
LEMMA MembersFrom ==
  ASSUME Types, MoreTypes, NEW t \in DOMAIN splits, Members(t) # {}
  PROVE  LET o == splits[t] IN
         /\ t \in Made /\ t # World /\ o \in Ops /\ o.team \in 0..t - 1 /\ o.stride >= 1 /\ o.size >= 1
         /\ \A i \in 0..o.size - 1 : o.start + i * o.stride \in DOMAIN places[o.team]
         /\ Members(o.team) # {}
<1> DEFINE o == splits[t]
<1>1. /\ Number(Len(program)) \in Nat /\ Number(Len(program)) <= MaxTeams
      /\ DOMAIN splits = 1..Number(Len(program))
  BY ProgramIs, NumberGrows DEF MoreTypes, Splits
<1>2. t \in Made /\ t # World /\ t \in 0..Number(Len(program))
  BY <1>1, TeamsAssumption DEF TeamsAssumption, Made, World
<1>3. o \in Ops
  <2>1. o = program[SplitAt(t)]
    BY <1>1 DEF MoreTypes, Splits
  <2>2. SplitAt(t) \in 1..Len(program)
    BY SplitAtIs
  <2> QED BY <2>1, <2>2, ProgramIs
<1>4. places[t] = PlacesFrom(places, t)
  <2>1. Places = [n \in 0..Number(Len(program)) |-> PlacesFrom(Places, n)]
    BY PlacesAre
  <2> QED BY <1>2, <2>1 DEF MoreTypes
<1> DEFINE asked == {o.start + i * o.stride : i \in 0..o.size - 1}
<1>5. /\ o.team \in 0..t - 1 /\ o.stride >= 1 /\ asked \subseteq DOMAIN places[o.team]
      /\ places[t] = [i \in 0..o.size - 1 |-> places[o.team][o.start + i * o.stride]]
  <2>1. places[t] # <<>>
    BY DEF Members
  <2> QED BY <1>2, <1>4, <2>1 DEF PlacesFrom
<1>6. PICK i \in 0..o.size - 1 : TRUE
  <2>1. DOMAIN places[t] = 0..o.size - 1
    BY <1>5
  <2> QED BY <2>1 DEF Members
<1>7. o.size >= 1
  <2>1. o.size \in Int
    BY <1>3 DEF Ops
  <2> HIDE DEF o
  <2> QED BY <1>6, <2>1
<1>8. Members(o.team) # {}
  <2>1. o.start + i * o.stride \in DOMAIN places[o.team]
    BY <1>5, <1>6
  <2> QED BY <2>1 DEF Members
<1> QED BY <1>2, <1>3, <1>5, <1>7, <1>8

\* A multiple is one.
LEMMA DivMultiple ==
  \A i, g \in Int : i >= 0 /\ g >= 1 => (i * g) % g = 0 /\ (i * g) \div g = i /\ i * g >= 0
OBVIOUS

\* What is at most a part of a product.
LEMMA AtMost ==
  \A a, i, d, n \in Int : d >= 1 /\ i >= 0 /\ a >= 0 /\ a + i * d <= n => i <= n - a
OBVIOUS

\* The arguments of a split with members are accepted wherever the parent is.
LEMMA MembersAccept ==
  ASSUME SlotsInv, NEW p \in PEs, Calls(p, "split"), Members(Number(at[p])) # {},
         Valid(p, handle[p][Call(p).team])
  PROVE  Accepted(p)
<1> DEFINE t == Number(at[p])
           o == Call(p)
           par == Parent(p)
<1>0. Types /\ MoreTypes
  BY DEF SlotsInv, IInv
<1>1. o \in Ops /\ par \in Tuples /\ PlacedAs(p, par, o.team) /\ splits[t] = o
  BY ParentIs
<1>2. t \in DOMAIN splits
  <2>1. at[p] \in 1..Len(program) /\ program[at[p]].op = "split"
    BY <1>0, CallIs DEF Calls
  <2> QED BY <1>0, <2>1, SplitIs DEF MoreTypes
<1>3. /\ o.stride >= 1 /\ o.size >= 1 /\ Members(o.team) # {}
      /\ \A i \in 0..o.size - 1 : o.start + i * o.stride \in DOMAIN places[o.team]
  BY <1>0, <1>1, <1>2, MembersFrom
<1>4. /\ o.start \in Int /\ o.stride \in Int /\ o.size \in Int
      /\ par.start \in Int /\ par.stride \in Int /\ par.size \in Int
      /\ par.start >= 0 /\ par.stride >= 1 /\ par.size >= 1
      /\ Global(par, par.size - 1) < N
      /\ DOMAIN places[o.team] = 0..par.size - 1
  BY <1>1, <1>3 DEF Ops, Tuples, PlacedAs
<1> HIDE DEF o, par, t
<1>5. \A i \in 0..o.size - 1 : o.start + i * o.stride \in 0..par.size - 1
  BY <1>3, <1>4
<1>6. o.start \in 0..par.size - 1
  <2>1. 0 \in 0..o.size - 1 /\ o.start + 0 * o.stride = o.start
    BY <1>3, <1>4
  <2> QED BY <1>5, <2>1
<1>7. o.start + (o.size - 1) * o.stride \in 0..par.size - 1
  <2>1. o.size - 1 \in 0..o.size - 1
    BY <1>3, <1>4
  <2> QED BY <1>5, <2>1
<1>8. o.size \in 1..par.size
  <2>1. o.size - 1 \in Int /\ o.size - 1 >= 0 /\ par.size - 1 \in Int /\ o.start >= 0
    BY <1>3, <1>4, <1>6
  <2>2. o.start + (o.size - 1) * o.stride <= par.size - 1
    BY <1>4, <1>7
  <2>3. o.size - 1 <= (par.size - 1) - o.start
    BY <1>3, <1>4, <2>1, <2>2, AtMost
  <2> QED BY <1>3, <1>4, <2>1, <2>3
<1>9. ASSUME NEW k \in 0..par.size - 1 PROVE par.start + k * par.stride < N
  <2>1. par.size - 1 \in Int /\ k \in Int /\ 0 <= k /\ k <= par.size - 1
    BY <1>4
  <2>2. /\ par.start + k * par.stride \in Int
        /\ par.start + k * par.stride <= par.start + (par.size - 1) * par.stride
    BY <1>4, <2>1, Between
  <2>3. par.start + (par.size - 1) * par.stride < N
    BY <1>4 DEF Global
  <2>4. (par.size - 1) * par.stride \in Int
    BY <1>4
  <2> QED BY <1>4, <2>2, <2>3, <2>4, TeamsAssumption DEF TeamsAssumption
<1>10. GlobalStart(p) < N
  BY <1>6, <1>9 DEF GlobalStart, Global, o, par
<1>11. GlobalEnd(p) < N
  <2>1. par.start + (o.start + (o.size - 1) * o.stride) * par.stride < N
    BY <1>7, <1>9
  <2>2. par.start + (o.start + (o.size - 1) * o.stride) * par.stride
          = (par.start + o.start * par.stride) + (o.size - 1) * (par.stride * o.stride)
    BY <1>4, GlobalOfGlobal, SMTT(40)
  <2>3. (o.size - 1) * (par.stride * o.stride) = (par.stride * o.stride) * (o.size - 1)
    BY <1>4
  <2> QED BY <2>1, <2>2, <2>3 DEF GlobalEnd, GlobalStart, GlobalStride, Global, o, par
<1> QED BY <1>3, <1>6, <1>8, <1>10, <1>11 DEF Accepted, o, par

\* The parent of a team somebody has made is one they have.
LEMMA ParentIsHeld ==
  ASSUME SlotsInv, NEW p \in PEs, Calls(p, "split"),
         Members(Number(at[p])) # {}, NumberedAsWorld(Call(p).team),
         MakesOne(p, Call(p).team), ~Destroyed(Call(p).team, Number(at[p]))
  PROVE  Accepted(p) /\ Parent(p).mype = p
<1> DEFINE t == Number(at[p])
           u == Call(p).team
<1>0. Types /\ MoreTypes
  BY DEF SlotsInv, IInv
<1>1. /\ at[p] \in 1..Len(program) /\ program[at[p]].op = "split" /\ Call(p) = program[at[p]]
      /\ u \in Made
  BY <1>0, CallIs DEF Calls
<1>2. ~Gone(u, at[p])
  <2>1. \A j \in 1..at[p] - 1 : Number(j) < t
    BY <1>0, <1>1, SplitIs
  <2>2. \A j \in 1..at[p] - 1 : j \in 1..Len(program)
    BY <1>0, <1>1, ProgramIs
  <2> QED BY <2>1, <2>2 DEF Gone, Destroyed
<1>3. handle[p][u] # Invalid
  BY <1>1, <1>2 DEF SlotsInv, Follows, FollowsAs, MakesOne
<1>4. Valid(p, handle[p][u])
  BY <1>1, <1>3 DEF SlotsInv, IInv, IndicesAreTheTeams, Valid
<1>5. Accepted(p)
  BY <1>4, MembersAccept
<1>6. Parent(p) \in Tuples /\ PlacedAs(p, Parent(p), u)
  BY <1>4, ParentIs
<1>7. Members(u) # {}
  BY <1>5, MembersAre
<1> QED BY <1>5, <1>6, <1>7, NumbersAreWorlds

\* Who belongs to a new team is who the interface has in it.
LEMMA BelongsIs ==
  ASSUME SlotsInv, NEW p \in PEs, Calls(p, "split"), Members(Number(at[p])) # {},
         Accepted(p), Parent(p).mype = p
  PROVE  Belongs(p) <=> p \in Members(Number(at[p]))
<1> DEFINE t == Number(at[p])
           n == Call(p).size
           g == GlobalStride(p)
           a == GlobalStart(p)
<1>1. DOMAIN places[t] = 0..n - 1 /\ \A i \in 0..n - 1 : places[t][i] = a + i * g
  BY MembersAre
<1>2. a \in Int /\ g \in Int /\ g >= 1 /\ n \in Int /\ p \in Int
  <2>1. Call(p) \in Ops
    BY ParentIs DEF Accepted
  <2>2. a \in Int /\ g \in Int /\ g >= 1
    BY GlobalsAre
  <2> QED BY <2>1, <2>2, TeamsAssumption DEF Ops, PEs, TeamsAssumption
<1>3. Belongs(p) <=> (p - a) >= 0 /\ (p - a) % g = 0 /\ (p - a) \div g < n
  BY DEF Belongs
<1>4. p \in Members(t) <=> \E i \in 0..n - 1 : p = a + i * g
  BY <1>1 DEF Members
<1> HIDE DEF t, n, g, a
<1>5. ASSUME (p - a) >= 0, (p - a) % g = 0, (p - a) \div g < n
      PROVE  \E i \in 0..n - 1 : p = a + i * g
  <2>1. /\ (p - a) \div g \in Int /\ (p - a) \div g >= 0
        /\ ((p - a) \div g) * g = p - a
    <3>1. p - a \in Int
      BY <1>2
    <3> QED BY <1>2, <1>5, <3>1, DivExact
  <2>2. (p - a) \div g \in 0..n - 1
    BY <1>2, <1>5, <2>1
  <2>3. p = a + ((p - a) \div g) * g
    BY <1>2, <2>1
  <2> QED BY <2>2, <2>3
<1>6. ASSUME NEW i \in 0..n - 1, p = a + i * g
      PROVE  (p - a) >= 0 /\ (p - a) % g = 0 /\ (p - a) \div g < n
  <2>1. i \in Int /\ i >= 0 /\ i < n
    BY <1>2
  <2>2. (i * g) % g = 0 /\ (i * g) \div g = i /\ i * g >= 0 /\ i * g \in Int
    BY <1>2, <2>1, DivMultiple
  <2>3. p - a = i * g
    BY <1>2, <1>6, <2>2
  <2> QED BY <2>1, <2>2, <2>3
<1> QED BY <1>3, <1>4, <1>5, <1>6 DEF t

\* The PEs that make a team of a parent that is numbered as the world.
MakersAre ==
  \A p \in PEs, t \in DOMAIN splits :
    /\ Members(t) # {} /\ NumberedAsWorld(splits[t].team)
    /\ MakesOne(p, t) \/ made[p][t] = NotMember
    /\ MakesOne(p, splits[t].team) /\ ~Destroyed(splits[t].team, t)
    => (MakesOne(p, t) <=> p \in Members(t))

\* A split makes the team for those who are members.
LEMMA MakersKept ==
  ASSUME SlotsInv, MakersAre, NEW r \in PEs, Step(r)
  PROVE  MakersAre'
<1>0. Types /\ MoreTypes /\ UNCHANGED <<program, splits, places>>
  BY FixedStay DEF SlotsInv, IInv
<1>1. \A t, b : /\ Members(t)' = Members(t) /\ (NumberedAsWorld(t)' <=> NumberedAsWorld(t))
                /\ Destroyed(t, b)' <=> Destroyed(t, b)
  BY <1>0 DEF Members, NumberedAsWorld, Destroyed, Number
<1>2. SUFFICES ASSUME NEW p \in PEs, NEW t \in DOMAIN splits,
                      Members(t) # {}, NumberedAsWorld(splits[t].team),
                      MakesOne(p, t)' \/ made'[p][t] = NotMember,
                      MakesOne(p, splits[t].team)', ~Destroyed(splits[t].team, t)
               PROVE  MakesOne(p, t)' <=> p \in Members(t)
  <2> DEFINE P(x, y) == /\ Members(y) # {} /\ NumberedAsWorld(splits[y].team)
                        /\ MakesOne(x, y)' \/ made'[x][y] = NotMember
                        /\ MakesOne(x, splits[y].team)' /\ ~Destroyed(splits[y].team, y)
                        => (MakesOne(x, y)' <=> x \in Members(y))
  <2>1. \A x \in PEs, y \in DOMAIN splits : P(x, y)
    BY <1>2
  <2>2. (\A x \in PEs, y \in DOMAIN splits : P(x, y)) => MakersAre'
    BY <1>0, <1>1 DEF MakersAre, MakesOne
  <2> QED BY <2>1, <2>2
<1>3. PICK u \in 0..t - 1 : t \in Made /\ u = splits[t].team
  BY <1>0, <1>2, MembersFrom
<1>4. u \in Made /\ t \in Nat /\ u \in Nat /\ u < t
  BY <1>3, TeamsAssumption DEF Made, TeamsAssumption
<1>7. made'[p][u][1] # Invalid
  BY <1>0, <1>2, <1>3 DEF MakesOne
<1>5. CASE made[p][t] # NotYet
  <2>1. made'[p][t] = made[p][t]
    BY <1>3, <1>5, MadeStays
  <2>2. made[p][u] # NotYet
    <3>1. made[p][t] = NotYet <=> t > Number(at[p] - 1)
      BY <1>3 DEF SlotsInv, Follows, FollowsAs
    <3>2. made[p][u] = NotYet <=> u > Number(at[p] - 1)
      BY <1>4 DEF SlotsInv, Follows, FollowsAs
    <3>3. Number(at[p] - 1) \in Nat
      <4>1. at[p] \in Nat \ {0}
        BY <1>0 DEF Types
      <4> QED BY <4>1, NumberCounts
    <3> QED BY <1>4, <1>5, <3>1, <3>2, <3>3
  <2>3. made'[p][u] = made[p][u]
    BY <1>4, <2>2, MadeStays
  <2>4. MakesOne(p, t)' <=> MakesOne(p, t)
    BY <2>1 DEF MakesOne
  <2> QED BY <1>2, <1>3, <1>7, <2>1, <2>3, <2>4 DEF MakersAre, MakesOne
<1>6. CASE made[p][t] = NotYet
  <2>1. made'[p][t] # NotYet
    BY <1>2 DEF MakesOne, NotYet, NotMember
  <2>2. p = r /\ SplitSteps(p) /\ t = Number(at[p])
    BY <1>3, <1>6, <2>1, MadeStays
  <2>3. Calls(p, "split") /\ splits[t] = Call(p)
    <3>1. /\ Calls(p, "split") /\ at[p] \in 1..Len(program) /\ program[at[p]].op = "split"
          /\ Call(p) = program[at[p]]
      BY <1>0, <2>2, SplitsAre, CallIs
    <3> QED BY <1>0, <2>2, <3>1, SplitIs DEF MoreTypes
  <2>4. MakesOne(p, u)
    <3>1. made[p][u] # NotYet
      <4>1. made[p][u] = NotYet /\ made'[p][u] # NotYet => u = Number(at[p])
        BY <1>4, <2>2, MadeStays
      <4>2. made'[p][u] # NotYet
        BY <1>7 DEF NotYet
      <4> QED BY <1>4, <2>2, <4>1, <4>2
    <3>2. made'[p][u] = made[p][u]
      BY <1>4, <3>1, MadeStays
    <3> QED BY <1>7, <3>2 DEF MakesOne
  <2>5. Accepted(p) /\ Parent(p).mype = p
    BY <1>2, <2>2, <2>3, <2>4, <1>3, ParentIsHeld
  <2>6. Belongs(p) <=> p \in Members(t)
    BY <1>2, <2>2, <2>3, <2>5, BelongsIs
  <2>7. PICK v \in (Slots \cup {Invalid}) \X Nat :
          /\ made' = [made EXCEPT ![p][t] = v]
          /\ \/ v[1] = Invalid /\ (v = NotMember <=> ~(Accepted(p) /\ Belongs(p)))
             \/ v[1] \in Free(p) /\ Accepted(p) /\ Belongs(p)
    BY <2>2, SplitsAre
  <2>8. made'[p][t] = v
    BY <1>0, <1>3, <2>7 DEF MoreTypes
  <2>9. NotMember[1] = Invalid /\ \A s \in Free(p) : s # Invalid
    BY DEF NotMember, Free, Slots, Invalid
  <2>10. MakesOne(p, t)' <=> v[1] # Invalid
    BY <2>8 DEF MakesOne
  <2>11. v[1] # Invalid \/ v = NotMember
    BY <1>2, <2>8, <2>10
  <2>12. v[1] # Invalid <=> Belongs(p)
    BY <2>5, <2>7, <2>9, <2>11
  <2> QED BY <2>6, <2>10, <2>12
<1> QED BY <1>5, <1>6

\* aclshmem_team_split_strided makes the team that its interface says, wherever a
\* PE's number in the parent is its number in the world, which is what the code
\* takes it for: of those who came to the split and had an index to give, the
\* members make the team and nobody else, each at its own place.
THEOREM TeamsSubset == Spec => []TeamIsTheSubset
<1>1. Init => MakersAre
  <2> SUFFICES ASSUME Init, NEW p \in PEs, NEW t \in DOMAIN splits, Members(t) # {}
               PROVE  ~(MakesOne(p, t) \/ made[p][t] = NotMember)
    BY DEF MakersAre
  <2>1. Types /\ MoreTypes
    BY InitSlots DEF SlotsInv, IInv
  <2>2. t \in Made /\ t # World
    BY <2>1, MembersFrom
  <2>3. made[p][t] = NotYet
    BY <2>2 DEF Init
  <2> QED BY <2>3 DEF MakesOne, NotYet, NotMember
<1>2. SlotsInv /\ MakersAre /\ [Next]_vars => MakersAre'
  <2>1. ASSUME MakersAre, UNCHANGED vars PROVE MakersAre'
    <3>1. UNCHANGED <<program, splits, places, made>>
      BY <2>1 DEF vars, fixed
    <3>2. \A t, b : /\ Members(t)' = Members(t) /\ (NumberedAsWorld(t)' <=> NumberedAsWorld(t))
                    /\ Destroyed(t, b)' <=> Destroyed(t, b)
      BY <3>1 DEF Members, NumberedAsWorld, Destroyed, Number
    <3> QED BY <2>1, <3>1, <3>2 DEF MakersAre, MakesOne
  <2> QED BY <2>1, MakersKept DEF Next
<1>3. SlotsInv /\ MakersAre => TeamIsTheSubset
  <2> SUFFICES ASSUME SlotsInv, MakersAre, NEW p \in PEs, NEW t \in DOMAIN splits,
                      Members(t) # {}, NumberedAsWorld(splits[t].team),
                      MakesOne(p, t) \/ made[p][t] = NotMember,
                      MakesOne(p, splits[t].team), ~Destroyed(splits[t].team, t)
               PROVE  /\ MakesOne(p, t) <=> p \in Members(t)
                      /\ handle[p][t] # Invalid => places[t][pool[p][handle[p][t]].mype] = p
    BY DEF TeamIsTheSubset
  <2>1. t \in Made /\ t # World
    BY MembersFrom DEF SlotsInv, IInv
  <2>2. handle[p][t] # Invalid => Placed(p, t)
    BY <2>1 DEF SlotsInv
  <2> QED BY <2>1, <2>2 DEF MakersAre, Placed, PlacedAs
<1> QED BY <1>1, <1>2, <1>3, TeamsSlots, PTL DEF Spec

-----------------------------------------------------------------------------
\* Quotient and remainder.
LEMMA QuotientIs ==
  \A q, x \in Int : x >= 1 =>
    /\ q \div x \in Int /\ q % x \in 0..x - 1 /\ (q \div x) * x \in Int
    /\ q % x = q - (q \div x) * x
OBVIOUS

\* Multiples grow.
LEMMA MultipleGrows ==
  \A q, r, x \in Int : x >= 1 /\ q <= r => q * x <= r * x
OBVIOUS

\* There is no other.
LEMMA QuotientUnique ==
  \A r, c, x \in Int : x >= 1 /\ 0 <= c /\ c < x =>
    (r * x + c) \div x = r /\ (r * x + c) % x = c
<1> SUFFICES ASSUME NEW r \in Int, NEW c \in Int, NEW x \in Int, x >= 1, 0 <= c, c < x
             PROVE  (r * x + c) \div x = r /\ (r * x + c) % x = c
  OBVIOUS
<1> DEFINE q == (r * x + c) \div x
           m == (r * x + c) % x
<1>1. r * x \in Int /\ r * x + c \in Int
  OBVIOUS
<1>2. q \in Int /\ m \in 0..x - 1 /\ q * x \in Int /\ r * x + c = q * x + m
  BY <1>1, QuotientIs
<1> HIDE DEF q, m
<1>3. ~(q < r)
  <2> SUFFICES ASSUME q < r PROVE FALSE
    OBVIOUS
  <2>1. (q + 1) * x <= r * x /\ (q + 1) * x = q * x + x
    BY <1>2, MultipleGrows
  <2> QED BY <1>1, <1>2, <2>1
<1>4. ~(q > r)
  <2> SUFFICES ASSUME q > r PROVE FALSE
    OBVIOUS
  <2>1. (r + 1) * x <= q * x /\ (r + 1) * x = r * x + x
    BY <1>2, MultipleGrows
  <2> QED BY <1>1, <1>2, <2>1
<1>5. q = r
  BY <1>2, <1>3, <1>4
<1>6. m = c
  BY <1>1, <1>2, <1>5
<1> QED BY <1>5, <1>6 DEF q, m

\* Quotients grow.
LEMMA QuotientGrows ==
  \A q, r, x \in Int : x >= 1 /\ q <= r => q \div x <= r \div x
OBVIOUS

\* What a split asks for, in numbers of the parent.
Asked(o) == {o.start + i * o.stride : i \in 0..o.size - 1}

\* The numbers in a row and in a column of a grid that is x wide.
Row(size, x, k) == {q \in 0..size - 1 : q \div x = k - 1}
Column(size, x, k) == {q \in 0..size - 1 : q % x = k - 1}
RowsOf(size, x) == 1..(size - 1) \div x + 1

\* The splits for the rows, of which the last may be short.
LEMMA RowsAre ==
  ASSUME NEW w, NEW size \in Nat \ {0}, NEW x \in 1..size
  PROVE  /\ DOMAIN XTeams(w, size, x) = RowsOf(size, x)
         /\ \A k \in DOMAIN XTeams(w, size, x) :
              Asked(XTeams(w, size, x)[k]) = Row(size, x, k)
<1>1. (size + x - 1) \div x = (size - 1) \div x + 1
  OBVIOUS
<1>2. DOMAIN XTeams(w, size, x) = RowsOf(size, x)
  BY <1>1 DEF XTeams, RowsOf
<1>3. ASSUME NEW k \in RowsOf(size, x)
      PROVE  Asked(XTeams(w, size, x)[k]) = Row(size, x, k)
  <2> DEFINE o == XTeams(w, size, x)[k]
             a == (k - 1) * x
  <2>1. o = SplitCall(w, a, 1, Lesser(x, size - a), "x")
    BY <1>2, <1>3 DEF XTeams
  <2>2. o.start = a /\ o.stride = 1 /\ o.size = Lesser(x, size - a)
    BY <2>1 DEF SplitCall
  <2>3. x \in Int /\ x >= 1 /\ size - 1 \in Int /\ (size - 1) \div x \in Int
    BY QuotientIs
  <2>4. k - 1 \in Int /\ k - 1 >= 0
    BY <1>3, <2>3 DEF RowsOf
  <2>5. a \in Int /\ a >= 0
    BY <2>3, <2>4, NoNegative
  <2> HIDE DEF o
  <2>6. o.size \in Int /\ (\A i \in Int : i < o.size <=> i < x /\ i < size - a)
    <3> HIDE DEF a
    <3> QED BY <2>2, <2>3, <2>5 DEF Lesser
  <2>7. ASSUME NEW i \in 0..o.size - 1
        PROVE  a + i \in Row(size, x, k)
    <3>1. i \in Int /\ 0 <= i /\ i < x /\ i < size - a
      BY <2>6
    <3>2. (a + i) \div x = k - 1
      BY <2>3, <2>4, <3>1, QuotientUnique
    <3>3. a + i \in 0..size - 1
      <4> HIDE DEF a
      <4> QED BY <2>5, <3>1
    <3> QED BY <3>2, <3>3 DEF Row
  <2>8. ASSUME NEW q \in Row(size, x, k)
        PROVE  \E i \in 0..o.size - 1 : q = a + i
    <3>1. q \in 0..size - 1 /\ q \in Int /\ q \div x = k - 1
      BY DEF Row
    <3>2. q % x \in 0..x - 1 /\ q % x = q - a
      BY <2>3, <3>1, QuotientIs
    <3> DEFINE i == q % x
    <3>3. i \in Int /\ i >= 0 /\ i < x /\ i = q - a
      BY <2>3, <3>2
    <3> HIDE DEF a, i
    <3>4. i < size - a /\ q = a + i
      BY <2>5, <3>1, <3>3
    <3>5. i \in 0..o.size - 1
      BY <2>6, <3>3, <3>4
    <3> QED BY <3>4, <3>5
  <2> HIDE DEF a
  <2>9. \A i \in 0..o.size - 1 : o.start + i * o.stride = a + i
    BY <2>2, <2>6
  <2>10. Asked(o) = Row(size, x, k)
    <3>1. Asked(o) = {a + i : i \in 0..o.size - 1}
      BY <2>9 DEF Asked
    <3> QED BY <2>7, <2>8, <3>1
  <2> QED BY <2>10 DEF o
<1> QED BY <1>2, <1>3

\* The splits for the columns, of which the last ones may be short.
LEMMA ColumnsAre ==
  ASSUME NEW w, NEW size \in Nat \ {0}, NEW x \in 1..size
  PROVE  /\ DOMAIN YTeams(w, size, x) = 1..x
         /\ \A k \in DOMAIN YTeams(w, size, x) :
              Asked(YTeams(w, size, x)[k]) = Column(size, x, k)
<1>1. DOMAIN YTeams(w, size, x) = 1..x
  BY DEF YTeams
<1>2. ASSUME NEW k \in 1..x
      PROVE  Asked(YTeams(w, size, x)[k]) = Column(size, x, k)
  <2> DEFINE o == YTeams(w, size, x)[k]
             d == size \div x
             m == size % x
             n == d + IF k <= m THEN 1 ELSE 0
  <2>1. o.start = k - 1 /\ o.stride = x /\ o.size = n
    BY DEF YTeams, SplitCall
  <2>2. /\ d \in Int /\ m \in 0..x - 1 /\ d * x \in Int /\ m = size - d * x
        /\ k - 1 \in 0..x - 1 /\ k - 1 \in Int /\ x \in Int /\ x >= 1
    BY QuotientIs
  <2> HIDE DEF o, d, m
  <2>3. n \in Int
    BY <2>2
  <2>4. ASSUME NEW i \in Int, i >= 0
        PROVE  i < n <=> i * x + (k - 1) < size
    <3>1. i * x \in Int
      OBVIOUS
    <3>2. CASE i < d
      <4>1. (i + 1) * x <= d * x /\ (i + 1) * x = i * x + x
        BY <2>2, <3>2, MultipleGrows
      <4> QED BY <2>2, <3>1, <3>2, <4>1
    <3>3. CASE i = d
      BY <2>2, <3>1, <3>3
    <3>4. CASE i > d
      <4>1. (d + 1) * x <= i * x /\ (d + 1) * x = d * x + x
        BY <2>2, <3>4, MultipleGrows
      <4> QED BY <2>2, <3>1, <3>4, <4>1
    <3> QED BY <2>2, <3>2, <3>3, <3>4
  <2> HIDE DEF n
  <2>5. ASSUME NEW i \in 0..n - 1
        PROVE  (k - 1) + i * x \in Column(size, x, k)
    <3>1. i \in Int /\ i >= 0 /\ i < n
      BY <2>3
    <3>2. i * x \in Int /\ i * x >= 0
      BY <2>2, <3>1, NoNegative
    <3>3. i * x + (k - 1) < size
      BY <2>4, <3>1
    <3>4. 0 <= k - 1 /\ k - 1 < x
      BY <2>2
    <3>5. (i * x + (k - 1)) % x = k - 1
      <4> DEFINE c == k - 1
      <4> HIDE DEF c
      <4>1. c \in Int /\ 0 <= c /\ c < x
        BY <2>2, <3>4 DEF c
      <4>2. (i * x + c) % x = c
        BY <2>2, <3>1, <4>1, QuotientUnique
      <4> QED BY <4>2 DEF c
    <3>6. (k - 1) + i * x = i * x + (k - 1)
      BY <3>2
    <3> QED BY <2>2, <3>2, <3>3, <3>5, <3>6 DEF Column
  <2>6. ASSUME NEW q \in Column(size, x, k)
        PROVE  \E i \in 0..n - 1 : q = (k - 1) + i * x
    <3>1. q \in 0..size - 1 /\ q \in Int /\ q % x = k - 1
      BY DEF Column
    <3>2. q \div x \in Int /\ (q \div x) * x \in Int /\ q % x = q - (q \div x) * x
      BY <2>2, <3>1, QuotientIs
    <3>3. q \div x >= 0
      <4>1. 0 \div x = 0
        OBVIOUS
      <4> QED BY <2>2, <3>1, <4>1, QuotientGrows
    <3> DEFINE i == q \div x
    <3>4. i \in Int /\ i * x \in Int /\ i >= 0 /\ q = (k - 1) + i * x /\ i * x + (k - 1) < size
      BY <2>2, <3>1, <3>2, <3>3
    <3> HIDE DEF i
    <3>5. i < n
      BY <2>4, <3>4
    <3>6. i \in 0..n - 1
      BY <2>3, <3>4, <3>5
    <3> QED BY <3>4, <3>6
  <2>7. Asked(o) = {(k - 1) + i * x : i \in 0..n - 1}
    BY <2>1 DEF Asked
  <2>8. Asked(o) = Column(size, x, k)
    BY <2>5, <2>6, <2>7
  <2> QED BY <2>8 DEF o
<1> QED BY <1>1, <1>2

\* Every place of the grid is in one row and in one column, which have nobody
\* else in common.
LEMMA CellIs ==
  ASSUME NEW size \in Nat \ {0}, NEW x \in 1..size, NEW p \in 0..size - 1
  PROVE  \E i \in RowsOf(size, x), j \in 1..x :
           /\ \A k \in RowsOf(size, x) : p \in Row(size, x, k) <=> k = i
           /\ \A k \in 1..x : p \in Column(size, x, k) <=> k = j
           /\ Row(size, x, i) \cap Column(size, x, j) = {p}
<1> DEFINE a == p \div x
           c == p % x
           b == (size - 1) \div x
<1>1. p \in Int /\ x \in Int /\ x >= 1 /\ size - 1 \in Int /\ 0 \div x = 0
  OBVIOUS
<1>2. a \in Int /\ a >= 0 /\ a <= b /\ c \in 0..x - 1 /\ b \in Int
  BY <1>1, QuotientGrows, QuotientIs
<1>3. RowsOf(size, x) = 1..b + 1
  BY DEF RowsOf
<1>4. \A k : /\ p \in Row(size, x, k) <=> a = k - 1
             /\ p \in Column(size, x, k) <=> c = k - 1
  BY DEF Row, Column
<1>5. \A q \in Row(size, x, a + 1) \cap Column(size, x, c + 1) : q = p
  <2> SUFFICES ASSUME NEW q \in 0..size - 1, q \div x = (a + 1) - 1, q % x = (c + 1) - 1
               PROVE  q = p
    BY DEF Row, Column
  <2>1. q \in Int /\ q \div x = a /\ q % x = c
    <3> HIDE DEF a, c
    <3> QED BY <1>1, <1>2
  <2>2. q % x = q - (q \div x) * x /\ p % x = p - (p \div x) * x /\ (p \div x) * x \in Int
    BY <1>1, <2>1, QuotientIs
  <2>3. c = q - a * x /\ c = p - a * x /\ a * x \in Int
    BY <2>1, <2>2
  <2> HIDE DEF a, c
  <2> QED BY <1>1, <2>1, <2>3
<1> HIDE DEF a, b, c
<1>6. a + 1 \in RowsOf(size, x) /\ c + 1 \in 1..x
  BY <1>1, <1>2, <1>3
<1>7. ASSUME NEW k \in RowsOf(size, x) PROVE p \in Row(size, x, k) <=> k = a + 1
  <2>1. k \in Int
    BY <1>3
  <2> QED BY <1>2, <1>4, <2>1
<1>8. ASSUME NEW k \in 1..x PROVE p \in Column(size, x, k) <=> k = c + 1
  <2>1. k \in Int /\ c \in Int
    BY <1>2
  <2> QED BY <1>4, <2>1
<1>9. Row(size, x, a + 1) \cap Column(size, x, c + 1) = {p}
  BY <1>5, <1>6, <1>7, <1>8
<1> QED BY <1>6, <1>7, <1>8, <1>9

\* No row and no column is empty.
LEMMA NoneIsEmpty ==
  ASSUME NEW size \in Nat \ {0}, NEW x \in 1..size
  PROVE  /\ \A k \in RowsOf(size, x) : Row(size, x, k) # {}
         /\ \A k \in 1..x : Column(size, x, k) # {}
<1>1. x \in Int /\ x >= 1 /\ size - 1 \in Int
  OBVIOUS
<1>2. ASSUME NEW k \in RowsOf(size, x) PROVE Row(size, x, k) # {}
  <2> DEFINE b == (size - 1) \div x
             q == (k - 1) * x
  <2>1. /\ b \in Int /\ b * x \in Int /\ (size - 1) % x = (size - 1) - b * x
        /\ (size - 1) % x \in 0..x - 1
    BY <1>1, QuotientIs
  <2>2. k - 1 \in Int /\ k - 1 >= 0 /\ k - 1 <= b
    BY <1>2, <2>1 DEF RowsOf
  <2>3. q \in Int /\ q >= 0 /\ q <= b * x
    BY <1>1, <2>1, <2>2, NoNegative, MultipleGrows
  <2>4. (q + 0) \div x = k - 1
    BY <1>1, <2>2, QuotientUnique
  <2> HIDE DEF q, b
  <2>5. q \in 0..size - 1 /\ q + 0 = q
    BY <1>1, <2>1, <2>3
  <2> QED BY <2>4, <2>5 DEF Row
<1>3. ASSUME NEW k \in 1..x PROVE Column(size, x, k) # {}
  <2> DEFINE c == k - 1
  <2>1. c \in Int /\ 0 <= c /\ c < x /\ c \in 0..size - 1
    BY <1>1
  <2> HIDE DEF c
  <2>2. (0 * x + c) % x = c /\ 0 * x + c = c
    BY <1>1, <2>1, QuotientUnique
  <2> QED BY <2>1, <2>2 DEF Column, c
<1> QED BY <1>2, <1>3

\* The splits of aclshmem_team_split_2d are a grid for every size of the parent
\* and every x_range, the last row and the last columns short or not: they ask for
\* members of the parent only, each member is in one row and in one column, and
\* the two have nobody else in common.
THEOREM SplitTwoDCovers ==
  ASSUME NEW w, NEW size \in Nat \ {0}, NEW x_range \in Nat \ {0}
  PROVE  LET range == Lesser(x_range, size)
             rows == XTeams(w, size, range)
             columns == YTeams(w, size, range)
         IN  /\ SplitTwoD(w, size, x_range) = rows \o columns
             /\ \A i \in DOMAIN rows : Asked(rows[i]) \subseteq 0..size - 1
             /\ \A j \in DOMAIN columns : Asked(columns[j]) \subseteq 0..size - 1
             /\ \A p \in 0..size - 1 :
                  \E i \in DOMAIN rows, j \in DOMAIN columns :
                    /\ \A k \in DOMAIN rows : p \in Asked(rows[k]) <=> k = i
                    /\ \A k \in DOMAIN columns : p \in Asked(columns[k]) <=> k = j
                    /\ Asked(rows[i]) \cap Asked(columns[j]) = {p}
<1> DEFINE x == Lesser(x_range, size)
           rows == XTeams(w, size, x)
           columns == YTeams(w, size, x)
<1>1. x \in 1..size
  BY DEF Lesser
<1>2. SplitTwoD(w, size, x_range) = rows \o columns
  BY DEF SplitTwoD
<1> HIDE DEF x
<1>3. DOMAIN rows = RowsOf(size, x) /\ \A k \in DOMAIN rows : Asked(rows[k]) = Row(size, x, k)
  BY <1>1, RowsAre
<1>4. DOMAIN columns = 1..x /\ \A k \in DOMAIN columns : Asked(columns[k]) = Column(size, x, k)
  BY <1>1, ColumnsAre
<1> HIDE DEF rows, columns
<1>5. ASSUME NEW p \in 0..size - 1
      PROVE  \E i \in DOMAIN rows, j \in DOMAIN columns :
               /\ \A k \in DOMAIN rows : p \in Asked(rows[k]) <=> k = i
               /\ \A k \in DOMAIN columns : p \in Asked(columns[k]) <=> k = j
               /\ Asked(rows[i]) \cap Asked(columns[j]) = {p}
  <2>1. PICK i \in RowsOf(size, x), j \in 1..x :
          /\ \A k \in RowsOf(size, x) : p \in Row(size, x, k) <=> k = i
          /\ \A k \in 1..x : p \in Column(size, x, k) <=> k = j
          /\ Row(size, x, i) \cap Column(size, x, j) = {p}
    BY <1>1, CellIs
  <2>2. i \in DOMAIN rows /\ j \in DOMAIN columns
    BY <1>3, <1>4
  <2>3. /\ \A k \in DOMAIN rows : p \in Asked(rows[k]) <=> k = i
        /\ \A k \in DOMAIN columns : p \in Asked(columns[k]) <=> k = j
        /\ Asked(rows[i]) \cap Asked(columns[j]) = {p}
    BY <1>3, <1>4, <2>1, <2>2
  <2> QED BY <2>2, <2>3
<1>6. /\ \A i \in DOMAIN rows : Asked(rows[i]) \subseteq 0..size - 1
      /\ \A j \in DOMAIN columns : Asked(columns[j]) \subseteq 0..size - 1
  BY <1>3, <1>4 DEF Row, Column
<1> QED BY <1>2, <1>5, <1>6 DEF x, rows, columns

-----------------------------------------------------------------------------
\* A program with a grid of the world, x wide, has the splits for its rows, then
\* those for its columns, and no other for an axis.
IsSplit(i, axis) ==
  /\ program[i].op = "split" /\ program[i].team = World /\ program[i].stride >= 1
  /\ program[i].axis = axis

Rows(x) == (N - 1) \div x + 1

HasGrid(x) ==
  /\ Rows(x) + x <= Len(program)
  /\ \A i \in 1..Rows(x) : IsSplit(i, "x") /\ Asked(program[i]) = Row(N, x, i)
  /\ \A j \in 1..x :
       /\ IsSplit(Rows(x) + j, "y")
       /\ Asked(program[Rows(x) + j]) = Column(N, x, j)
  /\ \A i \in Rows(x) + x + 1..Len(program) : program[i].axis = "none"

\* There are rows.
LEMMA SomeRows == ASSUME NEW x \in 1..N PROVE Rows(x) \in Nat /\ Rows(x) >= 1
<1> DEFINE n == N - 1
           b == n \div x
<1>1. n \in Int /\ n >= 0 /\ x \in Int /\ x >= 1 /\ 0 \div x = 0
  BY TeamsAssumption DEF TeamsAssumption
<1>2. Rows(x) = b + 1
  BY DEF Rows
<1> HIDE DEF n
<1>3. b \in Int
  BY <1>1, QuotientIs
<1>4. b >= 0
  BY <1>1, QuotientGrows
<1> HIDE DEF b
<1> QED BY <1>2, <1>3, <1>4

\* So is the grid of a program that has one.
LEMMA GridIs ==
  ASSUME Types, \E i \in 1..Len(program) : program[i].axis = "y"
  PROVE  \E x \in 1..N : HasGrid(x)
<1>1. PICK x \in 1..N :
        LET grid == SplitTwoD(World, N, x)
        IN  /\ Len(grid) <= Len(program)
            /\ \A i \in 1..Len(grid) : program[i] = grid[i]
            /\ \A i \in Len(grid) + 1..Len(program) : program[i].axis = "none"
  BY GridAssumption DEF GridAssumption, Types
<1> DEFINE rows == XTeams(World, N, x)
           columns == YTeams(World, N, x)
           grid == SplitTwoD(World, N, x)
           a == Rows(x)
<1>2. N \in Nat \ {0} /\ x \in Nat /\ x >= 1 /\ a \in Nat
  BY SomeRows, TeamsAssumption DEF TeamsAssumption
<1>3. Lesser(x, N) = x
  BY <1>2 DEF Lesser
<1>4. grid = rows \o columns
  BY <1>3 DEF SplitTwoD
<1>5. DOMAIN rows = 1..a /\ \A k \in 1..a : Asked(rows[k]) = Row(N, x, k)
  BY <1>2, RowsAre DEF RowsOf, Rows
<1>6. DOMAIN columns = 1..x /\ \A k \in 1..x : Asked(columns[k]) = Column(N, x, k)
  BY <1>2, ColumnsAre
<1> DEFINE IsCall(o, axis) == o.op = "split" /\ o.team = World /\ o.stride >= 1 /\ o.axis = axis
           S == {rows[k] : k \in 1..a} \cup {columns[k] : k \in 1..x}
<1>7. \A k \in 1..a : IsCall(rows[k], "x")
  <2>1. \A k \in 1..a : \E b, n : rows[k] = SplitCall(World, b, 1, n, "x")
    BY <1>5 DEF XTeams
  <2>2. \A b, n : IsCall(SplitCall(World, b, 1, n, "x"), "x")
    BY DEF SplitCall
  <2> HIDE DEF rows, IsCall
  <2> QED BY <2>1, <2>2
<1>8. \A k \in 1..x : IsCall(columns[k], "y")
  BY <1>2, <1>6 DEF YTeams, SplitCall
<1>9. rows \in Seq(S) /\ Len(rows) = a /\ columns \in Seq(S) /\ Len(columns) = x
  <2>1. rows = [k \in 1..a |-> rows[k]] /\ columns = [k \in 1..x |-> columns[k]]
    BY <1>5, <1>6 DEF XTeams, YTeams
  <2>2. (\A k \in 1..a : rows[k] \in S) /\ (\A k \in 1..x : columns[k] \in S)
    OBVIOUS
  <2> HIDE DEF rows, columns, S, a
  <2>3. rows \in [1..a -> S] /\ columns \in [1..x -> S]
    BY <2>1, <2>2
  <2>4. \A n \in Nat : \A g \in [1..n -> S] : g \in Seq(S) /\ Len(g) = n
    OBVIOUS
  <2> QED BY <1>2, <2>3, <2>4
<1> HIDE DEF rows, columns, grid, a, S, IsCall
<1>10. /\ Len(grid) = a + x
       /\ \A k \in 1..a : grid[k] = rows[k]
       /\ \A k \in 1..x : grid[a + k] = columns[k]
  <2>1. /\ Len(grid) = a + x
        /\ \A i \in 1..a + x : grid[i] = IF i <= a THEN rows[i] ELSE columns[i - a]
    BY <1>4, <1>9, ConcatProperties
  <2>2. ASSUME NEW k \in 1..x PROVE grid[a + k] = columns[k]
    <3>1. a + k \in 1..a + x /\ ~(a + k <= a) /\ (a + k) - a = k
      BY <1>2
    <3> QED BY <2>1, <3>1
  <2> QED BY <1>2, <2>1, <2>2
<1>11. ASSUME NEW k \in 1..a PROVE IsSplit(k, "x") /\ Asked(program[k]) = Row(N, x, k)
  <2>1. program[k] = rows[k]
    BY <1>1, <1>2, <1>10 DEF grid
  <2> QED BY <1>5, <1>7, <2>1 DEF IsSplit, IsCall
<1>12. ASSUME NEW k \in 1..x PROVE IsSplit(a + k, "y") /\ Asked(program[a + k]) = Column(N, x, k)
  <2>1. a + k \in 1..a + x
    BY <1>2
  <2>2. program[a + k] = columns[k]
    BY <1>1, <1>10, <2>1 DEF grid
  <2> QED BY <1>6, <1>8, <2>2 DEF IsSplit, IsCall
<1>13. HasGrid(x)
  BY <1>1, <1>10, <1>11, <1>12 DEF HasGrid, a, grid
<1> QED BY <1>13

\* The splits of the grid are the first of the program, in order.
LEMMA GridNumbers ==
  ASSUME Types, NEW x \in 1..N, HasGrid(x)
  PROVE  \A i \in 1..Rows(x) + x :
           /\ i \in 1..Len(program) /\ program[i].op = "split" /\ program[i].team = World
           /\ program[i].stride >= 1 /\ Number(i) = i
<1> DEFINE a == Rows(x)
           S == {n \in Nat : n <= a + x => Number(n) = n}
<1>1. a \in Nat /\ x \in Nat /\ Len(program) \in Nat /\ a + x <= Len(program)
  BY SomeRows, ProgramIs, TeamsAssumption DEF HasGrid, TeamsAssumption
<1>2. ASSUME NEW i \in 1..a + x
      PROVE  /\ i \in 1..Len(program) /\ program[i].op = "split" /\ program[i].team = World
             /\ program[i].stride >= 1
  <2>1. i \in 1..Len(program)
    BY <1>1
  <2>2. CASE i <= a
    <3>1. i \in 1..Rows(x)
      BY <1>1, <2>2
    <3> QED BY <2>1, <3>1 DEF HasGrid, IsSplit
  <2>3. CASE i > a
    <3>1. i - a \in 1..x /\ a + (i - a) = i
      BY <1>1, <2>3
    <3> QED BY <2>1, <3>1 DEF HasGrid, IsSplit
  <2> QED BY <1>1, <2>2, <2>3
<1> HIDE DEF a
<1>3. 0 \in S
  <2>1. {j \in 1..0 : program[j].op = "split"} = {}
    OBVIOUS
  <2>2. Number(0) = 0
    BY <2>1, FS_EmptySet DEF Number
  <2> QED BY <2>2
<1>4. ASSUME NEW n \in Nat, n \in S PROVE n + 1 \in S
  <2> SUFFICES ASSUME n + 1 <= a + x PROVE Number(n + 1) = n + 1
    OBVIOUS
  <2>1. n + 1 \in 1..a + x /\ n + 1 \in Nat \ {0} /\ (n + 1) - 1 = n /\ Number(n) = n
    BY <1>1, <1>4
  <2>2. program[n + 1].op = "split" => Number(n + 1) = Number(n) + 1
    BY <2>1, NumberCounts
  <2> QED BY <1>2, <2>1, <2>2
<1>5. \A i \in 1..a + x : Number(i) = i
  <2> HIDE DEF S
  <2>1. Nat \subseteq S
    BY <1>3, <1>4, InductionOnSets
  <2> QED BY <1>1, <2>1 DEF S
<1> QED BY <1>2, <1>5 DEF a

\* Their teams have the members they ask for, and the world is not destroyed
\* before the last one.
LEMMA GridPlaces ==
  ASSUME Types, MoreTypes, NEW x \in 1..N, HasGrid(x), NEW i \in 1..Rows(x) + x,
         Asked(program[i]) \subseteq 0..N - 1
  PROVE  /\ i \in DOMAIN splits /\ splits[i] = program[i] /\ i \in Made
         /\ Members(i) = Asked(program[i])
         /\ NumberedAsWorld(World) /\ ~Destroyed(World, i)
<1> DEFINE o == program[i]
<1>0. Rows(x) \in Nat /\ x \in Nat /\ N \in Nat
  BY SomeRows, TeamsAssumption DEF TeamsAssumption
<1>1. /\ i \in 1..Len(program) /\ o.op = "split" /\ o.team = World /\ o.stride >= 1
      /\ Number(i) = i /\ i \in Nat
  BY <1>0, GridNumbers
<1>2. /\ i \in DOMAIN splits /\ splits[i] = o /\ i \in Made /\ i # World
      /\ i \in 0..Number(Len(program))
  BY <1>1, SplitIs DEF MoreTypes
<1>3. places[World] = [p \in PEs |-> p] /\ places[i] = PlacesFrom(places, i)
  <2>1. places = [t \in 0..Number(Len(program)) |-> PlacesFrom(places, t)]
    BY PlacesAre DEF MoreTypes
  <2>2. World \in 0..Number(Len(program))
    BY ProgramIs, NumberGrows DEF World
  <2>3. places[World] = PlacesFrom(places, World)
    BY <2>1, <2>2
  <2> QED BY <1>2, <2>1, <2>3 DEF PlacesFrom
<1>4. NumberedAsWorld(World)
  BY <1>3 DEF NumberedAsWorld
<1>5. Members(i) = Asked(o)
  <2>1. World \in 0..i - 1
    BY <1>1, <1>2 DEF World
  <2>2. Asked(o) \subseteq DOMAIN places[World]
    BY <1>3 DEF PEs
  <2>3. places[i] = [k \in 0..o.size - 1 |-> places[World][o.start + k * o.stride]]
    <3>1. PlacesFrom(places, i) =
            IF o.team \in 0..i - 1 /\ o.stride >= 1 /\ Asked(o) \subseteq DOMAIN places[o.team]
            THEN [k \in 0..o.size - 1 |-> places[o.team][o.start + k * o.stride]] ELSE <<>>
      BY <1>2 DEF PlacesFrom, Asked
    <3> HIDE DEF o
    <3> QED BY <1>1, <1>3, <2>1, <2>2, <3>1
  <2>4. ASSUME NEW k \in 0..o.size - 1
        PROVE  o.start + k * o.stride \in PEs /\ places[i][k] = o.start + k * o.stride
    BY <1>3, <2>2, <2>3 DEF Asked
  <2>5. DOMAIN places[i] = 0..o.size - 1
    BY <2>3
  <2> QED BY <2>4, <2>5 DEF Members, Asked
<1>6. ~Destroyed(World, i)
  <2> SUFFICES ASSUME NEW d \in 1..Len(program), program[d].op = "destroy", Number(d) < i
               PROVE  FALSE
    BY DEF Destroyed
  <2>1. d \notin 1..Rows(x) + x
    BY GridNumbers
  <2>2. d \in Nat /\ i <= d
    BY <1>0, <2>1, ProgramIs
  <2>3. Number(i) <= Number(d) /\ Number(d) \in Nat
    BY <1>1, <2>2, NumberGrows
  <2> QED BY <1>1, <2>3
<1> QED BY <1>2, <1>4, <1>5, <1>6

\* The splits for an axis are those of the grid.
LEMMA GridAxes ==
  ASSUME Types, MoreTypes, NEW x \in 1..N, HasGrid(x), NEW t \in DOMAIN splits
  PROVE  /\ splits[t].axis = "x" <=> t \in 1..Rows(x)
         /\ splits[t].axis = "y" <=> t \in Rows(x) + 1..Rows(x) + x
<1>0. Rows(x) \in Nat /\ x \in Nat /\ N \in Nat /\ Len(program) \in Nat
  BY SomeRows, ProgramIs, TeamsAssumption DEF TeamsAssumption
<1>1. /\ SplitAt(t) \in 1..Len(program) /\ Number(SplitAt(t)) = t
      /\ splits[t] = program[SplitAt(t)]
  BY SplitAtIs DEF MoreTypes, Splits
<1>2. CASE SplitAt(t) \in 1..Rows(x)
  <2>1. SplitAt(t) = t
    BY <1>0, <1>1, <1>2, GridNumbers
  <2> QED BY <1>0, <1>1, <1>2, <2>1 DEF HasGrid, IsSplit
<1>3. CASE SplitAt(t) \in Rows(x) + 1..Rows(x) + x
  <2>1. SplitAt(t) = t
    BY <1>0, <1>1, <1>3, GridNumbers
  <2>2. t - Rows(x) \in 1..x /\ Rows(x) + (t - Rows(x)) = t /\ t \notin 1..Rows(x)
    BY <1>0, <1>3, <2>1
  <2>3. program[Rows(x) + (t - Rows(x))].axis = "y"
    BY <2>2 DEF HasGrid, IsSplit
  <2> QED BY <1>1, <1>3, <2>1, <2>2, <2>3
<1>4. CASE SplitAt(t) \notin 1..Rows(x) + x
  <2>1. splits[t].axis = "none"
    BY <1>0, <1>1, <1>4 DEF HasGrid
  <2>2. t \notin 1..Rows(x) + x
    <3> SUFFICES ASSUME t \in 1..Rows(x) + x PROVE FALSE
      OBVIOUS
    <3> DEFINE i == Rows(x) + x
    <3>1. i \in Nat /\ i \in 1..i /\ Number(i) = i
      <4>1. i \in Nat /\ i \in 1..i
        BY <1>0
      <4> QED BY <4>1, GridNumbers
    <3>2. i + 1 \in Nat /\ i + 1 <= SplitAt(t) /\ SplitAt(t) \in Nat /\ program[SplitAt(t)].op = "split"
      BY <1>0, <1>1, <1>4, SplitAtIs
    <3>3. Number(SplitAt(t)) = Number(SplitAt(t) - 1) + 1
      <4>1. SplitAt(t) \in Nat \ {0}
        BY <3>1, <3>2
      <4> QED BY <3>2, <4>1, NumberCounts
    <3>4. i <= SplitAt(t) - 1 /\ SplitAt(t) - 1 \in Nat
      BY <3>1, <3>2
    <3>5. Number(i) <= Number(SplitAt(t) - 1) /\ Number(SplitAt(t) - 1) \in Nat
      BY <3>1, <3>4, NumberGrows
    <3> QED BY <1>1, <3>1, <3>3, <3>5
  <2>3. t \notin 1..Rows(x) /\ t \notin Rows(x) + 1..Rows(x) + x
    BY <1>0, <2>2
  <2> QED BY <2>1, <2>3
<1> QED BY <1>0, <1>1, <1>2, <1>3, <1>4

\* Who makes no team knows why, and all made the world.
Outcomes ==
  /\ \A p \in PEs, t \in Made :
       MakesOne(p, t) \/ made[p][t] \in {NotYet, NotMember, Full, Failed}
  /\ \A p \in PEs : MakesOne(p, World)

\* A split comes to one of them.
LEMMA OutcomesKept ==
  ASSUME SlotsInv, Outcomes, NEW r \in PEs, Step(r)
  PROVE  Outcomes'
<1>0. Types /\ MoreTypes
  BY DEF SlotsInv, IInv
<1>1. ASSUME NEW p \in PEs PROVE MakesOne(p, World)'
  <2>1. World \in Made /\ made[p][World] # NotYet
    BY TeamsAssumption DEF World, Made, TeamsAssumption, Outcomes, MakesOne, NotYet
  <2>2. made'[p][World] = made[p][World]
    BY <2>1, MadeStays
  <2> QED BY <2>2 DEF Outcomes, MakesOne
<1>2. ASSUME NEW p \in PEs, NEW t \in Made
      PROVE  MakesOne(p, t)' \/ made'[p][t] \in {NotYet, NotMember, Full, Failed}
  <2>1. CASE made[p][t] # NotYet
    <3>1. made'[p][t] = made[p][t]
      BY <2>1, MadeStays
    <3> QED BY <3>1 DEF Outcomes, MakesOne
  <2>2. CASE made[p][t] = NotYet /\ made'[p][t] # NotYet
    <3>1. p = r /\ SplitSteps(p) /\ t = Number(at[p])
      BY <2>2, MadeStays
    <3>2. PICK v \in (Slots \cup {Invalid}) \X Nat :
            /\ made' = [made EXCEPT ![p][t] = v]
            /\ v[1] \in Free(p) \/ v \in {NotMember, Full, Failed}
      BY <3>1, SplitsAre
    <3>3. made'[p][t] = v
      BY <1>0, <3>2 DEF MoreTypes
    <3>4. \A s \in Free(p) : s # Invalid
      BY DEF Free, Slots, Invalid
    <3> QED BY <3>2, <3>3, <3>4 DEF MakesOne
  <2> QED BY <2>1, <2>2
<1> QED BY <1>1, <1>2 DEF Outcomes

\* The teams of a PE that has come through the grid.
LEMMA GridIsMade ==
  ASSUME SlotsInv, TeamIsTheSubset, Outcomes, NEW x \in 1..N, HasGrid(x),
         NEW p \in PEs, Done(p), NEW t \in 1..Rows(x) + x, made[p][t] \notin {Full, Failed},
         Asked(program[t]) \subseteq 0..N - 1, Asked(program[t]) # {}
  PROVE  MakesOne(p, t) <=> p \in Members(t)
<1>0. Types /\ MoreTypes
  BY DEF SlotsInv, IInv
<1>1. /\ t \in DOMAIN splits /\ splits[t] = program[t] /\ t \in Made
      /\ Members(t) = Asked(program[t]) /\ NumberedAsWorld(World) /\ ~Destroyed(World, t)
      /\ splits[t].team = World
  BY <1>0, GridPlaces, GridNumbers
<1>2. made[p][t] # NotYet
  <2>1. /\ at[p] - 1 \in Nat /\ Len(program) \in Nat /\ Len(program) <= at[p] - 1
        /\ t \in 1..Len(program) /\ Number(t) = t
    BY <1>0, ProgramIs, GridNumbers DEF Done, Types
  <2>2. t \in Nat /\ t <= at[p] - 1
    BY <2>1
  <2>3. Number(t) <= Number(at[p] - 1) /\ Number(at[p] - 1) \in Nat
    BY <2>1, <2>2, NumberGrows
  <2>4. made[p][t] = NotYet <=> t > Number(at[p] - 1)
    BY <1>1 DEF SlotsInv, Follows, FollowsAs
  <2> QED BY <2>1, <2>2, <2>3, <2>4
<1>3. MakesOne(p, t) \/ made[p][t] = NotMember
  BY <1>1, <1>2 DEF Outcomes
<1> QED BY <1>1, <1>3 DEF TeamIsTheSubset, Outcomes

\* aclshmem_team_split_2d of the world gives every PE one team of each axis, and
\* the two have only this PE in common, for any number of PEs and any x_range.
THEOREM TeamsGrid == Spec => []GridIsAGrid
<1>1. Init => Outcomes
  <2>1. World \in Made
    BY TeamsAssumption DEF World, Made, TeamsAssumption
  <2> QED BY <2>1 DEF Init, Outcomes, MakesOne, World, Invalid
<1>2. SlotsInv /\ Outcomes /\ [Next]_vars => Outcomes'
  <2>1. ASSUME Outcomes, UNCHANGED vars PROVE Outcomes'
    BY <2>1 DEF vars, Outcomes, MakesOne
  <2> QED BY <2>1, OutcomesKept DEF Next
<1>3. SlotsInv /\ TeamIsTheSubset /\ Outcomes => GridIsAGrid
  <2> SUFFICES ASSUME SlotsInv, TeamIsTheSubset, Outcomes, NEW p \in PEs, Done(p),
                      \E i \in 1..Len(program) : program[i].axis = "y",
                      \A t \in DOMAIN splits : made[p][t] \notin {Full, Failed}
               PROVE  LET mine(axis) == {t \in DOMAIN splits :
                                           splits[t].axis = axis /\ MakesOne(p, t)}
                      IN  \E a \in mine("x"), b \in mine("y") :
                            /\ mine("x") = {a} /\ mine("y") = {b}
                            /\ Members(a) \cap Members(b) = {p}
    BY DEF GridIsAGrid
  <2>0. Types /\ MoreTypes /\ N \in Nat \ {0} /\ p \in 0..N - 1
    BY TeamsAssumption DEF SlotsInv, IInv, TeamsAssumption, PEs
  <2>1. PICK x \in 1..N : HasGrid(x)
    BY <2>0, GridIs
  <2>2. Rows(x) \in Nat /\ x \in Nat /\ RowsOf(N, x) = 1..Rows(x)
    BY <2>0, SomeRows DEF RowsOf, Rows
  <2>3. ASSUME NEW k \in 1..Rows(x)
        PROVE  /\ k \in DOMAIN splits /\ splits[k].axis = "x" /\ Members(k) = Row(N, x, k)
               /\ MakesOne(p, k) <=> p \in Row(N, x, k)
    <3>1. Asked(program[k]) = Row(N, x, k) /\ Row(N, x, k) # {} /\ Row(N, x, k) \subseteq 0..N - 1
      BY <2>0, <2>1, <2>2, NoneIsEmpty DEF HasGrid, Row
    <3>2. k \in 1..Rows(x) + x
      BY <2>2
    <3>3. k \in DOMAIN splits /\ Members(k) = Row(N, x, k)
      BY <2>0, <2>1, <3>1, <3>2, GridPlaces
    <3>4. splits[k].axis = "x"
      BY <2>0, <2>1, <3>3, GridAxes
    <3>5. MakesOne(p, k) <=> p \in Members(k)
      BY <2>1, <3>1, <3>2, <3>3, GridIsMade
    <3> QED BY <3>3, <3>4, <3>5
  <2>4. ASSUME NEW k \in 1..x
        PROVE  /\ Rows(x) + k \in DOMAIN splits /\ splits[Rows(x) + k].axis = "y"
               /\ Members(Rows(x) + k) = Column(N, x, k)
               /\ MakesOne(p, Rows(x) + k) <=> p \in Column(N, x, k)
    <3> DEFINE t == Rows(x) + k
    <3>1. Asked(program[t]) = Column(N, x, k) /\ Column(N, x, k) # {} /\ Column(N, x, k) \subseteq 0..N - 1
      BY <2>0, <2>1, NoneIsEmpty DEF HasGrid, Column
    <3>2. t \in 1..Rows(x) + x /\ t \in Rows(x) + 1..Rows(x) + x
      BY <2>2
    <3> HIDE DEF t
    <3>3. t \in DOMAIN splits /\ Members(t) = Column(N, x, k)
      BY <2>0, <2>1, <3>1, <3>2, GridPlaces
    <3>4. splits[t].axis = "y"
      BY <2>0, <2>1, <3>2, <3>3, GridAxes
    <3>5. MakesOne(p, t) <=> p \in Members(t)
      BY <2>1, <3>1, <3>2, <3>3, GridIsMade
    <3> QED BY <3>3, <3>4, <3>5 DEF t
  <2>5. PICK i \in 1..Rows(x), j \in 1..x :
          /\ \A k \in 1..Rows(x) : p \in Row(N, x, k) <=> k = i
          /\ \A k \in 1..x : p \in Column(N, x, k) <=> k = j
          /\ Row(N, x, i) \cap Column(N, x, j) = {p}
    <3>1. \E i \in RowsOf(N, x), j \in 1..x :
            /\ \A k \in RowsOf(N, x) : p \in Row(N, x, k) <=> k = i
            /\ \A k \in 1..x : p \in Column(N, x, k) <=> k = j
            /\ Row(N, x, i) \cap Column(N, x, j) = {p}
      BY <2>0, CellIs
    <3> QED BY <2>2, <3>1
  <2> DEFINE mine(axis) == {t \in DOMAIN splits : splits[t].axis = axis /\ MakesOne(p, t)}
             b == Rows(x) + j
  <2>6. mine("x") = {i}
    <3>1. i \in mine("x")
      BY <2>3, <2>5
    <3>2. ASSUME NEW t \in mine("x") PROVE t = i
      <4>1. t \in 1..Rows(x)
        BY <2>0, <2>1, <3>2, GridAxes
      <4> QED BY <2>3, <2>5, <3>2, <4>1
    <3> QED BY <3>1, <3>2
  <2>7. mine("y") = {b}
    <3>1. b \in mine("y")
      BY <2>4, <2>5
    <3>2. ASSUME NEW t \in mine("y") PROVE t = b
      <4>1. t \in Rows(x) + 1..Rows(x) + x
        BY <2>0, <2>1, <3>2, GridAxes
      <4>2. t - Rows(x) \in 1..x /\ Rows(x) + (t - Rows(x)) = t
        BY <2>2, <4>1
      <4>3. p \in Column(N, x, t - Rows(x))
        BY <2>4, <3>2, <4>2
      <4>4. t - Rows(x) = j
        BY <2>5, <4>2, <4>3
      <4> QED BY <4>2, <4>4
    <3> QED BY <3>1, <3>2
  <2>8. Members(i) \cap Members(b) = {p}
    BY <2>3, <2>4, <2>5
  <2> HIDE DEF b, mine
  <2>9. \E c \in mine("x"), d \in mine("y") :
          mine("x") = {c} /\ mine("y") = {d} /\ Members(c) \cap Members(d) = {p}
    BY <2>6, <2>7, <2>8
  <2> QED BY <2>9 DEF mine
<1> QED BY <1>1, <1>2, <1>3, TeamsSlots, TeamsSubset, PTL DEF Spec

=============================================================================
