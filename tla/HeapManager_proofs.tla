------------------------- MODULE HeapManager_proofs -------------------------
(***************************************************************************)
(* Proofs about the fixed-heap allocator, for every heap size, alignment   *)
(* unit and set of requests.  The inductive invariant says that the idle   *)
(* and the used ranges partition the heap, that idle ranges never touch,   *)
(* and that the two idle trees agree.  It holds of Spec (malloc and free); *)
(* aligned_allocate breaks it.  The last part is about the dynamic heap,   *)
(* whose pool is managed the same way: what stays true of its blocks, and  *)
(* which order of frees they are right for.                                *)
(***************************************************************************)
EXTENDS HeapManager, Sequences, WellFoundedInduction, TLAPS

Covered(x, S) == \E r \in S : r.offset <= x /\ x < End(r)

Partition(I, U) ==
  /\ I \subseteq Ranges
  /\ U \subseteq Ranges
  /\ \A r \in I \cup U : End(r) <= HeapSize
  /\ \A r, q \in I \cup U : r # q => Disjoint(r, q)
  /\ I \cap U = {}
  /\ \A x \in 0..(HeapSize - 1) : Covered(x, I \cup U)
  /\ \A r, q \in I : End(r) # q.offset

ReplyOK ==
  reply \in [call : {"init", "malloc", "free"}, arg : Nat, value : Int \cup {Null}]

HInv ==
  /\ sizeIdle = addressIdle
  /\ Partition(addressIdle, addressUsed)
  /\ ReplyOK

-----------------------------------------------------------------------------
(* Arithmetic of the operators.                                            *)

\* allocated_size_align_up never rounds down, so a block holds its request.
LEMMA AlignUpHolds ==
  ASSUME NEW n \in Nat \ {0}
  PROVE  AlignUp(n) \in Nat \ {0} /\ AlignUp(n) >= n
<1> DEFINE m == n + ALIGN - 1
           k == m \div ALIGN
<1>1. ALIGN \in Nat \ {0} /\ m \in Nat
  BY AlignAssumption
<1>2. k \in Nat /\ k * ALIGN <= m /\ m < (k + 1) * ALIGN
  BY <1>1, Z3
<1>3. (k + 1) * ALIGN = k * ALIGN + ALIGN
  BY <1>1, <1>2, Z3
<1>4. k * ALIGN \in Nat
  BY <1>1, <1>2, Z3
<1> HIDE DEF k
<1>5. k * ALIGN >= n
  BY <1>1, <1>2, <1>3, <1>4
<1>6. AlignUp(n) = k * ALIGN
  BY DEF AlignUp, k
<1> QED
  BY <1>4, <1>5, <1>6

\* A range is a record of its two fields.
LEMMA RangeFields ==
  ASSUME NEW o \in Nat, NEW n \in Nat
  PROVE  /\ Range(o, n).offset = o
         /\ Range(o, n).size = n
         /\ End(Range(o, n)) = o + n
         /\ n # 0 => Range(o, n) \in Ranges
  BY DEF Range, End, Ranges

\* Taking the head of an idle range keeps the partition.
LEMMA SplitKeepsPartition ==
  ASSUME NEW I, NEW U, Partition(I, U), NEW t \in I, NEW m \in 1..t.size
  PROVE  /\ Partition((I \ {t}) \cup Leftover(t, m), U \cup {Range(t.offset, m)})
         /\ Find(U, t.offset) = {}
         /\ Find(I, t.offset) = {t}
         /\ \A r \in Leftover(t, m) : Find(I \ {t}, r.offset) = {}
<1> DEFINE head == Range(t.offset, m)
           tail == Leftover(t, m)
           J == (I \ {t}) \cup tail
           V == U \cup {head}
<1>1. /\ I \subseteq Ranges /\ U \subseteq Ranges
      /\ \A r \in I \cup U : End(r) <= HeapSize
      /\ \A r, q \in I \cup U : r # q => Disjoint(r, q)
      /\ I \cap U = {}
      /\ \A x \in 0..(HeapSize - 1) : Covered(x, I \cup U)
      /\ \A r, q \in I : End(r) # q.offset
  BY DEF Partition
<1>2. t \in Ranges /\ t.offset \in Nat /\ t.size \in Nat /\ m \in Nat /\ m # 0 /\ m <= t.size
  BY <1>1 DEF Ranges
<1>3. HeapSize \in Nat \ {0}
  BY HeapManagerAssumption
<1>4. head \in Ranges /\ head.offset = t.offset /\ End(head) = t.offset + m
  BY <1>2, RangeFields
<1>5. \A r \in tail : /\ r \in Ranges
                      /\ r.offset = t.offset + m
                      /\ End(r) = End(t)
                      /\ m < t.size
  BY <1>2 DEF Leftover, Range, End, Ranges
<1>6. m = t.size \/ \E r \in tail : TRUE
  BY <1>2 DEF Leftover
<1>7. \A r, q \in tail : r = q
  BY DEF Leftover
<1>8. \A r \in (I \cup U) \ {t} : Disjoint(r, t)
  BY <1>1
<1>9. \A r \in (I \cup U) \ {t} : Disjoint(r, head) /\ \A q \in tail : Disjoint(r, q)
  BY <1>1, <1>2, <1>4, <1>5, <1>8 DEF Disjoint, End, Ranges
<1>10. \A q \in tail : Disjoint(head, q)
  BY <1>2, <1>4, <1>5 DEF Disjoint
<1>11. J \subseteq Ranges /\ V \subseteq Ranges
  BY <1>1, <1>4, <1>5
<1>12. \A r \in J \cup V : End(r) <= HeapSize
  BY <1>1, <1>2, <1>3, <1>4, <1>5 DEF End
<1>13. \A r, q \in J \cup V : r # q => Disjoint(r, q)
  <2> SUFFICES ASSUME NEW r \in J \cup V, NEW q \in J \cup V, r # q
               PROVE  Disjoint(r, q)
    OBVIOUS
  <2>1. CASE r \in (I \cup U) \ {t} /\ q \in (I \cup U) \ {t}
    BY <2>1, <1>1
  <2>2. CASE r \in (I \cup U) \ {t} /\ q \in tail \cup {head}
    BY <2>2, <1>9
  <2>3. CASE r \in tail \cup {head} /\ q \in (I \cup U) \ {t}
    BY <2>3, <1>9 DEF Disjoint
  <2>4. CASE r \in tail \cup {head} /\ q \in tail \cup {head}
    BY <2>4, <1>7, <1>10 DEF Disjoint
  <2>5. t \notin U
    BY <1>1
  <2> QED
    BY <2>1, <2>2, <2>3, <2>4, <2>5
<1>14. J \cap V = {}
  <2>1. head \notin I \ {t}
    BY <1>9, <1>4, <1>2 DEF Disjoint, End
  <2>2. \A q \in tail : q \notin U /\ q # head
    BY <1>1, <1>2, <1>4, <1>5, <1>9 DEF Disjoint, End, Ranges
  <2> QED
    BY <1>1, <2>1, <2>2
<1>15. \A x \in 0..(HeapSize - 1) : Covered(x, J \cup V)
  <2> SUFFICES ASSUME NEW x \in 0..(HeapSize - 1)
               PROVE  Covered(x, J \cup V)
    OBVIOUS
  <2>1. PICK r \in I \cup U : r.offset <= x /\ x < End(r)
    BY <1>1 DEF Covered
  <2>2. CASE r # t
    BY <2>1, <2>2 DEF Covered
  <2>3. CASE r = t
    BY <2>1, <2>3, <1>2, <1>3, <1>4, <1>5, <1>6 DEF Covered, End
  <2> QED
    BY <2>2, <2>3
<1>16. \A r, q \in J : End(r) # q.offset
  <2> SUFFICES ASSUME NEW r \in J, NEW q \in J, End(r) = q.offset
               PROVE  FALSE
    OBVIOUS
  <2>1. CASE r \in I \ {t} /\ q \in I \ {t}
    BY <2>1, <1>1
  <2>2. CASE r \in I \ {t} /\ q \in tail
    BY <2>2, <1>1, <1>2, <1>5, <1>8 DEF Disjoint, End, Ranges
  <2>3. CASE r \in tail /\ q \in I \ {t}
    BY <2>3, <1>1, <1>5
  <2>4. CASE r \in tail /\ q \in tail
    BY <2>4, <1>2, <1>5, <1>7 DEF End
  <2> QED
    BY <2>1, <2>2, <2>3, <2>4
<1>17. Find(U, t.offset) = {} /\ Find(I, t.offset) = {t}
  <2>1. \A r \in (I \cup U) \ {t} : r.offset # t.offset
    BY <1>1, <1>2, <1>8 DEF Disjoint, End, Ranges
  <2> QED
    BY <1>1, <2>1 DEF Find
<1>18. \A r \in tail : Find(I \ {t}, r.offset) = {}
  BY <1>1, <1>2, <1>5, <1>9 DEF Disjoint, End, Ranges, Find
<1> QED
  BY <1>11, <1>12, <1>13, <1>14, <1>15, <1>16, <1>17, <1>18 DEF Partition

\* The neighbours of a used block are idle ranges that touch it, or empty.
LEMMA NeighboursTouch ==
  ASSUME NEW I, NEW U, Partition(I, U), NEW b \in U
  PROVE  LET left == LeftNeighbour(I, b)  right == RightNeighbour(I, b)
         IN  /\ \/ left \in I /\ End(left) = b.offset
                \/ left = Range(b.offset, 0) /\ \A q \in I : End(q) # b.offset
             /\ \/ right \in I /\ right.offset = End(b)
                \/ right = Range(End(b), 0) /\ \A q \in I : q.offset # End(b)
<1> DEFINE below == {q \in Below(I, b.offset) : End(q) = b.offset}
<1>1. /\ I \subseteq Ranges /\ U \subseteq Ranges
      /\ \A r, q \in I : r # q => Disjoint(r, q)
  BY DEF Partition
<1>2. b.offset \in Nat
  BY <1>1 DEF Ranges
<1>3. ASSUME NEW q \in I, End(q) = b.offset
      PROVE  q \in below
  <2>1. q.offset \in Nat /\ q.size \in Nat /\ q.size # 0 /\ q.offset < b.offset
    BY <1>1, <1>3 DEF Ranges, End
  <2>2. ASSUME NEW p \in I, p.offset < b.offset
        PROVE  p.offset <= q.offset
    <3>1. p.offset \in Nat /\ p.size \in Nat /\ p.size # 0
      BY <1>1 DEF Ranges
    <3>2. p = q \/ Disjoint(p, q)
      BY <1>1
    <3> QED
      BY <3>1, <3>2, <2>1, <2>2, <1>2, <1>3 DEF Disjoint, End
  <2> QED
    BY <2>1, <2>2, <1>3 DEF Below
<1>4. below \subseteq I
  BY DEF Below
<1>5. CASE below = {}
  BY <1>3, <1>5 DEF LeftNeighbour, RightNeighbour, Find
<1>6. CASE below # {}
  BY <1>4, <1>6 DEF LeftNeighbour, RightNeighbour, Find
<1> QED
  BY <1>5, <1>6

\* Merging a used block into its neighbours keeps the partition.
LEMMA MergeKeepsPartition ==
  ASSUME NEW I, NEW U, Partition(I, U), NEW b \in U
  PROVE  /\ Partition((I \ Neighbours(I, b)) \cup {Merged(I, b)}, U \ {b})
         /\ Emplace(I \ Neighbours(I, b), {Merged(I, b)})
              = (I \ Neighbours(I, b)) \cup {Merged(I, b)}
<1> DEFINE left == LeftNeighbour(I, b)
           right == RightNeighbour(I, b)
           rest == I \ Neighbours(I, b)
           whole == Merged(I, b)
           J == rest \cup {whole}
           V == U \ {b}
<1>1. /\ I \subseteq Ranges /\ U \subseteq Ranges
      /\ \A r \in I \cup U : End(r) <= HeapSize
      /\ \A r, q \in I \cup U : r # q => Disjoint(r, q)
      /\ I \cap U = {}
      /\ \A x \in 0..(HeapSize - 1) : Covered(x, I \cup U)
      /\ \A r, q \in I : End(r) # q.offset
  BY DEF Partition
<1>2. HeapSize \in Nat \ {0}
  BY HeapManagerAssumption
<1>3. /\ \/ left \in I /\ End(left) = b.offset
         \/ left = Range(b.offset, 0) /\ \A q \in I : End(q) # b.offset
      /\ \/ right \in I /\ right.offset = End(b)
         \/ right = Range(End(b), 0) /\ \A q \in I : q.offset # End(b)
  BY NeighboursTouch
<1>4. b \in Ranges /\ b.offset \in Nat /\ b.size \in Nat /\ b.size # 0 /\ End(b) \in Nat
  BY <1>1 DEF Ranges, End
<1>3a. ASSUME NEW o \in Nat
      PROVE  Range(o, 0).offset = o /\ Range(o, 0).size = 0 /\ End(Range(o, 0)) = o
  BY DEF Range, End
<1>3b. /\ \/ left \in I /\ End(left) = b.offset
         \/ /\ left.offset = b.offset /\ left.size = 0 /\ End(left) = b.offset
            /\ \A q \in I : End(q) # b.offset
      /\ \/ right \in I /\ right.offset = End(b)
         \/ /\ right.offset = End(b) /\ right.size = 0 /\ End(right) = End(b)
            /\ \A q \in I : q.offset # End(b)
  BY <1>3, <1>4, <1>3a
<1>5. left.offset \in Nat /\ left.size \in Nat /\ End(left) = b.offset
  BY <1>1, <1>4, <1>3b DEF Ranges
<1>6. right.offset = End(b) /\ right.size \in Nat /\ End(right) <= HeapSize
  BY <1>1, <1>4, <1>3b DEF Ranges
<1>7. rest = (I \ {left}) \ {right}
  BY DEF Neighbours
<1>8. /\ whole \in Ranges
      /\ whole.offset = left.offset
      /\ End(whole) = End(right)
  BY <1>4, <1>5, <1>6, RangeFields DEF Merged, Range, End, Ranges
<1>9. whole.offset <= b.offset /\ End(b) <= End(whole) /\ End(whole) <= HeapSize
  BY <1>4, <1>5, <1>6, <1>8 DEF End
<1>10. ASSUME NEW r \in rest \cup V
       PROVE  /\ r \in I \cup U /\ r \in Ranges
              /\ Disjoint(r, b)
              /\ left \in I => Disjoint(r, left)
              /\ right \in I => Disjoint(r, right)
  <2>1. r \in I \cup U /\ r # b
    BY <1>1, <1>7
  <2>2. left \in I => r # left
    BY <1>1, <1>7
  <2>3. right \in I => r # right
    BY <1>1, <1>7
  <2> QED
    BY <2>1, <2>2, <2>3, <1>1
<1>11. ASSUME NEW r \in rest \cup V
       PROVE  Disjoint(r, whole)
  <2>1. r.offset \in Nat /\ r.size \in Nat /\ r.size # 0
    BY <1>10 DEF Ranges
  <2>2. CASE End(r) <= b.offset
    <3>1. CASE left \in I
      BY <3>1, <2>1, <2>2, <1>4, <1>5, <1>8, <1>10 DEF Disjoint, End
    <3>2. CASE left.offset = b.offset
      BY <3>2, <2>1, <2>2, <1>4, <1>8 DEF Disjoint
    <3> QED
      BY <3>1, <3>2, <1>3b
  <2>3. CASE End(b) <= r.offset
    <3>1. CASE right \in I
      BY <3>1, <2>1, <2>3, <1>4, <1>6, <1>8, <1>10 DEF Disjoint, End
    <3>2. CASE End(right) = End(b)
      BY <3>2, <2>1, <2>3, <1>4, <1>8 DEF Disjoint
    <3> QED
      BY <3>1, <3>2, <1>3b
  <2> QED
    BY <2>2, <2>3, <1>10 DEF Disjoint
<1>12. ASSUME NEW r \in rest \cup V
       PROVE  r # whole /\ r.offset # whole.offset
  BY <1>8, <1>10, <1>11 DEF Disjoint, End, Ranges
<1>13. J \subseteq Ranges /\ V \subseteq Ranges
  BY <1>1, <1>8, <1>10
<1>14. \A r \in J \cup V : End(r) <= HeapSize
  BY <1>1, <1>9, <1>10
<1>15. \A r, q \in J \cup V : r # q => Disjoint(r, q)
  <2> SUFFICES ASSUME NEW r \in J \cup V, NEW q \in J \cup V, r # q
               PROVE  Disjoint(r, q)
    OBVIOUS
  <2>1. CASE r \in rest \cup V /\ q \in rest \cup V
    BY <2>1, <1>1, <1>10
  <2>2. CASE r = whole
    BY <2>2, <1>11 DEF Disjoint
  <2>3. CASE q = whole
    BY <2>3, <1>11
  <2> QED
    BY <2>1, <2>2, <2>3
<1>16. J \cap V = {}
  BY <1>1, <1>7, <1>12
<1>17. \A x \in 0..(HeapSize - 1) : Covered(x, J \cup V)
  <2> SUFFICES ASSUME NEW x \in 0..(HeapSize - 1)
               PROVE  Covered(x, J \cup V)
    OBVIOUS
  <2>1. PICK r \in I \cup U : r.offset <= x /\ x < End(r)
    BY <1>1 DEF Covered
  <2>2. CASE r \in rest \cup V
    BY <2>1, <2>2 DEF Covered
  <2>3. CASE r \in {left, right, b}
    <3>1. whole.offset <= x /\ x < End(whole)
      BY <2>1, <2>3, <1>2, <1>4, <1>5, <1>6, <1>8, <1>9 DEF End
    <3> QED
      BY <3>1 DEF Covered
  <2> QED
    BY <2>2, <2>3, <1>7
<1>18. \A r, q \in J : End(r) # q.offset
  <2> SUFFICES ASSUME NEW r \in J, NEW q \in J, End(r) = q.offset
               PROVE  FALSE
    OBVIOUS
  <2>1. CASE r \in rest /\ q \in rest
    BY <2>1, <1>1, <1>7
  <2>2. CASE r \in rest /\ q = whole
    BY <2>2, <1>1, <1>7, <1>8, <1>3b
  <2>3. CASE r = whole /\ q \in rest
    BY <2>3, <1>1, <1>7, <1>8, <1>3b
  <2>4. CASE r = whole /\ q = whole
    BY <2>4, <1>4, <1>8, <1>9 DEF End, Ranges
  <2> QED
    BY <2>1, <2>2, <2>3, <2>4
<1>19. Emplace(rest, {whole}) = J
  BY <1>12 DEF Emplace, Find
<1> QED
  BY <1>13, <1>14, <1>15, <1>16, <1>17, <1>18, <1>19 DEF Partition

\* A run of the heap free of used bytes lies inside one idle range: nothing but
\* a lack of contiguous room makes an allocation fail.
LEMMA FreeRunIsIdle ==
  ASSUME NEW I, NEW U, Partition(I, U), NEW o \in Nat, NEW m \in Nat \ {0},
         o + m <= HeapSize, \A b \in U : Disjoint(Range(o, m), b)
  PROVE  \E r \in I : r.size >= m
<1>1. /\ I \subseteq Ranges /\ U \subseteq Ranges
      /\ \A r, q \in I \cup U : r # q => Disjoint(r, q)
      /\ \A x \in 0..(HeapSize - 1) : Covered(x, I \cup U)
      /\ \A r, q \in I : End(r) # q.offset
  BY DEF Partition
<1>2. HeapSize \in Nat \ {0}
  BY HeapManagerAssumption
<1>3. ASSUME NEW x \in o..(o + m - 1)
      PROVE  \E r \in I : r.offset <= x /\ x < End(r)
  <2>1. x \in 0..(HeapSize - 1)
    BY <1>2
  <2>2. PICK r \in I \cup U : r.offset <= x /\ x < End(r)
    BY <2>1, <1>1 DEF Covered
  <2>3. r \notin U
    BY <2>2, <1>1 DEF Disjoint, Range, End, Ranges
  <2> QED
    BY <2>2, <2>3
<1>4. PICK r \in I : r.offset <= o /\ o < End(r)
  BY <1>3
<1>5. r.offset \in Nat /\ r.size \in Nat /\ End(r) = r.offset + r.size
  BY <1>1 DEF Ranges, End
<1>6. CASE o + m <= End(r)
  BY <1>4, <1>5, <1>6
<1>7. CASE End(r) < o + m
  <2>1. PICK q \in I : q.offset <= End(r) /\ End(r) < End(q)
    BY <1>3, <1>4, <1>5, <1>7
  <2>2. q # r /\ q.offset \in Nat /\ q.size \in Nat
    BY <2>1, <1>1, <1>5 DEF Ranges
  <2>3. Disjoint(r, q) /\ End(r) # q.offset
    BY <2>2, <1>1
  <2> QED
    BY <2>1, <2>2, <2>3, <1>4, <1>5 DEF Disjoint, End
<1> QED
  BY <1>5, <1>6, <1>7

-----------------------------------------------------------------------------
(* What the two successful steps do, under the invariant.                  *)

\* A malloc takes the front of an idle range that is large enough.
LEMMA AllocateStep ==
  ASSUME HInv, NEW n \in Requests, Allocate(n)
  PROVE  \E t \in addressIdle :
           /\ AlignUp(n) \in 1..t.size
           /\ sizeIdle' = (addressIdle \ {t}) \cup Leftover(t, AlignUp(n))
           /\ addressIdle' = sizeIdle'
           /\ addressUsed' = addressUsed \cup {Range(t.offset, AlignUp(n))}
           /\ Returns("malloc", n, t.offset)
           /\ Partition(addressIdle', addressUsed')
<1>1. n \in Nat \ {0} /\ n \in 1..HeapSize
  BY HeapManagerAssumption DEF Allocate
<1>2. AlignUp(n) \in Nat \ {0}
  BY <1>1, AlignUpHolds
<1>3. sizeIdle = addressIdle /\ Partition(addressIdle, addressUsed)
  BY DEF HInv
<1>4. PICK t \in LowerBound(sizeIdle, AlignUp(n)) :
         /\ sizeIdle' = (sizeIdle \ {t}) \cup Leftover(t, AlignUp(n))
         /\ addressIdle' = Emplace(addressIdle \ Find(addressIdle, t.offset),
                                   Leftover(t, AlignUp(n)))
         /\ addressUsed' = Emplace(addressUsed, {Range(t.offset, AlignUp(n))})
         /\ Returns("malloc", n, t.offset)
  BY DEF Allocate
<1>5. t \in addressIdle /\ t.size >= AlignUp(n)
  BY <1>3, <1>4 DEF LowerBound, Fits
<1>6. t.offset \in Nat /\ t.size \in Nat
  BY <1>3, <1>5 DEF Partition, Ranges
<1>7. AlignUp(n) \in 1..t.size
  BY <1>2, <1>5, <1>6
<1> DEFINE m == AlignUp(n)
<1> HIDE DEF m
<1>8. m \in 1..t.size
  BY <1>7 DEF m
<1>9. /\ Partition((addressIdle \ {t}) \cup Leftover(t, m),
                   addressUsed \cup {Range(t.offset, m)})
      /\ Find(addressUsed, t.offset) = {}
      /\ Find(addressIdle, t.offset) = {t}
      /\ Emplace(addressIdle \ {t}, Leftover(t, m))
            = (addressIdle \ {t}) \cup Leftover(t, m)
  <2>1. Partition(addressIdle, addressUsed) /\ t \in addressIdle
    BY <1>3, <1>5
  <2>2. Partition((addressIdle \ {t}) \cup Leftover(t, m),
                  addressUsed \cup {Range(t.offset, m)})
    BY <2>1, <1>8, SplitKeepsPartition
  <2>3. Find(addressUsed, t.offset) = {}
    BY <2>1, <1>8, SplitKeepsPartition
  <2>4. Find(addressIdle, t.offset) = {t}
    BY <2>1, <1>8, SplitKeepsPartition
  <2>5. \A r \in Leftover(t, m) : Find(addressIdle \ {t}, r.offset) = {}
    BY <2>1, <1>8, SplitKeepsPartition
  <2>6. Emplace(addressIdle \ {t}, Leftover(t, m))
          = (addressIdle \ {t}) \cup Leftover(t, m)
    BY <2>5 DEF Emplace
  <2> QED
    BY <2>2, <2>3, <2>4, <2>6
<1>10. Emplace(addressUsed, {Range(t.offset, m)})
          = addressUsed \cup {Range(t.offset, m)}
  <2>1. Range(t.offset, m).offset = t.offset
    BY DEF Range
  <2> QED
    BY <2>1, <1>9 DEF Emplace
<1> QED
  BY <1>3, <1>4, <1>5, <1>7, <1>9, <1>10 DEF m

\* A free takes the block from the used ones and merges it with its idle neighbours.
LEMMA ReleaseStep ==
  ASSUME HInv, NEW o \in 0..HeapSize, Release(o)
  PROVE  \E b \in addressUsed :
           /\ b.offset = o
           /\ addressUsed' = addressUsed \ {b}
           /\ addressIdle' = sizeIdle'
           /\ Returns("free", o, 0)
           /\ Partition(addressIdle', addressUsed')
<1>1. sizeIdle = addressIdle /\ Partition(addressIdle, addressUsed)
  BY DEF HInv
<1>2. PICK b \in Find(addressUsed, o) :
         /\ addressUsed' = addressUsed \ {b}
         /\ addressIdle' = Emplace(addressIdle \ Neighbours(addressIdle, b),
                                   {Merged(addressIdle, b)})
         /\ sizeIdle' = (sizeIdle \ Neighbours(addressIdle, b))
                          \cup {Merged(addressIdle, b)}
  BY DEF Release
<1>3. b \in addressUsed /\ b.offset = o
  BY <1>2 DEF Find
<1>4. /\ Partition((addressIdle \ Neighbours(addressIdle, b)) \cup {Merged(addressIdle, b)},
                   addressUsed \ {b})
      /\ Emplace(addressIdle \ Neighbours(addressIdle, b), {Merged(addressIdle, b)})
            = (addressIdle \ Neighbours(addressIdle, b)) \cup {Merged(addressIdle, b)}
  BY <1>1, <1>3, MergeKeepsPartition
<1>5. Returns("free", o, 0)
  BY DEF Release
<1> QED
  BY <1>1, <1>2, <1>3, <1>4, <1>5

-----------------------------------------------------------------------------
\* At the start one idle range is the whole heap.
LEMMA HeapInitially == Init => HInv
<1> SUFFICES ASSUME Init PROVE HInv
  OBVIOUS
<1>1. HeapSize \in Nat \ {0}
  BY HeapManagerAssumption
<1>2. /\ Range(0, HeapSize) \in Ranges
      /\ Range(0, HeapSize).offset = 0
      /\ End(Range(0, HeapSize)) = HeapSize
  BY <1>1, RangeFields
<1>3. Partition({Range(0, HeapSize)}, {})
  BY <1>1, <1>2 DEF Partition, Covered
<1> QED
  BY <1>3 DEF Init, HInv, ReplyOK

\* The partition of the heap is kept by every sequence of malloc and free.
THEOREM HeapInvariant == Spec => []HInv
<1>1. Init => HInv
  BY HeapInitially
<1>2. HInv /\ [Next]_vars => HInv'
  <2> SUFFICES ASSUME HInv, [Next]_vars
               PROVE  HInv'
    OBVIOUS
  <2>1. ASSUME NEW n \in Requests, Allocate(n)
        PROVE  HInv'
    <3>1. PICK t \in addressIdle :
             /\ addressIdle' = sizeIdle'
             /\ Returns("malloc", n, t.offset)
             /\ Partition(addressIdle', addressUsed')
      BY <2>1, AllocateStep
    <3>2. n \in Nat /\ t.offset \in Int
      BY HeapManagerAssumption, <3>1 DEF HInv, Partition, Ranges
    <3>3. ReplyOK'
      BY <3>1, <3>2 DEF Returns, ReplyOK
    <3> QED
      BY <3>1, <3>3 DEF HInv
  <2>2. ASSUME NEW n \in Requests, AllocateFails(n)
        PROVE  HInv'
    BY <2>2, HeapManagerAssumption
       DEF AllocateFails, HInv, trees, Returns, ReplyOK
  <2>3. ASSUME NEW o \in 0..HeapSize, Release(o)
        PROVE  HInv'
    <3>1. /\ addressIdle' = sizeIdle'
          /\ Returns("free", o, 0)
          /\ Partition(addressIdle', addressUsed')
      BY <2>3, ReleaseStep
    <3>2. ReplyOK'
      BY <3>1 DEF Returns, ReplyOK
    <3> QED
      BY <3>1, <3>2 DEF HInv
  <2>4. ASSUME NEW o \in 0..HeapSize, ReleaseFails(o)
        PROVE  HInv'
    BY <2>4 DEF ReleaseFails, HInv, trees, Returns, ReplyOK
  <2>5. CASE UNCHANGED vars
    BY <2>5 DEF vars, HInv, ReplyOK
  <2> QED
    BY <2>1, <2>2, <2>3, <2>4, <2>5 DEF Next
<1> QED
  BY <1>1, <1>2, PTL DEF Spec

\* Type correctness, for every heap size and set of requests.
THEOREM HeapTypeCorrect == Spec => []TypeOK
<1>1. HInv => TypeOK
  <2> SUFFICES ASSUME HInv PROVE TypeOK
    OBVIOUS
  <2>1. \A r \in addressIdle \cup addressUsed : r \in Ranges /\ End(r) <= HeapSize
    BY DEF HInv, Partition
  <2>2. \A r \in addressIdle \cup addressUsed : r \in Blocks
    BY <2>1, HeapManagerAssumption DEF Ranges, Blocks, End
  <2> QED
    BY <2>2 DEF HInv, ReplyOK, TypeOK
<1> QED
  BY <1>1, HeapInvariant, PTL

\* No two live blocks of the heap ever share a byte.
THEOREM HeapNoOverlap == Spec => []NoOverlap
<1>1. HInv => NoOverlap
  BY DEF HInv, Partition, NoOverlap
<1> QED
  BY <1>1, HeapInvariant, PTL

\* The two idle trees never disagree: allocate never reaches its
\* "in size tree, not in address tree" exit.
THEOREM HeapTreesAgree == Spec => []TreesAgree
<1>1. HInv => TreesAgree
  BY DEF HInv, TreesAgree
<1> QED
  BY <1>1, HeapInvariant, PTL

\* No byte is ever lost or counted twice, and idle ranges are always merged.
THEOREM HeapNothingLost == Spec => []NothingLost
<1>1. HInv => NothingLost
  <2> SUFFICES ASSUME HInv PROVE NothingLost
    OBVIOUS
  <2>1. Partition(addressIdle, addressUsed)
    BY DEF HInv
  <2>2. \A r \in addressIdle \cup addressUsed : r \in Ranges /\ End(r) <= HeapSize
    BY <2>1 DEF Partition
  <2>3. ASSUME NEW r \in addressIdle \cup addressUsed
        PROVE  Bytes(r) \subseteq 0..(HeapSize - 1)
    BY <2>2, HeapManagerAssumption DEF Bytes, Ranges, End
  <2>4. ASSUME NEW x \in 0..(HeapSize - 1)
        PROVE  \E r \in addressIdle \cup addressUsed : x \in Bytes(r)
    <3>1. PICK r \in addressIdle \cup addressUsed : r.offset <= x /\ x < End(r)
      BY <2>1 DEF Partition, Covered
    <3> QED
      BY <3>1, <2>2, HeapManagerAssumption DEF Bytes, Ranges, End
  <2>5. UNION {Bytes(r) : r \in addressIdle \cup addressUsed} = 0..(HeapSize - 1)
    BY <2>3, <2>4
  <2>6. \A r \in addressIdle, b \in addressUsed : Disjoint(r, b)
    BY <2>1 DEF Partition
  <2>7. \A r, q \in addressIdle : End(r) # q.offset
    BY <2>1 DEF Partition
  <2> QED
    BY <2>5, <2>6, <2>7 DEF NothingLost
<1> QED
  BY <1>1, HeapInvariant, PTL

\* The allocator implements the abstract heap, step by step: a call that
\* returns NULL is one that no free run of the heap could have satisfied.
THEOREM HeapImplemented == Spec => ImplementsHeap
<1>1. Init => Abstract!Init
  BY DEF Init, Abstract!Init
<1>2. HInv /\ [Next]_vars => [Abstract!Next]_(Abstract!vars)
  <2> SUFFICES ASSUME HInv, [Next]_vars
               PROVE  [Abstract!Next]_(Abstract!vars)
    OBVIOUS
  <2>1. Partition(addressIdle, addressUsed) /\ sizeIdle = addressIdle
    BY DEF HInv
  <2>2. HeapSize \in Nat \ {0}
    BY HeapManagerAssumption
  <2>3. ASSUME NEW n \in Requests, Allocate(n)
        PROVE  Abstract!Malloc(n)
    <3>1. PICK t \in addressIdle :
             /\ AlignUp(n) \in 1..t.size
             /\ addressUsed' = addressUsed \cup {Range(t.offset, AlignUp(n))}
             /\ Returns("malloc", n, t.offset)
      BY <2>3, AllocateStep
    <3>2. t \in Ranges /\ End(t) <= HeapSize /\ \A b \in addressUsed : Disjoint(t, b)
      BY <2>1 DEF Partition
    <3>3. t.offset \in 0..HeapSize
      BY <3>2, <2>2 DEF Ranges, End
    <3>4. Abstract!FreeRun(t.offset, AlignUp(n))
      <4> DEFINE m == AlignUp(n)
      <4>1. m \in 1..t.size
        BY <3>1
      <4> HIDE DEF m
      <4>2. t.offset + m <= HeapSize
        BY <4>1, <3>2, <2>2 DEF Ranges, End
      <4>3. \A b \in addressUsed : Disjoint(Range(t.offset, m), b)
        BY <4>1, <3>2, <2>1 DEF Partition, Ranges, Range, End, Disjoint
      <4> QED
        BY <4>2, <4>3 DEF Abstract!FreeRun, Abstract!Disjoint, Abstract!Range,
                          Abstract!End, Disjoint, Range, End, m
    <3> QED
      BY <3>1, <3>3, <3>4, <2>3
         DEF Abstract!Malloc, Abstract!Returns, Returns, Allocate,
             Abstract!AlignUp, AlignUp, Abstract!Range, Range
  <2>4. ASSUME NEW n \in Requests, AllocateFails(n)
        PROVE  Abstract!MallocFails(n)
    <3>1. ~Abstract!Satisfiable(n)
      <4> SUFFICES ASSUME n \in 1..HeapSize, NEW o \in 0..HeapSize,
                          Abstract!FreeRun(o, AlignUp(n))
                   PROVE  FALSE
        BY DEF Abstract!Satisfiable, Abstract!AlignUp, AlignUp
      <4>1. n \in Nat \ {0}
        BY <2>2
      <4> DEFINE m == AlignUp(n)
      <4>2. m \in Nat \ {0}
        BY <4>1, AlignUpHolds
      <4>3. Abstract!FreeRun(o, m) /\ o \in Nat
        BY <2>2
      <4>4. /\ Fits(sizeIdle, m) = {}
            \/ \E t \in LowerBound(sizeIdle, m) : Find(addressIdle, t.offset) = {}
        BY <2>4 DEF AllocateFails
      <4> HIDE DEF m
      <4>5. o + m <= HeapSize /\ \A b \in addressUsed : Disjoint(Range(o, m), b)
        BY <4>3 DEF Abstract!FreeRun, Abstract!Disjoint, Abstract!Range,
                    Abstract!End, Disjoint, Range, End
      <4>6. PICK r \in addressIdle : r.size >= m
        BY <4>2, <4>3, <4>5, <2>1, FreeRunIsIdle
      <4> QED
        BY <4>4, <4>6, <2>1 DEF Fits, LowerBound, Find
    <3> QED
      BY <3>1, <2>4
         DEF Abstract!MallocFails, AllocateFails, trees, Abstract!Returns, Returns
  <2>5. ASSUME NEW o \in 0..HeapSize, Release(o)
        PROVE  Abstract!Free(o)
    <3>1. PICK b \in addressUsed :
             b.offset = o /\ addressUsed' = addressUsed \ {b} /\ Returns("free", o, 0)
      BY <2>5, ReleaseStep
    <3> QED
      BY <3>1 DEF Abstract!Free, Abstract!Returns, Returns
  <2>6. ASSUME NEW o \in 0..HeapSize, ReleaseFails(o)
        PROVE  Abstract!FreeFails(o)
    BY <2>6 DEF ReleaseFails, Find, trees, Abstract!FreeFails, Abstract!Returns, Returns
  <2>7. CASE UNCHANGED vars
    BY <2>7 DEF vars, Abstract!vars
  <2>8. Requests \subseteq Nat /\ 0..HeapSize \subseteq Nat
    BY HeapManagerAssumption
  <2> QED
    BY <2>3, <2>4, <2>5, <2>6, <2>7, <2>8 DEF Next, Abstract!Next
<1> QED
  BY <1>1, <1>2, HeapInvariant, PTL DEF Spec, ImplementsHeap, Abstract!Spec

-----------------------------------------------------------------------------
(***************************************************************************)
(* The dynamic heap.  Its pool is the heap of above, whatever the threads  *)
(* do while the lock is released, and its external blocks lie apart.  What *)
(* callers hold is a used range of the pool, of nobody else, or a range    *)
(* inside one block; so two callers share bytes in a block only.  And in a *)
(* block they share none either as long as each free is of the last        *)
(* allocation of its block: then all that is held lies below the mark.     *)
(***************************************************************************)
CONSTANTS Callers, MIN_EXPANSION_SIZE, MAX_BLOCK_SIZE, BLOCK_ALIGN, MaxBlocks

VARIABLES blocks, allocInfo, expanding, held

Dyn == INSTANCE DynamicHeap

\* What is held: where it begins and how long it is.
Holds == [offset : Nat, size : Nat]

\* An external block and its mark.
ExternalBlocks == [size : 0..MAX_BLOCK_SIZE, used : Nat]

\* A range lies in block i, and in the part of it that is used.
InBlock(bs, r, i) ==
  r.size > 0 /\ Dyn!Base(i) <= r.offset /\ End(r) <= Dyn!Base(i) + bs[i].size
BelowMark(bs, r, i) ==
  r.size > 0 /\ Dyn!Base(i) <= r.offset /\ End(r) <= Dyn!Base(i) + bs[i].used

\* A caller holds nothing, a used range of the pool or a range in a block.
HoldIs(U, bs, r) ==
  r = Range(0, 0) \/ r \in U \/ \E i \in 1..Len(bs) : InBlock(bs, r, i)

\* The external blocks, what is known of the allocations in them, what is held.
BlocksAre(bs) ==
  bs \in Seq(ExternalBlocks) /\ \A i \in 1..Len(bs) : bs[i].used <= bs[i].size
EntriesAre(bs, info) ==
  \A a \in DOMAIN info :
    a \in Nat /\ HeapSize <= a /\ info[a] \in [block : 1..Len(bs), total : Nat]
Layout(U, bs, info, h) ==
  /\ BlocksAre(bs) /\ EntriesAre(bs, info)
  /\ h \in [Callers -> Holds]
  /\ \A c \in Callers : HoldIs(U, bs, h[c])
  /\ \A c, d \in Callers : c # d /\ h[c] \in U => h[c] # h[d]

DynInv ==
  /\ HInv
  /\ expanding \in [Callers -> Nat]
  /\ Layout(addressUsed, blocks, allocInfo, held)

\* What is held in a block is below its mark and known there.
Known(bs, info, r) ==
  \E i \in 1..Len(bs) : BelowMark(bs, r, i) /\ r.offset \in DOMAIN info
                        /\ info[r.offset] = [block |-> i, total |-> r.size]
Orderly(U, bs, info, h) ==
  /\ \A c \in Callers : h[c] = Range(0, 0) \/ h[c] \in U \/ Known(bs, info, h[c])
  /\ \A c, d \in Callers : c # d => Disjoint(h[c], h[d])

\* The pool of the dynamic heap is the fixed heap.
LEMMA PoolIsTheHeap ==
  /\ Dyn!Pool!Init <=> Init
  /\ \A n : Dyn!Pool!Allocate(n) <=> Allocate(n)
  /\ \A o : Dyn!Pool!Release(o) <=> Release(o)
  /\ \A o : Dyn!Pool!ReleaseFails(o) <=> ReleaseFails(o)
  /\ \A call, arg, value : Dyn!Pool!Returns(call, arg, value) <=> Returns(call, arg, value)
<1>1. Dyn!Pool!Init <=> Init
  BY DEF Dyn!Pool!Init, Init, Dyn!Pool!Range, Range
<1>2. ASSUME NEW n PROVE Dyn!Pool!Allocate(n) <=> Allocate(n)
  BY DEF Dyn!Pool!Allocate, Allocate, Dyn!Pool!LowerBound, LowerBound, Dyn!Pool!Fits, Fits,
         Dyn!Pool!SizeFirst, SizeFirst, Dyn!Pool!AlignUp, AlignUp, Dyn!Pool!Find, Find,
         Dyn!Pool!Emplace, Emplace, Dyn!Pool!Leftover, Leftover, Dyn!Pool!Range, Range,
         Dyn!Pool!Returns, Returns
<1>3. ASSUME NEW o PROVE Dyn!Pool!Release(o) <=> Release(o)
  BY DEF Dyn!Pool!Release, Release, Dyn!Pool!Find, Find, Dyn!Pool!Emplace, Emplace,
         Dyn!Pool!Neighbours, Neighbours, Dyn!Pool!Merged, Merged,
         Dyn!Pool!LeftNeighbour, LeftNeighbour, Dyn!Pool!RightNeighbour, RightNeighbour,
         Dyn!Pool!Below, Below, Dyn!Pool!End, End, Dyn!Pool!Range, Range, Dyn!Pool!Returns, Returns
<1>4. ASSUME NEW o PROVE Dyn!Pool!ReleaseFails(o) <=> ReleaseFails(o)
  BY DEF Dyn!Pool!ReleaseFails, ReleaseFails, Dyn!Pool!Find, Find, Dyn!Pool!Returns, Returns,
         Dyn!Pool!trees, trees
<1>5. ASSUME NEW call, NEW arg, NEW value PROVE Dyn!Pool!Returns(call, arg, value) <=> Returns(call, arg, value)
  BY DEF Dyn!Pool!Returns, Returns
<1> QED
  BY <1>1, <1>2, <1>3, <1>4, <1>5

\* Its ranges are the same, too.
LEMMA SameRanges ==
  /\ \A o, n : Dyn!Range(o, n) = Range(o, n)
  /\ Dyn!Nothing = Range(0, 0)
  /\ \A n : Dyn!AlignUp(n) = AlignUp(n)
  /\ \A r, q : Dyn!Disjoint(r, q) <=> Disjoint(r, q)
BY DEF Dyn!Range, Range, Dyn!Nothing, Dyn!AlignUp, AlignUp, Dyn!Disjoint, Disjoint, Dyn!End, End

\* The blocks lie behind the pool and one behind the other.
LEMMA BlocksLieApart ==
  ASSUME Dyn!DynamicHeapAssumption
  PROVE /\ \A i \in Nat \ {0} : Dyn!Base(i) \in Nat /\ HeapSize <= Dyn!Base(i)
        /\ \A i, j \in Nat \ {0} : i < j => Dyn!Base(i) + MAX_BLOCK_SIZE <= Dyn!Base(j)
<1>1. HeapSize \in Nat /\ MAX_BLOCK_SIZE \in Nat
  BY HeapManagerAssumption DEF Dyn!DynamicHeapAssumption
<1>2. ASSUME NEW i \in Nat \ {0} PROVE Dyn!Base(i) \in Nat /\ HeapSize <= Dyn!Base(i)
  <2>1. (i - 1) * MAX_BLOCK_SIZE \in Nat
    BY <1>1, Z3
  <2> QED
    BY <1>1, <2>1 DEF Dyn!Base
<1>3. ASSUME NEW i \in Nat \ {0}, NEW j \in Nat \ {0}, i < j
      PROVE Dyn!Base(i) + MAX_BLOCK_SIZE <= Dyn!Base(j)
  <2> DEFINE a == (i - 1) * MAX_BLOCK_SIZE
             b == (j - i) * MAX_BLOCK_SIZE
  <2>1. a \in Nat /\ b \in Nat
    BY <1>1, <1>3, Z3
  <2>2. b >= MAX_BLOCK_SIZE
    BY <1>1, <1>3, Z3
  <2>3. (j - 1) * MAX_BLOCK_SIZE = a + b
    BY <1>1, <1>3, Z3
  <2>4. Dyn!Base(i) = HeapSize + a /\ Dyn!Base(j) = HeapSize + (a + b)
    BY <2>3 DEF Dyn!Base
  <2> HIDE DEF a, b
  <2> QED
    BY <1>1, <2>1, <2>2, <2>4
<1> QED
  BY <1>2, <1>3

\* A new block is no longer than the longest.
LEMMA ExpansionIsCapped ==
  ASSUME Dyn!DynamicHeapAssumption, NEW n \in Nat
  PROVE Dyn!ExpansionSize(n) \in 0..MAX_BLOCK_SIZE
<1>1. /\ MIN_EXPANSION_SIZE \in Nat /\ MAX_BLOCK_SIZE \in Nat /\ BLOCK_ALIGN \in Nat \ {0}
  BY DEF Dyn!DynamicHeapAssumption
<1>2. PICK k \in Nat : MAX_BLOCK_SIZE = k * BLOCK_ALIGN
  BY DEF Dyn!DynamicHeapAssumption
<1> DEFINE most == Dyn!Sets!Max({n, MIN_EXPANSION_SIZE})
           half == (3 * most) \div 2
           wanted == Dyn!Sets!Min({half, MAX_BLOCK_SIZE})
           m == wanted + BLOCK_ALIGN - 1
           q == m \div BLOCK_ALIGN
<1>3. most \in Nat
  BY <1>1 DEF Dyn!Sets!Max
<1> HIDE DEF most
<1>4. half \in Nat
  BY <1>3
<1> HIDE DEF half
<1>5. wanted \in 0..MAX_BLOCK_SIZE
  BY <1>1, <1>4 DEF Dyn!Sets!Min
<1>6. Dyn!ExpansionSize(n) = q * BLOCK_ALIGN
  BY DEF Dyn!ExpansionSize, most, half
<1> HIDE DEF wanted
<1>7. m \in Nat /\ m < MAX_BLOCK_SIZE + BLOCK_ALIGN
  BY <1>1, <1>5
<1> HIDE DEF m
<1>8. q \in Nat /\ q * BLOCK_ALIGN <= m
  BY <1>1, <1>7, Z3
<1>9. q * BLOCK_ALIGN \in Nat
  BY <1>1, <1>8, Z3
<1> HIDE DEF q
<1>10. q <= k
  <2> SUFFICES ASSUME q >= k + 1 PROVE FALSE
    BY <1>2, <1>8
  <2>1. q * BLOCK_ALIGN >= (k + 1) * BLOCK_ALIGN
    BY <1>1, <1>2, <1>8, Z3
  <2>2. (k + 1) * BLOCK_ALIGN = MAX_BLOCK_SIZE + BLOCK_ALIGN
    BY <1>1, <1>2, Z3
  <2> QED
    BY <1>1, <1>7, <1>8, <1>9, <2>1, <2>2
<1>11. q * BLOCK_ALIGN <= k * BLOCK_ALIGN
  BY <1>1, <1>2, <1>8, <1>10, Z3
<1> QED
  BY <1>1, <1>2, <1>6, <1>9, <1>11

\* A set of numbers that is not empty has a least one.
LEMMA LeastOf ==
  ASSUME NEW I, I \subseteq Nat, I # {}
  PROVE Dyn!Sets!Min(I) \in I
<1> DEFINE R == OpToRel(<, Nat)
<1>1. IsWellFoundedOn(R, Nat)
  BY NatLessThanWellFounded
<1>2. \A x, y \in Nat : <<y, x>> \in R <=> y < x
  BY DEF OpToRel
<1> HIDE DEF R
<1>3. PICK x \in I : \A y \in I : ~(<<y, x>> \in R)
  BY <1>1, WFMin
<1>4. ASSUME NEW y \in I PROVE x <= y
  <2>1. x \in Nat /\ y \in Nat /\ ~(<<y, x>> \in R)
    BY <1>3
  <2>2. ~(y < x)
    BY <1>2, <2>1
  <2> QED BY <2>1, <2>2
<1> QED
  BY <1>4 DEF Dyn!Sets!Min

-----------------------------------------------------------------------------
(* What the steps do to what is held.                                      *)

\* What lies in two parts of the address space shares nothing.
LEMMA HoldsApart ==
  ASSUME Dyn!DynamicHeapAssumption, NEW bs, BlocksAre(bs),
         NEW r \in Holds, NEW q \in Holds, NEW i \in 1..Len(bs), InBlock(bs, r, i)
  PROVE /\ \A j \in 1..Len(bs) : i # j /\ InBlock(bs, q, j) => Disjoint(r, q)
        /\ End(q) <= HeapSize => Disjoint(r, q)
        /\ r.offset >= HeapSize /\ r.size > 0
<1>1. /\ bs \in Seq(ExternalBlocks) /\ MAX_BLOCK_SIZE \in Nat /\ HeapSize \in Nat
  BY HeapManagerAssumption DEF BlocksAre, Dyn!DynamicHeapAssumption
<1>2. \A j \in 1..Len(bs) : bs[j].size \in 0..MAX_BLOCK_SIZE /\ j \in Nat \ {0}
  <2>1. \A j \in 1..Len(bs) : bs[j] \in ExternalBlocks /\ j \in Nat \ {0}
    BY <1>1
  <2> QED
    BY <2>1 DEF ExternalBlocks
<1>3. r.offset \in Nat /\ r.size \in Nat /\ q.offset \in Nat /\ q.size \in Nat
  BY DEF Holds
<1>4. /\ Dyn!Base(i) \in Nat /\ HeapSize <= Dyn!Base(i) /\ Dyn!Base(i) <= r.offset
      /\ r.offset + r.size <= Dyn!Base(i) + bs[i].size /\ r.size > 0
  BY <1>2, BlocksLieApart DEF InBlock, End
<1>5. ASSUME NEW j \in 1..Len(bs), i # j, InBlock(bs, q, j) PROVE Disjoint(r, q)
  <2>1. /\ Dyn!Base(j) \in Nat /\ Dyn!Base(j) <= q.offset
        /\ q.offset + q.size <= Dyn!Base(j) + bs[j].size
    BY <1>2, <1>5, BlocksLieApart DEF InBlock, End
  <2>2. \/ Dyn!Base(i) + MAX_BLOCK_SIZE <= Dyn!Base(j)
        \/ Dyn!Base(j) + MAX_BLOCK_SIZE <= Dyn!Base(i)
    BY <1>2, <1>5, BlocksLieApart
  <2>3. bs[i].size \in 0..MAX_BLOCK_SIZE /\ bs[j].size \in 0..MAX_BLOCK_SIZE
    BY <1>2
  <2> DEFINE b == Dyn!Base(i)
             e == Dyn!Base(j)
             m == bs[i].size
             n == bs[j].size
  <2>4. /\ b \in Nat /\ e \in Nat /\ m \in 0..MAX_BLOCK_SIZE /\ n \in 0..MAX_BLOCK_SIZE
        /\ b <= r.offset /\ r.offset + r.size <= b + m
        /\ e <= q.offset /\ q.offset + q.size <= e + n
        /\ b + MAX_BLOCK_SIZE <= e \/ e + MAX_BLOCK_SIZE <= b
    BY <1>4, <2>1, <2>2, <2>3
  <2> HIDE DEF b, e, m, n
  <2>5. r.offset + r.size <= q.offset \/ q.offset + q.size <= r.offset
    BY <1>1, <1>3, <2>4, SMTT(40)
  <2> QED
    BY <2>5 DEF Disjoint, End
<1>6. End(q) <= HeapSize => Disjoint(r, q)
  BY <1>1, <1>3, <1>4 DEF Disjoint, End
<1> QED
  BY <1>1, <1>3, <1>4, <1>5, <1>6

\* Nothing shares bytes with anything.
LEMMA NothingIsDisjoint ==
  ASSUME NEW r \in Holds
  PROVE Disjoint(r, Range(0, 0)) /\ Disjoint(Range(0, 0), r)
<1>1. Range(0, 0).offset = 0 /\ Range(0, 0).size = 0 /\ r.offset \in Nat /\ r.size \in Nat
  BY DEF Range, Holds
<1> QED
  BY <1>1 DEF Disjoint, End

\* A caller gives up what it holds.
LEMMA GivingUp ==
  ASSUME NEW U, NEW bs, NEW info, NEW h, Layout(U, bs, info, h), NEW c \in Callers,
         Range(0, 0) \notin U
  PROVE /\ Layout(U, bs, info, [h EXCEPT ![c] = Range(0, 0)])
        /\ h[c] \in U => Layout(U \ {h[c]}, bs, info, [h EXCEPT ![c] = Range(0, 0)])
<1> DEFINE g == [h EXCEPT ![c] = Range(0, 0)]
<1>1. h \in [Callers -> Holds]
  BY DEF Layout
<1>2. Range(0, 0) \in Holds
  BY DEF Range, Holds
<1>3. g \in [Callers -> Holds] /\ g[c] = Range(0, 0) /\ \A d \in Callers : d # c => g[d] = h[d]
  BY <1>1, <1>2
<1> HIDE DEF g
<1>4. Layout(U, bs, info, g)
  BY <1>3 DEF Layout, HoldIs
<1>5. ASSUME h[c] \in U PROVE Layout(U \ {h[c]}, bs, info, g)
  <2>1. \A d \in Callers : d # c => h[d] # h[c]
    BY <1>5 DEF Layout
  <2>2. \A d \in Callers : HoldIs(U \ {h[c]}, bs, g[d])
    BY <1>3, <2>1 DEF Layout, HoldIs
  <2>3. \A d, e \in Callers : d # e /\ g[d] \in U \ {h[c]} => g[d] # g[e]
    BY <1>4 DEF Layout
  <2> QED
    BY <1>3, <2>2, <2>3 DEF Layout
<1> QED
  BY <1>4, <1>5 DEF g

\* The pool gives a caller a range that was not used.
LEMMA TakingFromThePool ==
  ASSUME NEW U, NEW bs, NEW info, NEW h, Layout(U, bs, info, h), NEW c \in Callers,
         NEW r \in Holds, r \notin U, r # Range(0, 0),
         \A i \in 1..Len(bs) : ~InBlock(bs, r, i)
  PROVE Layout(U \cup {r}, bs, info, [h EXCEPT ![c] = r])
<1> DEFINE g == [h EXCEPT ![c] = r]
<1>1. h \in [Callers -> Holds]
  BY DEF Layout
<1>2. g \in [Callers -> Holds] /\ g[c] = r /\ \A d \in Callers : d # c => g[d] = h[d]
  BY <1>1
<1> HIDE DEF g
<1>3. \A d \in Callers : HoldIs(U, bs, h[d]) /\ h[d] # r
  BY DEF Layout, HoldIs
<1>4. \A d \in Callers : HoldIs(U \cup {r}, bs, g[d])
  BY <1>2, <1>3 DEF HoldIs
<1>5. \A d, e \in Callers : d # e /\ g[d] \in U \cup {r} => g[d] # g[e]
  BY <1>2, <1>3 DEF Layout
<1> QED
  BY <1>2, <1>4, <1>5 DEF Layout, g

\* A block is added behind the others.
LEMMA AddingABlock ==
  ASSUME NEW U, NEW bs, NEW info, NEW h, Layout(U, bs, info, h),
         NEW size \in 0..MAX_BLOCK_SIZE
  PROVE LET more == Append(bs, [size |-> size, used |-> 0])
        IN  /\ Layout(U, more, info, h)
            /\ Orderly(U, bs, info, h) => Orderly(U, more, info, h)
<1> DEFINE new == [size |-> size, used |-> 0]
           more == Append(bs, new)
<1>1. bs \in Seq(ExternalBlocks) /\ new \in ExternalBlocks /\ Len(bs) \in Nat
      /\ \A i \in 1..Len(bs) : bs[i].used <= bs[i].size
  BY DEF Layout, BlocksAre, ExternalBlocks
<1>2. /\ more \in Seq(ExternalBlocks) /\ Len(more) = Len(bs) + 1
      /\ \A i \in 1..Len(bs) : more[i] = bs[i] /\ i \in 1..Len(more)
      /\ more[Len(bs) + 1] = new
  BY <1>1
<1>3. new.size = size /\ new.used = 0
  OBVIOUS
<1> HIDE DEF more, new
<1>4. BlocksAre(more)
  <2>1. \A i \in 1..Len(more) : i \in 1..Len(bs) \/ i = Len(bs) + 1
    BY <1>1, <1>2
  <2> QED
    BY <1>1, <1>2, <1>3, <2>1 DEF BlocksAre
<1>5. EntriesAre(more, info)
  <2> SUFFICES ASSUME NEW a \in DOMAIN info
               PROVE a \in Nat /\ HeapSize <= a /\ info[a] \in [block : 1..Len(more), total : Nat]
    BY DEF EntriesAre
  <2>1. a \in Nat /\ HeapSize <= a /\ info[a] \in [block : 1..Len(bs), total : Nat]
    BY DEF Layout, EntriesAre
  <2> QED
    BY <1>2, <2>1
<1>6. \A r : HoldIs(U, bs, r) => HoldIs(U, more, r)
  BY <1>2 DEF HoldIs, InBlock
<1>7. \A r : Known(bs, info, r) => Known(more, info, r)
  BY <1>2 DEF Known, BelowMark
<1>8. Layout(U, more, info, h)
  BY <1>4, <1>5, <1>6 DEF Layout
<1>9. Orderly(U, bs, info, h) => Orderly(U, more, info, h)
  BY <1>7 DEF Orderly
<1> QED
  BY <1>8, <1>9 DEF more, new

\* An allocation is written down, and taken off the list.
Notes(info, a, entry, entries) ==
  entries = [x \in DOMAIN info \cup {a} |-> IF x = a THEN entry ELSE info[x]]
Forgets(info, a, entries) == entries = [x \in DOMAIN info \ {a} |-> info[x]]

\* The mark of block i is set to u.
Marks(bs, i, u, more) == more = [bs EXCEPT ![i].used = u]

\* It is all that changes.
LEMMA SettingAMark ==
  ASSUME NEW bs, BlocksAre(bs), NEW i \in 1..Len(bs), NEW u \in Nat, u <= bs[i].size,
         NEW more, Marks(bs, i, u, more)
  PROVE /\ BlocksAre(more) /\ Len(more) = Len(bs)
        /\ \A j \in 1..Len(bs) : more[j].size = bs[j].size
        /\ \A j \in 1..Len(bs) : more[j].used = IF j = i THEN u ELSE bs[j].used
<1> DEFINE b == [bs[i] EXCEPT !.used = u]
<1>1. bs \in Seq(ExternalBlocks) /\ bs[i] \in ExternalBlocks
      /\ \A j \in 1..Len(bs) : bs[j].used <= bs[j].size
  BY DEF BlocksAre
<1>2. b \in ExternalBlocks /\ b.size = bs[i].size /\ b.used = u
  BY <1>1 DEF ExternalBlocks
<1>3. more = [bs EXCEPT ![i] = b]
  BY DEF Marks
<1> HIDE DEF b
<1>4. more \in Seq(ExternalBlocks) /\ Len(more) = Len(bs)
      /\ \A j \in 1..Len(bs) : more[j] = IF j = i THEN b ELSE bs[j]
  BY <1>1, <1>2, <1>3
<1>5. \A j \in 1..Len(bs) : more[j].size = bs[j].size
  BY <1>2, <1>4
<1>6. \A j \in 1..Len(bs) : more[j].used = IF j = i THEN u ELSE bs[j].used
  BY <1>2, <1>4
<1>7. \A j \in 1..Len(bs) : more[j].used <= more[j].size
  BY <1>1, <1>5, <1>6
<1> QED
  BY <1>4, <1>5, <1>6, <1>7 DEF BlocksAre

\* What is below the mark is in the block.
LEMMA KnownIsInBlock ==
  ASSUME Dyn!DynamicHeapAssumption, NEW bs, BlocksAre(bs), NEW i \in 1..Len(bs),
         NEW r \in Holds, BelowMark(bs, r, i)
  PROVE InBlock(bs, r, i)
<1>1. bs[i] \in ExternalBlocks /\ bs[i].used <= bs[i].size
  BY DEF BlocksAre
<1>2. bs[i].used \in Nat /\ bs[i].size \in Nat /\ Dyn!Base(i) \in Nat /\ End(r) \in Nat
  <2>1. MAX_BLOCK_SIZE \in Nat /\ i \in Nat \ {0}
    BY DEF Dyn!DynamicHeapAssumption
  <2> QED
    BY <1>1, <2>1, BlocksLieApart DEF ExternalBlocks, Holds, End
<1> QED
  BY <1>1, <1>2 DEF BelowMark, InBlock

\* The part of a block behind its mark is given to a caller.
LEMMA TakingFromABlock ==
  ASSUME Dyn!DynamicHeapAssumption, NEW U, NEW bs, NEW info, NEW h, Layout(U, bs, info, h),
         \A b \in U : b \in Ranges /\ End(b) <= HeapSize,
         NEW c \in Callers, NEW i \in 1..Len(bs), NEW n \in Nat \ {0},
         bs[i].size - bs[i].used >= n,
         NEW r, r = Range(Dyn!Base(i) + bs[i].used, n),
         NEW more, Marks(bs, i, bs[i].used + n, more),
         NEW entries, Notes(info, r.offset, [block |-> i, total |-> n], entries)
  PROVE /\ Layout(U, more, entries, [h EXCEPT ![c] = r])
        /\ Orderly(U, bs, info, h) => Orderly(U, more, entries, [h EXCEPT ![c] = r])
<1> DEFINE g == [h EXCEPT ![c] = r]
           base == Dyn!Base(i)
           used == bs[i].used
           size == bs[i].size
<1>1. BlocksAre(bs) /\ EntriesAre(bs, info) /\ h \in [Callers -> Holds]
  BY DEF Layout
<1>2. /\ used \in Nat /\ size \in Nat /\ base \in Nat /\ HeapSize \in Nat /\ HeapSize <= base
      /\ i \in Nat \ {0} /\ HeapSize > 0
  <2>1. MAX_BLOCK_SIZE \in Nat /\ i \in Nat \ {0} /\ bs[i] \in ExternalBlocks
    BY <1>1 DEF Dyn!DynamicHeapAssumption, BlocksAre
  <2>2. used \in Nat /\ size \in Nat
    BY <2>1 DEF ExternalBlocks
  <2>3. base \in Nat /\ HeapSize <= base /\ HeapSize \in Nat /\ HeapSize > 0
    BY <2>1, BlocksLieApart, HeapManagerAssumption
  <2> QED
    BY <2>1, <2>2, <2>3
<1>3. size - used >= n
  OBVIOUS
<1>4. r = Range(base + used, n) /\ Marks(bs, i, used + n, more)
  OBVIOUS
<1> HIDE DEF base, used, size
<1>5. used + n \in Nat /\ used + n <= size
  BY <1>2, <1>3
<1>6. /\ BlocksAre(more) /\ Len(more) = Len(bs)
      /\ \A j \in 1..Len(bs) : more[j].size = bs[j].size
      /\ \A j \in 1..Len(bs) : more[j].used = IF j = i THEN used + n ELSE bs[j].used
  <2> DEFINE u == used + n
  <2>1. u \in Nat /\ u <= bs[i].size
    BY <1>5 DEF size
  <2>2. Marks(bs, i, u, more)
    BY <1>4
  <2> HIDE DEF u
  <2>3. /\ BlocksAre(more) /\ Len(more) = Len(bs)
        /\ \A j \in 1..Len(bs) : more[j].size = bs[j].size
        /\ \A j \in 1..Len(bs) : more[j].used = IF j = i THEN u ELSE bs[j].used
    BY <1>1, <2>1, <2>2, SettingAMark
  <2> QED
    BY <2>3 DEF u
<1>7. r \in Holds /\ r.offset = base + used /\ r.size = n /\ End(r) = base + (used + n)
  BY <1>2, <1>4 DEF Range, Holds, End
<1>8. InBlock(bs, r, i) /\ InBlock(more, r, i) /\ BelowMark(more, r, i)
  BY <1>2, <1>5, <1>6, <1>7 DEF InBlock, BelowMark, base, size
<1>9. r \notin U /\ r # Range(0, 0)
  <2>1. ~(End(r) <= HeapSize)
    BY <1>2, <1>7
  <2>2. Range(0, 0).size = 0 /\ r.size # 0
    BY <1>7 DEF Range
  <2> QED
    BY <2>1, <2>2
<1>10. g \in [Callers -> Holds] /\ g[c] = r /\ \A d \in Callers : d # c => g[d] = h[d]
  BY <1>1, <1>7
<1> HIDE DEF g
<1>11. /\ entries[r.offset] = [block |-> i, total |-> n]
       /\ DOMAIN entries = DOMAIN info \cup {r.offset}
       /\ \A a \in DOMAIN info : a # r.offset => entries[a] = info[a]
  BY DEF Notes
<1>12. Layout(U, more, entries, g)
  <2>1. EntriesAre(more, entries)
    <3> SUFFICES ASSUME NEW a \in DOMAIN entries
                 PROVE a \in Nat /\ HeapSize <= a /\ entries[a] \in [block : 1..Len(more), total : Nat]
      BY DEF EntriesAre
    <3>1. CASE a = r.offset
      BY <3>1, <1>2, <1>6, <1>7, <1>11
    <3>2. CASE a # r.offset
      <4>1. a \in DOMAIN info
        BY <3>2, <1>11
      <4>2. a \in Nat /\ HeapSize <= a /\ info[a] \in [block : 1..Len(bs), total : Nat]
        BY <1>1, <4>1 DEF EntriesAre
      <4> QED
        BY <3>2, <4>1, <4>2, <1>6, <1>11
    <3> QED
      BY <3>1, <3>2
  <2>2. \A d \in Callers : HoldIs(U, more, g[d])
    <3> SUFFICES ASSUME NEW d \in Callers PROVE HoldIs(U, more, g[d])
      OBVIOUS
    <3>1. CASE d = c
      BY <3>1, <1>6, <1>8, <1>10 DEF HoldIs
    <3>2. CASE d # c
      <4>1. HoldIs(U, bs, h[d]) /\ g[d] = h[d]
        BY <3>2, <1>10 DEF Layout
      <4>2. \A j \in 1..Len(bs) : InBlock(bs, h[d], j) => InBlock(more, h[d], j)
        BY <1>6 DEF InBlock
      <4> QED
        BY <4>1, <4>2, <1>6 DEF HoldIs
    <3> QED
      BY <3>1, <3>2
  <2>3. \A d, e \in Callers : d # e /\ g[d] \in U => g[d] # g[e]
    BY <1>9, <1>10 DEF Layout
  <2> QED
    BY <1>6, <1>10, <2>1, <2>2, <2>3 DEF Layout
<1>13. ASSUME Orderly(U, bs, info, h), NEW d \in Callers, d # c
       PROVE /\ h[d] = Range(0, 0) \/ h[d] \in U \/ Known(more, entries, h[d])
             /\ Disjoint(r, h[d]) /\ Disjoint(h[d], r)
  <2>1. h[d] \in Holds
    BY <1>1
  <2>2. CASE h[d] = Range(0, 0) \/ h[d] \in U
    <3>1. End(h[d]) <= HeapSize
      <4>1. End(Range(0, 0)) = 0
        BY DEF Range, End
      <4> QED
        BY <1>2, <2>2, <4>1
    <3>2. Disjoint(r, h[d])
      BY <1>1, <1>7, <1>8, <2>1, <3>1, HoldsApart
    <3> QED
      BY <2>2, <3>2 DEF Disjoint
  <2>3. CASE ~(h[d] = Range(0, 0) \/ h[d] \in U)
    <3>1. PICK j \in 1..Len(bs) : BelowMark(bs, h[d], j) /\ h[d].offset \in DOMAIN info
                                  /\ info[h[d].offset] = [block |-> j, total |-> h[d].size]
      BY <1>13, <2>3 DEF Orderly, Known
    <3>2. Disjoint(r, h[d])
      <4>1. CASE j = i
        <5>1. h[d].offset + h[d].size <= base + used
          BY <3>1, <4>1 DEF BelowMark, End, base, used
        <5> QED
          BY <5>1, <1>7 DEF Disjoint, End
      <4>2. CASE j # i
        <5>1. InBlock(bs, h[d], j)
          BY <1>1, <2>1, <3>1, KnownIsInBlock
        <5> QED
          BY <4>2, <5>1, <1>1, <1>7, <1>8, <2>1, HoldsApart
      <4> QED
        BY <4>1, <4>2
    <3>3. h[d].offset # r.offset
      <4>1. h[d].offset \in Nat /\ h[d].size \in Nat /\ h[d].size > 0 /\ r.offset \in Nat
            /\ r.size > 0 /\ r.size \in Nat
        BY <1>7, <2>1, <3>1 DEF BelowMark, Holds
      <4>2. r.offset + r.size <= h[d].offset \/ h[d].offset + h[d].size <= r.offset
        BY <3>2 DEF Disjoint, End
      <4> QED
        BY <4>1, <4>2
    <3>4. BelowMark(more, h[d], j)
      <4>1. more[j].used >= bs[j].used /\ bs[j].used \in Nat /\ more[j].used \in Nat
        <5>1. bs[j] \in ExternalBlocks
          BY <1>1 DEF BlocksAre
        <5>2. bs[j].used \in Nat
          BY <5>1 DEF ExternalBlocks
        <5> QED
          BY <5>2, <1>2, <1>6 DEF used
      <4>2. Dyn!Base(j) \in Nat /\ End(h[d]) \in Nat
        BY <2>1, BlocksLieApart, SMTT(40) DEF Holds, End
      <4> QED
        BY <3>1, <4>1, <4>2 DEF BelowMark
    <3>5. Known(more, entries, h[d])
      BY <1>6, <1>11, <3>1, <3>3, <3>4 DEF Known
    <3> QED
      BY <3>2, <3>5 DEF Disjoint
  <2> QED
    BY <2>2, <2>3
<1>14. ASSUME Orderly(U, bs, info, h) PROVE Orderly(U, more, entries, g)
  <2>1. Known(more, entries, r)
    BY <1>6, <1>7, <1>8, <1>11 DEF Known
  <2>2. \A d \in Callers : g[d] = Range(0, 0) \/ g[d] \in U \/ Known(more, entries, g[d])
    BY <1>10, <1>13, <1>14, <2>1
  <2>3. \A d, e \in Callers : d # e => Disjoint(g[d], g[e])
    <3> SUFFICES ASSUME NEW d \in Callers, NEW e \in Callers, d # e
                 PROVE Disjoint(g[d], g[e])
      OBVIOUS
    <3>1. CASE d = c
      BY <3>1, <1>10, <1>13, <1>14
    <3>2. CASE e = c
      BY <3>2, <1>10, <1>13, <1>14
    <3>3. CASE d # c /\ e # c
      BY <3>3, <1>10, <1>14 DEF Orderly
    <3> QED
      BY <3>1, <3>2, <3>3
  <2> QED
    BY <2>2, <2>3 DEF Orderly
<1> QED
  BY <1>12, <1>14 DEF g

\* An allocation is freed: the mark of its block goes down by as much.  If it was
\* the last of the block, all else that is held there lies below the new mark.
LEMMA FreeingInABlock ==
  ASSUME Dyn!DynamicHeapAssumption, NEW U, NEW bs, NEW info, NEW h, Layout(U, bs, info, h),
         \A b \in U : b \in Ranges /\ End(b) <= HeapSize,
         NEW c \in Callers, NEW a, a = h[c].offset, a \in DOMAIN info,
         NEW i, i = info[a].block, NEW u \in Nat, u <= bs[i].used,
         bs[i].used >= info[a].total => u = bs[i].used - info[a].total,
         NEW more, Marks(bs, i, u, more),
         NEW entries, Forgets(info, a, entries)
  PROVE /\ Layout(U, more, entries, [h EXCEPT ![c] = Range(0, 0)])
        /\ Orderly(U, bs, info, h) /\ End(h[c]) = Dyn!Base(i) + bs[i].used
             => Orderly(U, more, entries, [h EXCEPT ![c] = Range(0, 0)])
<1> DEFINE g == [h EXCEPT ![c] = Range(0, 0)]
<1>1. /\ BlocksAre(bs) /\ EntriesAre(bs, info) /\ h \in [Callers -> Holds] /\ h[c] \in Holds
      /\ HeapSize \in Nat \ {0}
  BY HeapManagerAssumption DEF Layout
<1>2. /\ a \in Nat /\ HeapSize <= a /\ info[a].block = i /\ i \in 1..Len(bs)
      /\ info[a] \in [block : 1..Len(bs), total : Nat]
  <2>1. a \in Nat /\ HeapSize <= a /\ info[a] \in [block : 1..Len(bs), total : Nat]
    BY <1>1 DEF EntriesAre
  <2> QED
    BY <2>1
<1>3. i \in Nat \ {0} /\ bs[i].used \in Nat /\ bs[i].size \in Nat /\ bs[i].used <= bs[i].size
  <2>1. MAX_BLOCK_SIZE \in Nat /\ i \in Nat \ {0} /\ bs[i] \in ExternalBlocks
    BY <1>1, <1>2 DEF Dyn!DynamicHeapAssumption, BlocksAre
  <2>2. bs[i].used <= bs[i].size
    BY <1>1, <1>2 DEF BlocksAre
  <2> QED
    BY <2>1, <2>2 DEF ExternalBlocks
<1>4. /\ BlocksAre(more) /\ Len(more) = Len(bs)
      /\ \A j \in 1..Len(bs) : more[j].size = bs[j].size
      /\ \A j \in 1..Len(bs) : more[j].used = IF j = i THEN u ELSE bs[j].used
  <2>1. u <= bs[i].size
    BY <1>3
  <2> QED
    BY <1>1, <1>2, <2>1, SettingAMark
<1>5. Range(0, 0) \notin U
  BY DEF Range, Ranges
<1>6. Layout(U, bs, info, g)
  BY <1>5, GivingUp
<1>7. g[c] = Range(0, 0) /\ \A d \in Callers : d # c => g[d] = h[d]
  BY <1>1
<1> HIDE DEF g
<1>8. Layout(U, more, entries, g)
  <2>1. EntriesAre(more, entries)
    BY <1>1, <1>4 DEF EntriesAre, Forgets
  <2>2. \A r : HoldIs(U, bs, r) => HoldIs(U, more, r)
    BY <1>4 DEF HoldIs, InBlock
  <2> QED
    BY <1>4, <1>6, <2>1, <2>2 DEF Layout
<1>9. ASSUME Orderly(U, bs, info, h), End(h[c]) = Dyn!Base(i) + bs[i].used
      PROVE Orderly(U, more, entries, g)
  <2>1. h[c].offset \in Nat /\ h[c].size \in Nat /\ Dyn!Base(i) \in Nat
    BY <1>1, <1>3, BlocksLieApart DEF Holds
  <2>2. h[c] # Range(0, 0) /\ h[c] \notin U
    <3>1. Range(0, 0).offset = 0 /\ \A b \in U : b.offset < HeapSize
      <4>1. \A b \in U : b.offset \in Nat /\ b.size \in Nat \ {0} /\ b.offset + b.size <= HeapSize
        BY DEF Ranges, End
      <4> QED
        BY <1>1, <4>1 DEF Range
    <3> QED
      BY <1>1, <1>2, <3>1
  <2>3. PICK k \in 1..Len(bs) : BelowMark(bs, h[c], k) /\ info[a] = [block |-> k, total |-> h[c].size]
    BY <1>9, <2>2 DEF Orderly, Known
  <2>4. /\ BelowMark(bs, h[c], i) /\ h[c].size > 0 /\ info[a].total = h[c].size
        /\ Dyn!Base(i) <= h[c].offset
    BY <1>2, <2>3 DEF BelowMark
  <2>5. h[c].offset + h[c].size = Dyn!Base(i) + bs[i].used
    BY <1>9 DEF End
  <2>6. h[c].offset = Dyn!Base(i) + u
    <3>1. bs[i].used >= info[a].total
      BY <1>3, <2>1, <2>4, <2>5, SMTT(40)
    <3>2. u = bs[i].used - h[c].size
      BY <2>4, <3>1
    <3> DEFINE b == Dyn!Base(i)
               o == h[c].offset
               s == h[c].size
               m == bs[i].used
    <3>3. /\ b \in Nat /\ o \in Nat /\ s \in Nat /\ m \in Nat
          /\ o + s = b + m /\ u = m - s
      BY <1>3, <2>1, <2>5, <3>2
    <3> HIDE DEF b, o, s, m
    <3>4. o = b + u
      BY <3>3
    <3> QED
      BY <3>4 DEF b, o
  <2>7. ASSUME NEW d \in Callers, d # c
        PROVE h[d] = Range(0, 0) \/ h[d] \in U \/ Known(more, entries, h[d])
    <3>1. CASE h[d] = Range(0, 0) \/ h[d] \in U
      BY <3>1
    <3>2. CASE ~(h[d] = Range(0, 0) \/ h[d] \in U)
      <4>1. PICK j \in 1..Len(bs) : BelowMark(bs, h[d], j) /\ h[d].offset \in DOMAIN info
                                    /\ info[h[d].offset] = [block |-> j, total |-> h[d].size]
        BY <1>9, <3>2 DEF Orderly, Known
      <4>2. h[d].offset \in Nat /\ h[d].size \in Nat /\ h[d].size > 0
        BY <1>1, <4>1 DEF Holds, BelowMark
      <4>3. h[c].offset + h[c].size <= h[d].offset \/ h[d].offset + h[d].size <= h[c].offset
        BY <1>9, <2>7 DEF Orderly, Disjoint, End
      <4>4. h[d].offset # a
        BY <2>1, <2>4, <4>2, <4>3
      <4>5. BelowMark(more, h[d], j)
        <5>1. CASE j = i
          <6>1. h[d].offset + h[d].size <= Dyn!Base(i) + bs[i].used /\ Dyn!Base(i) <= h[d].offset
            BY <4>1, <5>1 DEF BelowMark, End
          <6>2. h[d].offset + h[d].size <= Dyn!Base(i) + u
            <7> DEFINE b == Dyn!Base(i)
                       o == h[c].offset
                       s == h[c].size
                       m == bs[i].used
                       p == h[d].offset
                       n == h[d].size
            <7>1. /\ b \in Nat /\ o \in Nat /\ s \in Nat /\ m \in Nat /\ p \in Nat /\ n \in Nat
                  /\ n > 0 /\ o + s = b + m /\ o = b + u /\ (o + s <= p \/ p + n <= o)
                  /\ p + n <= b + m
              BY <1>3, <2>1, <2>5, <2>6, <4>2, <4>3, <6>1
            <7> HIDE DEF b, o, s, m, p, n
            <7>2. p + n <= b + u
              BY <7>1
            <7> QED
              BY <7>2 DEF b, p, n
          <6>3. more[j].used = u
            BY <1>4, <5>1
          <6> QED
            BY <4>2, <5>1, <6>1, <6>2, <6>3 DEF BelowMark, End
        <5>2. CASE j # i
          BY <1>4, <4>1, <5>2 DEF BelowMark
        <5> QED
          BY <5>1, <5>2
      <4>6. h[d].offset \in DOMAIN entries /\ entries[h[d].offset] = info[h[d].offset]
        BY <4>1, <4>4 DEF Forgets
      <4>7. Known(more, entries, h[d])
        BY <1>4, <4>1, <4>5, <4>6 DEF Known
      <4> QED
        BY <4>7
    <3> QED
      BY <3>1, <3>2
  <2>8. \A d \in Callers : g[d] = Range(0, 0) \/ g[d] \in U \/ Known(more, entries, g[d])
    BY <1>7, <2>7
  <2>9. \A d, e \in Callers : d # e => Disjoint(g[d], g[e])
    BY <1>1, <1>7, <1>9, NothingIsDisjoint DEF Orderly
  <2> QED
    BY <2>8, <2>9 DEF Orderly
<1> QED
  BY <1>8, <1>9 DEF g

\* What the callers hold is orderly.
InOrder == Orderly(addressUsed, blocks, allocInfo, held)

\* What is used of the pool lies in it, and apart.
LEMMA PoolIs ==
  ASSUME HInv
  PROVE /\ \A b \in addressUsed : b \in Ranges /\ End(b) <= HeapSize /\ b \in Holds
                                  /\ b.offset < HeapSize
        /\ \A b, q \in addressUsed : b # q => Disjoint(b, q)
        /\ \A b, q \in addressUsed : b.offset = q.offset => b = q
        /\ Range(0, 0) \notin addressUsed
<1>1. HeapSize \in Nat /\ Partition(addressIdle, addressUsed)
  BY HeapManagerAssumption DEF HInv
<1>2. \A b \in addressUsed : b \in Ranges /\ End(b) <= HeapSize
  BY <1>1 DEF Partition
<1>3. \A b, q \in addressUsed : b # q => Disjoint(b, q)
  BY <1>1 DEF Partition
<1>4. \A b \in addressUsed : b \in Holds /\ b.offset \in Nat /\ b.size \in Nat \ {0}
                             /\ b.offset + b.size <= HeapSize
  BY <1>2 DEF Ranges, Holds, End
<1>5. \A b \in addressUsed : b.offset < HeapSize
  BY <1>1, <1>4
<1>6. ASSUME NEW b \in addressUsed, NEW q \in addressUsed, b.offset = q.offset PROVE b = q
  <2>1. ~Disjoint(b, q)
    BY <1>4, <1>6 DEF Disjoint, End
  <2> QED
    BY <1>3, <2>1
<1>7. Range(0, 0) \notin addressUsed
  BY <1>4 DEF Range
<1> QED
  BY <1>2, <1>3, <1>4, <1>5, <1>6, <1>7

\* The reply is one of those the heap gives.
LEMMA RepliesAre ==
  ASSUME NEW call \in {"malloc", "free"}, NEW arg \in Nat, NEW value \in Int \cup {Null},
         Dyn!Pool!Returns(call, arg, value)
  PROVE ReplyOK'
<1>1. Returns(call, arg, value)
  BY PoolIsTheHeap
<1>2. reply' = [call |-> call, arg |-> arg, value |-> value]
  BY <1>1 DEF Returns
<1>3. [call |-> call, arg |-> arg, value |-> value]
        \in [call : {"init", "malloc", "free"}, arg : Nat, value : Int \cup {Null}]
  OBVIOUS
<1> QED
  BY <1>2, <1>3 DEF ReplyOK

\* The pool stays what it is.
LEMMA PoolStays ==
  ASSUME HInv, UNCHANGED Dyn!pool, ReplyOK'
  PROVE HInv' /\ addressUsed' = addressUsed
BY DEF HInv, Dyn!pool

\* The pool gives a caller a range.
LEMMA AllocatesInPool ==
  ASSUME Dyn!DynamicHeapAssumption, DynInv, NEW c \in Callers, NEW n \in Requests,
         Dyn!AllocateInPool(c, n)
  PROVE DynInv' /\ (InOrder => InOrder')
<1>1. /\ HInv /\ Layout(addressUsed, blocks, allocInfo, held) /\ BlocksAre(blocks)
      /\ held \in [Callers -> Holds] /\ HeapSize \in Nat /\ n \in Nat
  BY HeapManagerAssumption DEF DynInv, Layout
<1>2. /\ Allocate(n) /\ blocks' = blocks /\ allocInfo' = allocInfo /\ expanding' = expanding
      /\ held' = [held EXCEPT ![c] = Range(reply'.value, AlignUp(n))]
  BY PoolIsTheHeap, SameRanges DEF Dyn!AllocateInPool, Dyn!Hold
<1>3. PICK t \in addressIdle :
        /\ AlignUp(n) \in 1..t.size
        /\ addressIdle' = sizeIdle'
        /\ addressUsed' = addressUsed \cup {Range(t.offset, AlignUp(n))}
        /\ Returns("malloc", n, t.offset)
        /\ Partition(addressIdle', addressUsed')
  BY <1>1, <1>2, AllocateStep
<1> DEFINE m == AlignUp(n)
           r == Range(t.offset, m)
<1>4. t.offset \in Nat /\ t.size \in Nat /\ t \notin addressUsed
      /\ \A b \in addressUsed : Disjoint(t, b)
  <2>1. Partition(addressIdle, addressUsed)
    BY <1>1 DEF HInv
  <2>2. t \in Ranges /\ t \notin addressUsed
    BY <2>1 DEF Partition
  <2>3. \A b \in addressUsed : t # b => Disjoint(t, b)
    BY <2>1 DEF Partition
  <2> QED
    BY <2>2, <2>3 DEF Ranges
<1>5. reply' = [call |-> "malloc", arg |-> n, value |-> t.offset]
  BY <1>3 DEF Returns
<1>6. held' = [held EXCEPT ![c] = r] /\ addressUsed' = addressUsed \cup {r}
  BY <1>2, <1>3, <1>5
<1>7. HInv'
  <2>1. t.offset \in Int \cup {Null}
    BY <1>4
  <2>2. ReplyOK'
    BY <1>1, <1>5, <2>1 DEF ReplyOK
  <2> QED
    BY <1>3, <2>2 DEF HInv
<1> HIDE DEF m
<1>8. m \in 1..t.size /\ m \in Nat
  BY <1>3, <1>4 DEF m
<1>9. r.offset = t.offset /\ r.size = m /\ r \in Holds
  BY <1>4, <1>8 DEF Range, Holds
<1> HIDE DEF r
<1>10. r \notin addressUsed
  <2> SUFFICES ASSUME r \in addressUsed PROVE FALSE
    OBVIOUS
  <2>1. t.offset + t.size <= r.offset \/ r.offset + r.size <= t.offset
    BY <1>4 DEF Disjoint, End
  <2> QED
    BY <1>4, <1>8, <1>9, <2>1
<1>11. End(r) <= HeapSize /\ r.offset < HeapSize /\ \A b \in addressUsed : Disjoint(r, b) /\ Disjoint(b, r)
  <2>1. HInv' => /\ \A b \in addressUsed' : End(b) <= HeapSize /\ b.offset < HeapSize
                 /\ \A b, q \in addressUsed' : b # q => Disjoint(b, q)
    <3>1. ASSUME HInv'
          PROVE /\ \A b \in addressUsed' : b \in Ranges /\ End(b) <= HeapSize
                /\ \A b, q \in addressUsed' : b # q => Disjoint(b, q)
      BY <3>1 DEF HInv, Partition
    <3>2. ASSUME HInv', NEW b \in addressUsed' PROVE b.offset < HeapSize
      <4>1. b \in Ranges /\ End(b) <= HeapSize
        BY <3>1, <3>2
      <4> QED
        BY <1>1, <4>1 DEF Ranges, End
    <3> QED
      BY <3>1, <3>2
  <2> QED
    BY <1>6, <1>7, <1>10, <2>1
<1>12. r # Range(0, 0)
  BY <1>8, <1>9 DEF Range
<1>13. \A i \in 1..Len(blocks) : ~InBlock(blocks, r, i)
  <2> SUFFICES ASSUME NEW i \in 1..Len(blocks), InBlock(blocks, r, i) PROVE FALSE
    OBVIOUS
  <2>1. r.offset >= HeapSize
    BY <1>1, <1>9, HoldsApart
  <2> QED
    BY <1>1, <1>4, <1>9, <1>11, <2>1
<1>14. Layout(addressUsed', blocks', allocInfo', held')
  <2>1. Layout(addressUsed \cup {r}, blocks, allocInfo, [held EXCEPT ![c] = r])
    BY <1>1, <1>9, <1>10, <1>12, <1>13, TakingFromThePool
  <2> QED
    BY <1>2, <1>6, <2>1
<1>15. DynInv'
  BY <1>2, <1>7, <1>14 DEF DynInv
<1>16. held'[c] = r /\ \A d \in Callers : d # c => held'[d] = held[d]
  BY <1>1, <1>6
<1>17. ASSUME InOrder, NEW d \in Callers, d # c
       PROVE Disjoint(r, held[d]) /\ Disjoint(held[d], r)
  <2>1. held[d] \in Holds
    BY <1>1
  <2>2. CASE held[d] = Range(0, 0)
    BY <1>9, <2>2, NothingIsDisjoint
  <2>3. CASE held[d] \in addressUsed
    BY <1>11, <2>3
  <2>4. CASE Known(blocks, allocInfo, held[d])
    <3>1. PICK i \in 1..Len(blocks) : BelowMark(blocks, held[d], i)
      BY <2>4 DEF Known
    <3>2. InBlock(blocks, held[d], i)
      BY <1>1, <2>1, <3>1, KnownIsInBlock
    <3>3. Disjoint(held[d], r)
      BY <1>1, <1>9, <1>11, <2>1, <3>2, HoldsApart
    <3> QED
      BY <3>3 DEF Disjoint
  <2> QED
    BY <1>17, <2>2, <2>3, <2>4 DEF InOrder, Orderly
<1>18. ASSUME InOrder PROVE InOrder'
  <2>1. \A d \in Callers : held'[d] = Range(0, 0) \/ held'[d] \in addressUsed'
                           \/ Known(blocks', allocInfo', held'[d])
    BY <1>2, <1>6, <1>16, <1>18 DEF InOrder, Orderly
  <2>2. \A d, e \in Callers : d # e => Disjoint(held'[d], held'[e])
    BY <1>16, <1>17, <1>18 DEF InOrder, Orderly
  <2> QED
    BY <2>1, <2>2 DEF InOrder, Orderly
<1> QED
  BY <1>15, <1>18

\* A block that is large enough gives a caller the part behind its mark.
LEMMA AllocatesFromBlock ==
  ASSUME Dyn!DynamicHeapAssumption, HInv, NEW bs, Layout(addressUsed, bs, allocInfo, held),
         NEW c \in Callers, NEW m \in Nat \ {0}, Dyn!AllocateFromBlock(c, bs, m), UNCHANGED Dyn!pool
  PROVE /\ HInv' /\ Layout(addressUsed', blocks', allocInfo', held')
        /\ Orderly(addressUsed, bs, allocInfo, held) => InOrder'
<1> DEFINE i == Dyn!Sets!Min(Dyn!Suitable(bs, m))
           address == Dyn!Base(i) + bs[i].used
           r == Range(address, m)
<1>1. BlocksAre(bs)
  BY DEF Layout
<1>2. i \in DOMAIN bs /\ bs[i].size - bs[i].used >= m
  <2>1. DOMAIN bs = 1..Len(bs)
    BY <1>1 DEF BlocksAre
  <2>2. Dyn!Suitable(bs, m) \subseteq Nat
    <3>1. Dyn!Suitable(bs, m) \subseteq DOMAIN bs
      BY DEF Dyn!Suitable
    <3>2. Len(bs) \in Nat
      BY <1>1 DEF BlocksAre
    <3> QED
      BY <2>1, <3>1, <3>2
  <2>3. Dyn!Suitable(bs, m) # {}
    BY DEF Dyn!AllocateFromBlock
  <2>4. i \in Dyn!Suitable(bs, m)
    BY <2>2, <2>3, LeastOf
  <2> QED
    BY <2>4 DEF Dyn!Suitable
<1>3. i \in 1..Len(bs) /\ i \in Nat \ {0}
  BY <1>1, <1>2 DEF BlocksAre
<1>4. /\ blocks' = [bs EXCEPT ![i].used = bs[i].used + m]
      /\ allocInfo' = [a \in DOMAIN allocInfo \cup {address} |->
                         IF a = address THEN [block |-> i, total |-> m] ELSE allocInfo[a]]
      /\ held' = [held EXCEPT ![c] = r]
      /\ Dyn!Pool!Returns("malloc", m, address)
  BY SameRanges DEF Dyn!AllocateFromBlock, Dyn!Hold
<1> HIDE DEF i
<1>5. address \in Nat /\ Dyn!Base(i) \in Nat /\ bs[i].used \in Nat
  <2>1. bs[i] \in ExternalBlocks
    BY <1>1, <1>3 DEF BlocksAre
  <2>2. bs[i].used \in Nat
    BY <2>1 DEF ExternalBlocks
  <2>3. Dyn!Base(i) \in Nat
    BY <1>3, BlocksLieApart
  <2> QED
    BY <2>2, <2>3
<1>6. r.offset = address
  BY DEF Range
<1>7. HInv' /\ addressUsed' = addressUsed
  <2>1. address \in Int \cup {Null} /\ m \in Nat
    BY <1>5
  <2>2. ReplyOK'
    BY <1>4, <2>1, RepliesAre
  <2> QED
    BY <2>2, PoolStays
<1>8. Marks(bs, i, bs[i].used + m, blocks')
  BY <1>4 DEF Marks
<1>9. \A b \in addressUsed : b \in Ranges /\ End(b) <= HeapSize
  BY PoolIs
<1>10. r = Range(Dyn!Base(i) + bs[i].used, m)
  OBVIOUS
<1>11. Notes(allocInfo, r.offset, [block |-> i, total |-> m], allocInfo')
  BY <1>4, <1>6 DEF Notes
<1> HIDE DEF r, address
<1>12. /\ Layout(addressUsed, blocks', allocInfo', [held EXCEPT ![c] = r])
       /\ Orderly(addressUsed, bs, allocInfo, held)
            => Orderly(addressUsed, blocks', allocInfo', [held EXCEPT ![c] = r])
  BY <1>2, <1>3, <1>8, <1>9, <1>10, <1>11, TakingFromABlock
<1> QED
  BY <1>4, <1>7, <1>12 DEF InOrder

\* An allocation that finds a block.
LEMMA AllocatesInBlock ==
  ASSUME Dyn!DynamicHeapAssumption, DynInv, NEW c \in Callers, NEW n \in Requests,
         Dyn!AllocateInBlock(c, n)
  PROVE DynInv' /\ (InOrder => InOrder')
<1>1. n \in Nat \ {0}
  BY HeapManagerAssumption DEF Dyn!AllocateInBlock
<1>2. AlignUp(n) \in Nat \ {0}
  BY <1>1, AlignUpHolds
<1>3. /\ Dyn!AllocateFromBlock(c, blocks, AlignUp(n)) /\ UNCHANGED Dyn!pool
      /\ expanding' = expanding
  BY SameRanges DEF Dyn!AllocateInBlock
<1>4. HInv /\ Layout(addressUsed, blocks, allocInfo, held) /\ expanding \in [Callers -> Nat]
  BY DEF DynInv
<1>5. /\ HInv' /\ Layout(addressUsed', blocks', allocInfo', held')
      /\ Orderly(addressUsed, blocks, allocInfo, held) => InOrder'
  BY <1>2, <1>3, <1>4, AllocatesFromBlock
<1> QED
  BY <1>3, <1>4, <1>5 DEF DynInv, InOrder

\* The driver has given a block, and it is large enough or not.
LEMMA ExpandsPool ==
  ASSUME Dyn!DynamicHeapAssumption, DynInv, NEW c \in Callers, Dyn!Expanded(c)
  PROVE DynInv' /\ (InOrder => InOrder')
<1> DEFINE n == expanding[c]
           more == Append(blocks, [size |-> Dyn!ExpansionSize(n), used |-> 0])
<1>1. HInv /\ Layout(addressUsed, blocks, allocInfo, held) /\ expanding \in [Callers -> Nat]
  BY DEF DynInv
<1>2. /\ n \in Nat \ {0} /\ expanding' = [expanding EXCEPT ![c] = 0] /\ UNCHANGED Dyn!pool
      /\ \/ Dyn!AllocateFromBlock(c, more, n)
         \/ blocks' = more /\ Dyn!Pool!Returns("malloc", n, Null) /\ UNCHANGED <<allocInfo, held>>
  BY <1>1 DEF Dyn!Expanded
<1>3. expanding' \in [Callers -> Nat]
  BY <1>1, <1>2
<1>4. Dyn!ExpansionSize(n) \in 0..MAX_BLOCK_SIZE
  BY <1>2, ExpansionIsCapped
<1>5. /\ Layout(addressUsed, more, allocInfo, held)
      /\ Orderly(addressUsed, blocks, allocInfo, held) => Orderly(addressUsed, more, allocInfo, held)
  BY <1>1, <1>4, AddingABlock
<1> HIDE DEF more, n
<1>6. CASE Dyn!AllocateFromBlock(c, more, n)
  <2>1. /\ HInv' /\ Layout(addressUsed', blocks', allocInfo', held')
        /\ Orderly(addressUsed, more, allocInfo, held) => InOrder'
    BY <1>1, <1>2, <1>5, <1>6, AllocatesFromBlock
  <2> QED
    BY <1>3, <1>5, <2>1 DEF DynInv, InOrder
<1>7. CASE blocks' = more /\ Dyn!Pool!Returns("malloc", n, Null) /\ UNCHANGED <<allocInfo, held>>
  <2>1. ReplyOK'
    BY <1>2, <1>7, RepliesAre
  <2>2. HInv' /\ addressUsed' = addressUsed
    BY <1>1, <1>2, <2>1, PoolStays
  <2> QED
    BY <1>3, <1>5, <1>7, <2>2 DEF DynInv, InOrder
<1> QED
  BY <1>2, <1>6, <1>7

\* Calls that get nothing, and the one that goes to the driver, change nothing.
LEMMA GetsNothing ==
  ASSUME DynInv, NEW c \in Callers,
         \/ Dyn!RejectZero(c) \/ Dyn!ExpandFails(c)
         \/ \E n \in Requests : Dyn!Expand(c, n)
  PROVE DynInv' /\ (InOrder => InOrder')
<1>1. HInv /\ expanding \in [Callers -> Nat] /\ ReplyOK
  BY DEF DynInv, HInv
<1>2. UNCHANGED Dyn!pool /\ blocks' = blocks /\ allocInfo' = allocInfo /\ held' = held
  BY DEF Dyn!RejectZero, Dyn!ExpandFails, Dyn!Expand
<1>3. ReplyOK' /\ expanding' \in [Callers -> Nat]
  <2>1. CASE Dyn!RejectZero(c)
    <3>1. Dyn!Pool!Returns("malloc", 0, Null) /\ expanding' = expanding
      BY <2>1 DEF Dyn!RejectZero
    <3> QED
      BY <1>1, <3>1, RepliesAre
  <2>2. CASE Dyn!ExpandFails(c)
    <3>1. /\ Dyn!Pool!Returns("malloc", expanding[c], Null) /\ expanding[c] \in Nat
          /\ expanding' = [expanding EXCEPT ![c] = 0]
      BY <1>1, <2>2 DEF Dyn!ExpandFails
    <3>2. ReplyOK'
      BY <3>1, RepliesAre
    <3> QED
      BY <1>1, <3>1, <3>2
  <2>3. ASSUME NEW n \in Requests, Dyn!Expand(c, n)
        PROVE ReplyOK' /\ expanding' \in [Callers -> Nat]
    <3>1. /\ n \in Nat \ {0} /\ reply' = reply
          /\ expanding' = [expanding EXCEPT ![c] = AlignUp(n)]
      <4>1. n > 0 /\ reply' = reply /\ expanding' = [expanding EXCEPT ![c] = Dyn!AlignUp(n)]
        BY <2>3 DEF Dyn!Expand
      <4>2. n \in Nat /\ Dyn!AlignUp(n) = AlignUp(n)
        BY HeapManagerAssumption, SameRanges
      <4> QED
        BY <4>1, <4>2
    <3>2. AlignUp(n) \in Nat
      BY <3>1, AlignUpHolds
    <3> QED
      BY <1>1, <3>1, <3>2 DEF ReplyOK
  <2> QED
    BY <2>1, <2>2, <2>3
<1>4. HInv' /\ addressUsed' = addressUsed
  BY <1>1, <1>2, <1>3, PoolStays
<1> QED
  BY <1>2, <1>3, <1>4 DEF DynInv, InOrder

\* The free is of the last allocation of its block.
FreesTheLast(c) ==
  LET info == allocInfo[held[c].offset]
  IN  End(held[c]) = Dyn!Base(info.block) + blocks[info.block].used

\* An allocation in a block is freed.
LEMMA ReleasesInBlock ==
  ASSUME Dyn!DynamicHeapAssumption, DynInv, NEW c \in Callers, Dyn!ReleaseInBlock(c)
  PROVE DynInv' /\ (InOrder /\ FreesTheLast(c) => InOrder')
<1> DEFINE a == held[c].offset
           i == allocInfo[a].block
           u == Dyn!Sets!Max({blocks[i].used - allocInfo[a].total, 0})
<1>1. /\ HInv /\ Layout(addressUsed, blocks, allocInfo, held) /\ expanding \in [Callers -> Nat]
      /\ BlocksAre(blocks) /\ EntriesAre(blocks, allocInfo) /\ held \in [Callers -> Holds]
  BY DEF DynInv, Layout
<1>2. /\ a \in DOMAIN allocInfo
      /\ blocks' = [blocks EXCEPT ![i].used = u]
      /\ allocInfo' = [x \in DOMAIN allocInfo \ {a} |-> allocInfo[x]]
      /\ held' = [held EXCEPT ![c] = Range(0, 0)]
      /\ Dyn!Pool!Returns("free", a, 0) /\ UNCHANGED Dyn!pool /\ expanding' = expanding
  BY SameRanges DEF Dyn!ReleaseInBlock, Dyn!Hold
<1>3. allocInfo[a] \in [block : 1..Len(blocks), total : Nat] /\ a \in Nat
  BY <1>1, <1>2 DEF EntriesAre
<1>4. i \in 1..Len(blocks) /\ allocInfo[a].total \in Nat
  BY <1>3
<1>5. blocks[i].used \in Nat
  <2>1. blocks[i] \in ExternalBlocks
    BY <1>1, <1>4 DEF BlocksAre
  <2> QED
    BY <2>1 DEF ExternalBlocks
<1>6. /\ u \in Nat /\ u <= blocks[i].used
      /\ blocks[i].used >= allocInfo[a].total => u = blocks[i].used - allocInfo[a].total
  <2> DEFINE m == blocks[i].used
             t == allocInfo[a].total
             x == IF m >= t THEN m - t ELSE 0
  <2>1. m \in Nat /\ t \in Nat
    BY <1>4, <1>5
  <2> HIDE DEF m, t
  <2>2. /\ x \in Nat /\ x <= m /\ (m >= t => x = m - t)
        /\ x \in {m - t, 0} /\ x >= m - t /\ x >= 0
        /\ \A y \in {m - t, 0} : y >= m - t /\ y >= 0 => y = x
    BY <2>1
  <2>3. Dyn!Sets!Max({m - t, 0}) = x
    BY <2>2 DEF Dyn!Sets!Max
  <2>4. u = Dyn!Sets!Max({m - t, 0})
    BY DEF m, t
  <2> HIDE DEF x
  <2> QED
    BY <2>2, <2>3, <2>4 DEF m, t
<1> HIDE DEF u
<1>7. Marks(blocks, i, u, blocks') /\ Forgets(allocInfo, a, allocInfo')
  BY <1>2 DEF Marks, Forgets
<1>8. HInv' /\ addressUsed' = addressUsed
  <2>1. ReplyOK'
    BY <1>2, <1>3, RepliesAre
  <2> QED
    BY <1>1, <1>2, <2>1, PoolStays
<1>9. \A b \in addressUsed : b \in Ranges /\ End(b) <= HeapSize
  BY <1>1, PoolIs
<1> HIDE DEF i, a
<1>10. a = held[c].offset /\ i = allocInfo[a].block
  BY DEF a, i
<1>11. /\ Layout(addressUsed, blocks', allocInfo', [held EXCEPT ![c] = Range(0, 0)])
       /\ Orderly(addressUsed, blocks, allocInfo, held) /\ End(held[c]) = Dyn!Base(i) + blocks[i].used
            => Orderly(addressUsed, blocks', allocInfo', [held EXCEPT ![c] = Range(0, 0)])
  BY <1>1, <1>2, <1>6, <1>7, <1>9, <1>10, FreeingInABlock
<1>12. FreesTheLast(c) <=> End(held[c]) = Dyn!Base(i) + blocks[i].used
  BY DEF FreesTheLast, i, a
<1> QED
  BY <1>1, <1>2, <1>8, <1>11, <1>12 DEF DynInv, InOrder

\* A range of the pool is freed, or an address that is not known any more.
LEMMA ReleasesInPool ==
  ASSUME Dyn!DynamicHeapAssumption, DynInv, NEW c \in Callers, Dyn!ReleaseInPool(c)
  PROVE DynInv' /\ (InOrder => InOrder')
<1> DEFINE a == held[c].offset
           g == [held EXCEPT ![c] = Range(0, 0)]
<1>1. /\ HInv /\ Layout(addressUsed, blocks, allocInfo, held) /\ expanding \in [Callers -> Nat]
      /\ BlocksAre(blocks) /\ held \in [Callers -> Holds] /\ HeapSize \in Nat
  BY HeapManagerAssumption DEF DynInv, Layout
<1>2. /\ held[c] # Range(0, 0)
      /\ Release(a) \/ ReleaseFails(a)
      /\ held' = g /\ UNCHANGED <<blocks, allocInfo, expanding>>
  BY PoolIsTheHeap, SameRanges DEF Dyn!ReleaseInPool, Dyn!Hold
<1>3. held[c] \in Holds /\ a \in Nat
  BY <1>1 DEF Holds
<1>4. Range(0, 0) \notin addressUsed
  BY <1>1, PoolIs
<1>5. g[c] = Range(0, 0) /\ \A d \in Callers : d # c => g[d] = held[d]
  BY <1>1
<1> HIDE DEF a
<1>6. CASE Release(a)
  <2>1. \E b \in addressUsed : b.offset = a
    BY <1>6 DEF Release, Find
  <2>2. a \in 0..HeapSize
    BY <1>1, <1>3, <2>1, PoolIs
  <2>3. PICK b \in addressUsed :
          /\ b.offset = a
          /\ addressUsed' = addressUsed \ {b}
          /\ addressIdle' = sizeIdle'
          /\ Returns("free", a, 0)
          /\ Partition(addressIdle', addressUsed')
    BY <1>1, <1>6, <2>2, ReleaseStep
  <2>4. held[c] = b
    <3>1. b.offset < HeapSize
      BY <1>1, PoolIs
    <3>2. ASSUME NEW i \in 1..Len(blocks), InBlock(blocks, held[c], i) PROVE FALSE
      <4>1. held[c].offset >= HeapSize
        BY <1>1, <1>3, <3>2, HoldsApart
      <4>2. held[c].offset = b.offset
        BY <2>3 DEF a
      <4>3. held[c].offset \in Nat
        BY <1>3 DEF Holds
      <4> QED
        BY <1>1, <3>1, <4>1, <4>2, <4>3
    <3>3. held[c] \in addressUsed
      BY <1>1, <1>2, <3>2 DEF Layout, HoldIs
    <3>4. held[c].offset = b.offset
      BY <2>3 DEF a
    <3> QED
      BY <1>1, <3>3, <3>4, PoolIs
  <2>5. HInv'
    <3>1. ReplyOK'
      BY <1>3, <2>3 DEF Returns, ReplyOK
    <3> QED
      BY <2>3, <3>1 DEF HInv
  <2>6. Layout(addressUsed \ {held[c]}, blocks, allocInfo, g)
    BY <1>1, <1>4, <2>4, GivingUp
  <2>7. addressUsed' = addressUsed \ {held[c]}
    BY <2>3, <2>4
  <2>8. DynInv'
    BY <1>1, <1>2, <2>5, <2>6, <2>7 DEF DynInv
  <2>9. ASSUME InOrder PROVE InOrder'
    <3>1. \A d \in Callers : d # c => held[d] # held[c]
      BY <1>1, <2>4 DEF Layout
    <3>2. \A d \in Callers : held'[d] = Range(0, 0) \/ held'[d] \in addressUsed'
                             \/ Known(blocks', allocInfo', held'[d])
      BY <1>2, <1>5, <2>7, <2>9, <3>1 DEF InOrder, Orderly
    <3>3. \A d, e \in Callers : d # e => Disjoint(held'[d], held'[e])
      BY <1>1, <1>2, <1>5, <2>9, NothingIsDisjoint DEF InOrder, Orderly
    <3> QED
      BY <3>2, <3>3 DEF InOrder, Orderly
  <2> QED
    BY <2>8, <2>9
<1>7. CASE ReleaseFails(a)
  <2>1. Returns("free", a, -1) /\ UNCHANGED trees
    BY <1>7 DEF ReleaseFails
  <2>2. HInv' /\ addressUsed' = addressUsed
    <3>1. ReplyOK'
      BY <1>3, <2>1 DEF Returns, ReplyOK
    <3> QED
      BY <1>1, <2>1, <3>1 DEF HInv, trees
  <2>3. Layout(addressUsed, blocks, allocInfo, g)
    BY <1>1, <1>4, GivingUp
  <2>4. DynInv'
    BY <1>1, <1>2, <2>2, <2>3 DEF DynInv
  <2>5. ASSUME InOrder PROVE InOrder'
    <3>1. \A d \in Callers : held'[d] = Range(0, 0) \/ held'[d] \in addressUsed'
                             \/ Known(blocks', allocInfo', held'[d])
      BY <1>2, <1>5, <2>2, <2>5 DEF InOrder, Orderly
    <3>2. \A d, e \in Callers : d # e => Disjoint(held'[d], held'[e])
      BY <1>1, <1>2, <1>5, <2>5, NothingIsDisjoint DEF InOrder, Orderly
    <3> QED
      BY <3>1, <3>2 DEF InOrder, Orderly
  <2> QED
    BY <2>4, <2>5
<1> QED
  BY <1>2, <1>6, <1>7

\* At the start the heap is whole and nobody holds anything.
LEMMA DynInitially ==
  ASSUME Dyn!DynamicHeapAssumption, Dyn!Init
  PROVE DynInv /\ InOrder
<1>1. /\ Init /\ blocks = <<>> /\ DOMAIN allocInfo = {}
      /\ expanding = [c \in Callers |-> 0] /\ held = [c \in Callers |-> Range(0, 0)]
  BY PoolIsTheHeap, SameRanges DEF Dyn!Init
<1>2. HInv /\ addressUsed = {}
  BY <1>1, HeapInitially DEF Init
<1>3. Range(0, 0) \in Holds
  BY DEF Range, Holds
<1>4. BlocksAre(blocks)
  BY <1>1 DEF BlocksAre
<1>5. EntriesAre(blocks, allocInfo)
  BY <1>1 DEF EntriesAre
<1>6. Layout(addressUsed, blocks, allocInfo, held)
  BY <1>1, <1>2, <1>3, <1>4, <1>5 DEF Layout, HoldIs
<1>7. expanding \in [Callers -> Nat]
  BY <1>1
<1>8. InOrder
  BY <1>1, <1>3, NothingIsDisjoint DEF InOrder, Orderly
<1> QED
  BY <1>2, <1>6, <1>7, <1>8 DEF DynInv

\* What a step keeps.
LEMMA DynStep ==
  ASSUME Dyn!DynamicHeapAssumption, DynInv, [Dyn!Next]_Dyn!vars
  PROVE /\ DynInv'
        /\ InOrder /\ (\A c \in Callers : Dyn!ReleaseInBlock(c) => FreesTheLast(c)) => InOrder'
<1>1. CASE UNCHANGED Dyn!vars
  BY <1>1 DEF Dyn!vars, Dyn!pool, DynInv, InOrder, HInv, ReplyOK
<1>2. ASSUME NEW c \in Callers, NEW n \in Requests, Dyn!AllocateInPool(c, n)
      PROVE DynInv' /\ (InOrder => InOrder')
  BY <1>2, AllocatesInPool
<1>3. ASSUME NEW c \in Callers, NEW n \in Requests, Dyn!AllocateInBlock(c, n)
      PROVE DynInv' /\ (InOrder => InOrder')
  BY <1>3, AllocatesInBlock
<1>4. ASSUME NEW c \in Callers, \/ Dyn!RejectZero(c) \/ Dyn!ExpandFails(c)
                                \/ \E n \in Requests : Dyn!Expand(c, n)
      PROVE DynInv' /\ (InOrder => InOrder')
  BY <1>4, GetsNothing
<1>5. ASSUME NEW c \in Callers, Dyn!Expanded(c) PROVE DynInv' /\ (InOrder => InOrder')
  BY <1>5, ExpandsPool
<1>6. ASSUME NEW c \in Callers, Dyn!ReleaseInBlock(c)
      PROVE DynInv' /\ (InOrder /\ FreesTheLast(c) => InOrder')
  BY <1>6, ReleasesInBlock
<1>7. ASSUME NEW c \in Callers, Dyn!ReleaseInPool(c) PROVE DynInv' /\ (InOrder => InOrder')
  BY <1>7, ReleasesInPool
<1> QED
  BY <1>1, <1>2, <1>3, <1>4, <1>5, <1>6, <1>7 DEF Dyn!Next

\* The pool of the dynamic heap stays a partition, blocks are used up to a mark
\* inside them, and what callers hold is a used range of the pool, of nobody else,
\* or a range inside one block, whatever happens while the lock is released.
THEOREM DynamicHeapInvariant ==
  ASSUME Dyn!DynamicHeapAssumption
  PROVE Dyn!Spec => []DynInv
<1>1. Dyn!Init => DynInv
  BY DynInitially
<1>2. DynInv /\ [Dyn!Next]_Dyn!vars => DynInv'
  BY DynStep
<1> QED
  BY <1>1, <1>2, PTL DEF Dyn!Spec

\* If two callers share bytes, both hold a part of the same external block.
SharedOnlyInABlock ==
  \A c, d \in Callers :
    c # d => \/ Disjoint(held[c], held[d])
             \/ \E i \in 1..Len(blocks) : InBlock(blocks, held[c], i) /\ InBlock(blocks, held[d], i)

\* Whatever is allocated, freed and expanded, and by whomever the lock is taken
\* while the driver works, two callers share bytes only inside one external block:
\* the pool and the boundaries of the blocks are safe.
THEOREM DynamicHeapSharesInBlocks ==
  ASSUME Dyn!DynamicHeapAssumption
  PROVE Dyn!Spec => []SharedOnlyInABlock
<1>1. ASSUME DynInv PROVE SharedOnlyInABlock
  <2> SUFFICES ASSUME NEW c \in Callers, NEW d \in Callers, c # d
               PROVE \/ Disjoint(held[c], held[d])
                     \/ \E i \in 1..Len(blocks) : InBlock(blocks, held[c], i) /\ InBlock(blocks, held[d], i)
    BY DEF SharedOnlyInABlock
  <2>1. /\ HInv /\ BlocksAre(blocks) /\ held[c] \in Holds /\ held[d] \in Holds
        /\ HoldIs(addressUsed, blocks, held[c]) /\ HoldIs(addressUsed, blocks, held[d])
        /\ held[c] \in addressUsed => held[c] # held[d]
    BY <1>1 DEF DynInv, Layout
  <2>2. CASE held[c] = Range(0, 0) \/ held[d] = Range(0, 0)
    BY <2>1, <2>2, NothingIsDisjoint
  <2>3. CASE held[c] \in addressUsed /\ held[d] \in addressUsed
    BY <2>1, <2>3, PoolIs
  <2>4. ASSUME held[c] \in addressUsed, NEW i \in 1..Len(blocks), InBlock(blocks, held[d], i)
        PROVE Disjoint(held[c], held[d])
    <3>1. End(held[c]) <= HeapSize
      BY <2>1, <2>4, PoolIs
    <3>2. Disjoint(held[d], held[c])
      BY <2>1, <2>4, <3>1, HoldsApart
    <3> QED
      BY <3>2 DEF Disjoint
  <2>5. ASSUME held[d] \in addressUsed, NEW i \in 1..Len(blocks), InBlock(blocks, held[c], i)
        PROVE Disjoint(held[c], held[d])
    <3>1. End(held[d]) <= HeapSize
      BY <2>1, <2>5, PoolIs
    <3> QED
      BY <2>1, <2>5, <3>1, HoldsApart
  <2>6. ASSUME NEW i \in 1..Len(blocks), InBlock(blocks, held[c], i),
               NEW j \in 1..Len(blocks), InBlock(blocks, held[d], j), i # j
        PROVE Disjoint(held[c], held[d])
    BY <2>1, <2>6, HoldsApart
  <2> QED
    BY <2>1, <2>2, <2>3, <2>4, <2>5, <2>6 DEF HoldIs
<1> QED
  BY <1>1, DynamicHeapInvariant, PTL

\* The behaviours in which only the last allocation of a block is ever freed.
LastFirst == \A c \in Callers : Dyn!ReleaseInBlock(c) => FreesTheLast(c)
LastFirstSpec == Dyn!Init /\ [][Dyn!Next /\ LastFirst]_Dyn!vars

\* If only the last allocation of a block is ever freed, no two callers hold the
\* same byte: frees in another order (release lowers used_size by the size of
\* whatever is freed) are all that is wrong with the marks.
THEOREM DynamicHeapLastFirst ==
  ASSUME Dyn!DynamicHeapAssumption
  PROVE LastFirstSpec => []Dyn!NoOverlap
<1>1. Dyn!Init => DynInv /\ InOrder
  BY DynInitially
<1>2. DynInv /\ InOrder /\ [Dyn!Next /\ LastFirst]_Dyn!vars => DynInv' /\ InOrder'
  <2> SUFFICES ASSUME DynInv, InOrder, [Dyn!Next /\ LastFirst]_Dyn!vars
               PROVE DynInv' /\ InOrder'
    OBVIOUS
  <2>1. CASE UNCHANGED Dyn!vars
    BY <2>1 DEF Dyn!vars, Dyn!pool, DynInv, InOrder, HInv, ReplyOK
  <2>2. CASE Dyn!Next /\ LastFirst
    BY <2>2, DynStep DEF LastFirst
  <2> QED
    BY <2>1, <2>2
<1>3. InOrder => Dyn!NoOverlap
  BY SameRanges DEF InOrder, Orderly, Dyn!NoOverlap
<1> QED
  BY <1>1, <1>2, <1>3, PTL DEF LastFirstSpec
=============================================================================
