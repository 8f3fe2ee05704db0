----------------------------- MODULE RangeTrees -----------------------------
(***************************************************************************)
(* The bookkeeping both host allocators of the library share: three        *)
(* ordered containers of memory ranges (address_idle_tree_,                *)
(* size_idle_tree_ and address_used_tree_) and the range arithmetic on     *)
(* them.  A tree is the set of its entries.  address_idle_tree_ and        *)
(* address_used_tree_ are std::map keyed by offset, so an insertion whose  *)
(* key is taken does nothing (Emplace); size_idle_tree_ is a std::set of   *)
(* whole ranges.                                                           *)
(***************************************************************************)
EXTENDS Integers

CONSTANT ALIGN      \* align_size: 16 in the code

ASSUME AlignAssumption == ALIGN \in Nat \ {0}

-----------------------------------------------------------------------------
Ranges == [offset : Nat, size : Nat \ {0}]

Range(o, n) == [offset |-> o, size |-> n]

End(r) == r.offset + r.size

Disjoint(r, q) == End(r) <= q.offset \/ End(q) <= r.offset

\* allocated_size_align_up: the next multiple of ALIGN.
AlignUp(n) == ((n + ALIGN - 1) \div ALIGN) * ALIGN

-----------------------------------------------------------------------------
\* std::map::find, as the set of the (at most one) entries found.
Find(tree, o) == {q \in tree : q.offset = o}

\* std::map::emplace of every range of S: an existing key keeps its old entry.
Emplace(tree, S) == tree \cup {r \in S : Find(tree, r.offset) = {}}

\* The entries at or after size_idle_tree_.lower_bound({0, n}).
Fits(bySize, n) == {q \in bySize : q.size >= n}

\* range_size_first_comparator, not strict.
SizeFirst(r, q) == r.size < q.size \/ (r.size = q.size /\ r.offset <= q.offset)

\* size_idle_tree_.lower_bound({0, n}): the smallest range that holds n bytes,
\* the lowest of them when several have its size.
LowerBound(bySize, n) ==
  {r \in Fits(bySize, n) : \A q \in Fits(bySize, n) : SizeFirst(r, q)}

\* Mutant: a tail no longer than the alignment unit is not worth keeping.
LeftoverUnlessSmall(r, n) ==
  IF r.size > n + ALIGN THEN {Range(r.offset + n, r.size - n)} ELSE {}

\* What is left of r once its first n bytes are taken.
Leftover(r, n) == IF r.size > n THEN {Range(r.offset + n, r.size - n)} ELSE {}

\* The entry just below offset o: --address_idle_tree_.lower_bound(o).
Below(tree, o) ==
  {q \in tree : q.offset < o /\ \A p \in tree : p.offset < o => p.offset <= q.offset}

\* The idle neighbour a released block is merged with on its left, an empty
\* range when the entry below does not end where the block begins.
LeftNeighbour(tree, b) ==
  LET touching == {q \in Below(tree, b.offset) : End(q) = b.offset}
  IN  IF touching = {} THEN Range(b.offset, 0) ELSE CHOOSE q \in touching : TRUE

\* The idle neighbour on the right, an empty range when there is none.
RightNeighbour(tree, b) ==
  LET touching == Find(tree, End(b))
  IN  IF touching = {} THEN Range(End(b), 0) ELSE CHOOSE q \in touching : TRUE

\* The idle range a released block becomes.
Merged(tree, b) ==
  LET left == LeftNeighbour(tree, b)  right == RightNeighbour(tree, b)
  IN  Range(left.offset, left.size + b.size + right.size)

\* Mutant: the range merged on the right stays in the trees.
NeighboursLeftOnly(tree, b) == {LeftNeighbour(tree, b)}

\* The neighbours leave both idle trees.
Neighbours(tree, b) == {LeftNeighbour(tree, b), RightNeighbour(tree, b)}
=============================================================================
