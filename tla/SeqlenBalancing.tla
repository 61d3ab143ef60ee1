-------------------------- MODULE SeqlenBalancing --------------------------
(***************************************************************************)
(* karmarkar_karp of verl/utils/seqlen_balancing.py, the largest           *)
(* differencing method: a heap of States, each of k Sets of rows, of which *)
(* the two with the largest spread are merged until one is left.           *)
(*                                                                         *)
(* A Set is its sum and the list of its rows; a State is a sequence of k   *)
(* Sets; the heap is a set of States.  The orders of the code are total on *)
(* what they compare, so that the operators below that return a set of     *)
(* outcomes return one.                                                    *)
(***************************************************************************)
EXTENDS Integers, SequencesExt

\* The orders of a set: Permutations enumerates them, Bijection says what they are.
Orders(S) == Permutations(S) \cap Bijection(S, S)

Empty == [sum |-> 0, items |-> << >>]
Single(i, len) == [sum |-> len, items |-> <<i>>]

\* Set.__lt__, from the larger to the smaller.  Two lists of different rows
\* differ in their first element.
Above(a, b) ==
  \/ a.sum > b.sum
  \/ a.sum = b.sum /\ Len(a.items) > Len(b.items)
  \/ a.sum = b.sum /\ Len(a.items) = Len(b.items) /\ a.items # << >>
       /\ Head(a.items) > Head(b.items)

\* sorted(sets, reverse=True)
Decreasing(sets) ==
  \A i, j \in DOMAIN sets : i < j =>
    Above(sets[i], sets[j]) \/ (sets[i].items = << >> /\ sets[j].items = << >>)
Sorted(sets) ==
  {s \in {[i \in DOMAIN sets |-> sets[p[i]]] : p \in Orders(DOMAIN sets)} : Decreasing(s)}

Spread(s) == s[1].sum - s[Len(s)].sum

\* Mutant of Merge: the items of the other State are not taken over.
MergeHalf(s, t) ==
  LET opposite(i) == t[Len(s) + 1 - i]
  IN [i \in DOMAIN s |-> [sum |-> s[i].sum + opposite(i).sum,
                          items |-> IF s[i].items = << >> THEN opposite(i).items ELSE s[i].items]]

\* State.merge, before it sorts.
Merge(s, t) ==
  LET opposite(i) == t[Len(s) + 1 - i]
  IN [i \in DOMAIN s |-> [sum |-> s[i].sum + opposite(i).sum,
                          items |-> s[i].items \o opposite(i).items]]

\* State.__lt__, and the State that heappop returns.
Before(s, t) == Spread(s) > Spread(t) \/ (Spread(s) = Spread(t) /\ Above(s[1], t[1]))
Top(heap) == {s \in heap : \A t \in heap \ {s} : Before(s, t)}

\* One round of the while loop.
Merged(heap) ==
  UNION {UNION {{(heap \ {s, t}) \cup {m} : m \in Sorted(Merge(s, t))} :
                t \in Top(heap \ {s})} : s \in Top(heap)}

\* The States it starts from: one per row; or, when the partitions must be of
\* equal size, one per k rows of similar length.
Ascending(lens) ==
  {p \in Orders(DOMAIN lens) : \A i, j \in DOMAIN lens : i < j =>
     lens[p[i]] < lens[p[j]] \/ (lens[p[i]] = lens[p[j]] /\ p[i] < p[j])}

Singles(lens, k) ==
  {[j \in 1 .. k |-> IF j = 1 THEN Single(i, lens[i]) ELSE Empty] : i \in DOMAIN lens}
Groups(lens, k) ==
  {{[j \in 1 .. k |-> Single(p[g * k - j + 1], lens[p[g * k - j + 1]])] :
      g \in 1 .. (Len(lens) \div k)} : p \in Ascending(lens)}
InitialHeaps(lens, k, equal_size) == IF equal_size THEN Groups(lens, k) ELSE {Singles(lens, k)}

\* sorted(partition): the i-th is the one with i - 1 below it.
Increasing(S) ==
  [i \in 1 .. Cardinality(S) |-> CHOOSE x \in S : Cardinality({y \in S : y < x}) = i - 1]

\* get_partitions and _check_and_sort_partitions.
Partitions(s) == [j \in DOMAIN s |-> Increasing(Range(s[j].items))]

\* get_reverse_idx
ReverseIdx(idx) == [i \in DOMAIN idx |-> CHOOSE j \in DOMAIN idx : idx[j] = i]

-----------------------------------------------------------------------------
(* What the heap is worth at any time.                                        *)

\* A State is k Sets in decreasing order, and a Set has one sum, not negative.
HeapTypeOK(heap, k) ==
  \A s \in heap :
    /\ s \in [1 .. k -> [sum : Nat, items : Seq(Nat)]]
    /\ Decreasing(s)
    /\ s[1].items # << >>
    /\ \A j \in 1 .. k : s[j].items = << >> => s[j].sum = 0

\* Every row is in one place.
EachRowOnce(heap, rows) ==
  /\ \A s \in heap : \A j \in DOMAIN s : Range(s[j].items) \subseteq rows /\ IsInjective(s[j].items)
  /\ \A i \in rows : \E s \in heap : \E j \in DOMAIN s : i \in Range(s[j].items)
  /\ \A s, t \in heap : \A j \in DOMAIN s, l \in DOMAIN t :
       Range(s[j].items) \cap Range(t[l].items) # {} => s = t /\ j = l

\* The sums of a State differ by no more than one row; with States of k rows
\* each, by no more than one row and another.
SpreadWithinRow(heap, lens) == \A s \in heap : \E i \in DOMAIN lens : Spread(s) <= lens[i]
SpreadWithinRows(heap, lens) ==
  \A s \in heap : \E i, j \in DOMAIN lens : Spread(s) <= lens[i] - lens[j]

\* A Set of a State is empty only as long as none has two rows.
FilledEvenly(heap) ==
  \A s \in heap : \A i, j \in DOMAIN s : s[i].items = << >> => Len(s[j].items) <= 1

EqualSizes(heap) == \A s \in heap : \A i, j \in DOMAIN s : Len(s[i].items) = Len(s[j].items)

=============================================================================
