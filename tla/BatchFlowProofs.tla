--------------------------- MODULE BatchFlowProofs ---------------------------
(***************************************************************************)
(* What karmarkar_karp keeps from its first State to its last, for every   *)
(* list of rows and every number of partitions: each row in one place,     *)
(* sums that differ by no more than what they differed by, equal sizes,    *)
(* and no partition left empty; and so what the driver's balancing makes   *)
(* of a training batch is what _balance_batch and seqlen_balancing.py      *)
(* assert, from the first round of its loop to the last.                   *)
(*                                                                         *)
(* Then the whole way of a batch: at any time a rank holds a piece of it,  *)
(* the rows or the results of so many places after a certain one, in their *)
(* order.  Sharing out and joining cut and make pieces, whatever the sizes *)
(* of the groups, and in between a rank's micro-batches permute its rows   *)
(* and are undone; so every result comes home to the place of its row.     *)
(***************************************************************************)
EXTENDS BatchFlow, FiniteSetTheorems, SequenceTheorems, WellFoundedInduction, TLAPS

-----------------------------------------------------------------------------
(* karmarkar_karp. *)

StateOK(s, k) ==
  /\ s \in [1 .. k -> [sum : Nat, items : Seq(Nat)]]
  /\ Decreasing(s)
  /\ s[1].items # << >>
  /\ \A j \in 1 .. k : s[j].items = << >> => s[j].sum = 0

\* HeapTypeOK, State by State.
LEMMA HeapOfStates ==
  ASSUME NEW states, NEW k
  PROVE  HeapTypeOK(states, k) <=> \A s \in states : StateOK(s, k)
BY DEF HeapTypeOK, StateOK

\* No Set with rows is above itself.
LEMMA AboveIsStrict ==
  ASSUME NEW a \in [sum : Nat, items : Seq(Nat)], a.items # << >>
  PROVE  ~Above(a, a)
<1>1. Len(a.items) \in Nat /\ Head(a.items) \in Nat
  OBVIOUS
<1> QED BY <1>1 DEF Above

\* The sums of a State descend.
LEMMA SumsDescend ==
  ASSUME NEW k \in Nat \ {0}, NEW s, StateOK(s, k), NEW i \in 1 .. k, NEW j \in 1 .. k, i <= j
  PROVE  s[i].sum >= s[j].sum
<1>1. s[i].sum \in Nat /\ s[j].sum \in Nat /\ DOMAIN s = 1 .. k
  BY DEF StateOK
<1>2. CASE i = j
  BY <1>1, <1>2
<1>3. CASE i < j
  <2>1. Above(s[i], s[j]) \/ (s[i].items = << >> /\ s[j].items = << >>)
    BY <1>1, <1>3 DEF StateOK, Decreasing
  <2>2. s[i].items = << >> /\ s[j].items = << >> => s[i].sum = 0 /\ s[j].sum = 0
    BY DEF StateOK
  <2> QED BY <1>1, <2>1, <2>2 DEF Above
<1> QED BY <1>2, <1>3

\* The Sets with rows come first.
LEMMA FilledFirst ==
  ASSUME NEW k \in Nat \ {0}, NEW s, StateOK(s, k), NEW i \in 1 .. k, NEW j \in 1 .. k, i <= j,
         s[j].items # << >>
  PROVE  s[i].items # << >>
<1> SUFFICES ASSUME s[i].items = << >> PROVE FALSE
  OBVIOUS
<1>1. s[i] \in [sum : Nat, items : Seq(Nat)] /\ s[j] \in [sum : Nat, items : Seq(Nat)]
      /\ DOMAIN s = 1 .. k
  BY DEF StateOK
<1>2. i # j
  OBVIOUS
<1>3. i < j
  BY <1>2
<1>4. Above(s[i], s[j])
  BY <1>1, <1>3 DEF StateOK, Decreasing
<1>5. s[i].sum = 0 /\ Len(s[i].items) = 0
  BY DEF StateOK
<1>6. Len(s[j].items) \in Nat /\ Len(s[j].items) > 0 /\ s[j].sum \in Nat
  BY <1>1
<1> QED BY <1>4, <1>5, <1>6 DEF Above

-----------------------------------------------------------------------------
(* State.merge. *)

Joins(M, s, t, k) ==
  \A i \in 1 .. k :
    /\ k + 1 - i \in 1 .. k
    /\ M[i].sum = s[i].sum + t[k + 1 - i].sum
    /\ M[i].items = s[i].items \o t[k + 1 - i].items

\* What State.merge makes before it sorts.
LEMMA MergeIs ==
  ASSUME NEW k \in Nat \ {0}, NEW s, NEW t, StateOK(s, k), StateOK(t, k),
         NEW M, M = Merge(s, t)
  PROVE  M \in [1 .. k -> [sum : Nat, items : Seq(Nat)]] /\ Joins(M, s, t, k)
<1>1. DOMAIN s = 1 .. k /\ Len(s) = k
  BY DEF StateOK
<1>2. M = [i \in 1 .. k |-> [sum |-> s[i].sum + t[k + 1 - i].sum,
                            items |-> s[i].items \o t[k + 1 - i].items]]
  BY <1>1 DEF Merge
<1>3. ASSUME NEW i \in 1 .. k
      PROVE  /\ k + 1 - i \in 1 .. k
             /\ M[i] \in [sum : Nat, items : Seq(Nat)]
             /\ M[i].sum = s[i].sum + t[k + 1 - i].sum
             /\ M[i].items = s[i].items \o t[k + 1 - i].items
  <2> DEFINE a == s[i].sum + t[k + 1 - i].sum
             b == s[i].items \o t[k + 1 - i].items
  <2>1. k + 1 - i \in 1 .. k
    OBVIOUS
  <2>2. s[i] \in [sum : Nat, items : Seq(Nat)] /\ t[k + 1 - i] \in [sum : Nat, items : Seq(Nat)]
    BY <2>1 DEF StateOK
  <2>3. a \in Nat /\ b \in Seq(Nat)
    BY <2>2
  <2>4. M[i] = [sum |-> a, items |-> b]
    BY <1>2
  <2> HIDE DEF a, b
  <2>5. M[i] \in [sum : Nat, items : Seq(Nat)] /\ M[i].sum = a /\ M[i].items = b
    BY <2>3, <2>4
  <2> QED BY <2>1, <2>5 DEF a, b
<1> QED BY <1>2, <1>3 DEF Joins

\* The rows of a merged Set.
LEMMA ConcatRange ==
  ASSUME NEW a \in Seq(Nat), NEW b \in Seq(Nat)
  PROVE  Range(a \o b) = Range(a) \cup Range(b)
<1> DEFINE c == a \o b
<1>1. /\ DOMAIN a = 1 .. Len(a) /\ DOMAIN b = 1 .. Len(b) /\ DOMAIN c = 1 .. (Len(a) + Len(b))
      /\ Len(a) \in Nat /\ Len(b) \in Nat
  OBVIOUS
<1>2. /\ \A i \in 1 .. Len(a) : c[i] = a[i]
      /\ \A i \in 1 .. Len(b) : c[Len(a) + i] = b[i]
  OBVIOUS
<1>3. \A i \in DOMAIN c : i \in 1 .. Len(a) \/ (i - Len(a) \in 1 .. Len(b) /\ c[i] = b[i - Len(a)])
  BY <1>1
<1>4. \A i \in 1 .. Len(b) : Len(a) + i \in DOMAIN c
  BY <1>1
<1>5. \A i \in 1 .. Len(a) : i \in DOMAIN c
  BY <1>1
<1> HIDE DEF c
<1>6. ASSUME NEW x \in Range(c) PROVE x \in Range(a) \cup Range(b)
  <2>1. PICK i \in DOMAIN c : x = c[i]
    BY DEF Range
  <2> QED BY <1>1, <1>2, <1>3, <2>1 DEF Range
<1>7. Range(a) \subseteq Range(c)
  BY <1>1, <1>2, <1>5 DEF Range
<1>8. Range(b) \subseteq Range(c)
  BY <1>1, <1>2, <1>4 DEF Range
<1>9. Range(c) = Range(a) \cup Range(b)
  BY <1>6, <1>7, <1>8
<1> QED BY <1>9 DEF c

\* A merged Set has no row twice when its halves share none.
LEMMA ConcatInjective ==
  ASSUME NEW a \in Seq(Nat), NEW b \in Seq(Nat),
         IsInjective(a), IsInjective(b), Range(a) \cap Range(b) = {}
  PROVE  IsInjective(a \o b)
<1> DEFINE c == a \o b
<1>1. /\ DOMAIN a = 1 .. Len(a) /\ DOMAIN b = 1 .. Len(b) /\ DOMAIN c = 1 .. (Len(a) + Len(b))
      /\ Len(a) \in Nat /\ Len(b) \in Nat
  OBVIOUS
<1>2. \A i \in DOMAIN c : \/ i \in 1 .. Len(a) /\ c[i] = a[i]
                          \/ i - Len(a) \in 1 .. Len(b) /\ c[i] = b[i - Len(a)]
  BY <1>1
<1>3. \A i \in 1 .. Len(a), j \in 1 .. Len(b) : a[i] # b[j]
  BY <1>1 DEF Range
<1> HIDE DEF c
<1>4. ASSUME NEW i \in DOMAIN c, NEW j \in DOMAIN c, c[i] = c[j]
      PROVE  i = j
  <2>1. CASE i \in 1 .. Len(a) /\ c[i] = a[i]
    BY <1>1, <1>2, <1>3, <1>4, <2>1 DEF IsInjective
  <2>2. CASE i - Len(a) \in 1 .. Len(b) /\ c[i] = b[i - Len(a)]
    <3>1. j - Len(a) \in 1 .. Len(b) /\ c[j] = b[j - Len(a)]
      BY <1>2, <1>3, <1>4, <2>2
    <3>2. i - Len(a) = j - Len(a)
      BY <1>1, <1>4, <2>2, <3>1 DEF IsInjective
    <3> QED BY <1>1, <3>2
  <2> QED BY <1>2, <2>1, <2>2
<1> QED BY <1>4 DEF IsInjective, c

\* What sorting does: each Set of the outcome is one of the merged ones, each
\* merged one is there, and no Set with rows is there twice.
Reorders(sets, m, p, k) ==
  /\ p \in [1 .. k -> 1 .. k]
  /\ m = [i \in 1 .. k |-> sets[p[i]]]
  /\ Decreasing(m)
  /\ \A j \in 1 .. k : \E i \in 1 .. k : p[i] = j
  /\ \A i, j \in 1 .. k : p[i] = p[j] /\ sets[p[i]].items # << >> => i = j

\* sorted(sets, reverse=True) is such an order.
LEMMA SortedIs ==
  ASSUME NEW k \in Nat \ {0}, NEW sets \in [1 .. k -> [sum : Nat, items : Seq(Nat)]],
         NEW m \in Sorted(sets)
  PROVE  \E p : Reorders(sets, m, p, k)
<1>1. DOMAIN sets = 1 .. k
  OBVIOUS
<1>2. PICK p \in Orders(1 .. k) : m = [i \in 1 .. k |-> sets[p[i]]] /\ Decreasing(m)
  BY <1>1 DEF Sorted
<1>3. p \in [1 .. k -> 1 .. k] /\ \A j \in 1 .. k : \E i \in 1 .. k : p[i] = j
  BY DEF Orders, Bijection, Injection, Surjection
<1>4. ASSUME NEW i \in 1 .. k, NEW j \in 1 .. k, p[i] = p[j], sets[p[i]].items # << >>, i < j
      PROVE  FALSE
  <2>1. m[i] = sets[p[i]] /\ m[j] = sets[p[i]] /\ DOMAIN m = 1 .. k
    BY <1>2, <1>4
  <2>2. Above(m[i], m[j])
    BY <1>2, <1>4, <2>1 DEF Decreasing
  <2>3. sets[p[i]] \in [sum : Nat, items : Seq(Nat)]
    BY <1>3
  <2> QED BY <1>4, <2>1, <2>2, <2>3, AboveIsStrict
<1>5. \A i, j \in 1 .. k : p[i] = p[j] /\ sets[p[i]].items # << >> => i = j
  <2> SUFFICES ASSUME NEW i \in 1 .. k, NEW j \in 1 .. k, p[i] = p[j], sets[p[i]].items # << >>
               PROVE  i = j
    OBVIOUS
  <2>1. ~(i < j) /\ ~(j < i)
    BY <1>4
  <2> QED BY <2>1
<1> QED BY <1>2, <1>3, <1>5 DEF Reorders

-----------------------------------------------------------------------------
(* A State that is merged and sorted: MergeOutcome says where each of its     *)
(* Sets comes from.                                                           *)

MergeOutcome(s, t, m, p, k) ==
  /\ p \in [1 .. k -> 1 .. k]
  /\ \A j \in 1 .. k : \E i \in 1 .. k : p[i] = j
  /\ \A i \in 1 .. k :
       /\ k + 1 - p[i] \in 1 .. k
       /\ m[i].sum = s[p[i]].sum + t[k + 1 - p[i]].sum
       /\ m[i].items = s[p[i]].items \o t[k + 1 - p[i]].items
  /\ \A i, j \in 1 .. k : p[i] = p[j] /\ m[i].items # << >> => i = j

\* A State that is merged and sorted is a State again.
LEMMA MergeSorts ==
  ASSUME NEW k \in Nat \ {0}, NEW s, NEW t, StateOK(s, k), StateOK(t, k),
         NEW M, M = Merge(s, t), NEW m \in Sorted(M)
  PROVE  StateOK(m, k) /\ \E p : MergeOutcome(s, t, m, p, k)
<1>1. M \in [1 .. k -> [sum : Nat, items : Seq(Nat)]] /\ Joins(M, s, t, k)
  BY MergeIs
<1>2. \A i \in 1 .. k :
        /\ k + 1 - i \in 1 .. k
        /\ M[i].sum = s[i].sum + t[k + 1 - i].sum
        /\ M[i].items = s[i].items \o t[k + 1 - i].items
  BY <1>1 DEF Joins
<1>3. PICK p : Reorders(M, m, p, k)
  BY <1>1, SortedIs
<1>4. /\ p \in [1 .. k -> 1 .. k]
      /\ m = [i \in 1 .. k |-> M[p[i]]]
      /\ Decreasing(m)
      /\ \A j \in 1 .. k : \E i \in 1 .. k : p[i] = j
      /\ \A i, j \in 1 .. k : p[i] = p[j] /\ M[p[i]].items # << >> => i = j
  BY <1>3 DEF Reorders
<1>5. \A i \in 1 .. k : m[i] = M[p[i]]
  BY <1>4
<1>6. MergeOutcome(s, t, m, p, k)
  <2>1. ASSUME NEW i \in 1 .. k
        PROVE  /\ k + 1 - p[i] \in 1 .. k
               /\ m[i].sum = s[p[i]].sum + t[k + 1 - p[i]].sum
               /\ m[i].items = s[p[i]].items \o t[k + 1 - p[i]].items
    <3>1. p[i] \in 1 .. k /\ m[i] = M[p[i]]
      BY <1>4, <1>5
    <3> QED BY <1>2, <3>1, Zenon
  <2>2. ASSUME NEW i \in 1 .. k, NEW j \in 1 .. k, p[i] = p[j], m[i].items # << >>
        PROVE  i = j
    <3>1. M[p[i]].items # << >>
      BY <1>5, <2>2
    <3> QED BY <1>4, <2>2, <3>1
  <2> QED BY <1>4, <2>1, <2>2, Zenon DEF MergeOutcome
<1>7. m \in [1 .. k -> [sum : Nat, items : Seq(Nat)]]
  BY <1>1, <1>4
<1>8. ASSUME NEW i \in 1 .. k
      PROVE  /\ s[i].items = << >> => s[i].sum = 0
             /\ t[k + 1 - i].items = << >> => t[k + 1 - i].sum = 0
             /\ s[i] \in [sum : Nat, items : Seq(Nat)]
             /\ t[k + 1 - i] \in [sum : Nat, items : Seq(Nat)]
  BY <1>2 DEF StateOK
<1>9. ASSUME NEW j \in 1 .. k, m[j].items = << >>
      PROVE  m[j].sum = 0 /\ s[p[j]].items = << >>
  <2>1. p[j] \in 1 .. k
    BY <1>4
  <2>2. s[p[j]].items \o t[k + 1 - p[j]].items = << >>
    BY <1>6, <1>9 DEF MergeOutcome
  <2>3. s[p[j]].items = << >> /\ t[k + 1 - p[j]].items = << >>
    BY <1>8, <2>1, <2>2
  <2>4. m[j].sum = 0 + 0
    BY <1>6, <1>8, <2>1, <2>3 DEF MergeOutcome
  <2> QED BY <2>3, <2>4
<1>10. m[1].items # << >>
  <2> SUFFICES ASSUME m[1].items = << >> PROVE FALSE
    OBVIOUS
  <2>1. PICK i \in 1 .. k : p[i] = 1
    BY <1>4
  <2>2. s[1].items # << >>
    BY DEF StateOK
  <2>3. m[i].items # << >> /\ i # 1
    BY <1>9, <2>1, <2>2
  <2>4. Above(m[1], m[i])
    <3>1. 1 < i /\ 1 \in DOMAIN m /\ i \in DOMAIN m
      BY <1>7, <2>3
    <3> QED BY <1>4, <2>3, <3>1 DEF Decreasing
  <2>5. m[1].sum = 0 /\ Len(m[1].items) = 0
    BY <1>9
  <2>6. m[i].sum \in Nat /\ Len(m[i].items) \in Nat /\ Len(m[i].items) > 0
    <3>1. m[i] \in [sum : Nat, items : Seq(Nat)]
      BY <1>7
    <3>2. \A q \in Seq(Nat) : q # << >> => Len(q) \in Nat /\ Len(q) > 0
      OBVIOUS
    <3> QED BY <2>3, <3>1, <3>2
  <2> QED BY <2>3, <2>4, <2>5, <2>6 DEF Above
<1> QED BY <1>4, <1>6, <1>7, <1>9, <1>10 DEF StateOK

\* Merging largest with smallest keeps the spread.
LEMMA MergeSpread ==
  ASSUME NEW k \in Nat \ {0}, NEW s, NEW t, StateOK(s, k), StateOK(t, k),
         NEW m, StateOK(m, k), NEW p, MergeOutcome(s, t, m, p, k)
  PROVE  Spread(m) <= Spread(s) \/ Spread(m) <= Spread(t)
<1> DEFINE a == p[1]
           b == p[k]
<1>1. /\ a \in 1 .. k /\ b \in 1 .. k /\ k + 1 - a \in 1 .. k /\ k + 1 - b \in 1 .. k
      /\ m[1].sum = s[a].sum + t[k + 1 - a].sum
      /\ m[k].sum = s[b].sum + t[k + 1 - b].sum
  <2>1. 1 \in 1 .. k /\ k \in 1 .. k
    OBVIOUS
  <2> QED BY <2>1 DEF MergeOutcome
<1>2. Len(m) = k /\ Len(s) = k /\ Len(t) = k
  BY DEF StateOK
<1>3. \A i \in 1 .. k : s[i].sum \in Nat /\ t[i].sum \in Nat
  BY DEF StateOK
<1>6. /\ Spread(m) = m[1].sum - m[k].sum
      /\ Spread(s) = s[1].sum - s[k].sum
      /\ Spread(t) = t[1].sum - t[k].sum
  BY <1>2 DEF Spread
<1>7. /\ 1 \in 1 .. k /\ k \in 1 .. k
  OBVIOUS
<1> HIDE DEF a, b
<1>4. CASE a <= b
  <2>1. s[1].sum >= s[a].sum /\ s[b].sum >= s[k].sum
    BY <1>1, SumsDescend
  <2>2. t[k + 1 - b].sum >= t[k + 1 - a].sum
    BY <1>1, <1>4, SumsDescend
  <2>3. Spread(m) <= Spread(s)
    BY <1>1, <1>3, <1>6, <1>7, <2>1, <2>2
  <2> QED BY <2>3
<1>5. CASE b <= a
  <2>1. t[1].sum >= t[k + 1 - a].sum /\ t[k + 1 - b].sum >= t[k].sum
    <3>1. /\ 1 \in 1 .. k /\ k \in 1 .. k
          /\ 1 <= k + 1 - a /\ k + 1 - b <= k
      BY <1>1
    <3> QED BY <1>1, <3>1, SumsDescend
  <2>2. s[b].sum >= s[a].sum
    BY <1>1, <1>5, SumsDescend
  <2>3. Spread(m) <= Spread(t)
    BY <1>1, <1>3, <1>6, <1>7, <2>1, <2>2
  <2> QED BY <2>3
<1> QED BY <1>1, <1>4, <1>5

\* Two rows in one Set, where the filled ends of two States overlap: then there
\* is none without rows.
LEMMA MergeFills ==
  ASSUME NEW k \in Nat \ {0}, NEW s, NEW t, StateOK(s, k), StateOK(t, k),
         NEW m, StateOK(m, k), NEW p, MergeOutcome(s, t, m, p, k),
         FilledEvenly({s, t})
  PROVE  FilledEvenly({m})
<1>1. DOMAIN s = 1 .. k /\ DOMAIN t = 1 .. k /\ DOMAIN m = 1 .. k
  BY DEF StateOK
<1> SUFFICES ASSUME NEW i \in 1 .. k, NEW j \in 1 .. k, m[i].items = << >>
             PROVE  Len(m[j].items) <= 1
  BY <1>1 DEF FilledEvenly
<1> DEFINE a == p[i]
           b == p[j]
<1>2. /\ a \in 1 .. k /\ b \in 1 .. k /\ k + 1 - a \in 1 .. k /\ k + 1 - b \in 1 .. k
      /\ m[i].items = s[a].items \o t[k + 1 - a].items
      /\ m[j].items = s[b].items \o t[k + 1 - b].items
  BY DEF MergeOutcome
<1> HIDE DEF a, b
<1>3. \A n \in 1 .. k : s[n].items \in Seq(Nat) /\ t[n].items \in Seq(Nat)
  BY DEF StateOK
<1>4. s[a].items = << >> /\ t[k + 1 - a].items = << >>
  <2>1. s[a].items \in Seq(Nat) /\ t[k + 1 - a].items \in Seq(Nat)
    BY <1>2, <1>3
  <2>2. s[a].items \o t[k + 1 - a].items = << >>
    BY <1>2
  <2> QED BY <2>1, <2>2
<1>5. Len(s[b].items) <= 1 /\ Len(t[k + 1 - b].items) <= 1
  BY <1>1, <1>2, <1>4 DEF FilledEvenly
<1>6. s[b].items = << >> \/ t[k + 1 - b].items = << >>
  <2> SUFFICES ASSUME s[b].items # << >>, t[k + 1 - b].items # << >> PROVE FALSE
    OBVIOUS
  <2>1. ~(a <= b)
    BY <1>2, <1>4, FilledFirst
  <2>2. ~(k + 1 - a <= k + 1 - b)
    BY <1>2, <1>4, FilledFirst
  <2> QED BY <1>2, <2>1, <2>2
<1>7. Len(m[j].items) = Len(s[b].items) + Len(t[k + 1 - b].items)
  BY <1>2, <1>3
<1>8. CASE s[b].items = << >>
  BY <1>2, <1>3, <1>5, <1>7, <1>8
<1>9. CASE t[k + 1 - b].items = << >>
  BY <1>2, <1>3, <1>5, <1>7, <1>9
<1> QED BY <1>6, <1>8, <1>9

\* Equal sizes add up to equal sizes.
LEMMA MergeSizes ==
  ASSUME NEW k \in Nat \ {0}, NEW s, NEW t, StateOK(s, k), StateOK(t, k),
         NEW m, StateOK(m, k), NEW p, MergeOutcome(s, t, m, p, k),
         EqualSizes({s, t})
  PROVE  EqualSizes({m})
<1>1. DOMAIN s = 1 .. k /\ DOMAIN t = 1 .. k /\ DOMAIN m = 1 .. k
  BY DEF StateOK
<1>2. ASSUME NEW n \in 1 .. k
      PROVE  /\ s[n].items \in Seq(Nat) /\ t[n].items \in Seq(Nat)
             /\ Len(s[n].items) = Len(s[1].items)
             /\ Len(t[n].items) = Len(t[1].items)
  <2>1. s[n].items \in Seq(Nat) /\ t[n].items \in Seq(Nat)
    BY DEF StateOK
  <2>2. 1 \in 1 .. k
    OBVIOUS
  <2>3. Len(s[n].items) = Len(s[1].items) /\ Len(t[n].items) = Len(t[1].items)
    BY <1>1, <2>2 DEF EqualSizes
  <2> QED BY <2>1, <2>3
<1>3. ASSUME NEW i \in 1 .. k
      PROVE  Len(m[i].items) = Len(s[1].items) + Len(t[1].items)
  <2>1. /\ p[i] \in 1 .. k /\ k + 1 - p[i] \in 1 .. k
        /\ m[i].items = s[p[i]].items \o t[k + 1 - p[i]].items
    BY DEF MergeOutcome
  <2>2. s[p[i]].items \in Seq(Nat) /\ t[k + 1 - p[i]].items \in Seq(Nat)
    BY <1>2, <2>1
  <2>3. Len(m[i].items) = Len(s[p[i]].items) + Len(t[k + 1 - p[i]].items)
    BY <2>1, <2>2
  <2> QED BY <1>2, <2>1, <2>3
<1> QED BY <1>1, <1>3 DEF EqualSizes

-----------------------------------------------------------------------------
(* One round of the loop. *)

\* The two States that heappop returns become one.
LEMMA MergedIs ==
  ASSUME NEW states, NEW next \in Merged(states)
  PROVE  \E s, t, m : /\ s \in states /\ t \in states /\ s # t
                      /\ m \in Sorted(Merge(s, t))
                      /\ next = (states \ {s, t}) \cup {m}
<1>1. PICK s \in Top(states) :
        next \in UNION {{(states \ {s, t}) \cup {m} : m \in Sorted(Merge(s, t))} :
                         t \in Top(states \ {s})}
  BY DEF Merged
<1>2. PICK t \in Top(states \ {s}) :
        next \in {(states \ {s, t}) \cup {m} : m \in Sorted(Merge(s, t))}
  BY <1>1
<1>3. PICK m \in Sorted(Merge(s, t)) : next = (states \ {s, t}) \cup {m}
  BY <1>2
<1>4. s \in states /\ t \in states /\ s # t
  BY DEF Top
<1> QED BY <1>3, <1>4

\* The rows of the Sets of a merged State.
SetOfTwo(s, t, m, p, k, i) ==
  /\ p[i] \in 1 .. k /\ k + 1 - p[i] \in 1 .. k
  /\ s[p[i]].items \in Seq(Nat) /\ t[k + 1 - p[i]].items \in Seq(Nat)
  /\ m[i].items = s[p[i]].items \o t[k + 1 - p[i]].items
  /\ Range(m[i].items) = Range(s[p[i]].items) \cup Range(t[k + 1 - p[i]].items)

\* The rows of Set i are those of the two Sets it was merged from.
LEMMA MergedRows ==
  ASSUME NEW k \in Nat \ {0}, NEW s, NEW t, StateOK(s, k), StateOK(t, k),
         NEW m, NEW p, MergeOutcome(s, t, m, p, k), NEW i \in 1 .. k
  PROVE  SetOfTwo(s, t, m, p, k, i)
<1>1. /\ p[i] \in 1 .. k /\ k + 1 - p[i] \in 1 .. k
      /\ m[i].items = s[p[i]].items \o t[k + 1 - p[i]].items
  BY DEF MergeOutcome
<1>2. s[p[i]].items \in Seq(Nat) /\ t[k + 1 - p[i]].items \in Seq(Nat)
  BY <1>1 DEF StateOK
<1> QED BY <1>1, <1>2, ConcatRange DEF SetOfTwo

\* Row x is in Set j of State u.
In(x, u, j) == x \in Range(u[j].items)

\* No row is in two places.
LEMMA OnePlace ==
  ASSUME NEW states, NEW all, EachRowOnce(states, all), NEW u \in states, NEW v \in states,
         NEW j \in DOMAIN u, NEW l \in DOMAIN v, NEW x, In(x, u, j), In(x, v, l)
  PROVE  u = v /\ j = l
<1>1. \A a, b \in states : \A i \in DOMAIN a, n \in DOMAIN b :
        Range(a[i].items) \cap Range(b[n].items) # {} => a = b /\ i = n
  BY DEF EachRowOnce
<1>2. Range(u[j].items) \cap Range(v[l].items) # {}
  BY DEF In
<1> QED BY <1>1, <1>2, Zenon

\* The rows of two States of a heap go into one, and each stays in one place.
LEMMA MergeKeepsRows ==
  ASSUME NEW k \in Nat \ {0}, NEW states, HeapTypeOK(states, k), NEW all, EachRowOnce(states, all),
         NEW s \in states, NEW t \in states, s # t,
         NEW m, StateOK(m, k), NEW p, MergeOutcome(s, t, m, p, k)
  PROVE  EachRowOnce((states \ {s, t}) \cup {m}, all)
<1>1. StateOK(s, k) /\ StateOK(t, k) /\ \A u \in states : StateOK(u, k)
  BY HeapOfStates
<1>2. DOMAIN s = 1 .. k /\ DOMAIN t = 1 .. k /\ DOMAIN m = 1 .. k /\ \A u \in states : DOMAIN u = 1 .. k
  BY <1>1 DEF StateOK
<1>3. ASSUME NEW i \in 1 .. k
      PROVE  /\ p[i] \in 1 .. k /\ k + 1 - p[i] \in 1 .. k
             /\ s[p[i]].items \in Seq(Nat) /\ t[k + 1 - p[i]].items \in Seq(Nat)
             /\ m[i].items = s[p[i]].items \o t[k + 1 - p[i]].items
             /\ Range(m[i].items) = Range(s[p[i]].items) \cup Range(t[k + 1 - p[i]].items)
  <2>1. SetOfTwo(s, t, m, p, k, i)
    BY <1>1, MergedRows
  <2> QED BY <2>1 DEF SetOfTwo
<1>4. ASSUME NEW u \in states, NEW v \in states, NEW j \in 1 .. k, NEW l \in 1 .. k, NEW x,
             In(x, u, j), In(x, v, l)
      PROVE  u = v /\ j = l
  <2>1. j \in DOMAIN u /\ l \in DOMAIN v
    BY <1>2
  <2> QED BY <1>4, <2>1, OnePlace
<1>5. ASSUME NEW i \in 1 .. k
      PROVE  Range(m[i].items) \subseteq all /\ IsInjective(m[i].items)
  <2>1. /\ Range(s[p[i]].items) \subseteq all /\ IsInjective(s[p[i]].items)
        /\ Range(t[k + 1 - p[i]].items) \subseteq all /\ IsInjective(t[k + 1 - p[i]].items)
    BY <1>2, <1>3 DEF EachRowOnce
  <2>2. Range(s[p[i]].items) \cap Range(t[k + 1 - p[i]].items) = {}
    BY <1>3, <1>4 DEF In
  <2>3. IsInjective(s[p[i]].items \o t[k + 1 - p[i]].items)
    BY <1>3, <2>1, <2>2, ConcatInjective
  <2> QED BY <1>3, <2>1, <2>3
<1>6. ASSUME NEW x, NEW j \in 1 .. k, x \in Range(s[j].items) \/ x \in Range(t[j].items)
      PROVE  \E i \in 1 .. k : x \in Range(m[i].items)
  <2>1. CASE x \in Range(s[j].items)
    <3>1. PICK i \in 1 .. k : p[i] = j
      BY DEF MergeOutcome
    <3> QED BY <1>3, <2>1, <3>1
  <2>2. CASE x \in Range(t[j].items)
    <3>1. k + 1 - j \in 1 .. k /\ k + 1 - (k + 1 - j) = j
      OBVIOUS
    <3>2. PICK i \in 1 .. k : p[i] = k + 1 - j
      BY <3>1 DEF MergeOutcome
    <3>3. x \in Range(t[k + 1 - p[i]].items)
      BY <2>2, <3>1, <3>2
    <3> QED BY <1>3, <3>3
  <2> QED BY <1>6, <2>1, <2>2
<1>7. ASSUME NEW x, NEW i \in 1 .. k, In(x, m, i), NEW u \in states \ {s, t},
             NEW l \in 1 .. k, In(x, u, l)
      PROVE  FALSE
  <2>1. p[i] \in 1 .. k /\ k + 1 - p[i] \in 1 .. k /\ u \in states /\ u # s /\ u # t
    BY <1>3
  <2>2. ~In(x, s, p[i])
    BY <1>4, <1>7, <2>1
  <2>3. ~In(x, t, k + 1 - p[i])
    BY <1>4, <1>7, <2>1
  <2> QED BY <1>3, <1>7, <2>2, <2>3 DEF In
<1>8. ASSUME NEW x, NEW i \in 1 .. k, NEW j \in 1 .. k, In(x, m, i), In(x, m, j)
      PROVE  i = j
  <2>1. p[i] = p[j]
    <3>1. PICK a, b, c, d : a = p[i] /\ b = p[j] /\ c = k + 1 - p[i] /\ d = k + 1 - p[j]
      OBVIOUS
    <3>2. a \in 1 .. k /\ b \in 1 .. k /\ c \in 1 .. k /\ d \in 1 .. k
      BY <1>3, <3>1
    <3>3. c = d => a = b
      BY <3>1, <3>2
    <3>4. In(x, s, a) \/ In(x, t, c)
      BY <1>3, <1>8, <3>1 DEF In
    <3>5. In(x, s, b) \/ In(x, t, d)
      BY <1>3, <1>8, <3>1 DEF In
    <3>6. CASE In(x, s, a) /\ In(x, s, b)
      BY <1>4, <3>1, <3>2, <3>6
    <3>7. CASE In(x, t, c) /\ In(x, t, d)
      BY <1>4, <3>1, <3>2, <3>3, <3>7
    <3>8. CASE In(x, s, a) /\ In(x, t, d)
      BY <1>4, <3>2, <3>8
    <3>9. CASE In(x, t, c) /\ In(x, s, b)
      BY <1>4, <3>2, <3>9
    <3> QED BY <3>4, <3>5, <3>6, <3>7, <3>8, <3>9
  <2>2. m[i].items # << >>
    BY <1>8 DEF In, Range
  <2> QED BY <2>1, <2>2 DEF MergeOutcome
<1> DEFINE next == (states \ {s, t}) \cup {m}
<1>9. \A u \in next : DOMAIN u = 1 .. k
  BY <1>2
<1>10. \A u \in next : \A j \in 1 .. k : Range(u[j].items) \subseteq all /\ IsInjective(u[j].items)
  BY <1>2, <1>5 DEF EachRowOnce
<1>11. ASSUME NEW i \in all
       PROVE  \E u \in next : \E j \in 1 .. k : i \in Range(u[j].items)
  <2>1. PICK u \in states : \E j \in 1 .. k : i \in Range(u[j].items)
    BY <1>2 DEF EachRowOnce
  <2>2. CASE u \in {s, t}
    BY <1>6, <2>1, <2>2
  <2>3. CASE u \notin {s, t}
    BY <2>1, <2>3
  <2> QED BY <2>2, <2>3
<1>12. ASSUME NEW u \in next, NEW v \in next, NEW j \in 1 .. k, NEW l \in 1 .. k, NEW x,
              In(x, u, j), In(x, v, l)
       PROVE  u = v /\ j = l
  <2>1. CASE u = m /\ v = m
    BY <1>8, <1>12, <2>1
  <2>2. CASE u = m /\ v \in states \ {s, t}
    BY <1>7, <1>12, <2>2
  <2>3. CASE v = m /\ u \in states \ {s, t}
    BY <1>7, <1>12, <2>3
  <2>4. CASE u \in states \ {s, t} /\ v \in states \ {s, t}
    BY <1>4, <1>12, <2>4
  <2> QED BY <2>1, <2>2, <2>3, <2>4
<1> HIDE DEF next
<1>13. \A u, v \in next : \A j \in 1 .. k, l \in 1 .. k :
         Range(u[j].items) \cap Range(v[l].items) # {} => u = v /\ j = l
  <2> SUFFICES ASSUME NEW u \in next, NEW v \in next, NEW j \in 1 .. k, NEW l \in 1 .. k,
                      Range(u[j].items) \cap Range(v[l].items) # {}
               PROVE  u = v /\ j = l
    OBVIOUS
  <2>1. PICK i : i \in Range(u[j].items) /\ i \in Range(v[l].items)
    OBVIOUS
  <2>2. In(i, u, j) /\ In(i, v, l)
    BY <2>1 DEF In
  <2> QED BY <1>12, <2>2
<1>14. EachRowOnce(next, all)
  <2>1. \A u \in next : \A j \in DOMAIN u : Range(u[j].items) \subseteq all /\ IsInjective(u[j].items)
    <3> SUFFICES ASSUME NEW u \in next, NEW j \in DOMAIN u
                 PROVE  Range(u[j].items) \subseteq all /\ IsInjective(u[j].items)
      OBVIOUS
    <3>1. j \in 1 .. k
      BY <1>9
    <3> QED BY <1>10, <3>1
  <2>2. \A i \in all : \E u \in next : \E j \in DOMAIN u : i \in Range(u[j].items)
    <3> SUFFICES ASSUME NEW i \in all
                 PROVE  \E u \in next : \E j \in DOMAIN u : i \in Range(u[j].items)
      OBVIOUS
    <3>1. PICK u \in next : \E j \in 1 .. k : i \in Range(u[j].items)
      BY <1>11
    <3> QED BY <1>9, <3>1
  <2>3. \A u, v \in next : \A j \in DOMAIN u, l \in DOMAIN v :
          Range(u[j].items) \cap Range(v[l].items) # {} => u = v /\ j = l
    <3> SUFFICES ASSUME NEW u \in next, NEW v \in next, NEW j \in DOMAIN u, NEW l \in DOMAIN v,
                        Range(u[j].items) \cap Range(v[l].items) # {}
                 PROVE  u = v /\ j = l
      OBVIOUS
    <3>1. j \in 1 .. k /\ l \in 1 .. k
      BY <1>9
    <3> QED BY <1>13, <3>1
  <2> QED BY <2>1, <2>2, <2>3 DEF EachRowOnce
<1> QED BY <1>14 DEF next

Round(states, next, s, t, m, p, k) ==
  /\ s \in states /\ t \in states /\ s # t
  /\ next = (states \ {s, t}) \cup {m}
  /\ StateOK(s, k) /\ StateOK(t, k) /\ StateOK(m, k)
  /\ MergeOutcome(s, t, m, p, k)

\* A round of the loop, in terms of MergeOutcome.
LEMMA RoundIs ==
  ASSUME NEW k \in Nat \ {0}, NEW states, HeapTypeOK(states, k), NEW next \in Merged(states)
  PROVE  \E s, t, m, p : Round(states, next, s, t, m, p, k)
<1>1. PICK s, t, m : /\ s \in states /\ t \in states /\ s # t
                     /\ m \in Sorted(Merge(s, t))
                     /\ next = (states \ {s, t}) \cup {m}
  BY MergedIs
<1>2. StateOK(s, k) /\ StateOK(t, k)
  BY <1>1, HeapOfStates
<1>3. PICK M : M = Merge(s, t)
  OBVIOUS
<1>4. m \in Sorted(M)
  BY <1>1, <1>3
<1>5. StateOK(m, k) /\ \E p : MergeOutcome(s, t, m, p, k)
  BY <1>2, <1>3, <1>4, MergeSorts
<1> QED BY <1>1, <1>2, <1>5 DEF Round

\* What a round keeps: the form of the States ...
LEMMA RoundKeepsType ==
  ASSUME NEW k \in Nat \ {0}, NEW states, HeapTypeOK(states, k), NEW next \in Merged(states)
  PROVE  HeapTypeOK(next, k)
<1>1. PICK s, t, m, p : Round(states, next, s, t, m, p, k)
  BY RoundIs
<1>2. \A u \in next : StateOK(u, k)
  BY <1>1, HeapOfStates DEF Round
<1> QED BY <1>2, HeapOfStates

\* ... every row in one place ...
LEMMA RoundKeepsRows ==
  ASSUME NEW k \in Nat \ {0}, NEW states, HeapTypeOK(states, k), NEW next \in Merged(states),
         NEW all, EachRowOnce(states, all)
  PROVE  EachRowOnce(next, all)
<1>1. PICK s, t, m, p : Round(states, next, s, t, m, p, k)
  BY RoundIs
<1>2. /\ s \in states /\ t \in states /\ s # t /\ StateOK(m, k) /\ MergeOutcome(s, t, m, p, k)
      /\ next = (states \ {s, t}) \cup {m}
  BY <1>1 DEF Round
<1>3. EachRowOnce((states \ {s, t}) \cup {m}, all)
  BY <1>2, MergeKeepsRows
<1> QED BY <1>2, <1>3

\* The spread of a State is that of its first and last Set.
LEMMA SpreadIsInt ==
  ASSUME NEW k \in Nat \ {0}, NEW s, StateOK(s, k)
  PROVE  Spread(s) \in Int /\ Spread(s) = s[1].sum - s[k].sum
<1>1. Len(s) = k /\ 1 \in 1 .. k /\ k \in 1 .. k
  BY DEF StateOK
<1>2. s[1].sum \in Nat /\ s[k].sum \in Nat
  BY <1>1 DEF StateOK
<1> QED BY <1>1, <1>2 DEF Spread

\* ... the bound on the spread, of either kind ...
LEMMA RoundKeepsSpread ==
  ASSUME NEW k \in Nat \ {0}, NEW states, HeapTypeOK(states, k), NEW next \in Merged(states),
         NEW lens \in Seq(Nat)
  PROVE  /\ SpreadWithinRow(states, lens) => SpreadWithinRow(next, lens)
         /\ SpreadWithinRows(states, lens) => SpreadWithinRows(next, lens)
<1>1. PICK s, t, m, p : Round(states, next, s, t, m, p, k)
  BY RoundIs
<1>2. Spread(m) <= Spread(s) \/ Spread(m) <= Spread(t)
  BY <1>1, MergeSpread DEF Round
<1>3. Spread(m) \in Int /\ Spread(s) \in Int /\ Spread(t) \in Int
  BY <1>1, SpreadIsInt DEF Round
<1>4. s \in states /\ t \in states /\ next = (states \ {s, t}) \cup {m}
  BY <1>1 DEF Round
<1>5. \A i \in DOMAIN lens : lens[i] \in Int
  OBVIOUS
<1>6. ASSUME SpreadWithinRow(states, lens) PROVE SpreadWithinRow(next, lens)
  <2>1. PICK i \in DOMAIN lens : Spread(s) <= lens[i]
    BY <1>4, <1>6 DEF SpreadWithinRow
  <2>2. PICK j \in DOMAIN lens : Spread(t) <= lens[j]
    BY <1>4, <1>6 DEF SpreadWithinRow
  <2>3. Spread(m) <= lens[i] \/ Spread(m) <= lens[j]
    BY <1>2, <1>3, <1>5, <2>1, <2>2
  <2>4. \E n \in DOMAIN lens : Spread(m) <= lens[n]
    BY <2>3
  <2> QED BY <1>4, <1>6, <2>4 DEF SpreadWithinRow
<1>7. ASSUME SpreadWithinRows(states, lens) PROVE SpreadWithinRows(next, lens)
  <2>1. PICK i, j \in DOMAIN lens : Spread(s) <= lens[i] - lens[j]
    BY <1>4, <1>7 DEF SpreadWithinRows
  <2>2. PICK a, b \in DOMAIN lens : Spread(t) <= lens[a] - lens[b]
    BY <1>4, <1>7 DEF SpreadWithinRows
  <2>3. lens[i] - lens[j] \in Int /\ lens[a] - lens[b] \in Int
    BY <1>5
  <2>4. Spread(m) <= lens[i] - lens[j] \/ Spread(m) <= lens[a] - lens[b]
    BY <1>2, <1>3, <2>1, <2>2, <2>3
  <2>5. \E n, l \in DOMAIN lens : Spread(m) <= lens[n] - lens[l]
    BY <2>4
  <2> QED BY <1>4, <1>7, <2>5 DEF SpreadWithinRows
<1> QED BY <1>6, <1>7

\* ... no second row beside an empty Set ...
LEMMA RoundKeepsFilled ==
  ASSUME NEW k \in Nat \ {0}, NEW states, HeapTypeOK(states, k), NEW next \in Merged(states),
         FilledEvenly(states)
  PROVE  FilledEvenly(next)
<1>1. PICK s, t, m, p : Round(states, next, s, t, m, p, k)
  BY RoundIs
<1>2. FilledEvenly({s, t})
  BY <1>1 DEF Round, FilledEvenly
<1>3. FilledEvenly({m})
  BY <1>1, <1>2, MergeFills DEF Round
<1> QED BY <1>1, <1>3 DEF Round, FilledEvenly

\* ... and equal sizes.
LEMMA RoundKeepsSizes ==
  ASSUME NEW k \in Nat \ {0}, NEW states, HeapTypeOK(states, k), NEW next \in Merged(states),
         EqualSizes(states)
  PROVE  EqualSizes(next)
<1>1. PICK s, t, m, p : Round(states, next, s, t, m, p, k)
  BY RoundIs
<1>2. EqualSizes({s, t})
  BY <1>1 DEF Round, EqualSizes
<1>3. EqualSizes({m})
  BY <1>1, <1>2, MergeSizes DEF Round
<1> QED BY <1>1, <1>3 DEF Round, EqualSizes

-----------------------------------------------------------------------------
(* The States it starts from. *)

\* A Set of one row.
HasRow(a, i, len) ==
  /\ a \in [sum : Nat, items : Seq(Nat)]
  /\ a.sum = len /\ a.items # << >> /\ Len(a.items) = 1 /\ Head(a.items) = i
  /\ Range(a.items) = {i} /\ IsInjective(a.items)

\* State.__init__ makes such a Set of an item ...
LEMMA SingleIs ==
  ASSUME NEW i \in Nat, NEW len \in Nat
  PROVE  HasRow(Single(i, len), i, len)
<1>1. <<i>> \in Seq(Nat) /\ Len(<<i>>) = 1 /\ Head(<<i>>) = i /\ <<i>> # << >>
      /\ DOMAIN <<i>> = {1} /\ <<i>>[1] = i
  OBVIOUS
<1>2. Range(<<i>>) = {i} /\ IsInjective(<<i>>)
  BY <1>1 DEF Range, IsInjective
<1> QED BY <1>1, <1>2 DEF Single, HasRow

\* ... and leaves the others empty.
LEMMA EmptyIs ==
  /\ Empty \in [sum : Nat, items : Seq(Nat)]
  /\ Empty.sum = 0 /\ Empty.items = << >> /\ Len(Empty.items) = 0
  /\ Range(Empty.items) = {} /\ IsInjective(Empty.items)
<1>1. << >> \in Seq(Nat) /\ Len(<< >>) = 0 /\ DOMAIN << >> = {}
  OBVIOUS
<1>2. Range(<< >>) = {} /\ IsInjective(<< >>)
  BY <1>1 DEF Range, IsInjective
<1> QED BY <1>1, <1>2 DEF Empty

\* One row and k - 1 empty Sets.
SingleState(lens, k, i, s) ==
  /\ DOMAIN s = 1 .. k
  /\ s[1] = Single(i, lens[i])
  /\ \A j \in 2 .. k : s[j] = Empty

OneRow(lens, k, i, s) ==
  /\ StateOK(s, k)
  /\ HasRow(s[1], i, lens[i])
  /\ \A j \in 2 .. k : s[j] = Empty

\* A State of one row is a State.
LEMMA SingleStateIs ==
  ASSUME NEW k \in Nat \ {0}, NEW lens \in Seq(Nat), NEW i \in DOMAIN lens,
         NEW s, SingleState(lens, k, i, s), s \in [1 .. k -> [sum : Nat, items : Seq(Nat)]]
  PROVE  OneRow(lens, k, i, s)
<1>1. i \in Nat /\ lens[i] \in Nat /\ s[1] = Single(i, lens[i])
  BY DEF SingleState
<1>10. HasRow(s[1], i, lens[i])
  BY <1>1, SingleIs
<1>2. /\ s[1].sum = lens[i] /\ s[1].items # << >> /\ Len(s[1].items) = 1
  BY <1>10 DEF HasRow
<1>3. \A j \in 2 .. k : s[j] = Empty
  BY DEF SingleState
<1>4. ASSUME NEW a \in 1 .. k, NEW b \in 1 .. k, a < b
      PROVE  Above(s[a], s[b]) \/ (s[a].items = << >> /\ s[b].items = << >>)
  <2>1. s[b].sum = 0 /\ s[b].items = << >> /\ Len(s[b].items) = 0
    BY <1>3, <1>4, EmptyIs, SMTT(60)
  <2>2. CASE a = 1
    BY <1>1, <1>2, <2>1, <2>2 DEF Above
  <2>3. CASE a # 1
    BY <1>3, <2>1, <2>3, EmptyIs
  <2> QED BY <2>2, <2>3
<1>5. Decreasing(s)
  BY <1>4 DEF Decreasing
<1>6. ASSUME NEW j \in 1 .. k, s[j].items = << >> PROVE s[j].sum = 0
  <2>1. j \in 2 .. k
    BY <1>2, <1>6
  <2> QED BY <1>3, <2>1, EmptyIs
<1> QED BY <1>2, <1>3, <1>5, <1>6, <1>10 DEF StateOK, OneRow

\* karmarkar_karp with equal_size False starts well.
LEMMA SinglesStart ==
  ASSUME NEW k \in Nat \ {0}, NEW lens \in Seq(Nat), NEW states, states = Singles(lens, k)
  PROVE  /\ HeapTypeOK(states, k)
         /\ EachRowOnce(states, DOMAIN lens)
         /\ FilledEvenly(states)
         /\ SpreadWithinRow(states, lens)
<1>1. ASSUME NEW s \in states
      PROVE  \E i \in DOMAIN lens :
               /\ SingleState(lens, k, i, s)
               /\ s \in [1 .. k -> [sum : Nat, items : Seq(Nat)]]
  <2>1. PICK i \in DOMAIN lens : s = [j \in 1 .. k |-> IF j = 1 THEN Single(i, lens[i]) ELSE Empty]
    BY DEF Singles
  <2>2. i \in Nat /\ lens[i] \in Nat
    OBVIOUS
  <2>3. Single(i, lens[i]) \in [sum : Nat, items : Seq(Nat)] /\ Empty \in [sum : Nat, items : Seq(Nat)]
    BY <2>2, SingleIs, EmptyIs DEF HasRow
  <2>4. SingleState(lens, k, i, s)
    BY <2>1 DEF SingleState
  <2> QED BY <2>1, <2>3, <2>4
<1>2. ASSUME NEW i \in DOMAIN lens
      PROVE  \E s \in states : SingleState(lens, k, i, s)
  <2>1. PICK s \in states : s = [j \in 1 .. k |-> IF j = 1 THEN Single(i, lens[i]) ELSE Empty]
    BY DEF Singles
  <2> QED BY <2>1 DEF SingleState
<1>3. ASSUME NEW s \in states
      PROVE  \E i \in DOMAIN lens : OneRow(lens, k, i, s)
  <2>1. PICK i \in DOMAIN lens : /\ SingleState(lens, k, i, s)
                                 /\ s \in [1 .. k -> [sum : Nat, items : Seq(Nat)]]
    BY <1>1
  <2> QED BY <2>1, SingleStateIs
<1>4. HeapTypeOK(states, k)
  BY <1>3, HeapOfStates DEF OneRow
<1>5. ASSUME NEW s \in states, NEW j \in DOMAIN s
      PROVE  /\ Range(s[j].items) \subseteq DOMAIN lens /\ IsInjective(s[j].items)
             /\ Len(s[j].items) <= 1 /\ (Range(s[j].items) # {} => j = 1)
  <2>1. PICK i \in DOMAIN lens : OneRow(lens, k, i, s)
    BY <1>3
  <2>2. j \in 1 .. k
    BY <2>1 DEF OneRow, StateOK
  <2>3. CASE j = 1
    <3>1. HasRow(s[j], i, lens[i])
      BY <2>1, <2>3 DEF OneRow
    <3> QED BY <2>3, <3>1 DEF HasRow
  <2>4. CASE j # 1
    <3>1. s[j] = Empty
      BY <2>1, <2>2, <2>4 DEF OneRow
    <3> QED BY <3>1, <2>4, EmptyIs
  <2> QED BY <2>3, <2>4
<1>6. \A i \in DOMAIN lens : \E s \in states : \E j \in DOMAIN s : i \in Range(s[j].items)
  <2> TAKE i \in DOMAIN lens
  <2>1. PICK s \in states : SingleState(lens, k, i, s)
    BY <1>2
  <2>2. 1 \in DOMAIN s /\ s[1] = Single(i, lens[i]) /\ i \in Nat /\ lens[i] \in Nat
    BY <2>1 DEF SingleState
  <2>3. HasRow(s[1], i, lens[i])
    BY <2>2, SingleIs
  <2>4. i \in Range(s[1].items)
    BY <2>3 DEF HasRow
  <2> QED BY <2>2, <2>4
<1>7. ASSUME NEW s \in states, NEW t \in states, NEW i \in DOMAIN lens,
             i \in Range(s[1].items), i \in Range(t[1].items)
      PROVE  s = t
  <2>1. PICK a \in DOMAIN lens :
          s = [j \in 1 .. k |-> IF j = 1 THEN Single(a, lens[a]) ELSE Empty]
    BY DEF Singles
  <2>2. PICK b \in DOMAIN lens :
          t = [j \in 1 .. k |-> IF j = 1 THEN Single(b, lens[b]) ELSE Empty]
    BY DEF Singles
  <2>3. s[1] = Single(a, lens[a]) /\ t[1] = Single(b, lens[b])
    BY <2>1, <2>2
  <2>4. a \in Nat /\ b \in Nat /\ lens[a] \in Nat /\ lens[b] \in Nat
    OBVIOUS
  <2>5. HasRow(s[1], a, lens[a]) /\ HasRow(t[1], b, lens[b])
    BY <2>3, <2>4, SingleIs
  <2>6. i = a /\ i = b
    BY <1>7, <2>5 DEF HasRow
  <2> QED BY <2>1, <2>2, <2>6
<1>8. ASSUME NEW s \in states, NEW t \in states, NEW j \in DOMAIN s, NEW l \in DOMAIN t,
             Range(s[j].items) \cap Range(t[l].items) # {}
      PROVE  s = t /\ j = l
  <2>1. j = 1 /\ l = 1
    BY <1>5, <1>8
  <2>2. PICK i : i \in Range(s[1].items) /\ i \in Range(t[1].items)
    BY <1>8, <2>1
  <2>3. i \in DOMAIN lens
    BY <1>5, <2>1, <2>2
  <2> QED BY <1>7, <2>1, <2>2, <2>3
<1>9. EachRowOnce(states, DOMAIN lens)
  BY <1>5, <1>6, <1>8 DEF EachRowOnce
<1>10. FilledEvenly(states)
  BY <1>5 DEF FilledEvenly
<1>11. SpreadWithinRow(states, lens)
  <2> SUFFICES ASSUME NEW s \in states PROVE \E i \in DOMAIN lens : Spread(s) <= lens[i]
    BY DEF SpreadWithinRow
  <2>1. PICK i \in DOMAIN lens : StateOK(s, k) /\ s[1].sum = lens[i]
    BY <1>3 DEF OneRow, HasRow
  <2>2. s[k].sum \in Nat /\ lens[i] \in Nat
    BY <2>1 DEF StateOK
  <2>3. Spread(s) <= lens[i]
    BY <2>1, <2>2, SpreadIsInt
  <2> QED BY <2>3
<1> QED BY <1>4, <1>9, <1>10, <1>11

-----------------------------------------------------------------------------
(* k rows of similar length each: Groups.                                     *)

\* The place of Set j of group g among the rows in ascending order.
LEMMA PlaceIn ==
  ASSUME NEW k \in Nat \ {0}, NEW n \in Nat, NEW g \in 1 .. n, NEW j \in 1 .. k
  PROVE  g * k - j + 1 \in 1 .. n * k
<1>1. g * k \in Nat /\ n * k \in Nat /\ (g - 1) * k \in Nat
  OBVIOUS
<1>2. (g - 1) * k = g * k - k
  OBVIOUS
<1>3. (n - g) * k \in Nat /\ (n - g) * k = n * k - g * k
  OBVIOUS
<1> QED BY <1>1, <1>2, <1>3

SamePlace(k, g, j, h, l) == g * k - j + 1 = h * k - l + 1

\* Two groups share no place ...
LEMMA PlaceOnce ==
  ASSUME NEW k \in Nat \ {0}, NEW g \in Nat, NEW h \in Nat,
         NEW j \in 1 .. k, NEW l \in 1 .. k, SamePlace(k, g, j, h, l)
  PROVE  g = h /\ j = l
<1>0. g * k - j + 1 = h * k - l + 1
  BY DEF SamePlace
<1>1. ASSUME NEW a \in Nat, NEW b \in Nat, a < b PROVE a * k + k <= b * k
  <2>1. (b - a - 1) * k \in Nat /\ (b - a - 1) * k = b * k - a * k - k
    BY <1>1
  <2>2. a * k \in Nat /\ b * k \in Nat
    OBVIOUS
  <2> QED BY <2>1, <2>2
<1>2. g * k \in Nat /\ h * k \in Nat
  OBVIOUS
<1>3. ~(g < h)
  BY <1>0, <1>1, <1>2
<1>4. ~(h < g)
  BY <1>0, <1>1, <1>2
<1>5. g = h
  BY <1>3, <1>4
<1> QED BY <1>0, <1>2, <1>5

\* ... and leave none out.
LEMMA PlaceAll ==
  ASSUME NEW k \in Nat \ {0}, NEW n \in Nat, NEW x \in 1 .. n * k
  PROVE  \E g \in 1 .. n, j \in 1 .. k : g * k - j + 1 = x
<1>1. x \in Nat /\ x >= 1 /\ x <= n * k /\ n * k \in Nat
  OBVIOUS
<1>2. PICK y \in Nat : y = x - 1
  BY <1>1
<1>3. /\ y \div k \in Nat /\ k * (y \div k) \in Nat
      /\ k * (y \div k) <= y /\ y < k * (y \div k) + k
  OBVIOUS
<1>4. PICK d \in Nat : d = y \div k
  BY <1>3
<1>5. PICK g \in Nat : g = d + 1
  OBVIOUS
<1>6. g >= 1 /\ g * k \in Nat /\ k * d = g * k - k
  BY <1>5
<1>7. PICK j \in 1 .. k : j = g * k + 1 - x
  BY <1>1, <1>2, <1>3, <1>4, <1>6
<1>8. g * k - j + 1 = x
  BY <1>1, <1>6, <1>7
<1>9. g <= n
  <2> SUFFICES ASSUME g > n PROVE FALSE
    OBVIOUS
  <2>1. (g - n - 1) * k \in Nat /\ (g - n - 1) * k = g * k - n * k - k
    OBVIOUS
  <2> QED BY <1>1, <1>6, <1>8, <2>1
<1>10. g \in 1 .. n
  BY <1>6, <1>9
<1> QED BY <1>8, <1>10

\* A State of one row in each Set: the k rows of group g, largest first.
GroupOf(lens, k, p, g, s) ==
  /\ s \in [1 .. k -> [sum : Nat, items : Seq(Nat)]]
  /\ \A j \in 1 .. k : HasRow(s[j], p[g * k - j + 1], lens[p[g * k - j + 1]])

\* It is made of the rows of group g, and its Set j of the row at place x.
AtPlace(lens, k, p, s, j, g, x) ==
  /\ j \in 1 .. k /\ x = g * k - j + 1
  /\ HasRow(s[j], p[x], lens[p[x]])
  /\ s = [i \in 1 .. k |-> Single(p[g * k - i + 1], lens[p[g * k - i + 1]])]

InOrder(lens, n, p) ==
  /\ p \in [1 .. n -> 1 .. n]
  /\ \A x, y \in 1 .. n : p[x] = p[y] => x = y
  /\ \A y \in 1 .. n : \E x \in 1 .. n : p[x] = y
  /\ \A x, y \in 1 .. n : x < y =>
       lens[p[x]] < lens[p[y]] \/ (lens[p[x]] = lens[p[y]] /\ p[x] < p[y])

\* sorted_seqlen_list is a permutation, in ascending order.
LEMMA AscendingIs ==
  ASSUME NEW n \in Nat, NEW lens \in [1 .. n -> Nat], NEW p \in Ascending(lens)
  PROVE  InOrder(lens, n, p)
<1>1. DOMAIN lens = 1 .. n
  OBVIOUS
<1>2. /\ p \in Bijection(1 .. n, 1 .. n)
      /\ \A x, y \in 1 .. n : x < y =>
           lens[p[x]] < lens[p[y]] \/ (lens[p[x]] = lens[p[y]] /\ p[x] < p[y])
  BY <1>1 DEF Ascending, Orders
<1>3. p \in [1 .. n -> 1 .. n] /\ \A y \in 1 .. n : \E x \in 1 .. n : p[x] = y
  BY <1>2 DEF Bijection, Surjection
<1>4. \A x, y \in 1 .. n : p[x] = p[y] => x = y
  BY <1>2 DEF Bijection, Injection, IsInjective
<1> QED BY <1>2, <1>3, <1>4 DEF InOrder

\* A State of k rows, largest first, is a State.
LEMMA GroupStateOK ==
  ASSUME NEW k \in Nat \ {0}, NEW N \in Nat, NEW lens \in [1 .. N * k -> Nat],
         NEW p, InOrder(lens, N * k, p), NEW g \in 1 .. N, NEW s, GroupOf(lens, k, p, g, s)
  PROVE  StateOK(s, k)
<1>1. ASSUME NEW j \in 1 .. k
      PROVE  /\ g * k - j + 1 \in 1 .. N * k
             /\ p[g * k - j + 1] \in Nat /\ lens[p[g * k - j + 1]] \in Nat
             /\ s[j].sum = lens[p[g * k - j + 1]] /\ s[j].items # << >>
             /\ Len(s[j].items) = 1 /\ Head(s[j].items) = p[g * k - j + 1]
  <2>1. PICK x \in 1 .. N * k : x = g * k - j + 1
    BY PlaceIn
  <2>2. p[x] \in 1 .. N * k
    BY DEF InOrder
  <2>3. p[x] \in Nat /\ lens[p[x]] \in Nat
    BY <2>2
  <2>4. HasRow(s[j], p[x], lens[p[x]])
    BY <2>1 DEF GroupOf
  <2> QED BY <2>1, <2>3, <2>4 DEF HasRow
<1>2. ASSUME NEW a \in 1 .. k, NEW b \in 1 .. k, a < b
      PROVE  Above(s[a], s[b])
  <2>1. PICK x, y \in 1 .. N * k : x = g * k - a + 1 /\ y = g * k - b + 1
    BY <1>1
  <2>2. y < x
    <3>1. g * k \in Nat
      OBVIOUS
    <3> QED BY <1>2, <2>1, <3>1
  <2>3. lens[p[y]] < lens[p[x]] \/ (lens[p[y]] = lens[p[x]] /\ p[y] < p[x])
    BY <2>2 DEF InOrder
  <2>4. /\ s[a].sum = lens[p[x]] /\ Len(s[a].items) = 1 /\ Head(s[a].items) = p[x]
        /\ s[b].sum = lens[p[y]] /\ Len(s[b].items) = 1 /\ Head(s[b].items) = p[y]
        /\ s[a].items # << >>
        /\ p[x] \in Nat /\ p[y] \in Nat /\ lens[p[x]] \in Nat /\ lens[p[y]] \in Nat
    BY <1>1, <2>1
  <2> QED BY <2>3, <2>4 DEF Above
<1>3. DOMAIN s = 1 .. k /\ s \in [1 .. k -> [sum : Nat, items : Seq(Nat)]] /\ 1 \in 1 .. k
  BY DEF GroupOf
<1>4. Decreasing(s)
  BY <1>2, <1>3 DEF Decreasing
<1> QED BY <1>1, <1>3, <1>4 DEF StateOK

\* karmarkar_karp with equal_size True starts well, when k divides the rows.
LEMMA GroupsStart ==
  ASSUME NEW k \in Nat \ {0}, NEW N \in Nat, NEW lens \in [1 .. N * k -> Nat],
         NEW states \in Groups(lens, k)
  PROVE  /\ HeapTypeOK(states, k)
         /\ EachRowOnce(states, DOMAIN lens)
         /\ EqualSizes(states)
         /\ SpreadWithinRows(states, lens)
<1>1. Len(lens) \div k = N
  <2>1. Len(lens) = N * k /\ N * k \in Nat
    OBVIOUS
  <2> QED BY <2>1
<1>2. PICK p \in Ascending(lens) :
        states = {[j \in 1 .. k |-> Single(p[g * k - j + 1], lens[p[g * k - j + 1]])] : g \in 1 .. N}
  BY <1>1 DEF Groups
<1>3. N * k \in Nat /\ DOMAIN lens = 1 .. N * k
  OBVIOUS
<1>4. InOrder(lens, N * k, p)
  BY <1>3, AscendingIs
<1>5. ASSUME NEW g \in 1 .. N, NEW j \in 1 .. k
      PROVE  HasRow(Single(p[g * k - j + 1], lens[p[g * k - j + 1]]),
                    p[g * k - j + 1], lens[p[g * k - j + 1]])
  <2>1. PICK x \in 1 .. N * k : x = g * k - j + 1
    BY PlaceIn
  <2>2. p[x] \in Nat /\ lens[p[x]] \in Nat
    BY <1>4 DEF InOrder
  <2> QED BY <2>1, <2>2, SingleIs
<1>6. ASSUME NEW g \in 1 .. N, NEW s,
             s = [j \in 1 .. k |-> Single(p[g * k - j + 1], lens[p[g * k - j + 1]])]
      PROVE  GroupOf(lens, k, p, g, s)
  <2>1. \A j \in 1 .. k : HasRow(s[j], p[g * k - j + 1], lens[p[g * k - j + 1]])
    BY <1>5, <1>6
  <2>2. \A j \in 1 .. k : s[j] \in [sum : Nat, items : Seq(Nat)]
    BY <2>1 DEF HasRow
  <2> QED BY <1>6, <2>1, <2>2 DEF GroupOf
<1>7. ASSUME NEW s \in states
      PROVE  \E g \in 1 .. N : GroupOf(lens, k, p, g, s)
                             /\ s = [j \in 1 .. k |-> Single(p[g * k - j + 1], lens[p[g * k - j + 1]])]
  BY <1>2, <1>6
<1>8. HeapTypeOK(states, k)
  <2>1. ASSUME NEW s \in states PROVE StateOK(s, k)
    BY <1>4, <1>7, GroupStateOK
  <2> QED BY <2>1, HeapOfStates
<1>9. ASSUME NEW s \in states, NEW j \in DOMAIN s
      PROVE  \E g \in 1 .. N : \E x \in 1 .. N * k :
               p[x] \in 1 .. N * k /\ AtPlace(lens, k, p, s, j, g, x)
  <2>1. PICK g \in 1 .. N : /\ GroupOf(lens, k, p, g, s)
                            /\ s = [i \in 1 .. k |-> Single(p[g * k - i + 1], lens[p[g * k - i + 1]])]
    BY <1>7
  <2>2. j \in 1 .. k
    BY <1>9, <2>1
  <2>3. PICK x \in 1 .. N * k : x = g * k - j + 1
    BY <2>2, PlaceIn
  <2>4. HasRow(s[j], p[x], lens[p[x]]) /\ p[x] \in 1 .. N * k
    BY <1>4, <2>1, <2>2, <2>3 DEF GroupOf, InOrder
  <2>5. AtPlace(lens, k, p, s, j, g, x)
    BY <2>1, <2>2, <2>3, <2>4 DEF AtPlace
  <2> QED BY <2>4, <2>5
<1>10. ASSUME NEW s \in states, NEW j \in DOMAIN s
       PROVE  /\ Range(s[j].items) \subseteq DOMAIN lens /\ IsInjective(s[j].items)
              /\ Len(s[j].items) = 1
  <2>1. PICK x \in 1 .. N * k : HasRow(s[j], p[x], lens[p[x]]) /\ p[x] \in 1 .. N * k
    BY <1>9 DEF AtPlace
  <2> QED BY <1>3, <2>1 DEF HasRow
<1>11. ASSUME NEW y \in DOMAIN lens
       PROVE  \E s \in states : \E j \in DOMAIN s : y \in Range(s[j].items)
  <2>1. PICK x \in 1 .. N * k : p[x] = y
    BY <1>3, <1>4 DEF InOrder
  <2>2. PICK g \in 1 .. N, j \in 1 .. k : g * k - j + 1 = x
    BY PlaceAll
  <2>3. PICK s \in states : s = [i \in 1 .. k |-> Single(p[g * k - i + 1], lens[p[g * k - i + 1]])]
    BY <1>2
  <2>4. HasRow(s[j], y, lens[y]) /\ j \in DOMAIN s
    BY <1>6, <2>1, <2>2, <2>3 DEF GroupOf
  <2> QED BY <2>4 DEF HasRow
<1>12. ASSUME NEW s \in states, NEW t \in states, NEW j \in DOMAIN s, NEW l \in DOMAIN t,
              Range(s[j].items) \cap Range(t[l].items) # {}
       PROVE  s = t /\ j = l
  <2>1. PICK g \in 1 .. N : \E x \in 1 .. N * k : AtPlace(lens, k, p, s, j, g, x)
    BY <1>9
  <2>2. PICK x \in 1 .. N * k : AtPlace(lens, k, p, s, j, g, x)
    BY <2>1
  <2>3. PICK h \in 1 .. N : \E y \in 1 .. N * k : AtPlace(lens, k, p, t, l, h, y)
    BY <1>9
  <2>4. PICK y \in 1 .. N * k : AtPlace(lens, k, p, t, l, h, y)
    BY <2>3
  <2>5. p[x] = p[y]
    BY <1>12, <2>2, <2>4 DEF AtPlace, HasRow
  <2>6. x = y
    BY <1>4, <2>5 DEF InOrder
  <2>7. g \in Nat /\ h \in Nat /\ j \in 1 .. k /\ l \in 1 .. k /\ SamePlace(k, g, j, h, l)
    BY <2>2, <2>4, <2>6 DEF AtPlace, SamePlace
  <2>8. g = h /\ j = l
    BY <2>7, PlaceOnce
  <2> QED BY <2>2, <2>4, <2>8 DEF AtPlace
<1>13. EachRowOnce(states, DOMAIN lens)
  BY <1>10, <1>11, <1>12 DEF EachRowOnce
<1>14. EqualSizes(states)
  BY <1>10 DEF EqualSizes
<1>15. SpreadWithinRows(states, lens)
  <2> SUFFICES ASSUME NEW s \in states
               PROVE  \E i, j \in DOMAIN lens : Spread(s) <= lens[i] - lens[j]
    BY DEF SpreadWithinRows
  <2>1. StateOK(s, k)
    BY <1>8, HeapOfStates
  <2>2. 1 \in DOMAIN s /\ k \in DOMAIN s
    BY <2>1 DEF StateOK
  <2>3. PICK x \in 1 .. N * k : HasRow(s[1], p[x], lens[p[x]]) /\ p[x] \in 1 .. N * k
    BY <1>9, <2>2 DEF AtPlace
  <2>4. PICK y \in 1 .. N * k : HasRow(s[k], p[y], lens[p[y]]) /\ p[y] \in 1 .. N * k
    BY <1>9, <2>2 DEF AtPlace
  <2>5. s[1].sum = lens[p[x]] /\ s[k].sum = lens[p[y]] /\ lens[p[x]] \in Nat /\ lens[p[y]] \in Nat
    BY <2>3, <2>4 DEF HasRow
  <2>6. Spread(s) <= lens[p[x]] - lens[p[y]]
    BY <2>1, <2>5, SpreadIsInt
  <2> QED BY <1>3, <2>3, <2>4, <2>6
<1> QED BY <1>8, <1>13, <1>14, <1>15

-----------------------------------------------------------------------------
(* The last State. *)

\* With no more partitions than rows, none is empty (the assert of
\* seqlen_balancing.py:175): were one, the rows would be one by one in the
\* others, which are fewer.
THEOREM NoEmptyPartition ==
  ASSUME NEW k \in Nat \ {0}, NEW n \in Nat, k <= n,
         NEW s, HeapTypeOK({s}, k), EachRowOnce({s}, 1 .. n), FilledEvenly({s})
  PROVE  \A j \in 1 .. k : s[j].items # << >>
<1> SUFFICES ASSUME NEW e \in 1 .. k, s[e].items = << >> PROVE FALSE
  OBVIOUS
<1>1. StateOK(s, k) /\ DOMAIN s = 1 .. k
  BY HeapOfStates DEF StateOK
<1>2. \A j \in 1 .. k : s[j].items \in Seq(Nat) /\ Len(s[j].items) <= 1
  BY <1>1 DEF FilledEvenly, StateOK
<1>3. \A i \in 1 .. n : \E j \in 1 .. k : i \in Range(s[j].items)
  BY <1>1 DEF EachRowOnce
<1> DEFINE at == [i \in 1 .. n |-> CHOOSE j \in 1 .. k : i \in Range(s[j].items)]
<1>4. \A i \in 1 .. n : at[i] \in 1 .. k /\ i \in Range(s[at[i]].items)
  BY <1>3
<1>5. \A i \in 1 .. n : at[i] \in (1 .. k) \ {e}
  <2>1. Range(s[e].items) = {}
    BY DEF Range
  <2> HIDE DEF at
  <2> QED BY <1>4, <2>1
<1>6. at \in [1 .. n -> (1 .. k) \ {e}]
  BY <1>5
<1> HIDE DEF at
<1>7. ASSUME NEW a \in 1 .. n, NEW b \in 1 .. n, at[a] = at[b] PROVE a = b
  <2>1. PICK q \in Seq(Nat) : Len(q) <= 1 /\ a \in Range(q) /\ b \in Range(q)
    <3>1. PICK j \in 1 .. k : j = at[a] /\ j = at[b]
      BY <1>4, <1>7
    <3>2. a \in Range(s[j].items) /\ b \in Range(s[j].items)
      BY <1>4, <3>1
    <3> QED BY <1>2, <3>2
  <2>2. \A x, y \in DOMAIN q : x = y
    BY <2>1
  <2> QED BY <2>1, <2>2 DEF Range
<1>8. IsFiniteSet(1 .. n) /\ Cardinality(1 .. n) = n /\ IsFiniteSet(1 .. k) /\ Cardinality(1 .. k) = k
  BY FS_Interval
<1>9. IsFiniteSet((1 .. k) \ {e}) /\ Cardinality((1 .. k) \ {e}) = k - 1
  BY <1>8, FS_RemoveElement
<1>10. at \in Injection(1 .. n, (1 .. k) \ {e})
  BY <1>6, <1>7 DEF Injection, IsInjective
<1>11. Cardinality(1 .. n) <= Cardinality((1 .. k) \ {e})
  BY <1>8, <1>9, <1>10, FS_Injection
<1> QED BY <1>8, <1>9, <1>11

\* What BalancedMicroBatches says of the heap of rearrange_micro_batches
\* (seqlen_balancing.py:113) holds of the heap it starts from, and a round of the
\* loop keeps it.
Balanced(states, lens, k) ==
  /\ HeapTypeOK(states, k)
  /\ EachRowOnce(states, DOMAIN lens)
  /\ FilledEvenly(states)
  /\ SpreadWithinRow(states, lens)

\* For every list of rows and every number of micro-batches, each row is in one
\* of them, none has two rows while another has none, and their sums differ by
\* no more than one row, from the first round of karmarkar_karp to the last.
THEOREM MicroBatchesBalanced ==
  ASSUME NEW k \in Nat \ {0}, NEW lens \in Seq(Nat)
  PROVE  /\ Balanced(Singles(lens, k), lens, k)
         /\ \A states : Balanced(states, lens, k) => \A next \in Merged(states) : Balanced(next, lens, k)
<1>1. Balanced(Singles(lens, k), lens, k)
  BY SinglesStart DEF Balanced
<1>2. ASSUME NEW states, Balanced(states, lens, k), NEW next \in Merged(states)
      PROVE  Balanced(next, lens, k)
  <2>1. HeapTypeOK(states, k) /\ EachRowOnce(states, DOMAIN lens) /\ FilledEvenly(states)
        /\ SpreadWithinRow(states, lens)
    BY <1>2 DEF Balanced
  <2>2. HeapTypeOK(next, k)
    BY <2>1, RoundKeepsType
  <2>3. EachRowOnce(next, DOMAIN lens)
    BY <2>1, RoundKeepsRows
  <2>4. FilledEvenly(next)
    BY <2>1, RoundKeepsFilled
  <2>5. SpreadWithinRow(next, lens)
    BY <2>1, RoundKeepsSpread
  <2> QED BY <2>2, <2>3, <2>4, <2>5 DEF Balanced
<1> QED BY <1>1, <1>2

-----------------------------------------------------------------------------
(* The driver. *)

\* The invariant: the heap is one of karmarkar_karp's while it runs.
Balancing(j, states, ranks) ==
  /\ HeapTypeOK(states, ranks)
  /\ EachRowOnce(states, DOMAIN j.lens)
  /\ EqualSizes(states)
  /\ SpreadWithinRows(states, j.lens)

BalanceInv == job \in Jobs /\ (pc = "balance" => Balancing(job, dheap, World))

\* What JobAssumption says of one job.
LEMMA JobIs ==
  ASSUME NEW j \in Jobs
  PROVE  /\ j.lens \in Seq(Nat) /\ Len(j.lens) \in Nat
         /\ j.tp * j.pp * j.dp \in Nat \ {0}
         /\ ~j.validate => Len(j.lens) % (j.tp * j.pp * j.dp) = 0
<1>1. /\ j.tp \in Nat \ {0} /\ j.pp \in Nat \ {0} /\ j.dp \in Nat \ {0}
      /\ j.lens \in Seq(Nat \ {0})
      /\ ~j.validate => Len(j.lens) % (j.tp * j.pp * j.dp) = 0
  BY JobAssumption
<1>2. \A a, b \in Nat \ {0} : a * b \in Nat \ {0}
  OBVIOUS
<1>3. j.tp * j.pp * j.dp \in Nat \ {0}
  BY <1>1, <1>2
<1>4. j.lens \in Seq(Nat) /\ Len(j.lens) \in Nat
  BY <1>1
<1> QED BY <1>1, <1>3, <1>4

\* The heap that karmarkar_karp starts from.
LEMMA StartsBalanced ==
  ASSUME NEW k \in Nat \ {0}, NEW j, j.lens \in Seq(Nat), Len(j.lens) % k = 0,
         NEW states \in InitialHeaps(j.lens, k, TRUE)
  PROVE  Balancing(j, states, k)
<1>1. PICK lens : lens = j.lens
  OBVIOUS
<1>2. PICK n \in Nat : n = Len(lens)
  BY <1>1
<1>3. n \div k \in Nat
  OBVIOUS
<1>4. PICK N \in Nat : N = n \div k
  BY <1>3
<1>5. lens \in [1 .. N * k -> Nat]
  <2>1. n = k * (n \div k) + (n % k)
    BY Z3
  <2>2. n % k = 0
    BY <1>1, <1>2
  <2>3. n = N * k
    BY <1>4, <2>1, <2>2
  <2>4. lens \in [1 .. n -> Nat]
    BY <1>1, <1>2
  <2> QED BY <2>3, <2>4
<1>6. states \in Groups(lens, k)
  BY <1>1 DEF InitialHeaps
<1>7. HeapTypeOK(states, k) /\ EachRowOnce(states, DOMAIN lens) /\ EqualSizes(states)
      /\ SpreadWithinRows(states, lens)
  BY <1>5, <1>6, GroupsStart
<1> QED BY <1>1, <1>7 DEF Balancing

\* A round of its loop.
LEMMA StaysBalanced ==
  ASSUME NEW k \in Nat \ {0}, NEW j, j.lens \in Seq(Nat), NEW states, Balancing(j, states, k),
         NEW next \in Merged(states)
  PROVE  Balancing(j, next, k)
<1>1. HeapTypeOK(states, k) /\ EachRowOnce(states, DOMAIN j.lens) /\ EqualSizes(states)
      /\ SpreadWithinRows(states, j.lens)
  BY DEF Balancing
<1>2. HeapTypeOK(next, k)
  BY <1>1, RoundKeepsType
<1>3. EachRowOnce(next, DOMAIN j.lens)
  BY <1>1, RoundKeepsRows
<1>4. EqualSizes(next)
  BY <1>1, RoundKeepsSizes
<1>5. SpreadWithinRows(next, j.lens)
  BY <1>1, RoundKeepsSpread
<1> QED BY <1>2, <1>3, <1>4, <1>5 DEF Balancing

\* The invariant holds when the driver calls.
LEMMA BalanceInit == Init => BalanceInv
<1> SUFFICES ASSUME Init PROVE BalanceInv
  OBVIOUS
<1>1. job \in Jobs
  BY DEF Init
<1>2. ASSUME pc = "balance" PROVE Balancing(job, dheap, World)
  <2>1. ~job.validate /\ dheap \in InitialHeaps(job.lens, World, TRUE)
    BY <1>2 DEF Init
  <2>2. World \in Nat \ {0} /\ job.lens \in Seq(Nat) /\ Len(job.lens) % World = 0
    BY <1>1, <2>1, JobIs DEF World
  <2> QED BY <2>1, <2>2, StartsBalanced
<1> QED BY <1>1, <1>2 DEF BalanceInv

\* Only BalanceMerge changes the heap; what ends the balancing ends the claim.
LEMMA BalanceStep == BalanceInv /\ [Next]_vars => BalanceInv'
<1> SUFFICES ASSUME BalanceInv, [Next]_vars PROVE BalanceInv'
  OBVIOUS
<1>1. job \in Jobs /\ World \in Nat \ {0} /\ job.lens \in Seq(Nat)
  BY JobIs DEF BalanceInv, World
<1>2. CASE BalanceMerge
  <2>1. /\ pc = "balance" /\ dheap' \in Merged(dheap) /\ job' = job
    BY <1>2 DEF BalanceMerge
  <2>2. Balancing(job, dheap', World)
    BY <1>1, <2>1, StaysBalanced DEF BalanceInv
  <2>3. World' = World
    BY <2>1 DEF World
  <2> QED BY <1>1, <2>1, <2>2, <2>3 DEF BalanceInv
<1>3. CASE Pad \/ Reorder \/ DispatchBatch \/ CollectBatch
  BY <1>1, <1>3 DEF Pad, Reorder, DispatchBatch, CollectBatch, BalanceInv
<1>4. CASE UNCHANGED driver
  BY <1>4 DEF driver, BalanceInv, World, Balancing
<1>5. ASSUME NEW r \in Ranks, Rank(r) PROVE UNCHANGED driver
  BY <1>5 DEF Rank, Preprocess, Count, Split, MergeSets, Arrange, SplitFixed, Forward, Revert,
              Postprocess
<1>6. CASE AllReduce \/ Over \/ UNCHANGED vars
  <2>1. UNCHANGED driver
    BY <1>6 DEF AllReduce, Over, vars
  <2> QED BY <1>4, <2>1
<1> QED BY <1>2, <1>3, <1>4, <1>5, <1>6 DEF Next, Driver

\* While the driver balances a training batch (ray_trainer.py:543), every row is
\* in exactly one partition, the partitions are of equal size, and their token
\* counts differ by no more than one row and another: the asserts of
\* karmarkar_karp hold for every batch that is divisible by the ranks.
THEOREM PartitionsAreEqual == Spec => []EqualPartition
<1>1. BalanceInv => EqualPartition
  BY DEF BalanceInv, EqualPartition, Balancing
<1> QED BY <1>1, BalanceInit, BalanceStep, PTL DEF Spec

-----------------------------------------------------------------------------
(* Joining sequences. *)

\* Every set of numbers that is not empty has a smallest one.
LEMMA Smallest ==
  ASSUME NEW K \in SUBSET Nat, K # {}
  PROVE  \E k \in K : \A j \in K : k <= j
<1>1. PICK k \in K : \A j \in K : <<j, k>> \notin OpToRel(<, Nat)
  BY NatLessThanWellFounded, WFMin, Zenon
<1>2. \A j \in K : ~(j < k)
  BY <1>1 DEF OpToRel
<1> QED
  BY <1>2

\* What holds of a number when it holds of the one before holds of all.
LEMMA OneByOne ==
  ASSUME NEW n \in Nat, NEW Q, \A i \in 1 .. n : (i = 1 \/ i - 1 \in Q) => i \in Q
  PROVE  \A i \in 1 .. n : i \in Q
<1> DEFINE Wrong == {i \in 1 .. n : i \notin Q}
<1> SUFFICES ASSUME Wrong # {} PROVE FALSE
  OBVIOUS
<1>1. Wrong \in SUBSET Nat
  OBVIOUS
<1>2. PICK w \in Wrong : \A i \in Wrong : w <= i
  <2> HIDE DEF Wrong
  <2> QED BY <1>1, Smallest
<1>3. w \in 1 .. n /\ w \notin Q
  OBVIOUS
<1>4. w # 1 => w - 1 \in 1 .. n /\ w - 1 \notin Wrong
  <2> HIDE DEF Wrong
  <2> QED BY <1>2, <1>3
<1> QED BY <1>3, <1>4

\* h[i] joins the first i of n sequences.
Loops(h, seqs, n) ==
  /\ DOMAIN h = 1 .. n
  /\ \A i \in 1 .. n : h[i] = IF i = 1 THEN seqs[i] ELSE h[i - 1] \o seqs[i]

\* FlattenSeq is such a loop.
LEMMA FlattenLoops ==
  ASSUME NEW S, NEW n \in Nat \ {0}, NEW seqs \in [1 .. n -> Seq(S)]
  PROVE  \E h \in [1 .. n -> Seq(S)] : Loops(h, seqs, n) /\ FlattenSeq(seqs) = h[n]
<1> DEFINE Defines(f, m) == f = [i \in 1 .. m |-> IF i = 1 THEN seqs[i] ELSE f[i - 1] \o seqs[i]]
           Q == {m \in 1 .. n : \E f : Defines(f, m)}
<1>1. ASSUME NEW m \in 1 .. n, m = 1 \/ m - 1 \in Q PROVE m \in Q
  <2>1. CASE m = 1
    <3> DEFINE f == [i \in 1 .. 1 |-> seqs[1]]
    <3>1. Defines(f, 1)
      OBVIOUS
    <3> QED BY <2>1, <3>1
  <2>2. CASE m # 1
    <3>1. PICK f : Defines(f, m - 1)
      BY <1>1, <2>2
    <3> DEFINE g == [i \in 1 .. m |-> IF i = m THEN f[m - 1] \o seqs[m] ELSE f[i]]
    <3>2. ASSUME NEW i \in 1 .. m
          PROVE  g[i] = IF i = 1 THEN seqs[i] ELSE g[i - 1] \o seqs[i]
      <4>1. i # 1 => i - 1 \in 1 .. m /\ i - 1 # m
        OBVIOUS
      <4>2. i # m => i \in 1 .. m - 1
        OBVIOUS
      <4>3. \A x \in 1 .. m - 1 : f[x] = IF x = 1 THEN seqs[x] ELSE f[x - 1] \o seqs[x]
        BY <3>1
      <4>4. \A x \in 1 .. m : g[x] = IF x = m THEN f[m - 1] \o seqs[m] ELSE f[x]
        OBVIOUS
      <4> HIDE DEF g, Defines
      <4> QED BY <2>2, <4>1, <4>2, <4>3, <4>4
    <3>3. Defines(g, m)
      BY <3>2
    <3> QED BY <3>3
  <2> QED BY <2>1, <2>2
<1>2. n \in Q
  <2>1. n \in 1 .. n
    OBVIOUS
  <2> HIDE DEF Q
  <2> QED BY <1>1, <2>1, OneByOne
<1>3. \E f : Defines(f, n)
  BY <1>2
<1> DEFINE h == CHOOSE f : Defines(f, n)
<1>4. Defines(h, n)
  BY <1>3
<1>5. FlattenSeq(seqs) = h[n]
  <2>1. Len(seqs) = n /\ n # 0
    OBVIOUS
  <2> HIDE DEF h
  <2>2. FlattenSeq(seqs) = (CHOOSE f : Defines(f, n))[n]
    BY <2>1 DEF FlattenSeq
  <2> QED BY <2>2 DEF h
<1> HIDE DEF h
<1>6. Loops(h, seqs, n)
  BY <1>4 DEF Loops
<1>7. \A i \in 1 .. n : h[i] \in Seq(S)
  <2> DEFINE R == {i \in 1 .. n : h[i] \in Seq(S)}
  <2>1. ASSUME NEW i \in 1 .. n, i = 1 \/ i - 1 \in R PROVE i \in R
    <3>1. CASE i = 1
      BY <1>6, <3>1 DEF Loops
    <3>2. CASE i # 1
      <4>1. h[i - 1] \in Seq(S) /\ h[i] = h[i - 1] \o seqs[i] /\ seqs[i] \in Seq(S)
        BY <1>6, <2>1, <3>2 DEF Loops
      <4>2. h[i] \in Seq(S)
        BY <4>1
      <4> QED BY <4>2
    <3> QED BY <3>1, <3>2
  <2>2. \A i \in 1 .. n : i \in R
    <3> HIDE DEF R
    <3> QED BY <2>1, OneByOne
  <2> QED BY <2>2
<1>8. h \in [1 .. n -> Seq(S)]
  <2>1. DOMAIN h = 1 .. n /\ h = [i \in 1 .. n |-> h[i]]
    BY <1>4
  <2> QED BY <1>7, <2>1
<1> QED BY <1>5, <1>6, <1>8

\* s has, in their order, something for each of the z places of V after a.
Piece(S, s, V, a, z) ==
  /\ s \in Seq(S) /\ Len(s) = z
  /\ \A i \in 1 .. z : s[i] \in V[a + i]

\* Pieces that follow each other make a piece.
LEMMA JoinPieces ==
  ASSUME NEW S, NEW V, NEW n \in Nat, NEW off \in [1 .. n + 1 -> Nat], NEW seqs, DOMAIN seqs = 1 .. n,
         seqs = [i \in 1 .. n |-> seqs[i]],
         \A i \in 1 .. n : off[i] <= off[i + 1] /\ Piece(S, seqs[i], V, off[i], off[i + 1] - off[i])
  PROVE  off[1] <= off[n + 1] /\ Piece(S, FlattenSeq(seqs), V, off[1], off[n + 1] - off[1])
<1>1. CASE n = 0
  <2>1. seqs \in Seq(S) /\ Len(seqs) = 0
    BY <1>1
  <2>2. FlattenSeq(seqs) = seqs
    BY <2>1 DEF FlattenSeq
  <2>3. off[n + 1] = off[1] /\ off[1] <= off[n + 1] /\ off[n + 1] - off[1] = 0
    <3>1. PICK a \in Nat : a = off[1]
      BY <1>1
    <3> QED BY <1>1, <3>1
  <2>4. Piece(S, seqs, V, off[1], 0)
    BY <2>1 DEF Piece
  <2> QED BY <2>2, <2>3, <2>4
<1>2. CASE n # 0
  <2>1. seqs \in [1 .. n -> Seq(S)]
    BY DEF Piece
  <2>2. PICK h \in [1 .. n -> Seq(S)] : Loops(h, seqs, n) /\ FlattenSeq(seqs) = h[n]
    BY <1>2, <2>1, FlattenLoops
  <2> DEFINE Q == {i \in 1 .. n : off[1] <= off[i + 1] /\ Piece(S, h[i], V, off[1], off[i + 1] - off[1])}
  <2>3. ASSUME NEW i \in 1 .. n, i = 1 \/ i - 1 \in Q PROVE i \in Q
    <3>1. /\ off[i] <= off[i + 1] /\ Piece(S, seqs[i], V, off[i], off[i + 1] - off[i])
          /\ h[i] = IF i = 1 THEN seqs[i] ELSE h[i - 1] \o seqs[i]
      BY <2>2 DEF Loops
    <3>2. CASE i = 1
      BY <3>1, <3>2
    <3>3. CASE i # 1
      <4>1. i - 1 \in 1 .. n /\ (i - 1) + 1 = i
        BY <3>3
      <4>2. off[1] <= off[i] /\ Piece(S, h[i - 1], V, off[1], off[i] - off[1])
        BY <2>3, <3>3, <4>1
      <4>3. PICK a \in Nat, b \in Nat, c \in Nat : a = off[1] /\ b = off[i] /\ c = off[i + 1]
        <5>1. 1 \in 1 .. n + 1 /\ i \in 1 .. n + 1 /\ i + 1 \in 1 .. n + 1
          BY <1>2
        <5> QED BY <5>1
      <4>4. a <= b /\ b <= c
        BY <3>1, <4>2, <4>3
      <4>5. PICK x \in Seq(S), y \in Seq(S) : x = h[i - 1] /\ y = seqs[i]
        BY <3>1, <4>2 DEF Piece
      <4>6. Len(x) = b - a /\ (\A k \in 1 .. b - a : x[k] \in V[a + k])
        BY <4>2, <4>3, <4>5 DEF Piece
      <4>7. Len(y) = c - b /\ (\A k \in 1 .. c - b : y[k] \in V[b + k])
        BY <3>1, <4>3, <4>5 DEF Piece
      <4>8. /\ x \o y \in Seq(S) /\ Len(x \o y) = Len(x) + Len(y)
            /\ \A k \in 1 .. Len(x) + Len(y) : (x \o y)[k] = IF k <= Len(x) THEN x[k] ELSE y[k - Len(x)]
        <5>1. x \o y \in Seq(S) /\ Len(x \o y) = Len(x) + Len(y)
          OBVIOUS
        <5>2. ASSUME NEW k \in 1 .. Len(x) + Len(y)
              PROVE  (x \o y)[k] = IF k <= Len(x) THEN x[k] ELSE y[k - Len(x)]
          OBVIOUS
        <5> QED BY <5>1, <5>2
      <4>9. ASSUME NEW k \in 1 .. c - a PROVE (x \o y)[k] \in V[a + k]
        <5>1. (x \o y)[k] = IF k <= b - a THEN x[k] ELSE y[k - (b - a)]
          <6>1. Len(x) = b - a /\ k \in 1 .. Len(x) + Len(y)
            BY <4>4, <4>6, <4>7
          <6>2. (x \o y)[k] = IF k <= Len(x) THEN x[k] ELSE y[k - Len(x)]
            BY <4>8, <6>1
          <6> QED BY <6>1, <6>2
        <5>2. CASE k <= b - a
          BY <4>6, <5>1, <5>2
        <5>3. CASE ~(k <= b - a)
          <6>1. k - (b - a) \in 1 .. c - b /\ b + (k - (b - a)) = a + k
            BY <4>4, <5>3
          <6>2. y[k - (b - a)] \in V[a + k]
            BY <4>7, <6>1
          <6> QED BY <5>1, <5>3, <6>2
        <5> QED BY <5>2, <5>3
      <4>10. Len(x \o y) = c - a
        BY <4>4, <4>6, <4>7, <4>8
      <4>11. Piece(S, x \o y, V, a, c - a)
        BY <4>8, <4>9, <4>10 DEF Piece
      <4>12. h[i] = x \o y /\ off[1] <= off[i + 1]
        <5>1. h[i] = x \o y
          BY <3>1, <3>3, <4>5, Zenon
        <5>2. off[1] <= off[i + 1]
          BY <4>3, <4>4
        <5> QED BY <5>1, <5>2
      <4>13. Piece(S, h[i], V, off[1], off[i + 1] - off[1])
        BY <4>3, <4>11, <4>12
      <4> QED BY <4>12, <4>13
    <3> QED BY <3>2, <3>3
  <2>4. n \in Q
    <3>1. n \in 1 .. n
      BY <1>2
    <3> HIDE DEF Q
    <3> QED BY <2>3, <3>1, OneByOne
  <2> QED BY <2>2, <2>4
<1> QED BY <1>1, <1>2

-----------------------------------------------------------------------------
(* Putting in order. *)

\* Elements that are ordered are told apart by how many are before them.
LEMMA RanksOfSet ==
  ASSUME NEW S, IsFiniteSet(S), NEW R,
         \A x \in S : <<x, x>> \notin R,
         \A x, y, z \in S : <<x, y>> \in R /\ <<y, z>> \in R => <<x, z>> \in R,
         \A x, y \in S : x = y \/ <<x, y>> \in R \/ <<y, x>> \in R
  PROVE  [x \in S |-> Cardinality({y \in S : <<y, x>> \in R})]
           \in Bijection(S, 0 .. Cardinality(S) - 1)
<1> DEFINE below(x) == {y \in S : <<y, x>> \in R}
           rank == [x \in S |-> Cardinality(below(x))]
           N == Cardinality(S)
<1>1. N \in Nat
  BY FS_CardinalityType
<1>2. ASSUME NEW x \in S
      PROVE  IsFiniteSet(below(x)) /\ Cardinality(below(x)) \in 0 .. N - 1
  <2>1. below(x) \in SUBSET S /\ below(x) # S
    OBVIOUS
  <2>2. IsFiniteSet(below(x)) /\ Cardinality(below(x)) <= N /\ Cardinality(below(x)) # N
    BY <2>1, FS_Subset
  <2>3. Cardinality(below(x)) \in Nat
    BY <2>2, FS_CardinalityType
  <2> QED
    BY <1>1, <2>2, <2>3
<1>3. rank \in [S -> 0 .. N - 1]
  BY <1>2
<1>4. ASSUME NEW x \in S, NEW y \in S, <<x, y>> \in R
      PROVE  Cardinality(below(x)) # Cardinality(below(y))
  <2>1. below(x) \in SUBSET below(y) /\ x \in below(y) /\ x \notin below(x)
    BY <1>4
  <2>2. below(x) # below(y) /\ IsFiniteSet(below(y))
    BY <1>2, <2>1
  <2> HIDE DEF below
  <2> QED
    BY <2>1, <2>2, FS_Subset
<1>5. \A x, y \in S : rank[x] = rank[y] => x = y
  <2>1. \A x \in S : rank[x] = Cardinality(below(x))
    OBVIOUS
  <2> HIDE DEF rank, below
  <2> QED
    BY <1>4, <2>1
<1>6. rank \in Injection(S, 0 .. N - 1)
  <2> HIDE DEF rank, N
  <2> QED
    BY <1>3, <1>5 DEF Injection, IsInjective
<1>7. IsFiniteSet(0 .. N - 1) /\ Cardinality(0 .. N - 1) = N
  <2> HIDE DEF N
  <2>1. 0 \in Int /\ N - 1 \in Int /\ (0 > N - 1 <=> N = 0) /\ (N - 1) - 0 + 1 = N
    BY <1>1
  <2> QED
    BY <2>1, FS_Interval
<1>8. rank \in Surjection(S, 0 .. N - 1)
  <2> HIDE DEF rank, N
  <2> QED
    BY <1>6, <1>7, FS_Injection DEF N
<1> QED
  BY <1>6, <1>8 DEF Bijection

\* Numbers are ordered.
LEMMA RanksOfNumbers ==
  ASSUME NEW S \in SUBSET Nat, IsFiniteSet(S)
  PROVE  [x \in S |-> Cardinality({y \in S : y < x})] \in Bijection(S, 0 .. Cardinality(S) - 1)
<1> DEFINE R == {e \in S \X S : e[1] < e[2]}
<1>1. \A x, y \in S : <<x, y>> \in R <=> x < y
  OBVIOUS
<1> HIDE DEF R
<1>2. \A x \in S : {y \in S : <<y, x>> \in R} = {y \in S : y < x}
  BY <1>1
<1>3. /\ \A x \in S : <<x, x>> \notin R
      /\ \A x, y, z \in S : <<x, y>> \in R /\ <<y, z>> \in R => <<x, z>> \in R
      /\ \A x, y \in S : x = y \/ <<x, y>> \in R \/ <<y, x>> \in R
  BY <1>1
<1>4. [x \in S |-> Cardinality({y \in S : <<y, x>> \in R})] \in Bijection(S, 0 .. Cardinality(S) - 1)
  <2> DEFINE T == S
  <2> HIDE DEF T
  <2>1. IsFiniteSet(T)
    BY DEF T
  <2>2. /\ \A x \in T : <<x, x>> \notin R
        /\ \A x, y, z \in T : <<x, y>> \in R /\ <<y, z>> \in R => <<x, z>> \in R
        /\ \A x, y \in T : x = y \/ <<x, y>> \in R \/ <<y, x>> \in R
    BY <1>3 DEF T
  <2>3. [x \in T |-> Cardinality({y \in T : <<y, x>> \in R})] \in Bijection(T, 0 .. Cardinality(T) - 1)
    BY <2>1, <2>2, RanksOfSet
  <2> QED
    BY <2>3 DEF T
<1> QED
  BY <1>2, <1>4

\* sorted(): each of the numbers once.
LEMMA IncreasingIs ==
  ASSUME NEW S \in SUBSET Nat, IsFiniteSet(S)
  PROVE  Increasing(S) \in Seq(S) /\ IsInjective(Increasing(S)) /\ Range(Increasing(S)) = S
<1> DEFINE N == Cardinality(S)
           below(x) == {y \in S : y < x}
           rank == [x \in S |-> Cardinality(below(x))]
           e == Increasing(S)
<1>1. N \in Nat
  BY FS_CardinalityType
<1>2. rank \in Bijection(S, 0 .. N - 1)
  BY RanksOfNumbers
<1>3. \A x \in S : rank[x] = Cardinality(below(x))
  OBVIOUS
<1>4. e = [i \in 1 .. N |-> CHOOSE x \in S : Cardinality(below(x)) = i - 1]
  BY DEF Increasing
<1> HIDE DEF rank, N, e, below
<1>5. /\ \A x, y \in S : rank[x] = rank[y] => x = y
      /\ \A x \in S : rank[x] \in 0 .. N - 1
      /\ \A k \in 0 .. N - 1 : \E x \in S : rank[x] = k
  BY <1>2 DEF Bijection, Injection, Surjection, IsInjective
<1>6. ASSUME NEW i \in 1 .. N
      PROVE  e[i] \in S /\ rank[e[i]] = i - 1
  <2>1. i - 1 \in 0 .. N - 1
    BY <1>1
  <2>2. \E x \in S : Cardinality(below(x)) = i - 1
    BY <1>3, <1>5, <2>1
  <2>3. e[i] = CHOOSE x \in S : Cardinality(below(x)) = i - 1
    BY <1>4
  <2>4. e[i] \in S /\ Cardinality(below(e[i])) = i - 1
    BY <2>2, <2>3
  <2> QED BY <1>3, <2>4
<1>7. e \in Seq(S) /\ Len(e) = N /\ DOMAIN e = 1 .. N
  BY <1>1, <1>4, <1>6
<1>8. IsInjective(e)
  <2> SUFFICES ASSUME NEW i \in 1 .. N, NEW j \in 1 .. N, e[i] = e[j] PROVE i = j
    BY <1>7 DEF IsInjective
  <2> QED BY <1>1, <1>6
<1>9. ASSUME NEW x \in S PROVE \E i \in 1 .. N : e[i] = x
  <2>1. rank[x] + 1 \in 1 .. N
    BY <1>1, <1>5
  <2>2. rank[e[rank[x] + 1]] = rank[x] /\ e[rank[x] + 1] \in S
    BY <1>1, <1>5, <1>6, <2>1
  <2> QED BY <1>5, <2>1, <2>2
<1>10. Range(e) = S
  <2>1. Range(e) = {e[i] : i \in 1 .. N}
    BY <1>7 DEF Range
  <2> QED BY <1>6, <1>9, <2>1
<1> QED BY <1>7, <1>8, <1>10 DEF e

\* The first n of a list of numbers that grow.
LEMMA CountGrowing ==
  ASSUME NEW n \in Nat, NEW e, \A i \in 1 .. n : e[i] \in Nat,
         \A i, j \in 1 .. n : i < j => e[i] < e[j]
  PROVE  IsFiniteSet({e[i] : i \in 1 .. n}) /\ Cardinality({e[i] : i \in 1 .. n}) = n
<1> DEFINE f == [i \in 1 .. n |-> e[i]]
           Q == {e[i] : i \in 1 .. n}
<1>1. f \in [1 .. n -> Q] /\ (\A i \in 1 .. n : f[i] = e[i]) /\ (\A x \in Q : \E i \in 1 .. n : x = e[i])
  OBVIOUS
<1>2. ASSUME NEW i \in 1 .. n, NEW j \in 1 .. n, f[i] = f[j] PROVE i = j
  <2>1. ~(i < j) /\ ~(j < i)
    BY <1>1, <1>2
  <2> QED BY <2>1
<1> HIDE DEF f, Q
<1>3. f \in Bijection(1 .. n, Q)
  BY <1>1, <1>2 DEF Bijection, Injection, Surjection, IsInjective
<1>4. IsFiniteSet(1 .. n) /\ Cardinality(1 .. n) = n
  BY FS_Interval
<1>5. IsFiniteSet(Q) /\ Cardinality(Q) = n
  BY <1>3, <1>4, FS_Bijection DEF ExistsBijection
<1> QED BY <1>5 DEF Q

\* Numbers that are listed from the smallest on are in order.
LEMMA InOrderAlready ==
  ASSUME NEW n \in Nat, NEW e \in [1 .. n -> Nat], \A i, j \in 1 .. n : i < j => e[i] < e[j],
         NEW Q, Q = {e[i] : i \in 1 .. n}
  PROVE  Increasing(Q) = e
<1>1. Cardinality(Q) = n
  BY CountGrowing
<1> DEFINE below(x) == {y \in Q : y < x}
<1>2. ASSUME NEW i \in 1 .. n
      PROVE  Cardinality(below(e[i])) = i - 1
  <2>1. i - 1 \in Nat
    OBVIOUS
  <2>2. below(e[i]) = {e[j] : j \in 1 .. i - 1}
    <3>1. ASSUME NEW x \in below(e[i]) PROVE x \in {e[j] : j \in 1 .. i - 1}
      <4>1. PICK j \in 1 .. n : x = e[j] /\ e[j] < e[i]
        OBVIOUS
      <4>2. j < i
        <5>1. ~(i < j)
          <6> SUFFICES ASSUME i < j PROVE FALSE
            OBVIOUS
          <6>1. e[i] < e[j] /\ e[i] \in Nat /\ e[j] \in Nat
            OBVIOUS
          <6> QED BY <4>1, <6>1
        <5>2. e[i] \in Nat /\ e[j] \in Nat
          OBVIOUS
        <5>3. i # j
          BY <4>1, <5>2
        <5> QED BY <5>1, <5>3
      <4> QED BY <4>1, <4>2
    <3>2. ASSUME NEW j \in 1 .. i - 1 PROVE e[j] \in below(e[i])
      <4>1. j \in 1 .. n /\ j < i
        OBVIOUS
      <4> QED BY <4>1
    <3> HIDE DEF below
    <3> QED BY <3>1, <3>2
  <2>3. (\A j \in 1 .. i - 1 : e[j] \in Nat) /\ (\A j, k \in 1 .. i - 1 : j < k => e[j] < e[k])
    <3>1. \A j \in 1 .. i - 1 : j \in 1 .. n
      OBVIOUS
    <3> QED BY <3>1
  <2>4. Cardinality({e[j] : j \in 1 .. i - 1}) = i - 1
    BY <2>1, <2>3, CountGrowing
  <2> QED BY <2>2, <2>4
<1>3. ASSUME NEW i \in 1 .. n
      PROVE  (CHOOSE x \in Q : Cardinality(below(x)) = i - 1) = e[i]
  <2>1. e[i] \in Q /\ \A x \in Q : \E j \in 1 .. n : x = e[j]
    OBVIOUS
  <2> HIDE DEF below
  <2>2. \A x \in Q : Cardinality(below(x)) = i - 1 => x = e[i]
    <3> SUFFICES ASSUME NEW j \in 1 .. n, Cardinality(below(e[j])) = i - 1 PROVE j = i
      BY <2>1
    <3>1. j - 1 = i - 1
      BY <1>2
    <3> QED BY <3>1
  <2>3. Cardinality(below(e[i])) = i - 1
    BY <1>2
  <2> QED BY <2>1, <2>2, <2>3
<1>4. Increasing(Q) = [i \in 1 .. n |-> CHOOSE x \in Q : Cardinality(below(x)) = i - 1]
  BY <1>1 DEF Increasing
<1>5. Increasing(Q) = [i \in 1 .. n |-> e[i]]
  <2> HIDE DEF below
  <2> QED BY <1>3, <1>4
<1> QED BY <1>5

-----------------------------------------------------------------------------
(* Sharing out and joining. *)

\* A share of a piece.
LEMMA ChunkIs ==
  ASSUME NEW S, NEW s, NEW V, NEW a \in Nat, NEW z \in Nat, NEW n \in Nat \ {0}, NEW k \in 0 .. n - 1,
         Piece(S, s, V, a, n * z)
  PROVE  Piece(S, Chunk(s, n, k), V, a + k * z, z)
<1>1. PICK m \in Nat : m = k * z
  OBVIOUS
<1>2. PICK w \in Nat : w = n * z
  OBVIOUS
<1>3. (k + 1) * z = m + z /\ m + z <= w
  <2>1. (k + 1) * z = m + z
    BY <1>1
  <2>2. (k + 1) * z <= n * z
    OBVIOUS
  <2> QED BY <1>2, <2>1, <2>2
<1>4. w \div n = z
  BY <1>2
<1>5. s \in Seq(S) /\ Len(s) = w /\ \A i \in 1 .. w : s[i] \in V[a + i]
  BY <1>2 DEF Piece
<1>6. Chunk(s, n, k) = SubSeq(s, m + 1, m + z)
  BY <1>1, <1>3, <1>4, <1>5 DEF Chunk
<1>7. \A i \in m + 1 .. m + z : s[i] \in S
  <2>1. \A i \in m + 1 .. m + z : i \in 1 .. w
    BY <1>3
  <2>2. \A i \in 1 .. w : s[i] \in S
    BY <1>5
  <2> QED BY <2>1, <2>2
<1>8. /\ SubSeq(s, m + 1, m + z) \in Seq(S)
      /\ Len(SubSeq(s, m + 1, m + z)) = z
      /\ \A i \in 1 .. z : SubSeq(s, m + 1, m + z)[i] = s[m + i]
  <2>1. /\ SubSeq(s, m + 1, m + z) \in Seq(S)
        /\ Len(SubSeq(s, m + 1, m + z)) = IF m + 1 <= m + z THEN (m + z) - (m + 1) + 1 ELSE 0
        /\ \A i \in 1 .. (m + z) - (m + 1) + 1 : SubSeq(s, m + 1, m + z)[i] = s[(m + 1) + i - 1]
    BY <1>7, SubSeqProperties
  <2>2. (m + z) - (m + 1) + 1 = z /\ (m + 1 <= m + z <=> z # 0)
    OBVIOUS
  <2>3. \A i \in 1 .. z : (m + 1) + i - 1 = m + i
    OBVIOUS
  <2> QED BY <2>1, <2>2, <2>3
<1>9. ASSUME NEW i \in 1 .. z PROVE SubSeq(s, m + 1, m + z)[i] \in V[(a + m) + i]
  <2>1. m + i \in 1 .. w /\ a + (m + i) = (a + m) + i
    BY <1>3
  <2>2. s[m + i] \in V[(a + m) + i]
    BY <1>5, <2>1
  <2> QED BY <1>8, <2>2
<1>10. Piece(S, SubSeq(s, m + 1, m + z), V, a + m, z)
  BY <1>8, <1>9 DEF Piece
<1> QED BY <1>1, <1>6, <1>10

\* Equal pieces that follow each other, from ranks that do.
LEMMA JoinedIs ==
  ASSUME NEW S, NEW V, NEW f, NEW a \in Nat, NEW z \in Nat, NEW n \in Nat,
         NEW e \in [1 .. n -> Nat], \A i, j \in 1 .. n : i < j => e[i] < e[j],
         NEW Q, Q = {e[i] : i \in 1 .. n},
         \A i \in 1 .. n : Piece(S, f[e[i]], V, a + (i - 1) * z, z)
  PROVE  Piece(S, Joined(f, Q), V, a, n * z)
<1>1. Increasing(Q) = e
  BY InOrderAlready
<1> DEFINE seqs == [i \in 1 .. n |-> f[e[i]]]
           off == [i \in 1 .. n + 1 |-> a + (i - 1) * z]
<1>2. Joined(f, Q) = FlattenSeq(seqs)
  BY <1>1 DEF Joined
<1>3. \A i \in 1 .. n + 1 : (i - 1) * z \in Nat
  <2>1. \A i \in 1 .. n + 1 : i - 1 \in Nat
    OBVIOUS
  <2>2. \A x \in Nat : x * z \in Nat
    OBVIOUS
  <2> QED BY <2>1, <2>2
<1>4. off \in [1 .. n + 1 -> Nat]
  <2> DEFINE g(i) == a + (i - 1) * z
  <2>1. ASSUME NEW i \in 1 .. n + 1 PROVE g(i) \in Nat
    <3>1. PICK y \in Nat : y = (i - 1) * z
      BY <1>3
    <3>2. a + y \in Nat
      OBVIOUS
    <3> QED BY <3>1, <3>2
  <2>2. off = [i \in 1 .. n + 1 |-> g(i)]
    OBVIOUS
  <2> HIDE DEF off, g
  <2> QED BY <2>1, <2>2
<1>5. ASSUME NEW i \in 1 .. n
      PROVE  off[i] <= off[i + 1] /\ off[i + 1] - off[i] = z /\ seqs[i] = f[e[i]] /\ off[i] = a + (i - 1) * z
  <2>1. i \in 1 .. n + 1 /\ i + 1 \in 1 .. n + 1
    OBVIOUS
  <2>2. off[i] = a + (i - 1) * z /\ off[i + 1] = a + ((i + 1) - 1) * z
    BY <2>1
  <2>3. ((i + 1) - 1) * z = (i - 1) * z + z /\ (i - 1) * z \in Nat
    OBVIOUS
  <2> QED BY <2>2, <2>3
<1>6. off[1] = a /\ off[n + 1] = a + n * z
  <2>1. 1 \in 1 .. n + 1 /\ n + 1 \in 1 .. n + 1 /\ (1 - 1) * z = 0 /\ (n + 1) - 1 = n
    OBVIOUS
  <2> QED BY <2>1
<1>7. DOMAIN seqs = 1 .. n /\ seqs = [i \in 1 .. n |-> seqs[i]]
  OBVIOUS
<1> HIDE DEF seqs, off
<1>8. \A i \in 1 .. n : off[i] <= off[i + 1] /\ Piece(S, seqs[i], V, off[i], off[i + 1] - off[i])
  BY <1>5
<1>9. Piece(S, FlattenSeq(seqs), V, off[1], off[n + 1] - off[1])
  BY <1>4, <1>7, <1>8, JoinPieces
<1>10. off[n + 1] - off[1] = n * z
  BY <1>6
<1> QED BY <1>2, <1>6, <1>9, <1>10

\* What is in a piece.
LEMMA PieceIs ==
  ASSUME NEW S, NEW s, NEW V, NEW a \in Nat, NEW z \in Nat, Piece(S, s, V, a, z)
  PROVE  /\ s \in Seq(S) /\ Len(s) = z /\ DOMAIN s = 1 .. z
         /\ \A i \in 1 .. z : s[i] \in S /\ s[i] \in V[a + i]
<1>1. s \in Seq(S) /\ Len(s) = z /\ \A i \in 1 .. z : s[i] \in V[a + i]
  BY DEF Piece
<1>2. DOMAIN s = 1 .. z /\ s \in [1 .. z -> S]
  BY <1>1, LenProperties
<1> QED BY <1>1, <1>2

-----------------------------------------------------------------------------
(* Micro-batches. *)

\* idx has each of the numbers to n, in some order.
Permutes(idx, n) ==
  /\ idx \in Seq(1 .. n) /\ Len(idx) = n
  /\ \A i \in 1 .. n : \E j \in 1 .. n : idx[j] = i

\* The rows of the first i of the sequences.
RowsTo(seqs, i) == UNION {Range(seqs[j]) : j \in 1 .. i}

\* Sequences that have every number once are joined to one that has.
LEMMA FlattenPermutes ==
  ASSUME NEW k \in Nat \ {0}, NEW n \in Nat, NEW seqs \in [1 .. k -> Seq(1 .. n)],
         \A i \in 1 .. k : IsInjective(seqs[i]),
         \A i, j \in 1 .. k : i # j => Range(seqs[i]) \cap Range(seqs[j]) = {},
         \A x \in 1 .. n : \E i \in 1 .. k : x \in Range(seqs[i])
  PROVE  Permutes(FlattenSeq(seqs), n)
<1>1. PICK h \in [1 .. k -> Seq(1 .. n)] : Loops(h, seqs, k) /\ FlattenSeq(seqs) = h[k]
  BY FlattenLoops
<1> DEFINE Q == {i \in 1 .. k : IsInjective(h[i]) /\ Range(h[i]) = RowsTo(seqs, i)}
<1>2. ASSUME NEW i \in 1 .. k, i = 1 \/ i - 1 \in Q PROVE i \in Q
  <2>1. h[i] = IF i = 1 THEN seqs[i] ELSE h[i - 1] \o seqs[i]
    BY <1>1 DEF Loops
  <2>2. CASE i = 1
    <3>1. RowsTo(seqs, 1) = Range(seqs[1])
      BY DEF RowsTo
    <3> QED BY <2>1, <2>2, <3>1
  <2>3. CASE i # 1
    <3>1. i - 1 \in 1 .. k /\ IsInjective(h[i - 1]) /\ Range(h[i - 1]) = RowsTo(seqs, i - 1)
      BY <1>2, <2>3
    <3>2. h[i - 1] \in Seq(Nat) /\ seqs[i] \in Seq(Nat)
      <4>1. h[i - 1] \in Seq(1 .. n) /\ seqs[i] \in Seq(1 .. n) /\ 1 .. n \in SUBSET Nat
        BY <3>1
      <4> QED BY <4>1
    <3>3. Range(h[i - 1]) \cap Range(seqs[i]) = {}
      <4>1. \A j \in 1 .. i - 1 : j \in 1 .. k /\ j # i
        OBVIOUS
      <4>2. \A j \in 1 .. i - 1 : Range(seqs[j]) \cap Range(seqs[i]) = {}
        BY <4>1
      <4> QED BY <3>1, <4>2 DEF RowsTo
    <3>4. IsInjective(h[i])
      BY <2>1, <2>3, <3>1, <3>2, <3>3, ConcatInjective
    <3>5. Range(h[i]) = Range(h[i - 1]) \cup Range(seqs[i])
      BY <2>1, <2>3, <3>2, ConcatRange
    <3>6. RowsTo(seqs, i) = RowsTo(seqs, i - 1) \cup Range(seqs[i])
      <4>1. \A j \in 1 .. i : j \in 1 .. i - 1 \/ j = i
        OBVIOUS
      <4>2. i \in 1 .. i /\ \A j \in 1 .. i - 1 : j \in 1 .. i
        OBVIOUS
      <4> QED BY <4>1, <4>2 DEF RowsTo
    <3> QED BY <3>1, <3>4, <3>5, <3>6
  <2> QED BY <2>2, <2>3
<1>3. k \in Q
  <2>1. k \in 1 .. k
    OBVIOUS
  <2> HIDE DEF Q
  <2> QED BY <1>2, <2>1, OneByOne
<1>4. PICK idx \in Seq(1 .. n) : idx = h[k]
  OBVIOUS
<1>5. PICK N \in Nat : N = Len(idx)
  OBVIOUS
<1>6. DOMAIN idx = 1 .. N /\ idx \in [1 .. N -> 1 .. n]
  BY <1>5, LenProperties
<1>7. \A i, j \in 1 .. N : idx[i] = idx[j] => i = j
  BY <1>3, <1>4, <1>6 DEF IsInjective
<1>8. ASSUME NEW x \in 1 .. n PROVE \E j \in 1 .. N : idx[j] = x
  <2>1. PICK i \in 1 .. k : x \in Range(seqs[i])
    OBVIOUS
  <2>2. x \in RowsTo(seqs, k)
    BY <2>1 DEF RowsTo
  <2>3. x \in Range(idx)
    BY <1>3, <1>4, <2>2
  <2> QED BY <1>6, <2>3 DEF Range
<1>9. idx \in Bijection(1 .. N, 1 .. n)
  BY <1>6, <1>7, <1>8 DEF Bijection, Injection, Surjection, IsInjective
<1>10. N = n
  <2>1. IsFiniteSet(1 .. N) /\ Cardinality(1 .. N) = N /\ Cardinality(1 .. n) = n
    BY FS_Interval
  <2> QED BY <1>9, <2>1, FS_Bijection DEF ExistsBijection
<1> QED BY <1>1, <1>4, <1>5, <1>8, <1>10 DEF Permutes

\* What karmarkar_karp ends with is a permutation of the rows.
LEMMA PartitionsPermute ==
  ASSUME NEW k \in Nat \ {0}, NEW n \in Nat, NEW s, HeapTypeOK({s}, k), EachRowOnce({s}, 1 .. n)
  PROVE  Permutes(FlattenSeq(Partitions(s)), n)
<1>1. StateOK(s, k) /\ DOMAIN s = 1 .. k
  BY HeapOfStates DEF StateOK
<1> DEFINE R(j) == Range(s[j].items)
           seqs == Partitions(s)
<1>2. /\ \A j \in 1 .. k : R(j) \subseteq 1 .. n
      /\ \A x \in 1 .. n : \E j \in 1 .. k : x \in R(j)
      /\ \A i, j \in 1 .. k : i # j => R(i) \cap R(j) = {}
  BY <1>1 DEF EachRowOnce
<1>3. seqs = [j \in 1 .. k |-> Increasing(R(j))]
  BY <1>1 DEF Partitions
<1> HIDE DEF R, seqs
<1>4. ASSUME NEW j \in 1 .. k
      PROVE  seqs[j] \in Seq(1 .. n) /\ IsInjective(seqs[j]) /\ Range(seqs[j]) = R(j)
  <2>1. R(j) \in SUBSET Nat /\ IsFiniteSet(R(j))
    <3>1. IsFiniteSet(1 .. n) /\ R(j) \in SUBSET (1 .. n)
      BY <1>2, FS_Interval
    <3> QED BY <3>1, FS_Subset
  <2>2. seqs[j] \in Seq(R(j)) /\ IsInjective(seqs[j]) /\ Range(seqs[j]) = R(j)
    BY <1>3, <2>1, IncreasingIs
  <2>3. R(j) \subseteq 1 .. n
    BY <1>2
  <2>4. seqs[j] \in Seq(1 .. n)
    BY <2>2, <2>3, SeqMonotonic
  <2> QED BY <2>2, <2>4
<1>5. seqs \in [1 .. k -> Seq(1 .. n)]
  BY <1>3, <1>4
<1>6. Permutes(FlattenSeq(seqs), n)
  <2>1. \A i \in 1 .. k : IsInjective(seqs[i])
    BY <1>4
  <2>2. \A i, j \in 1 .. k : i # j => Range(seqs[i]) \cap Range(seqs[j]) = {}
    BY <1>2, <1>4
  <2>3. \A x \in 1 .. n : \E i \in 1 .. k : x \in Range(seqs[i])
    BY <1>2, <1>4
  <2> QED BY <1>5, <2>1, <2>2, <2>3, FlattenPermutes
<1> QED BY <1>6 DEF seqs

\* Micro-batches of m rows each, and a last one with those that are left.
Fixed(n, m) ==
  [b \in 1 .. (n + m - 1) \div m |-> [i \in 1 .. Min({m, n - (b - 1) * m}) |-> (b - 1) * m + i]]
LEMMA FixedAreInOrder ==
  ASSUME NEW n \in Nat, NEW m \in Nat \ {0}, NEW micros, micros = Fixed(n, m)
  PROVE  Permutes(FlattenSeq(micros), n) /\ \A i \in 1 .. n : FlattenSeq(micros)[i] = i
<1>1. PICK k \in Nat : k = (n + m - 1) \div m
  OBVIOUS
<1>2. n <= k * m /\ (k # 0 => (k - 1) * m < n)
  <2>1. PICK w \in Nat : w = k * m
    OBVIOUS
  <2>2. w <= n + m - 1 /\ n + m - 1 < w + m
    <3>1. n + m - 1 \in Nat
      OBVIOUS
    <3>2. PICK x \in Nat : x = n + m - 1
      BY <3>1
    <3>3. x \div m = k
      BY <1>1, <3>2
    <3>4. k * m <= x /\ x < k * m + m
      BY <3>3
    <3> QED BY <2>1, <3>2, <3>4
  <2>3. (k - 1) * m = w - m
    BY <2>1
  <2> QED BY <2>1, <2>2, <2>3
<1> DEFINE off == [b \in 1 .. k + 1 |-> IF b = k + 1 THEN n ELSE (b - 1) * m]
           V == [x \in Nat |-> {x}]
<1>3. ASSUME NEW b \in 1 .. k
      PROVE  /\ (b - 1) * m \in Nat /\ (b - 1) * m < n
             /\ off[b + 1] = IF b = k THEN n ELSE (b - 1) * m + m
             /\ off[b] = (b - 1) * m
             /\ b # k => (b - 1) * m + m <= n
             /\ b = k => n <= (b - 1) * m + m
  <2>1. PICK x \in Nat : x = (b - 1) * m
    <3>1. b - 1 \in Nat
      OBVIOUS
    <3> QED BY <3>1
  <2>2. ((b + 1) - 1) * m = x + m /\ b * m = x + m
    BY <2>1
  <2>3. x < n /\ (b # k => x + m <= n)
    <3>1. CASE b = k
      BY <1>2, <2>1, <3>1
    <3>2. CASE b # k
      <4>1. b <= k - 1 /\ k - 1 \in Nat
        BY <3>2
      <4>2. b * m <= (k - 1) * m
        BY <4>1
      <4>3. (k - 1) * m < n /\ (k - 1) * m \in Nat
        BY <1>2, <4>1
      <4>4. x + m < n
        BY <2>1, <2>2, <4>2, <4>3
      <4> QED BY <4>4
    <3> QED BY <3>1, <3>2
  <2>4. b = k => n <= x + m
    BY <1>2, <2>2
  <2>5. b \in 1 .. k + 1 /\ b + 1 \in 1 .. k + 1 /\ b # k + 1
    OBVIOUS
  <2>6. off[b] = x /\ off[b + 1] = IF b = k THEN n ELSE x + m
    BY <2>1, <2>2, <2>5
  <2> QED BY <2>1, <2>3, <2>4, <2>6
<1>4. off[1] = 0 /\ off[k + 1] = n
  <2>1. 1 \in 1 .. k + 1 /\ k + 1 \in 1 .. k + 1 /\ (1 - 1) * m = 0
    OBVIOUS
  <2>2. k = 0 => n = 0
    BY <1>2
  <2> QED BY <2>1, <2>2
<1>5. off \in [1 .. k + 1 -> Nat]
  <2>1. \A b \in 1 .. k + 1 : off[b] \in Nat
    <3>1. \A b \in 1 .. k + 1 : b \in 1 .. k \/ b = k + 1
      OBVIOUS
    <3> HIDE DEF off
    <3> QED BY <1>3, <1>4, <3>1
  <2>2. off = [b \in 1 .. k + 1 |-> off[b]]
    OBVIOUS
  <2> HIDE DEF off
  <2> QED BY <2>1, <2>2
<1>0. micros = [b \in 1 .. (n + m - 1) \div m |->
                 [i \in 1 .. Min({m, n - (b - 1) * m}) |-> (b - 1) * m + i]]
  BY DEF Fixed
<1>6. DOMAIN micros = 1 .. k /\ micros = [b \in 1 .. k |-> micros[b]]
  BY <1>0, <1>1
<1> HIDE DEF off
<1>7. ASSUME NEW b \in 1 .. k
      PROVE  off[b] <= off[b + 1] /\ Piece(1 .. n, micros[b], V, off[b], off[b + 1] - off[b])
  <2>1. PICK x \in Nat : x = (b - 1) * m
    BY <1>3
  <2>2. PICK z \in Nat : z = off[b + 1] - off[b]
    BY <1>3, <2>1
  <2>3. /\ off[b] = x /\ off[b + 1] = x + z /\ x + z <= n
        /\ z = IF b = k THEN n - x ELSE m
        /\ z <= m /\ z <= n - x
    <3>1. off[b] = x /\ off[b + 1] = IF b = k THEN n ELSE x + m
      BY <1>3, <2>1
    <3>2. x < n /\ (b # k => x + m <= n) /\ (b = k => n <= x + m)
      BY <1>3, <2>1
    <3>3. CASE b = k
      BY <2>2, <3>1, <3>2, <3>3
    <3>4. CASE b # k
      BY <2>2, <3>1, <3>2, <3>4
    <3> QED BY <3>3, <3>4
  <2>4. Min({m, n - x}) = z
    <3>1. Min({m, n - x}) = CHOOSE y \in {m, n - x} : \A w \in {m, n - x} : y <= w
      BY DEF Min
    <3>2. z \in {m, n - x} /\ \A w \in {m, n - x} : z <= w
      BY <2>3
    <3>3. \A y \in {m, n - x} : (\A w \in {m, n - x} : y <= w) => y = z
      BY <3>2
    <3> QED BY <3>1, <3>2, <3>3
  <2>5. micros[b] = [i \in 1 .. z |-> x + i]
    BY <1>0, <1>1, <2>1, <2>4
  <2>6. \A i \in 1 .. z : x + i \in 1 .. n /\ x + i \in V[x + i]
    BY <2>3
  <2>7. Piece(1 .. n, micros[b], V, x, z)
    <3>1. micros[b] \in Seq(1 .. n) /\ Len(micros[b]) = z
      <4> DEFINE T == 1 .. n
      <4>1. \A i \in 1 .. z : x + i \in T
        BY <2>6
      <4> HIDE DEF T
      <4>2. [i \in 1 .. z |-> x + i] \in Seq(T)
        BY <4>1
      <4>3. Len([i \in 1 .. z |-> x + i]) = z
        OBVIOUS
      <4> QED BY <2>5, <4>2, <4>3 DEF T
    <3>2. \A i \in 1 .. z : micros[b][i] = x + i
      BY <2>5
    <3>3. \A i \in 1 .. z : micros[b][i] \in V[x + i]
      <4> HIDE DEF V
      <4> QED BY <2>6, <3>2
    <3> HIDE DEF V
    <3> QED BY <3>1, <3>3 DEF Piece
  <2> QED BY <2>2, <2>3, <2>7
<1>8. Piece(1 .. n, FlattenSeq(micros), V, 0, n)
  <2>1. Piece(1 .. n, FlattenSeq(micros), V, off[1], off[k + 1] - off[1])
    <3> HIDE DEF V
    <3> QED BY <1>5, <1>6, <1>7, JoinPieces
  <2>2. off[k + 1] - off[1] = n
    BY <1>4
  <2> QED BY <1>4, <2>1, <2>2
<1>9. PICK idx \in Seq(1 .. n) : idx = FlattenSeq(micros) /\ Len(idx) = n /\ \A i \in 1 .. n : idx[i] \in V[0 + i]
  BY <1>8 DEF Piece
<1>10. ASSUME NEW i \in 1 .. n PROVE idx[i] = i
  <2>1. 0 + i = i /\ i \in Nat
    OBVIOUS
  <2>2. V[i] = {i}
    BY <2>1
  <2>3. idx[i] \in V[i]
    <3> HIDE DEF V
    <3> QED BY <1>9, <2>1
  <2> QED BY <2>2, <2>3
<1>11. Permutes(idx, n)
  BY <1>9, <1>10 DEF Permutes
<1> QED BY <1>9, <1>10, <1>11

\* What may be a result at the places of V: of the row there, and with its mask.
Results(S) == [row : S, mask : S]
Rightly(S, V, clean) ==
  [x \in Nat |-> {v \in Results(S) : v.row \in V[x] /\ (clean => v.mask \in V[x])}]

\* The results of a rank are those of its rows, in their order.
LEMMA RevertIs ==
  ASSUME NEW S, NEW V, NEW a \in Nat, NEW n \in Nat, NEW ro, Piece(S, ro, V, a, n),
         NEW idx, Permutes(idx, n), NEW masks \in BOOLEAN, NEW dynamic \in BOOLEAN,
         ~dynamic => \A i \in 1 .. n : idx[i] = i,
         NEW values, values = [i \in DOMAIN idx |->
                                 [row |-> ro[idx[i]], mask |-> ro[IF masks THEN i ELSE idx[i]]]]
  PROVE  Piece(Results(S), IF dynamic THEN Restored(values, idx) ELSE values,
               Rightly(S, V, ~(masks /\ dynamic)), a, n)
<1>1. /\ ro \in Seq(S) /\ Len(ro) = n /\ (\A i \in 1 .. n : ro[i] \in S /\ ro[i] \in V[a + i])
      /\ idx \in Seq(1 .. n) /\ DOMAIN idx = 1 .. n /\ (\A i \in 1 .. n : idx[i] \in 1 .. n)
      /\ \A i \in 1 .. n : \E j \in 1 .. n : idx[j] = i
  <2>1. ro \in Seq(S) /\ Len(ro) = n /\ (\A i \in 1 .. n : ro[i] \in S /\ ro[i] \in V[a + i])
    BY PieceIs
  <2>2. idx \in Seq(1 .. n) /\ Len(idx) = n /\ \A i \in 1 .. n : \E j \in 1 .. n : idx[j] = i
    BY DEF Permutes
  <2>3. DOMAIN idx = 1 .. n /\ idx \in [1 .. n -> 1 .. n]
    <3> DEFINE T == 1 .. n
    <3>1. idx \in Seq(T) /\ Len(idx) = n
      BY <2>2
    <3> HIDE DEF T
    <3>2. DOMAIN idx = 1 .. n /\ idx \in [1 .. n -> T]
      BY <3>1, LenProperties
    <3> QED BY <3>2 DEF T
  <2> QED BY <2>1, <2>2, <2>3
<1>2. ASSUME NEW i \in 1 .. n
      PROVE  /\ values[i] \in Results(S)
             /\ values[i].row = ro[idx[i]]
             /\ values[i].mask = ro[IF masks THEN i ELSE idx[i]]
  <2>1. ro[idx[i]] \in S /\ ro[IF masks THEN i ELSE idx[i]] \in S
    BY <1>1
  <2>2. values[i] = [row |-> ro[idx[i]], mask |-> ro[IF masks THEN i ELSE idx[i]]]
    BY <1>1
  <2> QED BY <2>1, <2>2 DEF Results
<1>3. ASSUME NEW x \in Nat, NEW v \in Results(S), v.row \in V[x], ~(masks /\ dynamic) => v.mask \in V[x]
      PROVE  v \in Rightly(S, V, ~(masks /\ dynamic))[x]
  BY <1>3 DEF Rightly
<1>4. CASE dynamic
  <2> DEFINE back == ReverseIdx(idx)
             res == Restored(values, idx)
  <2>1. ASSUME NEW i \in 1 .. n PROVE back[i] \in 1 .. n /\ idx[back[i]] = i
    BY <1>1 DEF ReverseIdx
  <2>2. res = [i \in 1 .. n |-> values[back[i]]]
    BY <1>1 DEF Restored
  <2> HIDE DEF back, res
  <2>3. ASSUME NEW i \in 1 .. n
        PROVE  res[i] \in Results(S) /\ res[i] \in Rightly(S, V, ~(masks /\ dynamic))[a + i]
    <3>1. PICK j \in 1 .. n : j = back[i] /\ idx[j] = i
      BY <2>1
    <3>2. res[i] = values[j] /\ values[j] \in Results(S) /\ values[j].row = ro[i]
          /\ values[j].mask = ro[IF masks THEN j ELSE i]
      BY <1>2, <2>2, <3>1
    <3>3. ro[i] \in V[a + i] /\ a + i \in Nat
      BY <1>1
    <3>4. ~(masks /\ dynamic) => values[j].mask \in V[a + i]
      BY <1>4, <3>2, <3>3
    <3> QED BY <1>3, <3>2, <3>3, <3>4
  <2>4. res \in Seq(Results(S)) /\ Len(res) = n
    BY <2>2, <2>3
  <2>5. Piece(Results(S), res, Rightly(S, V, ~(masks /\ dynamic)), a, n)
    BY <2>3, <2>4 DEF Piece
  <2> QED BY <1>4, <2>5 DEF res
<1>5. CASE ~dynamic
  <2>1. ASSUME NEW i \in 1 .. n
        PROVE  values[i] \in Rightly(S, V, ~(masks /\ dynamic))[a + i]
    <3>1. values[i].row = ro[i] /\ values[i].mask = ro[i]
      BY <1>2, <1>5
    <3>2. a + i \in Nat
      OBVIOUS
    <3>3. ro[i] \in V[a + i]
      BY <1>1
    <3> QED BY <1>2, <1>3, <3>1, <3>2, <3>3
  <2>2. values \in Seq(Results(S)) /\ Len(values) = n
    <3>1. values = [i \in 1 .. n |-> values[i]]
      BY <1>1
    <3> QED BY <1>2, <3>1
  <2>3. Piece(Results(S), values, Rightly(S, V, ~(masks /\ dynamic)), a, n)
    BY <2>1, <2>2 DEF Piece
  <2> QED BY <1>5, <2>3
<1> QED BY <1>4, <1>5

-----------------------------------------------------------------------------
(* Ranks. *)

\* Multiplying by a number keeps an order.
LEMMA TimesMono ==
  ASSUME NEW a \in Nat, NEW b \in Nat, NEW d \in Nat, a <= b
  PROVE  a * d \in Nat /\ b * d \in Nat /\ a * d <= b * d
OBVIOUS

\* A quotient, rounded down.
LEMMA Quotient ==
  ASSUME NEW a \in Nat, NEW d \in Nat \ {0}
  PROVE  a \div d \in Nat /\ (a \div d) * d <= a /\ a < (a \div d) * d + d
OBVIOUS

\* A product that is smaller has a smaller factor.
LEMMA TimesLess ==
  ASSUME NEW a \in Nat, NEW b \in Nat, NEW d \in Nat, a * d < b * d
  PROVE  a < b
<1> SUFFICES ASSUME b <= a PROVE FALSE
  OBVIOUS
<1> QED BY TimesMono

\* One more of something.
LEMMA TimesNext ==
  ASSUME NEW a \in Nat, NEW d \in Nat
  PROVE  (a + 1) * d = a * d + d
OBVIOUS

\* A number below d times another, and a remainder: both can be read off the sum.
LEMMA Digits ==
  ASSUME NEW d \in Nat \ {0}, NEW a \in Nat, NEW b \in Nat, NEW q \in 0 .. d - 1, NEW r \in 0 .. d - 1,
         a * d + q = b * d + r
  PROVE  a = b /\ q = r
<1>1. ~(a < b)
  <2> SUFFICES ASSUME a < b PROVE FALSE
    OBVIOUS
  <2>1. PICK x \in Nat, y \in Nat : x = a * d /\ y = b * d
    BY TimesMono
  <2>2. x + d <= y
    BY <2>1, TimesNext, TimesMono, a + 1 <= b
  <2> QED BY <2>1, <2>2
<1>2. ~(b < a)
  <2> SUFFICES ASSUME b < a PROVE FALSE
    OBVIOUS
  <2>1. PICK x \in Nat, y \in Nat : x = a * d /\ y = b * d
    BY TimesMono
  <2>2. y + d <= x
    BY <2>1, TimesNext, TimesMono, b + 1 <= a
  <2> QED BY <2>1, <2>2
<1>3. a = b
  BY <1>1, <1>2
<1>4. PICK x \in Nat : x = a * d
  BY TimesMono
<1> QED BY <1>3, <1>4

\* Quotient and remainder are what they were made of.
LEMMA DivMod ==
  ASSUME NEW d \in Nat \ {0}, NEW a \in Nat, NEW x \in 0 .. d - 1, NEW n, n = a * d + x
  PROVE  n \in Nat /\ n \div d = a /\ n % d = x
<1>1. n \in Nat
  BY TimesMono
<1>2. PICK q \in Nat : q = n \div d
  BY <1>1
<1>3. PICK y \in 0 .. d - 1 : y = n % d
  BY <1>1
<1>4. n = q * d + y
  BY <1>1, <1>2, <1>3, Z3
<1>5. q = a /\ y = x
  <2>1. a * d + x = q * d + y
    BY <1>4
  <2> QED BY <2>1, Digits
<1> QED BY <1>1, <1>2, <1>3, <1>5

\* A number is its quotient and its remainder.
LEMMA Division ==
  ASSUME NEW d \in Nat \ {0}, NEW n \in Nat
  PROVE  n \div d \in Nat /\ n % d \in 0 .. d - 1 /\ n = (n \div d) * d + (n % d)
<1>1. PICK q \in Nat : q = n \div d
  OBVIOUS
<1>2. PICK y \in 0 .. d - 1 : y = n % d
  OBVIOUS
<1>3. n = q * d + y
  BY <1>1, <1>2, Z3
<1> QED BY <1>1, <1>2, <1>3

\* Products.
LEMMA Products ==
  ASSUME NEW a \in Nat, NEW b \in Nat, NEW c \in Nat
  PROVE  /\ a * b \in Nat /\ a * b = b * a /\ (a * b) * c = a * (b * c) /\ a * b * c = (a * b) * c
         /\ (a + b) * c = a * c + b * c
         /\ a # 0 /\ b # 0 => a * b # 0
OBVIOUS

\* Two digits are below the product of their bases.
LEMMA TwoDigits ==
  ASSUME NEW d \in Nat \ {0}, NEW m \in Nat \ {0}, NEW a \in 0 .. m - 1, NEW x \in 0 .. d - 1
  PROVE  a * d + x \in 0 .. m * d - 1
<1>1. PICK u \in Nat : u = a * d
  BY Products
<1>2. PICK w \in Nat : w = m * d
  BY Products
<1>3. u + d <= w
  <2>1. a + 1 \in Nat /\ a + 1 <= m /\ (a + 1) * d = u + d
    BY <1>1, TimesNext
  <2>2. (a + 1) * d <= m * d
    BY <2>1, TimesMono
  <2> QED BY <1>2, <2>1, <2>2
<1> QED BY <1>1, <1>2, <1>3

\* A quotient of what is below a product.
LEMMA HighDigit ==
  ASSUME NEW d \in Nat \ {0}, NEW m \in Nat \ {0}, NEW n \in 0 .. m * d - 1
  PROVE  n \div d \in 0 .. m - 1
<1>1. n \in Nat
  OBVIOUS
<1>2. PICK q \in Nat : q = n \div d
  BY <1>1
<1>3. q * d <= n
  BY <1>1, <1>2, Quotient
<1>4. PICK u \in Nat, w \in Nat : u = q * d /\ w = m * d
  BY Products
<1>5. q * d < m * d
  BY <1>3, <1>4
<1>6. q < m
  BY <1>5, TimesLess
<1> QED BY <1>2, <1>6

\* World ranks in T tp ranks, D dp ranks and P stages, and the numbers of one.
Shape(W, T, P, D) == T \in Nat \ {0} /\ P \in Nat \ {0} /\ D \in Nat \ {0} /\ W = T * P * D
IsAt(W, T, D, r, t, d, p) ==
  r \in 0 .. W - 1 /\ r % T = t /\ (r \div T) % D = d /\ r \div (T * D) = p

\* The three numbers of a rank.
LEMMA RankIs ==
  ASSUME NEW W, NEW T, NEW P, NEW D, Shape(W, T, P, D), NEW r \in 0 .. W - 1
  PROVE  \E t \in 0 .. T - 1, d \in 0 .. D - 1, p \in 0 .. P - 1 :
           IsAt(W, T, D, r, t, d, p) /\ r = (p * D + d) * T + t
<1>0. T \in Nat \ {0} /\ P \in Nat \ {0} /\ D \in Nat \ {0} /\ W = T * P * D
  BY DEF Shape
<1>1. r \in Nat
  <2>1. W \in Nat
    BY <1>0, Products
  <2> QED BY <2>1
<1>2. PICK q \in Nat, t \in 0 .. T - 1 : q = r \div T /\ t = r % T /\ r = q * T + t
  BY <1>0, <1>1, Division
<1>3. PICK p \in Nat, d \in 0 .. D - 1 : p = q \div D /\ d = q % D /\ q = p * D + d
  BY <1>0, Division
<1>4. PICK B \in Nat \ {0} : B = T * D
  BY <1>0, Products
<1>5. PICK x \in 0 .. B - 1 : x = d * T + t
  <2>1. d * T + t \in 0 .. D * T - 1
    BY <1>0, TwoDigits
  <2>2. D * T = B
    BY <1>0, <1>4, Products
  <2> QED BY <2>1, <2>2
<1>6. r = p * B + x
  <2>1. (p * D + d) * T = (p * D) * T + d * T
    BY <1>0, Products
  <2>2. (p * D) * T = p * B
    BY <1>0, <1>4, Products
  <2>3. PICK u \in Nat, v \in Nat : u = p * B /\ v = d * T
    BY <1>0, Products
  <2>4. r = (p * D + d) * T + t
    BY <1>2, <1>3
  <2>5. r = (u + v) + t /\ x = v + t
    BY <1>5, <2>1, <2>2, <2>3, <2>4
  <2> QED BY <2>3, <2>5
<1>7. r \div B = p
  BY <1>6, DivMod
<1>8. r \in 0 .. P * B - 1
  <2>1. T * P * D = P * B
    <3>1. T * P * D = (T * P) * D /\ T * P = P * T /\ (P * T) * D = P * (T * D)
      BY <1>0, Products
    <3> QED BY <1>0, <1>4, <3>1
  <2> QED BY <1>0, <2>1
<1>9. p \in 0 .. P - 1
  BY <1>0, <1>7, <1>8, HighDigit
<1>10. r = (p * D + d) * T + t
  BY <1>2, <1>3
<1>11. IsAt(W, T, D, r, t, d, p)
  BY <1>2, <1>3, <1>4, <1>7 DEF IsAt
<1> QED BY <1>9, <1>10, <1>11

\* The rank of three numbers.
LEMMA RankOf ==
  ASSUME NEW W, NEW T, NEW P, NEW D, Shape(W, T, P, D),
         NEW t \in 0 .. T - 1, NEW d \in 0 .. D - 1, NEW p \in 0 .. P - 1
  PROVE  IsAt(W, T, D, (p * D + d) * T + t, t, d, p)
<1>0. T \in Nat \ {0} /\ P \in Nat \ {0} /\ D \in Nat \ {0} /\ W = T * P * D
  BY DEF Shape
<1> DEFINE r == (p * D + d) * T + t
<1>00. p \in Nat
  BY <1>0
<1>1. PICK B \in Nat \ {0} : B = T * D
  BY <1>0, Products
<1>2. PICK q \in Nat : q = p * D + d
  BY <1>0, Products
<1>3. r \in Nat /\ r \div T = q /\ r % T = t
  <2>1. r = q * T + t
    BY <1>2
  <2> HIDE DEF r
  <2> QED BY <1>0, <2>1, DivMod
<1> HIDE DEF r
<1>4. q % D = d
  BY <1>0, <1>00, <1>2, DivMod
<1>5. PICK x \in 0 .. B - 1 : x = d * T + t
  <2>1. d * T + t \in 0 .. D * T - 1
    BY <1>0, TwoDigits
  <2>2. D * T = B
    BY <1>0, <1>1, Products
  <2> QED BY <2>1, <2>2
<1>6. r = p * B + x
  <2>1. (p * D + d) * T = (p * D) * T + d * T
    BY <1>0, Products
  <2>2. (p * D) * T = p * B
    BY <1>0, <1>1, Products
  <2>3. PICK u \in Nat, v \in Nat : u = p * B /\ v = d * T
    BY <1>0, Products
  <2>4. r = (p * D + d) * T + t
    BY DEF r
  <2>5. r = (u + v) + t /\ x = v + t
    BY <1>5, <2>1, <2>2, <2>3, <2>4
  <2> QED BY <2>3, <2>5
<1>7. r \div B = p
  BY <1>00, <1>6, DivMod
<1>8. r \in 0 .. P * B - 1
  BY <1>0, <1>6, TwoDigits
<1>9. T * P * D = P * B
  <2>1. T * P * D = (T * P) * D /\ T * P = P * T /\ (P * T) * D = P * (T * D)
    BY <1>0, Products
  <2> QED BY <1>0, <1>1, <2>1
<1>10. IsAt(W, T, D, r, t, d, p)
  BY <1>0, <1>1, <1>3, <1>4, <1>7, <1>8, <1>9 DEF IsAt
<1> QED BY <1>10 DEF r

\* The first of the g ranks that follow each other and have r, and: they are the g
\* ranks from b on.
FirstOf(r, g) == (r \div g) * g
IsGroup(W, g, r, b) ==
  /\ {q \in 0 .. W - 1 : q \div g = r \div g} = {b + i - 1 : i \in 1 .. g}
  /\ \A i \in 1 .. g : b + i - 1 \in 0 .. W - 1 /\ (b + i - 1) % g = i - 1

\* The i-th of a group of g ranks that follow each other ...
LEMMA GroupIs ==
  ASSUME NEW W \in Nat \ {0}, NEW g \in Nat \ {0}, W % g = 0, NEW r \in 0 .. W - 1,
         NEW b, b = FirstOf(r, g)
  PROVE  b \in Nat /\ IsGroup(W, g, r, b)
<1>1. PICK m \in Nat : m = W \div g /\ W = m * g
  <2>1. W \div g \in Nat /\ W = (W \div g) * g + (W % g)
    BY Division
  <2>2. PICK m \in Nat : m = W \div g
    BY <2>1
  <2>3. m * g \in Nat /\ W = m * g + 0
    BY <2>1, <2>2, Products
  <2> QED BY <2>2, <2>3
<1>2. m # 0
  <2> SUFFICES ASSUME m = 0 PROVE FALSE
    OBVIOUS
  <2>1. m * g = 0
    OBVIOUS
  <2> QED BY <1>1, <2>1
<1>3. PICK k \in 0 .. m - 1 : k = r \div g
  BY <1>1, <1>2, HighDigit
<1>4. b = k * g /\ b \in Nat
  BY <1>3, Products DEF FirstOf
<1>5. ASSUME NEW i \in 1 .. g
      PROVE  b + i - 1 \in 0 .. W - 1 /\ (b + i - 1) \div g = k /\ (b + i - 1) % g = i - 1
  <2>1. PICK x \in 0 .. g - 1 : x = i - 1
    OBVIOUS
  <2>2. b + i - 1 = b + x
    BY <1>4, <2>1
  <2>3. b + x \in 0 .. W - 1
    BY <1>1, <1>2, <1>4, TwoDigits
  <2>4. (b + x) \div g = k /\ (b + x) % g = x
    BY <1>4, DivMod
  <2> QED BY <2>1, <2>2, <2>3, <2>4
<1>6. ASSUME NEW q \in 0 .. W - 1, q \div g = k
      PROVE  \E i \in 1 .. g : q = b + i - 1
  <2>1. PICK x \in 0 .. g - 1 : q = b + x
    <3>1. q = (q \div g) * g + (q % g) /\ q % g \in 0 .. g - 1
      BY Division
    <3> QED BY <1>4, <1>6, <3>1
  <2>2. x + 1 \in 1 .. g /\ q = b + (x + 1) - 1
    BY <1>4, <2>1
  <2> QED BY <2>2
<1>7. {q \in 0 .. W - 1 : q \div g = r \div g} = {b + i - 1 : i \in 1 .. g}
  <2>1. \A q \in 0 .. W - 1 : q \div g = r \div g <=> \E i \in 1 .. g : q = b + i - 1
    BY <1>3, <1>5, <1>6
  <2>2. \A i \in 1 .. g : b + i - 1 \in 0 .. W - 1
    BY <1>5
  <2>3. \A q \in {q \in 0 .. W - 1 : q \div g = r \div g} : q \in {b + i - 1 : i \in 1 .. g}
    BY <2>1
  <2>4. \A i \in 1 .. g : b + i - 1 \in {q \in 0 .. W - 1 : q \div g = r \div g}
    BY <2>1, <2>2
  <2> QED BY <2>3, <2>4
<1> QED BY <1>4, <1>5, <1>7 DEF IsGroup

\* ... which, if the tp ranks are divided into such groups, are of one tp group.
LEMMA GroupWithin ==
  ASSUME NEW T \in Nat \ {0}, NEW g \in Nat \ {0}, T % g = 0, NEW q \in Nat, NEW r \in Nat, q \div g = r \div g
  PROVE  q \div T = r \div T
<1>1. PICK m \in Nat \ {0} : T = m * g
  <2>1. T \div g \in Nat /\ T = (T \div g) * g + (T % g)
    BY Division
  <2>2. PICK m \in Nat : m = T \div g
    BY <2>1
  <2>3. m * g \in Nat /\ T = m * g + 0
    BY <2>1, <2>2, Products
  <2>4. m # 0
    <3> SUFFICES ASSUME m = 0 PROVE FALSE
      OBVIOUS
    <3>1. m * g = 0
      OBVIOUS
    <3> QED BY <2>3, <3>1
  <2> QED BY <2>3, <2>4
<1>2. PICK u \in Nat : u = q \div g
  BY Division
<1>3. PICK v \in Nat, y \in 0 .. m - 1 : u = v * m + y
  <2>1. u \div m \in Nat /\ u % m \in 0 .. m - 1 /\ u = (u \div m) * m + (u % m)
    BY Division
  <2> QED BY <2>1, Zenon
<1>4. ASSUME NEW n \in Nat, n \div g = u PROVE n \div T = v
  <2>1. PICK x \in 0 .. g - 1 : n = u * g + x
    BY <1>4, Division
  <2>2. PICK z \in 0 .. T - 1 : z = y * g + x
    BY <1>1, TwoDigits
  <2>3. n = v * T + z
    <3>1. (v * m + y) * g = (v * m) * g + y * g /\ (v * m) * g = v * T
      BY <1>1, Products
    <3>2. PICK c \in Nat, d \in Nat : c = v * T /\ d = y * g
      BY Products
    <3> QED BY <1>3, <2>1, <2>2, <3>1, <3>2
  <2> QED BY <2>3, DivMod
<1> QED BY <1>2, <1>4

\* Multiples of a number are as far apart as it is.
LEMMA TimesApart ==
  ASSUME NEW a \in Nat, NEW b \in Nat, NEW d \in Nat, a < b
  PROVE  a * d + d <= b * d
<1>1. (a + 1) * d = a * d + d
  BY TimesNext
<1>2. (a + 1) * d <= b * d
  BY TimesMono, a + 1 <= b
<1> QED BY <1>1, <1>2

\* e lists the ranks Q from the smallest on.
Lists(e, n, Q) ==
  /\ e \in [1 .. n -> Nat]
  /\ \A i, j \in 1 .. n : i < j => e[i] < e[j]
  /\ Q = {e[i] : i \in 1 .. n}

\* The ranks of a group ...
GroupRanks(W, g, r) == {q \in 0 .. W - 1 : q \div g = r \div g}
Divides(g, W) == W % g = 0
ListsGroup(e, W, g, r) ==
  /\ Lists(e, g, GroupRanks(W, g, r))
  /\ \A i \in 1 .. g : e[i] \in 0 .. W - 1 /\ e[i] % g = i - 1 /\ e[i] = FirstOf(r, g) + (i - 1)
\* In them a rank is as far from the first as its place.
LEMMA GroupLists ==
  ASSUME NEW W \in Nat \ {0}, NEW g \in Nat \ {0}, Divides(g, W), NEW r \in 0 .. W - 1
  PROVE  \E e : ListsGroup(e, W, g, r)
<1>1. PICK b \in Nat : b = FirstOf(r, g) /\ IsGroup(W, g, r, b)
  BY GroupIs DEF Divides
<1> DEFINE Q == GroupRanks(W, g, r)
<1>2. Q = {b + i - 1 : i \in 1 .. g}
  BY <1>1 DEF IsGroup, GroupRanks
<1> DEFINE e == [i \in 1 .. g |-> b + i - 1]
<1>3. \A i \in 1 .. g : e[i] = b + i - 1 /\ e[i] = b + (i - 1) /\ b + i - 1 \in Nat
  OBVIOUS
<1>4. e = [i \in 1 .. g |-> e[i]]
  OBVIOUS
<1>5. \A i \in 1 .. g : b + i - 1 \in 0 .. W - 1 /\ (b + i - 1) % g = i - 1
  BY <1>1 DEF IsGroup
<1> HIDE DEF e, Q
<1>6. e \in [1 .. g -> Nat]
  BY <1>3, <1>4
<1>7. \A i, j \in 1 .. g : i < j => e[i] < e[j]
  BY <1>3
<1>8. Q = {e[i] : i \in 1 .. g}
  BY <1>2, <1>3
<1>9. Lists(e, g, Q)
  BY <1>6, <1>7, <1>8 DEF Lists
<1>10. \A i \in 1 .. g : e[i] \in 0 .. W - 1 /\ e[i] % g = i - 1
  BY <1>3, <1>5
<1> QED BY <1>1, <1>3, <1>9, <1>10 DEF Q, ListsGroup

\* ... those of the same tp and dp, one in each stage of the pipeline ...
StagesOf(W, T, D, t, d) == {r \in 0 .. W - 1 : r % T = t /\ (r \div T) % D = d}
\* The i-th of them is of the stage i - 1.
LEMMA StageLists ==
  ASSUME NEW W, NEW T, NEW P, NEW D, Shape(W, T, P, D),
         NEW t \in 0 .. T - 1, NEW d \in 0 .. D - 1
  PROVE  \E e : /\ Lists(e, P, StagesOf(W, T, D, t, d))
                /\ \A i \in 1 .. P : IsAt(W, T, D, e[i], t, d, i - 1)
<1> DEFINE Q == StagesOf(W, T, D, t, d)
           at(i) == ((i - 1) * D + d) * T + t
           e == [i \in 1 .. P |-> at(i)]
<1>0. /\ T \in Nat \ {0} /\ P \in Nat \ {0} /\ D \in Nat \ {0}
      /\ 0 \in 0 .. T - 1 /\ (\A i \in 1 .. P : i - 1 \in Nat) /\ (\A i \in 1 .. D : i - 1 \in Nat) /\ t \in Nat /\ d \in Nat
  BY DEF Shape
<1>1. ASSUME NEW i \in 1 .. P
      PROVE  /\ at(i) \in 0 .. W - 1 /\ at(i) \in Nat
             /\ at(i) % T = t /\ (at(i) \div T) % D = d /\ at(i) \div (T * D) = i - 1
  <2>1. PICK p \in 0 .. P - 1 : p = i - 1
    BY <1>0
  <2>2. at(i) = (p * D + d) * T + t
    BY <2>1
  <2> HIDE DEF at
  <2>3. /\ at(i) \in 0 .. W - 1
        /\ at(i) % T = t /\ (at(i) \div T) % D = d /\ at(i) \div (T * D) = p
    <3>1. IsAt(W, T, D, at(i), t, d, p)
      BY <2>2, RankOf
    <3> QED BY <3>1 DEF IsAt
  <2>4. W \in Nat
    <3>1. W = T * P * D
      BY DEF Shape
    <3> QED BY <1>0, <3>1, Products
  <2> QED BY <2>1, <2>3, <2>4
<1>2. ASSUME NEW i \in 1 .. P, NEW j \in 1 .. P, i < j PROVE at(i) < at(j)
  <2>1. PICK p \in Nat, s \in Nat : p = i - 1 /\ s = j - 1 /\ p < s
    <3>1. i - 1 \in Nat /\ j - 1 \in Nat /\ i - 1 < j - 1
      BY <1>2
    <3> QED BY <3>1
  <2>2. PICK u \in Nat, v \in Nat : u = p * D /\ v = s * D
    BY <1>0, Products
  <2>3. u + D <= v
    BY <1>0, <2>1, <2>2, TimesApart
  <2>4. PICK x \in Nat, y \in Nat : x = u + d /\ y = v + d
    OBVIOUS
  <2>5. x < y
    BY <1>0, <2>3, <2>4
  <2>6. x * T + T <= y * T
    BY <1>0, <2>5, TimesApart
  <2>7. PICK a \in Nat, b \in Nat : a = x * T /\ b = y * T
    BY <1>0, Products
  <2>8. at(i) = a + t /\ at(j) = b + t
    BY <2>1, <2>2, <2>4, <2>7
  <2> HIDE DEF at
  <2> QED BY <1>0, <2>6, <2>7, <2>8
<1>3. ASSUME NEW r \in Q PROVE \E i \in 1 .. P : r = at(i)
  <2>1. r \in 0 .. W - 1 /\ r % T = t /\ (r \div T) % D = d
    BY DEF StagesOf
  <2>2. PICK p \in 0 .. P - 1 : r = (p * D + d) * T + t
    <3>1. PICK t0 \in 0 .. T - 1, d0 \in 0 .. D - 1, p0 \in 0 .. P - 1 :
            IsAt(W, T, D, r, t0, d0, p0) /\ r = (p0 * D + d0) * T + t0
      BY <2>1, RankIs
    <3>2. t0 = t /\ d0 = d
      BY <2>1, <3>1 DEF IsAt
    <3> QED BY <3>1, <3>2
  <2>3. PICK i \in 1 .. P : i - 1 = p
    <3>1. p + 1 \in 1 .. P /\ (p + 1) - 1 = p
      BY <1>0
    <3> QED BY <3>1
  <2>4. r = at(i)
    BY <2>2, <2>3
  <2> QED BY <2>4
<1>4. \A i \in 1 .. P : e[i] = at(i)
  OBVIOUS
<1>5. e = [i \in 1 .. P |-> e[i]]
  OBVIOUS
<1> HIDE DEF at, e, Q
<1>6. e \in [1 .. P -> Nat]
  BY <1>1, <1>4, <1>5
<1>7. \A i, j \in 1 .. P : i < j => e[i] < e[j]
  BY <1>2, <1>4
<1>8. \A i \in 1 .. P : at(i) \in Q
  BY <1>1 DEF Q, StagesOf
<1>9. Q = {e[i] : i \in 1 .. P}
  BY <1>3, <1>4, <1>8
<1>10. Lists(e, P, Q)
  BY <1>6, <1>7, <1>9 DEF Lists
<1>11. \A i \in 1 .. P : IsAt(W, T, D, e[i], t, d, i - 1)
  BY <1>1, <1>4 DEF IsAt
<1> QED BY <1>10, <1>11 DEF Q

\* ... and those of tp 0 in one of the stages.
FirstsOf(W, T, D, p) == {r \in 0 .. W - 1 : r % T = 0 /\ r \div (T * D) = p}
\* The i-th of them is of dp i - 1.
LEMMA FirstLists ==
  ASSUME NEW W, NEW T, NEW P, NEW D, Shape(W, T, P, D),
         NEW p \in 0 .. P - 1
  PROVE  \E e : /\ Lists(e, D, FirstsOf(W, T, D, p))
                /\ \A i \in 1 .. D : IsAt(W, T, D, e[i], 0, i - 1, p)
<1> DEFINE Q == FirstsOf(W, T, D, p)
           at(i) == (p * D + (i - 1)) * T + 0
           e == [i \in 1 .. D |-> at(i)]
<1>0. /\ T \in Nat \ {0} /\ P \in Nat \ {0} /\ D \in Nat \ {0}
      /\ 0 \in 0 .. T - 1 /\ (\A i \in 1 .. P : i - 1 \in Nat) /\ (\A i \in 1 .. D : i - 1 \in Nat)
  BY DEF Shape
<1>1. ASSUME NEW i \in 1 .. D
      PROVE  /\ at(i) \in 0 .. W - 1 /\ at(i) \in Nat
             /\ at(i) % T = 0 /\ (at(i) \div T) % D = i - 1 /\ at(i) \div (T * D) = p
  <2>1. PICK d \in 0 .. D - 1 : d = i - 1
    BY <1>0
  <2>2. at(i) = (p * D + d) * T + 0
    BY <2>1
  <2> HIDE DEF at
  <2>3. /\ at(i) \in 0 .. W - 1
        /\ at(i) % T = 0 /\ (at(i) \div T) % D = d /\ at(i) \div (T * D) = p
    <3>1. IsAt(W, T, D, at(i), 0, d, p)
      BY <1>0, <2>2, RankOf
    <3> QED BY <3>1 DEF IsAt
  <2>4. W \in Nat
    <3>1. W = T * P * D
      BY DEF Shape
    <3> QED BY <1>0, <3>1, Products
  <2> QED BY <2>1, <2>3, <2>4
<1>2. ASSUME NEW i \in 1 .. D, NEW j \in 1 .. D, i < j PROVE at(i) < at(j)
  <2>1. PICK c \in Nat, s \in Nat : c = i - 1 /\ s = j - 1 /\ c < s
    <3>1. i - 1 \in Nat /\ j - 1 \in Nat /\ i - 1 < j - 1
      BY <1>2
    <3> QED BY <3>1
  <2>2. PICK u \in Nat : u = p * D
    BY <1>0, Products
  <2>3. PICK x \in Nat, y \in Nat : x = u + c /\ y = u + s
    OBVIOUS
  <2>4. x < y
    BY <2>1, <2>3
  <2>5. x * T + T <= y * T
    BY <1>0, <2>4, TimesApart
  <2>6. PICK a \in Nat, b \in Nat : a = x * T /\ b = y * T
    BY <1>0, Products
  <2>7. at(i) = a + 0 /\ at(j) = b + 0
    BY <2>1, <2>2, <2>3, <2>6
  <2> HIDE DEF at
  <2> QED BY <1>0, <2>5, <2>6, <2>7
<1>3. ASSUME NEW r \in Q PROVE \E i \in 1 .. D : r = at(i)
  <2>1. r \in 0 .. W - 1 /\ r % T = 0 /\ r \div (T * D) = p
    BY DEF FirstsOf
  <2>2. PICK d \in 0 .. D - 1 : r = (p * D + d) * T + 0
    <3>1. PICK t0 \in 0 .. T - 1, d0 \in 0 .. D - 1, p0 \in 0 .. P - 1 :
            IsAt(W, T, D, r, t0, d0, p0) /\ r = (p0 * D + d0) * T + t0
      BY <2>1, RankIs
    <3>2. t0 = 0 /\ p0 = p
      BY <2>1, <3>1 DEF IsAt
    <3> QED BY <3>1, <3>2
  <2>3. PICK i \in 1 .. D : i - 1 = d
    <3>1. d + 1 \in 1 .. D /\ (d + 1) - 1 = d
      BY <1>0
    <3> QED BY <3>1
  <2>4. r = at(i)
    BY <2>2, <2>3
  <2> QED BY <2>4
<1>4. \A i \in 1 .. D : e[i] = at(i)
  OBVIOUS
<1>5. e = [i \in 1 .. D |-> e[i]]
  OBVIOUS
<1> HIDE DEF at, e, Q
<1>6. e \in [1 .. D -> Nat]
  BY <1>1, <1>4, <1>5
<1>7. \A i, j \in 1 .. D : i < j => e[i] < e[j]
  BY <1>2, <1>4
<1>8. \A i \in 1 .. D : at(i) \in Q
  BY <1>1 DEF Q, FirstsOf
<1>9. Q = {e[i] : i \in 1 .. D}
  BY <1>3, <1>4, <1>8
<1>10. Lists(e, D, Q)
  BY <1>6, <1>7, <1>9 DEF Lists
<1>11. \A i \in 1 .. D : IsAt(W, T, D, e[i], 0, i - 1, p)
  BY <1>1, <1>4 DEF IsAt
<1> QED BY <1>10, <1>11 DEF Q

\* Equal pieces from the ranks of a list.
LEMMA JoinedListIs ==
  ASSUME NEW S, NEW V, NEW f, NEW a \in Nat, NEW z \in Nat, NEW n \in Nat, NEW e, NEW Q, Lists(e, n, Q),
         \A i \in 1 .. n : Piece(S, f[e[i]], V, a + (i - 1) * z, z)
  PROVE  Piece(S, Joined(f, Q), V, a, n * z)
<1>1. e \in [1 .. n -> Nat] /\ (\A i, j \in 1 .. n : i < j => e[i] < e[j]) /\ Q = {e[i] : i \in 1 .. n}
  BY DEF Lists
<1> QED BY <1>1, JoinedIs

-----------------------------------------------------------------------------
(* A batch on its way: every rank holds a piece of it. *)

\* The rows of a batch, what a rank is sent for each of its places, and what comes
\* home from there.
Places == DOMAIN job.lens
Sent == [n \in Nat |-> {batch[n]}]
Good == Rightly(Places, Sent, ~(job.masks /\ job.tokens > 0))

\* The pieces: what a rank is given, what it works on, what it answers.
Size == Len(batch) \div Shares
Given(r) == ShareOf(r) * Size
Many == IF job.mode = "dp" THEN job.group * Size ELSE Size \div job.group
From(r) == IF job.mode = "dp" THEN FirstOf(r, job.group) * Size
           ELSE Given(r) + (r % job.group) * Many
HomeSize == IF job.mode = "pp_as_dp" THEN job.pp * Size ELSE Size
Home(r) == IF job.mode = "pp_as_dp" THEN (DP(r) * job.pp) * Size ELSE Given(r)

\* A multiple of what g divides.
LEMMA DividesProduct ==
  ASSUME NEW g \in Nat \ {0}, NEW a \in Nat, NEW b \in Nat, a % g = 0
  PROVE  (a * b) % g = 0
<1>1. PICK m \in Nat : m = a \div g /\ a = m * g
  <2>1. a \div g \in Nat /\ a = (a \div g) * g + (a % g)
    BY Division
  <2>2. PICK m \in Nat : m = a \div g
    BY <2>1
  <2>3. m * g \in Nat /\ a = m * g + 0
    BY <2>1, <2>2, Products
  <2> QED BY <2>2, <2>3
<1>2. a * b = (m * b) * g
  <2>1. (m * g) * b = m * (g * b) /\ g * b = b * g /\ (m * b) * g = m * (b * g)
    BY Products
  <2> QED BY <1>1, <2>1
<1>3. PICK c \in Nat : c = m * b
  BY Products
<1>4. (c * g + 0) % g = 0
  BY DivMod
<1>5. c * g \in Nat
  BY Products
<1> QED BY <1>2, <1>3, <1>4, <1>5

\* What the assumption says of the ranks of a job.
JobRanks ==
  /\ Shape(World, job.tp, job.pp, job.dp) /\ World \in Nat \ {0}
  /\ job.tp \in Nat \ {0} /\ job.pp \in Nat \ {0} /\ job.dp \in Nat \ {0}
  /\ job.mode \in {"dp", "megatron", "pp_as_dp"} /\ job.masks \in BOOLEAN /\ job.tokens \in Nat
  /\ job.micro \in Nat \ {0} /\ job.group \in Nat \ {0} /\ World % job.group = 0
  /\ job.mode # "dp" => job.tp % job.group = 0
  /\ job.mode = "megatron" => job.group = 1
  /\ job.lens \in Seq(Nat \ {0}) /\ Places = 1 .. Len(job.lens)
\* JobAssumption says so.
LEMMA JobRanksAre ==
  ASSUME job \in Jobs PROVE JobRanks
<1>1. /\ job.mode \in {"dp", "megatron", "pp_as_dp"} /\ job.masks \in BOOLEAN /\ job.tokens \in Nat
      /\ job.tp \in Nat \ {0} /\ job.pp \in Nat \ {0} /\ job.dp \in Nat \ {0}
      /\ job.group \in Nat \ {0} /\ job.micro \in Nat \ {0} /\ job.lens \in Seq(Nat \ {0})
      /\ job.mode = "dp" => (job.tp * job.pp * job.dp) % job.group = 0
      /\ job.mode = "megatron" => job.group = 1
      /\ job.mode = "pp_as_dp" => job.tp % job.group = 0
  BY JobAssumption
<1>2. Shape(World, job.tp, job.pp, job.dp)
  BY <1>1 DEF Shape, World
<1>3. World \in Nat \ {0}
  BY JobIs DEF World
<1>4. job.mode # "dp" => job.tp % job.group = 0
  BY <1>1
<1>5. World % job.group = 0
  <2>1. PICK a \in Nat \ {0}, b \in Nat \ {0}, c \in Nat \ {0} : a = job.tp /\ b = job.pp /\ c = job.dp
    BY <1>1
  <2>2. World = a * (b * c)
    <3>1. World = (a * b) * c
      BY <2>1 DEF World
    <3> QED BY <3>1, Products
  <2>3. CASE job.mode # "dp"
    <3>1. PICK y \in Nat : y = b * c
      BY Products
    <3>2. PICK g \in Nat \ {0} : g = job.group
      BY <1>1
    <3>3. a % g = 0
      BY <1>4, <2>1, <2>3, <3>2
    <3>4. (a * y) % g = 0
      BY <3>3, DividesProduct
    <3> QED BY <2>2, <3>1, <3>2, <3>4
  <2> QED BY <1>1, <2>3 DEF World
<1>6. Places = 1 .. Len(job.lens)
  BY <1>1 DEF Places
<1> QED BY <1>1, <1>2, <1>3, <1>4, <1>5, <1>6 DEF JobRanks

\* The numbers of a rank, and its share.
LEMMA NumbersOf ==
  ASSUME JobRanks, NEW r \in Ranks
  PROVE  /\ r \in 0 .. World - 1 /\ r \in Nat
         /\ TP(r) \in 0 .. job.tp - 1 /\ DP(r) \in 0 .. job.dp - 1 /\ PP(r) \in 0 .. job.pp - 1
         /\ IsAt(World, job.tp, job.dp, r, TP(r), DP(r), PP(r))
<1>1. r \in 0 .. World - 1 /\ r \in Nat
  BY DEF JobRanks, Ranks
<1>2. PICK t \in 0 .. job.tp - 1, d \in 0 .. job.dp - 1, p \in 0 .. job.pp - 1 :
        IsAt(World, job.tp, job.dp, r, t, d, p)
  <2>1. Shape(World, job.tp, job.pp, job.dp)
    BY DEF JobRanks
  <2>2. PICK t \in 0 .. job.tp - 1, d \in 0 .. job.dp - 1, p \in 0 .. job.pp - 1 :
          IsAt(World, job.tp, job.dp, r, t, d, p) /\ r = (p * job.dp + d) * job.tp + t
    BY <1>1, <2>1, RankIs
  <2> QED BY <2>2, Zenon
<1>3. t = TP(r) /\ d = DP(r) /\ p = PP(r)
  BY <1>2 DEF IsAt, TP, DP, PP
<1> QED BY <1>1, <1>2, <1>3

\* Every rank is sent one of the shares.
LEMMA ShareIs ==
  ASSUME JobRanks
  PROVE  Shares \in Nat \ {0} /\ \A r \in Ranks : ShareOf(r) \in 0 .. Shares - 1
<1>1. Shares \in Nat \ {0}
  <2>1. job.dp \in Nat \ {0} /\ job.pp \in Nat \ {0} /\ World \in Nat \ {0}
    BY DEF JobRanks
  <2>2. job.dp * job.pp \in Nat \ {0}
    BY <2>1, Products
  <2> QED BY <2>1, <2>2 DEF Shares, JobRanks
<1>2. ASSUME NEW r \in Ranks PROVE ShareOf(r) \in 0 .. Shares - 1
  <2>1. r \in 0 .. World - 1 /\ DP(r) \in 0 .. job.dp - 1 /\ PP(r) \in 0 .. job.pp - 1
    BY NumbersOf
  <2>2. DP(r) * job.pp + PP(r) \in 0 .. job.dp * job.pp - 1
    BY <2>1, TwoDigits DEF JobRanks
  <2> QED BY <2>1, <2>2 DEF Shares, ShareOf, JobRanks
<1> QED BY <1>1, <1>2

\* The sizes and places of the pieces are numbers.
LEMMA SizesAre ==
  ASSUME JobRanks, Len(batch) \in Nat
  PROVE  /\ Size \in Nat /\ Many \in Nat /\ HomeSize \in Nat
         /\ \A r \in Ranks : Given(r) \in Nat /\ From(r) \in Nat /\ Home(r) \in Nat
<1>1. Size \in Nat
  BY ShareIs, Division DEF Size
<1>2. job.group \in Nat \ {0} /\ job.pp \in Nat
  BY DEF JobRanks
<1>3. Many \in Nat /\ HomeSize \in Nat
  <2>1. job.group * Size \in Nat /\ job.pp * Size \in Nat
    BY <1>1, <1>2, Products
  <2>2. Size \div job.group \in Nat
    BY <1>1, <1>2, Division
  <2> QED BY <1>1, <2>1, <2>2 DEF Many, HomeSize
<1>4. ASSUME NEW r \in Ranks PROVE Given(r) \in Nat /\ From(r) \in Nat /\ Home(r) \in Nat
  <2>1. r \in Nat /\ DP(r) \in Nat
    BY NumbersOf
  <2>2. ShareOf(r) \in Nat
    BY ShareIs
  <2>3. Given(r) \in Nat
    BY <1>1, <2>2, Products DEF Given
  <2>4. Home(r) \in Nat
    <3>1. PICK x \in Nat : x = DP(r) * job.pp
      BY <1>2, <2>1, Products
    <3>2. x * Size \in Nat
      BY <1>1, Products
    <3> QED BY <2>3, <3>1, <3>2 DEF Home
  <2>5. From(r) \in Nat
    <3>0. r \div job.group \in Nat /\ r % job.group \in 0 .. job.group - 1
      BY <1>2, <2>1, Division
    <3>1. PICK x \in Nat, y \in Nat : x = r \div job.group /\ y = r % job.group
      BY <1>2, <3>0
    <3>2. PICK b \in Nat : b = FirstOf(r, job.group)
      BY <1>2, <3>1, Products DEF FirstOf
    <3>3. b * Size \in Nat
      BY <1>1, Products
    <3>4. PICK c \in Nat : c = y * Many
      BY <1>3, Products
    <3>5. Given(r) + c \in Nat
      BY <2>3
    <3> QED BY <3>1, <3>2, <3>3, <3>4, <3>5 DEF From
  <2> QED BY <2>3, <2>4, <2>5
<1> QED BY <1>1, <1>3, <1>4

\* A number is the size of its equal parts, times how many there are.
LEMMA EqualParts ==
  ASSUME NEW n \in Nat, NEW d \in Nat \ {0}, n % d = 0
  PROVE  n \div d \in Nat /\ n = d * (n \div d)
<1>1. n \div d \in Nat /\ n = (n \div d) * d + (n % d)
  BY Division
<1>2. PICK m \in Nat : m = n \div d
  BY <1>1
<1>3. m * d \in Nat /\ m * d = d * m
  BY Products
<1> QED BY <1>1, <1>2, <1>3

\* The shares of a batch that is divisible by them are of equal size.
LEMMA DispatchedIs ==
  ASSUME JobRanks, batch \in Seq(Places), Len(batch) % Shares = 0, NEW r \in Ranks
  PROVE  Piece(Places, Chunk(batch, Shares, ShareOf(r)), Sent, Given(r), Size)
<1>1. Len(batch) \in Nat /\ DOMAIN batch = 1 .. Len(batch)
  OBVIOUS
<1>2. Piece(Places, batch, Sent, 0, Len(batch))
  <2>1. \A i \in 1 .. Len(batch) : Sent[0 + i] = {batch[i]}
    BY <1>1 DEF Sent
  <2> QED BY <1>1, <2>1 DEF Piece
<1>3. Shares \in Nat \ {0} /\ ShareOf(r) \in 0 .. Shares - 1
  BY ShareIs
<1>4. Size \in Nat /\ Len(batch) = Shares * Size
  BY <1>1, <1>3, EqualParts DEF Size
<1>5. PICK k \in 0 .. Shares - 1 : k = ShareOf(r)
  BY <1>3
<1>6. Piece(Places, batch, Sent, 0, Shares * Size)
  BY <1>2, <1>4
<1>7. Piece(Places, Chunk(batch, Shares, k), Sent, 0 + k * Size, Size)
  <2>1. PICK n \in Nat \ {0}, z \in Nat : n = Shares /\ z = Size /\ k \in 0 .. n - 1
    BY <1>3, <1>4
  <2>2. PICK a \in Nat : a = 0
    OBVIOUS
  <2>3. Piece(Places, batch, Sent, a, n * z)
    BY <1>6, <2>1, <2>2
  <2>4. Piece(Places, Chunk(batch, n, k), Sent, a + k * z, z)
    BY <2>1, <2>3, ChunkIs
  <2> QED BY <2>1, <2>2, <2>4
<1>8. k * Size \in Nat
  BY <1>4, Products
<1>9. 0 + k * Size = Given(r)
  BY <1>5, <1>8 DEF Given
<1> QED BY <1>5, <1>7, <1>9

\* A rank of a group, and its place in the group.
LEMMA PlaceInGroup ==
  ASSUME JobRanks, NEW r \in Ranks
  PROVE  /\ r \div job.group \in Nat /\ r % job.group \in 0 .. job.group - 1
         /\ FirstOf(r, job.group) \in Nat /\ r = FirstOf(r, job.group) + (r % job.group)
<1>1. r \in Nat /\ job.group \in Nat \ {0}
  BY NumbersOf DEF JobRanks
<1> QED BY <1>1, Division, Products DEF FirstOf

\* What FSDP ranks gather ...
LEMMA GatheredIs ==
  ASSUME JobRanks, job.mode = "dp", Len(batch) \in Nat, NEW r \in Ranks, NEW S, NEW V, NEW f,
         \A q \in Group(r) : Piece(S, f[q], V, Given(q), Size)
  PROVE  \A q \in Group(r) : Piece(S, Joined(f, Group(r)), V, From(q), Many)
<1>1. /\ job.group \in Nat \ {0} /\ World \in Nat \ {0} /\ World % job.group = 0
      /\ r \in 0 .. World - 1
  BY NumbersOf DEF JobRanks
<1>2. PICK g \in Nat \ {0} : g = job.group
  BY <1>1
<1>3. Group(r) = GroupRanks(World, g, r)
  BY <1>2 DEF Group, Ranks, GroupRanks
<1>4. PICK e : /\ Lists(e, g, Group(r))
               /\ \A i \in 1 .. g : e[i] \in 0 .. World - 1 /\ e[i] = FirstOf(r, g) + (i - 1)
  <2>1. World \in Nat \ {0} /\ Divides(g, World) /\ r \in 0 .. World - 1
    BY <1>1, <1>2 DEF Divides
  <2>2. PICK e : ListsGroup(e, World, g, r)
    BY <2>1, GroupLists
  <2> QED BY <1>3, <2>2 DEF ListsGroup
<1>5. Size \in Nat /\ FirstOf(r, g) \in Nat
  BY <1>2, SizesAre, PlaceInGroup
<1>6. PICK a \in Nat : a = FirstOf(r, g) * Size
  BY <1>5, Products
<1>7. ASSUME NEW i \in 1 .. g PROVE Piece(S, f[e[i]], V, a + (i - 1) * Size, Size)
  <2>1. e[i] \in Group(r)
    BY <1>4 DEF Lists
  <2>2. PICK x \in Nat : x = i - 1
    OBVIOUS
  <2>3. Given(e[i]) = (FirstOf(r, g) + x) * Size
    BY <1>4, <2>2 DEF Given, ShareOf
  <2>4. (FirstOf(r, g) + x) * Size = FirstOf(r, g) * Size + x * Size
    BY <1>5, Products
  <2> QED BY <1>6, <2>1, <2>2, <2>3, <2>4
<1>8. Piece(S, Joined(f, Group(r)), V, a, g * Size)
  BY <1>4, <1>5, <1>7, JoinedListIs
<1>9. ASSUME NEW q \in Group(r) PROVE From(q) = a /\ Many = g * Size
  <2>1. q \div g = r \div g
    BY <1>2 DEF Group
  <2> QED BY <1>2, <1>6, <2>1 DEF From, Many, FirstOf
<1> QED BY <1>8, <1>9

\* ... and keep.
LEMMA KeptIs ==
  ASSUME JobRanks, job.mode = "dp", Len(batch) \in Nat, NEW q \in Ranks, NEW S, NEW V, NEW s,
         Piece(S, s, V, From(q), Many)
  PROVE  Piece(S, Chunk(s, job.group, q % job.group), V, Home(q), HomeSize)
<1>1. Size \in Nat /\ job.group \in Nat \ {0}
  BY SizesAre DEF JobRanks
<1>2. PICK k \in 0 .. job.group - 1, b \in Nat :
        k = q % job.group /\ b = FirstOf(q, job.group) /\ q = b + k
  BY PlaceInGroup
<1>3. PICK a \in Nat : a = b * Size
  BY <1>1, Products
<1>4. Piece(S, s, V, a, job.group * Size)
  BY <1>2, <1>3 DEF From, Many
<1>5. Piece(S, Chunk(s, job.group, k), V, a + k * Size, Size)
  BY <1>1, <1>4, ChunkIs
<1>6. Home(q) = a + k * Size /\ HomeSize = Size
  <2>1. (b + k) * Size = b * Size + k * Size
    BY <1>1, Products
  <2> QED BY <1>2, <1>3, <2>1 DEF Home, HomeSize, Given, ShareOf
<1> QED BY <1>2, <1>5, <1>6

\* What a rank of a micro data-parallel group takes of the rows of its tp group.
LEMMA TakenIs ==
  ASSUME JobRanks, job.mode # "dp", Len(batch) \in Nat, Size % job.group = 0, NEW q \in Ranks,
         NEW S, NEW V, NEW s, Piece(S, s, V, Given(q), Size)
  PROVE  Piece(S, Chunk(s, job.group, q % job.group), V, From(q), Many)
<1>1. Size \in Nat /\ job.group \in Nat \ {0} /\ Given(q) \in Nat /\ Many \in Nat
  BY SizesAre DEF JobRanks
<1>2. Size = job.group * Many
  BY <1>1, EqualParts DEF Many
<1>3. PICK k \in 0 .. job.group - 1 : k = q % job.group
  BY PlaceInGroup
<1>4. Piece(S, s, V, Given(q), job.group * Many)
  BY <1>2
<1>5. Piece(S, Chunk(s, job.group, k), V, Given(q) + k * Many, Many)
  BY <1>1, <1>4, ChunkIs
<1>6. From(q) = Given(q) + k * Many
  BY <1>3 DEF From
<1> QED BY <1>3, <1>5, <1>6

\* With one rank in each group, what a rank worked on is what it was given.
LEMMA AloneIs ==
  ASSUME JobRanks, job.mode = "megatron", Len(batch) \in Nat, NEW q \in Ranks
  PROVE  From(q) = Home(q) /\ Many = HomeSize
<1>1. job.group = 1 /\ Size \in Nat /\ Given(q) \in Nat /\ q \in Nat
  BY SizesAre, NumbersOf DEF JobRanks
<1>2. Size \div 1 = Size /\ q % 1 = 0 /\ 0 * Size = 0
  BY <1>1
<1>3. Many = Size
  BY <1>1, <1>2 DEF Many
<1>4. From(q) = Given(q)
  BY <1>1, <1>2, <1>3 DEF From
<1> QED BY <1>3, <1>4 DEF Home, HomeSize

\* The ranks of a group are of one tp group.
LEMMA GroupSharesData ==
  ASSUME JobRanks, job.mode # "dp", NEW r \in Ranks, NEW q \in Group(r)
  PROVE  q \in Ranks /\ DP(q) = DP(r) /\ PP(q) = PP(r)
<1>1. /\ q \in Ranks /\ q \in Nat /\ r \in Nat /\ q \div job.group = r \div job.group
      /\ job.tp \in Nat \ {0} /\ job.dp \in Nat \ {0} /\ job.group \in Nat \ {0} /\ job.tp % job.group = 0
  BY NumbersOf DEF Group, JobRanks
<1>2. q \div job.tp = r \div job.tp
  BY <1>1, GroupWithin
<1>3. q \div (job.tp * job.dp) = r \div (job.tp * job.dp)
  <2>1. PICK n \in Nat \ {0} : n = job.tp * job.dp
    BY <1>1, Products
  <2>2. n % job.group = 0
    BY <1>1, <2>1, DividesProduct
  <2> QED BY <1>1, <2>1, <2>2, GroupWithin
<1> QED BY <1>1, <1>2, <1>3 DEF DP, PP

\* The parts of a group, joined, are the share it was given ...
LEMMA WholeIs ==
  ASSUME JobRanks, job.mode = "pp_as_dp", Len(batch) \in Nat, Size % job.group = 0, NEW r \in Ranks,
         NEW S, NEW V, NEW f, \A q \in Group(r) : Piece(S, f[q], V, From(q), Many)
  PROVE  Piece(S, Joined(f, Group(r)), V, Given(r), Size)
<1>1. /\ job.group \in Nat \ {0} /\ World \in Nat \ {0} /\ World % job.group = 0
      /\ r \in 0 .. World - 1 /\ Given(r) \in Nat /\ Size \in Nat /\ Many \in Nat
  BY NumbersOf, SizesAre DEF JobRanks
<1>2. PICK g \in Nat \ {0} : g = job.group
  BY <1>1
<1>3. Group(r) = GroupRanks(World, g, r)
  BY <1>2 DEF Group, Ranks, GroupRanks
<1>4. PICK e : Lists(e, g, Group(r)) /\ \A i \in 1 .. g : e[i] % g = i - 1
  <2>1. World \in Nat \ {0} /\ Divides(g, World) /\ r \in 0 .. World - 1
    BY <1>1, <1>2 DEF Divides
  <2>2. PICK e : ListsGroup(e, World, g, r)
    BY <2>1, GroupLists
  <2> QED BY <1>3, <2>2 DEF ListsGroup
<1>5. PICK a \in Nat : a = Given(r)
  BY <1>1
<1>6. ASSUME NEW i \in 1 .. g PROVE Piece(S, f[e[i]], V, a + (i - 1) * Many, Many)
  <2>1. e[i] \in Group(r)
    BY <1>4 DEF Lists
  <2>2. Given(e[i]) = a
    <3>1. DP(e[i]) = DP(r) /\ PP(e[i]) = PP(r)
      BY <2>1, GroupSharesData
    <3> QED BY <1>5, <3>1 DEF Given, ShareOf
  <2>3. From(e[i]) = a + (i - 1) * Many
    BY <1>2, <1>4, <2>2 DEF From
  <2> QED BY <2>1, <2>3
<1>7. Piece(S, Joined(f, Group(r)), V, a, g * Many)
  BY <1>1, <1>4, <1>6, JoinedListIs
<1>8. g * Many = Size
  BY <1>1, <1>2, EqualParts DEF Many
<1> QED BY <1>5, <1>7, <1>8

\* ... and the shares of the pp stages, joined, what was sent to a rank of dp.
Stages(q) == {p \in Ranks : TP(p) = TP(q) /\ DP(p) = DP(q)}
\* They are in the order of the stages.
LEMMA StagesAre ==
  ASSUME JobRanks, job.mode = "pp_as_dp", Len(batch) \in Nat, NEW q \in Ranks,
         NEW S, NEW V, NEW f, \A p \in Stages(q) : Piece(S, f[p], V, Given(p), Size)
  PROVE  Piece(S, Joined(f, Stages(q)), V, Home(q), HomeSize)
<1>1. /\ Shape(World, job.tp, job.pp, job.dp) /\ job.pp \in Nat \ {0} /\ Size \in Nat
      /\ TP(q) \in 0 .. job.tp - 1 /\ DP(q) \in 0 .. job.dp - 1 /\ DP(q) \in Nat
  BY NumbersOf, SizesAre DEF JobRanks
<1>2. PICK t \in 0 .. job.tp - 1, d \in 0 .. job.dp - 1 : t = TP(q) /\ d = DP(q) /\ d \in Nat
  BY <1>1
<1>3. Stages(q) = StagesOf(World, job.tp, job.dp, t, d)
  BY <1>2 DEF Stages, StagesOf, TP, DP, Ranks
<1>4. PICK e : /\ Lists(e, job.pp, Stages(q))
               /\ \A i \in 1 .. job.pp : IsAt(World, job.tp, job.dp, e[i], t, d, i - 1)
  BY <1>1, <1>3, StageLists
<1>5. PICK b \in Nat : b = d * job.pp
  BY <1>1, <1>2, Products
<1>6. PICK a \in Nat : a = b * Size
  BY <1>1, Products
<1>7. ASSUME NEW i \in 1 .. job.pp PROVE Piece(S, f[e[i]], V, a + (i - 1) * Size, Size)
  <2>1. e[i] \in Stages(q)
    BY <1>4 DEF Lists
  <2>2. PICK x \in Nat : x = i - 1
    BY <1>1
  <2>3. DP(e[i]) = d /\ PP(e[i]) = x
    BY <1>4, <2>2 DEF IsAt, DP, PP
  <2>4. Given(e[i]) = (b + x) * Size
    BY <1>5, <2>3 DEF Given, ShareOf
  <2>5. (b + x) * Size = b * Size + x * Size
    BY <1>1, Products
  <2> QED BY <1>6, <2>1, <2>2, <2>4, <2>5
<1>8. Piece(S, Joined(f, Stages(q)), V, a, job.pp * Size)
  BY <1>1, <1>4, <1>7, JoinedListIs
<1>9. a = Home(q) /\ job.pp * Size = HomeSize
  BY <1>2, <1>5, <1>6 DEF Home, HomeSize
<1> QED BY <1>8, <1>9

\* The answers that are collected, joined, are of the whole batch.
LEMMA CollectedIs ==
  ASSUME JobRanks, Len(batch) \in Nat, Len(batch) % Shares = 0,
         NEW S, NEW V, NEW f, \A r \in Ranks : Piece(S, f[r], V, Home(r), HomeSize)
  PROVE  Piece(S, Joined(f, {r \in Ranks : Collects(r)}), V, 0, Len(batch))
<1> DEFINE Q == {r \in Ranks : Collects(r)}
<1>1. /\ Shape(World, job.tp, job.pp, job.dp) /\ World \in Nat \ {0} /\ job.dp \in Nat \ {0}
      /\ job.pp \in Nat \ {0} /\ Size \in Nat /\ HomeSize \in Nat
      /\ job.mode \in {"dp", "megatron", "pp_as_dp"}
  BY SizesAre DEF JobRanks
<1>2. Len(batch) = Shares * Size
  BY ShareIs, EqualParts DEF Size
<1>3. ASSUME NEW n \in Nat, NEW e, Lists(e, n, Q), n * HomeSize = Shares * Size,
             \A i \in 1 .. n : Home(e[i]) = (i - 1) * HomeSize
      PROVE  Piece(S, Joined(f, Q), V, 0, Len(batch))
  <2>1. PICK a \in Nat : a = 0
    OBVIOUS
  <2>2. ASSUME NEW i \in 1 .. n PROVE Piece(S, f[e[i]], V, a + (i - 1) * HomeSize, HomeSize)
    <3>1. e[i] \in Q
      BY <1>3 DEF Lists
    <3>2. PICK x \in Nat : x = i - 1
      OBVIOUS
    <3>3. PICK y \in Nat : y = x * HomeSize
      BY <1>1, Products
    <3>4. Piece(S, f[e[i]], V, y, HomeSize)
      BY <1>3, <3>1, <3>2, <3>3
    <3>5. y = a + (i - 1) * HomeSize
      BY <2>1, <3>2, <3>3
    <3> QED BY <3>4, <3>5
  <2>3. Piece(S, Joined(f, Q), V, a, n * HomeSize)
    <3> HIDE DEF Q
    <3> QED BY <1>1, <1>3, <2>2, JoinedListIs
  <2> QED BY <1>2, <1>3, <2>1, <2>3
<1>4. CASE job.mode = "dp"
  <2> DEFINE e == [i \in 1 .. World |-> i - 1]
  <2>1. \A i \in 1 .. World : e[i] = i - 1
    OBVIOUS
  <2>2. Q = 0 .. World - 1
    BY <1>4 DEF Collects, Ranks
  <2>3. Lists(e, World, Q)
    <3>1. e \in [1 .. World -> Nat]
      BY <1>1
    <3>2. \A r \in 0 .. World - 1 : r + 1 \in 1 .. World /\ r = (r + 1) - 1
      BY <1>1
    <3>3. \A r \in 0 .. World - 1 : \E i \in 1 .. World : r = i - 1
      BY <1>1, <3>2
    <3> HIDE DEF e, Q
    <3>4. Q = {e[i] : i \in 1 .. World}
      <4>1. \A i \in 1 .. World : e[i] \in 0 .. World - 1
        BY <1>1, <2>1
      <4>2. \A r \in 0 .. World - 1 : \E i \in 1 .. World : r = e[i]
        BY <2>1, <3>3
      <4> QED BY <2>2, <4>1, <4>2
    <3>5. \A i, j \in 1 .. World : i < j => e[i] < e[j]
      BY <1>1, <2>1
    <3> QED BY <3>1, <3>4, <3>5 DEF Lists
  <2>4. \A i \in 1 .. World : Home(e[i]) = (i - 1) * HomeSize
    BY <1>4, <2>1 DEF Home, HomeSize, Given, ShareOf
  <2>5. World * HomeSize = Shares * Size
    BY <1>4 DEF HomeSize, Shares
  <2> HIDE DEF e
  <2> QED BY <1>1, <1>3, <2>3, <2>4, <2>5
<1>5. ASSUME job.mode # "dp", NEW p \in 0 .. job.pp - 1, p = IF job.mode = "megatron" THEN job.pp - 1 ELSE 0
      PROVE  \E e : /\ Lists(e, job.dp, Q)
                    /\ \A i \in 1 .. job.dp : IsAt(World, job.tp, job.dp, e[i], 0, i - 1, p)
  <2>1. Q = FirstsOf(World, job.tp, job.dp, p)
    BY <1>5 DEF Collects, FirstsOf, TP, PP, Ranks
  <2> HIDE DEF Q
  <2> QED BY <1>1, <1>5, <2>1, FirstLists
<1>6. PICK p \in 0 .. job.pp - 1 : p = IF job.mode = "megatron" THEN job.pp - 1 ELSE 0
  BY <1>1
<1>7. CASE job.mode # "dp"
  <2>1. PICK e : /\ Lists(e, job.dp, Q)
                 /\ \A i \in 1 .. job.dp : IsAt(World, job.tp, job.dp, e[i], 0, i - 1, p)
    BY <1>5, <1>6, <1>7
  <2>2. ASSUME NEW i \in 1 .. job.dp PROVE DP(e[i]) = i - 1 /\ i - 1 \in Nat
    BY <1>1, <2>1 DEF IsAt, DP
  <2>3. CASE job.mode = "megatron"
    <3>1. \A i \in 1 .. job.dp : Home(e[i]) = (i - 1) * HomeSize
      BY <2>2, <2>3 DEF Home, HomeSize, Given, ShareOf
    <3>2. job.dp * HomeSize = Shares * Size
      BY <2>3 DEF HomeSize, Shares
    <3> QED BY <1>1, <1>3, <2>1, <3>1, <3>2
  <2>4. CASE job.mode = "pp_as_dp"
    <3>1. \A i \in 1 .. job.dp : Home(e[i]) = (i - 1) * HomeSize
      <4>1. \A x \in Nat : (x * job.pp) * Size = x * (job.pp * Size)
        BY <1>1, Products
      <4> QED BY <2>2, <2>4, <4>1 DEF Home, HomeSize
    <3>2. job.dp * HomeSize = Shares * Size
      <4>1. (job.dp * job.pp) * Size = job.dp * (job.pp * Size)
        BY <1>1, Products
      <4> QED BY <2>4, <4>1 DEF HomeSize, Shares
    <3> QED BY <1>1, <1>3, <2>1, <3>1, <3>2
  <2> QED BY <1>1, <1>7, <2>3, <2>4
<1> QED BY <1>4, <1>7

\* The invariant of a rank at where, with its rows, heap, micro-batches and results.
Working == {"count", "reduce", "split", "merge", "forward"}
Holds(r, where, ro, states, parts, answers) ==
  /\ where = "preprocess" => Piece(Places, ro, Sent, Given(r), Size)
  /\ where \in Working => Piece(Places, ro, Sent, From(r), Many)
  /\ where \in Working \cup {"postprocess"} /\ job.mode # "dp" => Size % job.group = 0
  /\ where = "merge" => /\ job.tokens > 0 /\ IsFiniteSet(states)
                        /\ \E k \in Nat \ {0} : Balanced(states, Lens(ro), k)
  /\ where = "forward" => /\ Permutes(FlattenSeq(parts), Many)
                          /\ job.tokens = 0 => \A i \in 1 .. Many : FlattenSeq(parts)[i] = i
  /\ where = "postprocess" => Piece(Results(Places), answers, Good, From(r), Many)
  /\ where = "done" => Piece(Results(Places), answers, Good, Home(r), HomeSize)
RankOK(r) == Holds(r, rpc[r], rows[r], heap[r], micro[r], out[r])

\* What a rank's steps need of the driver, and leave as it is.
DataOK ==
  /\ job \in Jobs /\ batch \in Seq(Places)
  /\ DOMAIN heap = Ranks /\ DOMAIN micro = Ranks /\ DOMAIN out = Ranks

\* As long as the job and the batch are the same, it is enough to look at what the
\* rank now has.
LEMMA SameBatch ==
  ASSUME job' = job, batch' = batch
  PROVE  /\ Ranks' = Ranks /\ Places' = Places
         /\ \A r, where, ro, states, parts, answers :
              /\ rpc'[r] = where /\ rows'[r] = ro /\ heap'[r] = states /\ micro'[r] = parts
              /\ out'[r] = answers /\ Holds(r, where, ro, states, parts, answers)
              => RankOK(r)'
<1>1. World' = World /\ Ranks' = Ranks /\ Places' = Places /\ Sent' = Sent /\ Shares' = Shares
  BY DEF World, Ranks, Places, Sent, Shares
<1>2. Good' = Good /\ Size' = Size
  BY <1>1 DEF Good, Size
<1>3. Many' = Many /\ HomeSize' = HomeSize
  BY <1>2 DEF Many, HomeSize
<1>4. \A r : Given(r)' = Given(r) /\ From(r)' = From(r) /\ Home(r)' = Home(r)
  BY <1>2, <1>3 DEF Given, From, Home, ShareOf, DP, PP
<1>5. ASSUME NEW r, NEW where, NEW ro, NEW states, NEW parts, NEW answers,
             rpc'[r] = where, rows'[r] = ro, heap'[r] = states, micro'[r] = parts, out'[r] = answers,
             Holds(r, where, ro, states, parts, answers)
      PROVE  RankOK(r)'
  <2>1. Lens(rows[r])' = Lens(ro)
    BY <1>5 DEF Lens
  <2> QED BY <1>1, <1>2, <1>3, <1>4, <1>5, <2>1 DEF Holds, RankOK
<1> QED BY <1>1, <1>5

\* Nor does a rank change that no step touches.
LEMMA SameRank ==
  ASSUME job' = job, batch' = batch, NEW r, RankOK(r),
         rpc'[r] = rpc[r], rows'[r] = rows[r], heap'[r] = heap[r], micro'[r] = micro[r], out'[r] = out[r]
  PROVE  RankOK(r)'
BY SameBatch DEF RankOK

\* What a step starts from, and must arrive at.
RanksOK == DataOK /\ \A r \in Ranks : RankOK(r)

\* The sizes of a batch on its way are numbers.
LEMMA BatchIs ==
  ASSUME DataOK
  PROVE  JobRanks /\ Len(batch) \in Nat /\ Size \in Nat /\ Many \in Nat /\ HomeSize \in Nat
         /\ \A r \in Ranks : Given(r) \in Nat /\ From(r) \in Nat /\ Home(r) \in Nat
<1>1. JobRanks /\ Len(batch) \in Nat
  BY JobRanksAre DEF DataOK
<1> QED BY <1>1, SizesAre

\* preprocess_data
LEMMA PreprocessKeeps ==
  ASSUME RanksOK, NEW r \in Ranks, Preprocess(r) PROVE RanksOK'
<1>1. /\ job' = job /\ batch' = batch /\ heap' = heap /\ micro' = micro /\ out' = out
      /\ \A q \in Group(r) : rpc[q] = "preprocess" /\ (job.mode # "dp" => Len(rows[q]) % job.group = 0)
      /\ \A q \in Ranks : rows'[q] =
           IF q \notin Group(r) THEN rows[q]
           ELSE IF job.mode = "dp" THEN Joined(rows, Group(r))
           ELSE Chunk(rows[q], job.group, q % job.group)
      /\ \A q \in Ranks : rpc'[q] = IF q \in Group(r) THEN (IF job.tokens > 0 THEN "count" ELSE "split") ELSE rpc[q]
  BY DEF Preprocess, GoTo, driver
<1>2. Ranks' = Ranks /\ Places' = Places
  BY <1>1, SameBatch
<1>3. DataOK'
  BY <1>1, <1>2 DEF RanksOK, DataOK
<1>4. JobRanks /\ Len(batch) \in Nat /\ Size \in Nat
  BY BatchIs DEF RanksOK
<1>5. \A q \in Group(r) : q \in Ranks /\ Piece(Places, rows[q], Sent, Given(q), Size)
  BY <1>1 DEF RanksOK, RankOK, Holds, Group
<1>6. ASSUME NEW q \in Group(r) PROVE RankOK(q)'
  <2>1. job.mode # "dp" => Size % job.group = 0
    <3>1. Len(rows[q]) = Size
      BY <1>5 DEF Piece
    <3> QED BY <1>1, <3>1
  <2>2. Piece(Places, rows'[q], Sent, From(q), Many)
    <3>1. CASE job.mode = "dp"
      <4>1. Piece(Places, Joined(rows, Group(r)), Sent, From(q), Many)
        BY <1>4, <1>5, <3>1, GatheredIs
      <4> QED BY <1>1, <1>5, <3>1, <4>1
    <3>2. CASE job.mode # "dp"
      <4>1. Piece(Places, Chunk(rows[q], job.group, q % job.group), Sent, From(q), Many)
        BY <1>4, <1>5, <2>1, <3>2, TakenIs
      <4> QED BY <1>1, <1>5, <3>2, <4>1
    <3> QED BY <3>1, <3>2
  <2>3. rpc'[q] \in {"count", "split"}
    BY <1>1, <1>5
  <2>4. Holds(q, rpc'[q], rows'[q], heap'[q], micro'[q], out'[q])
    BY <2>1, <2>2, <2>3 DEF Holds, Working
  <2> QED BY <1>1, <2>4, SameBatch
<1>7. ASSUME NEW q \in Ranks, q \notin Group(r) PROVE RankOK(q)'
  <2>1. rpc'[q] = rpc[q] /\ rows'[q] = rows[q]
    BY <1>1, <1>7
  <2> QED BY <1>1, <2>1, SameRank DEF RanksOK
<1> QED BY <1>2, <1>3, <1>6, <1>7 DEF RanksOK

\* What changes no more than a rank's own state.
LEMMA OnlyRank ==
  ASSUME RanksOK, NEW r \in Ranks, UNCHANGED driver, rows' = rows,
         DOMAIN heap' = Ranks, DOMAIN micro' = Ranks, DOMAIN out' = Ranks,
         Holds(r, rpc'[r], rows[r], heap'[r], micro'[r], out'[r]),
         \A q \in Ranks \ {r} : rpc'[q] = rpc[q] /\ heap'[q] = heap[q] /\ micro'[q] = micro[q] /\ out'[q] = out[q]
  PROVE  RanksOK'
<1>1. job' = job /\ batch' = batch
  BY DEF driver
<1>2. Ranks' = Ranks /\ Places' = Places
  BY <1>1, SameBatch
<1>3. RankOK(r)'
  BY <1>1, SameBatch
<1>4. \A q \in Ranks \ {r} : RankOK(q)'
  BY <1>1, SameRank DEF RanksOK
<1>5. DataOK'
  BY <1>1, <1>2 DEF RanksOK, DataOK
<1> QED BY <1>2, <1>3, <1>4, <1>5 DEF RanksOK

\* rearrange_micro_batches: the number of them, and their balance.
LEMMA CountKeeps ==
  ASSUME RanksOK, NEW r \in Ranks, Count(r) PROVE RanksOK'
<1>1. /\ rpc[r] = "count" /\ UNCHANGED driver /\ rows' = rows /\ heap' = heap /\ micro' = micro /\ out' = out
      /\ rpc'[r] = "reduce" /\ \A q \in Ranks \ {r} : rpc'[q] = rpc[q]
  BY DEF Count, GoTo
<1>2. Holds(r, rpc'[r], rows[r], heap'[r], micro'[r], out'[r])
  BY <1>1 DEF Holds, Working, RanksOK, RankOK
<1> QED BY <1>1, <1>2, OnlyRank DEF RanksOK, DataOK

\* The largest of their numbers changes no rows.
LEMMA AllReduceKeeps == ASSUME RanksOK, AllReduce PROVE RanksOK'
<1>1. /\ job' = job /\ batch' = batch /\ rows' = rows /\ heap' = heap /\ micro' = micro /\ out' = out
      /\ \A r \in Ranks : rpc[r] = "reduce" /\ rpc'[r] = "split"
  BY DEF AllReduce, GoTo, driver
<1>2. Ranks' = Ranks /\ Places' = Places
  BY <1>1, SameBatch
<1>3. ASSUME NEW r \in Ranks PROVE RankOK(r)'
  <2>1. Holds(r, rpc'[r], rows[r], heap'[r], micro'[r], out'[r])
    BY <1>1 DEF Holds, Working, RanksOK, RankOK
  <2> QED BY <1>1, <2>1, SameBatch
<1>4. DataOK'
  BY <1>1, <1>2 DEF RanksOK, DataOK
<1> QED BY <1>2, <1>3, <1>4 DEF RanksOK

\* The tokens of a list of rows.
LEMMA LensAre ==
  ASSUME JobRanks, NEW ro \in Seq(Places)
  PROVE  Lens(ro) \in Seq(Nat) /\ DOMAIN Lens(ro) = 1 .. Len(ro)
<1>1. \A i \in DOMAIN ro : ro[i] \in Places
  OBVIOUS
<1>2. \A n \in Places : job.lens[n] \in Nat
  BY DEF JobRanks
<1>3. Len(ro) \in Nat /\ DOMAIN ro = 1 .. Len(ro)
  OBVIOUS
<1>4. Lens(ro) \in [1 .. Len(ro) -> Nat]
  BY <1>1, <1>2, <1>3 DEF Lens
<1> QED BY <1>3, <1>4

\* The heaps of karmarkar_karp are finite.
LEMMA FiniteHeaps ==
  ASSUME NEW lens \in Seq(Nat), NEW k \in Nat \ {0}
  PROVE  /\ IsFiniteSet(Singles(lens, k))
         /\ \A states \in Groups(lens, k) : IsFiniteSet(states)
<1>1. DOMAIN lens = 1 .. Len(lens) /\ Len(lens) \in Nat /\ Len(lens) \div k \in Nat
  <2>1. DOMAIN lens = 1 .. Len(lens) /\ Len(lens) \in Nat
    OBVIOUS
  <2> QED BY <2>1, Division
<1>2. IsFiniteSet(1 .. Len(lens)) /\ IsFiniteSet(1 .. Len(lens) \div k)
  BY <1>1, FS_Interval
<1>3. ASSUME NEW D, IsFiniteSet(D), NEW f, NEW Q, Q = {f[x] : x \in D} PROVE IsFiniteSet(Q)
  <2>1. [x \in D |-> f[x]] \in Surjection(D, Q)
    BY <1>3 DEF Surjection
  <2> QED BY <1>3, <2>1, FS_Surjection
<1>4. IsFiniteSet(Singles(lens, k))
  <2> DEFINE f == [i \in DOMAIN lens |-> [j \in 1 .. k |-> IF j = 1 THEN Single(i, lens[i]) ELSE Empty]]
  <2>1. Singles(lens, k) = {f[i] : i \in 1 .. Len(lens)}
    BY <1>1 DEF Singles
  <2> HIDE DEF f
  <2> QED BY <1>2, <1>3, <2>1
<1>5. ASSUME NEW states \in Groups(lens, k) PROVE IsFiniteSet(states)
  <2>1. PICK p \in Ascending(lens) :
          states = {[j \in 1 .. k |-> Single(p[g * k - j + 1], lens[p[g * k - j + 1]])] : g \in 1 .. (Len(lens) \div k)}
    BY DEF Groups
  <2> DEFINE f == [g \in 1 .. (Len(lens) \div k) |->
                     [j \in 1 .. k |-> Single(p[g * k - j + 1], lens[p[g * k - j + 1]])]]
  <2>2. states = {f[g] : g \in 1 .. (Len(lens) \div k)}
    BY <2>1, Zenon
  <2> HIDE DEF f
  <2> QED BY <1>2, <1>3, <2>2
<1> QED BY <1>4, <1>5

\* A round leaves the heap finite.
LEMMA FiniteRounds ==
  ASSUME NEW states, IsFiniteSet(states), NEW next \in Merged(states) PROVE IsFiniteSet(next)
<1>1. PICK s, t, m : /\ s \in states /\ t \in states /\ s # t
                     /\ m \in Sorted(Merge(s, t))
                     /\ next = (states \ {s, t}) \cup {m}
  BY MergedIs
<1>2. IsFiniteSet(states \ {s, t})
  BY FS_Difference
<1> QED BY <1>1, <1>2, FS_AddElement

\* karmarkar_karp starts from one State per row ...
LEMMA SplitKeeps ==
  ASSUME RanksOK, NEW r \in Ranks, Split(r) PROVE RanksOK'
<1>1. /\ rpc[r] = "split" /\ job.tokens > 0 /\ count[r] \in 1 .. Len(rows[r])
      /\ UNCHANGED driver /\ rows' = rows /\ micro' = micro /\ out' = out
      /\ rpc'[r] = "merge" /\ \A q \in Ranks \ {r} : rpc'[q] = rpc[q]
      /\ heap' = [heap EXCEPT ![r] = Singles(Lens(rows[r]), count[r])]
  BY DEF Split, GoTo, InitialHeaps
<1>2. /\ DOMAIN heap' = Ranks /\ heap'[r] = Singles(Lens(rows[r]), count[r])
      /\ \A q \in Ranks \ {r} : heap'[q] = heap[q]
  BY <1>1 DEF RanksOK, DataOK
<1>3. Piece(Places, rows[r], Sent, From(r), Many) /\ (job.mode # "dp" => Size % job.group = 0)
  BY <1>1 DEF RanksOK, RankOK, Holds, Working
<1>4. Lens(rows[r]) \in Seq(Nat) /\ count[r] \in Nat \ {0}
  <2>1. rows[r] \in Seq(Places)
    BY <1>3 DEF Piece
  <2> QED BY <1>1, <2>1, LensAre, BatchIs DEF RanksOK
<1>5. IsFiniteSet(heap'[r]) /\ Balanced(heap'[r], Lens(rows[r]), count[r])
  BY <1>2, <1>4, FiniteHeaps, MicroBatchesBalanced
<1>6. Holds(r, rpc'[r], rows[r], heap'[r], micro'[r], out'[r])
  BY <1>1, <1>3, <1>4, <1>5 DEF Holds, Working
<1> QED BY <1>1, <1>2, <1>6, OnlyRank DEF RanksOK, DataOK

\* ... merges two of them ...
LEMMA MergeSetsKeeps ==
  ASSUME RanksOK, NEW r \in Ranks, MergeSets(r) PROVE RanksOK'
<1>1. /\ rpc[r] = "merge" /\ UNCHANGED driver /\ rpc' = rpc /\ rows' = rows /\ micro' = micro /\ out' = out
      /\ \E h \in Merged(heap[r]) : heap' = [heap EXCEPT ![r] = h]
  BY DEF MergeSets
<1>2. /\ DOMAIN heap' = Ranks /\ heap'[r] \in Merged(heap[r])
      /\ \A q \in Ranks \ {r} : heap'[q] = heap[q]
  BY <1>1 DEF RanksOK, DataOK
<1>3. /\ Piece(Places, rows[r], Sent, From(r), Many) /\ (job.mode # "dp" => Size % job.group = 0)
      /\ job.tokens > 0 /\ IsFiniteSet(heap[r])
  BY <1>1 DEF RanksOK, RankOK, Holds, Working
<1>4. PICK k \in Nat \ {0} : Balanced(heap[r], Lens(rows[r]), k)
  BY <1>1 DEF RanksOK, RankOK, Holds
<1>5. Lens(rows[r]) \in Seq(Nat)
  <2>1. rows[r] \in Seq(Places)
    BY <1>3 DEF Piece
  <2> QED BY <2>1, LensAre, BatchIs DEF RanksOK
<1>6. IsFiniteSet(heap'[r]) /\ Balanced(heap'[r], Lens(rows[r]), k)
  BY <1>2, <1>3, <1>4, <1>5, FiniteRounds, MicroBatchesBalanced
<1>7. Holds(r, rpc'[r], rows[r], heap'[r], micro'[r], out'[r])
  BY <1>1, <1>3, <1>6 DEF Holds, Working
<1> QED BY <1>1, <1>2, <1>7, OnlyRank DEF RanksOK, DataOK

\* The State that is left.
LEMMA LastState ==
  ASSUME NEW states, IsFiniteSet(states), Cardinality(states) = 1
  PROVE  \E s : states = {s} /\ (CHOOSE x \in states : TRUE) = s
<1>1. PICK s : states = {s}
  BY FS_Singleton
<1> QED BY <1>1

\* ... and the Sets of the last are the micro-batches, which have each row once.
LEMMA ArrangeKeeps ==
  ASSUME RanksOK, NEW r \in Ranks, Arrange(r) PROVE RanksOK'
<1>1. /\ rpc[r] = "merge" /\ Cardinality(heap[r]) = 1
      /\ UNCHANGED driver /\ rows' = rows /\ heap' = heap /\ out' = out
      /\ rpc'[r] = "forward" /\ \A q \in Ranks \ {r} : rpc'[q] = rpc[q]
      /\ micro' = [micro EXCEPT ![r] = Partitions(CHOOSE s \in heap[r] : TRUE)]
  BY DEF Arrange, GoTo
<1>2. /\ DOMAIN micro' = Ranks /\ micro'[r] = Partitions(CHOOSE s \in heap[r] : TRUE)
      /\ \A q \in Ranks \ {r} : micro'[q] = micro[q]
  BY <1>1 DEF RanksOK, DataOK
<1>3. /\ Piece(Places, rows[r], Sent, From(r), Many) /\ (job.mode # "dp" => Size % job.group = 0)
      /\ job.tokens > 0 /\ IsFiniteSet(heap[r])
  BY <1>1 DEF RanksOK, RankOK, Holds, Working
<1>4. PICK k \in Nat \ {0} : Balanced(heap[r], Lens(rows[r]), k)
  BY <1>1 DEF RanksOK, RankOK, Holds
<1>5. PICK s : heap[r] = {s} /\ (CHOOSE x \in heap[r] : TRUE) = s
  BY <1>1, <1>3, LastState
<1>6. DOMAIN Lens(rows[r]) = 1 .. Many /\ Many \in Nat
  <2>1. rows[r] \in Seq(Places) /\ Len(rows[r]) = Many
    BY <1>3 DEF Piece
  <2> QED BY <2>1, LensAre, BatchIs DEF RanksOK
<1>7. Permutes(FlattenSeq(Partitions(s)), Many)
  BY <1>4, <1>5, <1>6, PartitionsPermute DEF Balanced
<1>8. Holds(r, rpc'[r], rows[r], heap'[r], micro'[r], out'[r])
  BY <1>1, <1>2, <1>3, <1>5, <1>7 DEF Holds, Working
<1> QED BY <1>1, <1>2, <1>8, OnlyRank DEF RanksOK, DataOK

\* batch.split(micro_batch_size)
LEMMA SplitFixedKeeps ==
  ASSUME RanksOK, NEW r \in Ranks, SplitFixed(r) PROVE RanksOK'
<1> DEFINE n == Len(rows[r])
           parts == [b \in 1 .. (n + job.micro - 1) \div job.micro |->
                       [i \in 1 .. Min({job.micro, n - (b - 1) * job.micro}) |-> (b - 1) * job.micro + i]]
<1>1. /\ rpc[r] = "split" /\ job.tokens = 0
      /\ UNCHANGED driver /\ rows' = rows /\ heap' = heap /\ out' = out
      /\ rpc'[r] = "forward" /\ \A q \in Ranks \ {r} : rpc'[q] = rpc[q]
      /\ micro' = [micro EXCEPT ![r] = parts]
  BY DEF SplitFixed, GoTo
<1>2. Permutes(FlattenSeq(parts), Many) /\ \A i \in 1 .. Many : FlattenSeq(parts)[i] = i
  <2>1. Piece(Places, rows[r], Sent, From(r), Many)
    BY <1>1 DEF RanksOK, RankOK, Holds, Working
  <2>2. n = Many /\ Many \in Nat /\ job.micro \in Nat \ {0}
    BY <2>1, BatchIs DEF Piece, RanksOK, JobRanks
  <2>3. parts = Fixed(n, job.micro)
    BY DEF Fixed
  <2> HIDE DEF parts, n
  <2>4. Permutes(FlattenSeq(parts), n) /\ \A i \in 1 .. n : FlattenSeq(parts)[i] = i
    BY <2>2, <2>3, FixedAreInOrder
  <2> QED BY <2>2, <2>4
<1> HIDE DEF parts, n
<1>3. DOMAIN micro' = Ranks /\ micro'[r] = parts /\ \A q \in Ranks \ {r} : micro'[q] = micro[q]
  BY <1>1 DEF RanksOK, DataOK
<1>4. Holds(r, rpc'[r], rows[r], heap'[r], micro'[r], out'[r])
  BY <1>1, <1>2, <1>3 DEF Holds, Working, RanksOK, RankOK
<1> QED BY <1>1, <1>3, <1>4, OnlyRank DEF RanksOK, DataOK

\* _forward_micro_batch
LEMMA ForwardKeeps ==
  ASSUME RanksOK, NEW r \in Ranks, Forward(r) PROVE RanksOK'
<1>1. /\ UNCHANGED driver /\ rows' = rows /\ heap' = heap /\ micro' = micro /\ out' = out /\ rpc' = rpc
  BY DEF Forward
<1>2. Holds(r, rpc'[r], rows[r], heap'[r], micro'[r], out'[r])
  BY <1>1 DEF RanksOK, RankOK
<1> QED BY <1>1, <1>2, OnlyRank DEF RanksOK, DataOK

\* The results go back into the order of the rows.
LEMMA RevertKeeps ==
  ASSUME RanksOK, NEW r \in Ranks, Revert(r) PROVE RanksOK'
<1> DEFINE idx == FlattenSeq(micro[r])
           values == [i \in DOMAIN idx |->
                        [row |-> rows[r][idx[i]], mask |-> rows[r][IF job.masks THEN i ELSE idx[i]]]]
           answers == IF job.tokens > 0 THEN Restored(values, idx) ELSE values
<1>1. /\ rpc[r] = "forward"
      /\ UNCHANGED driver /\ rows' = rows /\ heap' = heap /\ micro' = micro
      /\ rpc'[r] = "postprocess" /\ \A q \in Ranks \ {r} : rpc'[q] = rpc[q]
      /\ out' = [out EXCEPT ![r] = answers]
  BY DEF Revert, GoTo
<1>2. /\ Piece(Places, rows[r], Sent, From(r), Many) /\ Permutes(idx, Many)
      /\ job.tokens = 0 => \A i \in 1 .. Many : idx[i] = i
      /\ job.mode # "dp" => Size % job.group = 0
  BY <1>1 DEF RanksOK, RankOK, Holds, Working
<1>3. /\ Many \in Nat /\ From(r) \in Nat /\ job.tokens \in Nat /\ job.masks \in BOOLEAN
  BY BatchIs DEF RanksOK, JobRanks
<1>4. Piece(Results(Places), answers, Good, From(r), Many)
  <2> DEFINE masks == job.masks
             dynamic == (job.tokens > 0)
  <2>1. masks \in BOOLEAN /\ dynamic \in BOOLEAN
    BY <1>3
  <2>2. ~dynamic => \A i \in 1 .. Many : idx[i] = i
    BY <1>2, <1>3
  <2>3. Good = Rightly(Places, Sent, ~(masks /\ dynamic))
    BY DEF Good
  <2>4. answers = IF dynamic THEN Restored(values, idx) ELSE values
    OBVIOUS
  <2>5. values = [i \in DOMAIN idx |-> [row |-> rows[r][idx[i]], mask |-> rows[r][IF masks THEN i ELSE idx[i]]]]
    OBVIOUS
  <2>6. PICK ro, ix, vs : ro = rows[r] /\ ix = idx /\ vs = values
    OBVIOUS
  <2> HIDE DEF idx, values, answers, masks, dynamic
  <2>7. vs = [i \in DOMAIN ix |-> [row |-> ro[ix[i]], mask |-> ro[IF masks THEN i ELSE ix[i]]]]
    BY <2>5, <2>6
  <2>8. Piece(Places, ro, Sent, From(r), Many) /\ Permutes(ix, Many)
        /\ (~dynamic => \A i \in 1 .. Many : ix[i] = i)
    BY <1>2, <2>2, <2>6
  <2>9. Piece(Results(Places), IF dynamic THEN Restored(vs, ix) ELSE vs,
              Rightly(Places, Sent, ~(masks /\ dynamic)), From(r), Many)
    BY <1>3, <2>1, <2>7, <2>8, RevertIs, SMTT(30)
  <2> QED BY <2>3, <2>4, <2>6, <2>9
<1> HIDE DEF answers
<1>5. DOMAIN out' = Ranks /\ out'[r] = answers /\ \A q \in Ranks \ {r} : out'[q] = out[q]
  BY <1>1 DEF RanksOK, DataOK
<1>6. Holds(r, rpc'[r], rows[r], heap'[r], micro'[r], out'[r])
  BY <1>1, <1>2, <1>4, <1>5 DEF Holds, Working
<1> QED BY <1>1, <1>5, <1>6, OnlyRank DEF RanksOK, DataOK

\* postprocess_data
LEMMA PostprocessKeeps ==
  ASSUME RanksOK, NEW r \in Ranks, Postprocess(r) PROVE RanksOK'
<1> DEFINE peers == IF job.mode = "dp" THEN {r} ELSE Partners(r)
           whole == [q \in Ranks |-> Joined(out, Group(q))]
<1>1. /\ job' = job /\ batch' = batch /\ rows' = rows /\ heap' = heap /\ micro' = micro
      /\ \A q \in peers : rpc[q] = "postprocess"
      /\ DOMAIN out' = Ranks
      /\ \A q \in Ranks : out'[q] =
           IF q \notin peers THEN out[q]
           ELSE IF job.mode = "dp" THEN Chunk(out[q], job.group, q % job.group)
           ELSE IF job.mode = "pp_as_dp" THEN Joined(whole, Stages(q))
           ELSE out[q]
      /\ \A q \in Ranks : rpc'[q] = IF q \in peers THEN "done" ELSE rpc[q]
  BY DEF Postprocess, GoTo, driver, Stages
<1>2. Ranks' = Ranks /\ Places' = Places
  BY <1>1, SameBatch
<1>3. DataOK'
  BY <1>1, <1>2 DEF RanksOK, DataOK
<1>4. JobRanks /\ Len(batch) \in Nat /\ job.mode \in {"dp", "megatron", "pp_as_dp"}
  BY BatchIs DEF RanksOK, JobRanks
<1>5. peers \subseteq Ranks
  BY DEF Partners
<1>6. \A q \in peers : /\ Piece(Results(Places), out[q], Good, From(q), Many)
                       /\ job.mode # "dp" => Size % job.group = 0
  BY <1>1, <1>5 DEF RanksOK, RankOK, Holds
<1>7. ASSUME NEW q \in peers PROVE Piece(Results(Places), out'[q], Good, Home(q), HomeSize)
  <2>1. CASE job.mode = "dp"
    <3>1. Piece(Results(Places), Chunk(out[q], job.group, q % job.group), Good, Home(q), HomeSize)
      BY <1>4, <1>5, <1>6, <2>1, KeptIs
    <3> QED BY <1>1, <1>5, <2>1, <3>1
  <2>2. CASE job.mode = "megatron"
    <3>1. From(q) = Home(q) /\ Many = HomeSize
      BY <1>4, <1>5, <2>2, AloneIs
    <3> QED BY <1>1, <1>5, <1>6, <2>2, <3>1
  <2>3. CASE job.mode = "pp_as_dp"
    <3>1. \A p \in Stages(q) : p \in Ranks /\ DP(p) = DP(r)
      BY <1>5, <2>3 DEF Stages, Partners
    <3>2. \A p \in Stages(q) : \A o \in Group(p) : o \in peers
      <4>1. \A p \in Stages(q) : \A o \in Group(p) : o \in Ranks /\ DP(o) = DP(r)
        BY <1>4, <2>3, <3>1, GroupSharesData
      <4> QED BY <2>3, <4>1 DEF Partners
    <3>3. ASSUME NEW p \in Stages(q) PROVE Piece(Results(Places), whole[p], Good, Given(p), Size)
      <4>1. \A o \in Group(p) : Piece(Results(Places), out[o], Good, From(o), Many)
        BY <1>6, <3>2
      <4>2. Size % job.group = 0
        BY <1>6, <2>3
      <4>3. Piece(Results(Places), Joined(out, Group(p)), Good, Given(p), Size)
        BY <1>4, <2>3, <3>1, <4>1, <4>2, WholeIs
      <4> QED BY <3>1, <4>3
    <3> HIDE DEF whole, peers
    <3>4. Piece(Results(Places), Joined(whole, Stages(q)), Good, Home(q), HomeSize)
      BY <1>4, <1>5, <2>3, <3>3, StagesAre
    <3> QED BY <1>1, <1>5, <2>3, <3>4
  <2> QED BY <1>4, <2>1, <2>2, <2>3
<1> HIDE DEF whole, peers
<1>8. ASSUME NEW q \in peers PROVE RankOK(q)'
  <2>1. Holds(q, rpc'[q], rows'[q], heap'[q], micro'[q], out'[q])
    BY <1>1, <1>5, <1>7 DEF Holds, Working
  <2> QED BY <1>1, <2>1, SameBatch
<1>9. ASSUME NEW q \in Ranks, q \notin peers PROVE RankOK(q)'
  <2>1. rpc'[q] = rpc[q] /\ out'[q] = out[q]
    BY <1>1, <1>9
  <2> QED BY <1>1, <2>1, SameRank DEF RanksOK
<1> QED BY <1>2, <1>3, <1>8, <1>9 DEF RanksOK

\* Every step of a rank.
LEMMA RankStepKeeps ==
  ASSUME RanksOK, NEW r \in Ranks, Rank(r) PROVE RanksOK'
BY PreprocessKeeps, CountKeeps, SplitKeeps, MergeSetsKeeps, ArrangeKeeps, SplitFixedKeeps, ForwardKeeps,
   RevertKeeps, PostprocessKeeps DEF Rank

-----------------------------------------------------------------------------
(* The driver's part. *)

\* pad_dataproto_to_divisor adds no more rows than there are, so that what
\* unpad_dataproto takes away is what was added.  With fewer rows than half the
\* ranks it adds fewer than pad_size (protocol.py:53).
Repeatable == job.mode = "dp" \/ padding <= Len(job.lens)

DriverOK ==
  /\ padding \in Nat
  /\ pc \in {"pad", "balance", "dispatch"} => \A r \in Ranks : rpc[r] = "idle"
  /\ pc \in {"pad", "balance"} => padding = 0 /\ Len(batch) = Len(job.lens)
  /\ pc = "balance" => IsFiniteSet(dheap)
  /\ pc = "dispatch" =>
       Len(batch) = IF padding <= Len(job.lens) THEN Len(job.lens) + padding ELSE Len(job.lens) + Len(job.lens)
  /\ pc = "dispatch" /\ ~(padding <= Len(job.lens)) => Len(job.lens) + Len(job.lens) < World
  /\ pc \in {"wait", "done"} => Len(batch) % Shares = 0 /\ (Repeatable => Len(batch) = Len(job.lens) + padding)
  /\ pc = "done" /\ Repeatable => Piece(Results(Places), result, Good, 0, Len(job.lens))
HomeInv == BalanceInv /\ RanksOK /\ DriverOK

\* A number below another is its remainder.
LEMMA SmallRemainder == ASSUME NEW d \in Nat \ {0}, NEW x \in 0 .. d - 1 PROVE x % d = x
OBVIOUS

\* pad_size, against the rows there are.
LEMMA PaddingIs ==
  ASSUME NEW W \in Nat \ {0}, NEW L \in Nat, NEW p, p = (W - (L % W)) % W
  PROVE  p \in Nat /\ (~(p <= L) => L + L < W)
<1>1. PICK q \in Nat, m \in 0 .. W - 1 : q = L \div W /\ m = L % W /\ L = q * W + m
  <2>1. L \div W \in Nat /\ L % W \in 0 .. W - 1 /\ L = (L \div W) * W + (L % W)
    BY Division
  <2> QED BY <2>1, Zenon
<1>2. CASE m = 0
  <2>1. p = W % W
    BY <1>1, <1>2
  <2>2. W = 1 * W + 0
    OBVIOUS
  <2>3. W % W = 0
    BY <2>2, DivMod
  <2> QED BY <2>1, <2>3
<1>3. CASE m # 0
  <2>1. W - m \in 0 .. W - 1 /\ W - m \in Nat
    BY <1>3
  <2>2. p = W - m
    <3>1. PICK x \in 0 .. W - 1 : x = W - m
      BY <2>1
    <3>2. x % W = x
      BY SmallRemainder
    <3> QED BY <1>1, <3>1, <3>2
  <2>3. ASSUME ~(p <= L) PROVE L = m
    <3>1. q = 0
      <4> SUFFICES ASSUME q # 0 PROVE FALSE
        OBVIOUS
      <4>1. 1 * W <= q * W
        BY TimesMono
      <4>2. PICK x \in Nat : x = q * W
        BY Products
      <4> QED BY <1>1, <2>1, <2>2, <2>3, <4>1, <4>2
    <3>2. 0 * W = 0
      OBVIOUS
    <3> QED BY <1>1, <3>1, <3>2
  <2> QED BY <2>1, <2>2, <2>3
<1> QED BY <1>2, <1>3

\* Nothing is held before the driver dispatches.
LEMMA IdleHolds ==
  ASSUME DataOK, job' = job, batch' \in Seq(Places), \A r \in Ranks : rpc[r] = "idle", UNCHANGED <<rpc, work>>
  PROVE  RanksOK'
<1>1. Ranks' = Ranks /\ Places' = Places
  BY DEF Ranks, World, Places
<1>2. rpc' = rpc /\ heap' = heap /\ micro' = micro /\ out' = out
  BY DEF work
<1>3. DataOK'
  BY <1>1, <1>2 DEF DataOK
<1>4. ASSUME NEW r \in Ranks PROVE RankOK(r)'
  <2>1. rpc'[r] = "idle"
    BY <1>2
  <2> QED BY <2>1 DEF RankOK, Holds, Working
<1> QED BY <1>1, <1>3, <1>4 DEF RanksOK

\* Padding repeats rows from the first on.
LEMMA PadKeeps == ASSUME HomeInv, Pad PROVE RanksOK' /\ DriverOK'
<1>1. /\ pc = "pad" /\ job' = job /\ UNCHANGED <<rpc, work>> /\ pc' = "dispatch"
      /\ padding' = (World - (Len(batch) % World)) % World
      /\ batch' = batch \o SubSeq(batch, 1, Min({padding', Len(batch)}))
  BY DEF Pad
<1>2. /\ DataOK /\ batch \in Seq(Places) /\ \A r \in Ranks : rpc[r] = "idle"
      /\ Len(batch) = Len(job.lens)
  BY <1>1 DEF HomeInv, RanksOK, DriverOK, DataOK
<1>3. World \in Nat \ {0} /\ World' = World /\ Ranks' = Ranks /\ rpc' = rpc
  BY <1>1, <1>2, BatchIs DEF World, Ranks, JobRanks
<1>4. PICK L \in Nat, p \in Nat : L = Len(batch) /\ p = padding' /\ (~(p <= L) => L + L < World)
  <2>1. Len(batch) \in Nat
    BY <1>2
  <2> QED BY <1>1, <1>3, <2>1, PaddingIs
<1>5. PICK m \in 0 .. L : m = Min({p, L}) /\ m = IF p <= L THEN p ELSE L
  <2>1. p <= L => Min({p, L}) = p
    BY DEF Min
  <2>2. ~(p <= L) => Min({p, L}) = L
    BY DEF Min
  <2> QED BY <2>1, <2>2
<1>6. batch' \in Seq(Places) /\ Len(batch') = L + m
  <2>1. SubSeq(batch, 1, m) \in Seq(Places) /\ Len(SubSeq(batch, 1, m)) = m
    <3>1. \A i \in 1 .. m : batch[i] \in Places
      BY <1>2, <1>4
    <3> QED BY <3>1
  <2>2. PICK s \in Seq(Places) : s = SubSeq(batch, 1, m) /\ Len(s) = m
    BY <2>1
  <2>3. batch' = batch \o s
    BY <1>1, <1>4, <1>5, <2>2
  <2>4. PICK b \in Seq(Places) : b = batch /\ Len(b) = L
    BY <1>2, <1>4
  <2>5. b \o s \in Seq(Places) /\ Len(b \o s) = L + m
    BY <2>2, <2>4
  <2> QED BY <2>3, <2>4, <2>5
<1>7. RanksOK'
  BY <1>1, <1>2, <1>6, IdleHolds
<1>8. DriverOK'
  BY <1>1, <1>2, <1>3, <1>4, <1>5, <1>6 DEF DriverOK
<1> QED BY <1>7, <1>8

\* A round of the balancing leaves the batch alone ...
LEMMA BalanceMergeKeeps == ASSUME HomeInv, BalanceMerge PROVE RanksOK' /\ DriverOK'
<1>1. /\ pc = "balance" /\ job' = job /\ UNCHANGED <<rpc, work>> /\ pc' = pc /\ batch' = batch
      /\ padding' = padding /\ dheap' \in Merged(dheap)
  BY DEF BalanceMerge
<1>2. /\ DataOK /\ batch \in Seq(Places) /\ \A r \in Ranks : rpc[r] = "idle"
      /\ IsFiniteSet(dheap)
  BY <1>1 DEF HomeInv, RanksOK, DriverOK, DataOK
<1>3. Ranks' = Ranks /\ rpc' = rpc
  BY <1>1 DEF World, Ranks
<1>4. RanksOK'
  BY <1>1, <1>2, IdleHolds
<1>5. IsFiniteSet(dheap')
  BY <1>1, <1>2, FiniteRounds
<1>6. DriverOK'
  BY <1>1, <1>2, <1>3, <1>5 DEF DriverOK, HomeInv
<1> QED BY <1>4, <1>6

\* ... and its end puts the rows into another order.
LEMMA ReorderKeeps == ASSUME HomeInv, Reorder PROVE RanksOK' /\ DriverOK'
<1>1. /\ pc = "balance" /\ job' = job /\ UNCHANGED <<rpc, work>> /\ pc' = "dispatch"
      /\ padding' = padding /\ dheap' = dheap /\ Cardinality(dheap) = 1
      /\ batch' = FlattenSeq(Partitions(CHOOSE s \in dheap : TRUE))
  BY DEF Reorder
<1>2. /\ DataOK /\ \A r \in Ranks : rpc[r] = "idle"
      /\ IsFiniteSet(dheap) /\ Balancing(job, dheap, World) /\ padding = 0
  BY <1>1 DEF HomeInv, RanksOK, DriverOK, BalanceInv
<1>3. /\ World \in Nat \ {0} /\ Ranks' = Ranks /\ rpc' = rpc
      /\ DOMAIN job.lens = 1 .. Len(job.lens) /\ Len(job.lens) \in Nat
  BY <1>1, <1>2, BatchIs DEF World, Ranks, JobRanks
<1>4. PICK s : dheap = {s} /\ (CHOOSE x \in dheap : TRUE) = s
  BY <1>1, <1>2, LastState
<1>5. Permutes(batch', Len(job.lens))
  BY <1>1, <1>2, <1>3, <1>4, PartitionsPermute DEF Balancing
<1>6. batch' \in Seq(Places) /\ Len(batch') = Len(job.lens)
  BY <1>3, <1>5 DEF Permutes, Places
<1>7. RanksOK'
  BY <1>1, <1>2, <1>6, IdleHolds
<1>8. DriverOK'
  BY <1>1, <1>2, <1>3, <1>6 DEF DriverOK
<1> QED BY <1>7, <1>8

\* Dispatching gives every rank its share; with fewer rows than half the ranks it
\* fails.
LEMMA DispatchBatchKeeps == ASSUME HomeInv, DispatchBatch PROVE RanksOK' /\ DriverOK'
<1>1. /\ pc = "dispatch" /\ Len(batch) % Shares = 0 /\ job' = job /\ batch' = batch /\ pc' = "wait"
      /\ padding' = padding /\ heap' = heap /\ micro' = micro /\ out' = out
      /\ \A r \in Ranks : rpc'[r] = "preprocess" /\ rows'[r] = Chunk(batch, Shares, ShareOf(r))
  BY DEF DispatchBatch
<1>2. Ranks' = Ranks /\ Places' = Places /\ Shares' = Shares
  BY <1>1, SameBatch DEF Shares, World
<1>3. JobRanks /\ batch \in Seq(Places) /\ padding \in Nat /\ Len(job.lens) \in Nat /\ job.lens # << >>
  <2>1. job.lens # << >>
    BY JobAssumption DEF HomeInv, RanksOK, DataOK
  <2> QED BY <2>1, BatchIs DEF HomeInv, RanksOK, DataOK, DriverOK, JobRanks
<1>4. ASSUME NEW r \in Ranks PROVE RankOK(r)'
  <2>1. Piece(Places, rows'[r], Sent, Given(r), Size)
    BY <1>1, <1>3, DispatchedIs
  <2>2. Holds(r, rpc'[r], rows'[r], heap'[r], micro'[r], out'[r])
    BY <1>1, <2>1 DEF Holds, Working
  <2> QED BY <1>1, <2>2, SameBatch
<1>5. DataOK'
  BY <1>1, <1>2 DEF HomeInv, RanksOK, DataOK
<1>6. ASSUME Repeatable PROVE Len(batch) = Len(job.lens) + padding
  <2>1. CASE padding <= Len(job.lens)
    BY <1>1, <2>1 DEF HomeInv, DriverOK
  <2>2. CASE ~(padding <= Len(job.lens))
    <3>1. PICK L \in Nat \ {0} : L = Len(job.lens)
      BY <1>3
    <3>2. Len(batch) = L + L /\ L + L < World /\ World \in Nat \ {0} /\ Shares = World
      BY <1>1, <1>3, <1>6, <2>2, <3>1 DEF HomeInv, DriverOK, Repeatable, Shares, JobRanks
    <3>0. PICK W \in Nat \ {0} : W = World
      BY <3>2
    <3>3. PICK x \in 0 .. W - 1 : x = L + L
      BY <3>0, <3>2
    <3>4. x % W = x
      BY SmallRemainder
    <3>5. x % W = 0
      BY <1>1, <3>0, <3>2, <3>3
    <3> QED BY <3>3, <3>4, <3>5
  <2> QED BY <2>1, <2>2
<1>7. Repeatable' => Repeatable
  BY <1>1 DEF Repeatable
<1>8. DriverOK'
  BY <1>1, <1>2, <1>3, <1>6, <1>7 DEF DriverOK
<1> QED BY <1>2, <1>4, <1>5, <1>8 DEF RanksOK

\* What unpad_dataproto leaves is what was sent.
LEMMA CollectBatchKeeps == ASSUME HomeInv, CollectBatch PROVE RanksOK' /\ DriverOK'
<1> DEFINE all == Joined(out, {r \in Ranks : Collects(r)})
<1>1. /\ pc = "wait" /\ job' = job /\ batch' = batch /\ pc' = "done" /\ padding' = padding
      /\ rpc' = rpc /\ rows' = rows /\ heap' = heap /\ micro' = micro /\ out' = out
      /\ \A r \in Ranks : rpc[r] = "done"
      /\ result' = SubSeq(all, 1, Len(all) - padding)
  BY DEF CollectBatch, work
<1>2. Ranks' = Ranks /\ Places' = Places /\ Shares' = Shares
  BY <1>1, SameBatch DEF Shares, World
<1>3. /\ JobRanks /\ Len(batch) \in Nat /\ Len(batch) % Shares = 0 /\ padding \in Nat /\ Len(job.lens) \in Nat
      /\ Repeatable => Len(batch) = Len(job.lens) + padding
  BY <1>1, BatchIs DEF HomeInv, DriverOK, RanksOK, JobRanks
<1>4. \A r \in Ranks : Piece(Results(Places), out[r], Good, Home(r), HomeSize)
  BY <1>1 DEF HomeInv, RanksOK, RankOK, Holds
<1>5. Piece(Results(Places), all, Good, 0, Len(batch))
  BY <1>3, <1>4, CollectedIs
<1> HIDE DEF all
<1>6. ASSUME Repeatable PROVE Piece(Results(Places), result', Good, 0, Len(job.lens))
  <2>1. PICK L \in Nat : L = Len(job.lens) /\ Len(all) - padding = L /\ L <= Len(all)
    BY <1>3, <1>5, <1>6 DEF Piece
  <2>2. /\ all \in Seq(Results(Places)) /\ result' = SubSeq(all, 1, L)
        /\ \A i \in 1 .. Len(all) : all[i] \in Results(Places) /\ all[i] \in Good[0 + i]
    BY <1>1, <1>3, <1>5, <2>1, PieceIs DEF Piece
  <2>3. /\ Len(result') = L /\ result' \in Seq(Results(Places))
        /\ \A i \in 1 .. L : result'[i] = all[i]
    BY <2>1, <2>2
  <2> QED BY <2>1, <2>2, <2>3 DEF Piece
<1>7. Good' = Good /\ (Repeatable' => Repeatable)
  BY <1>1, <1>2 DEF Good, Sent, Repeatable
<1>8. RanksOK'
  <2>1. \A r \in Ranks : RankOK(r)'
    BY <1>1, SameRank DEF HomeInv, RanksOK
  <2>2. DataOK'
    BY <1>1, <1>2 DEF HomeInv, RanksOK, DataOK
  <2> QED BY <1>2, <2>1, <2>2 DEF RanksOK
<1>9. DriverOK'
  BY <1>1, <1>2, <1>3, <1>6, <1>7 DEF DriverOK
<1> QED BY <1>8, <1>9

-----------------------------------------------------------------------------
(* All of it. *)

\* The invariant holds when the driver calls ...
LEMMA HomeInit == Init => HomeInv
<1> SUFFICES ASSUME Init PROVE HomeInv
  OBVIOUS
<1>1. /\ job \in Jobs /\ batch = [i \in 1 .. Len(job.lens) |-> i] /\ padding = 0 /\ pc \in {"pad", "balance"}
      /\ \A r \in Ranks : rpc[r] = "idle"
      /\ DOMAIN heap = Ranks /\ DOMAIN micro = Ranks /\ DOMAIN out = Ranks
      /\ pc = "balance" => dheap \in Groups(job.lens, World)
  BY DEF Init, InitialHeaps
<1>2. JobRanks /\ Places = 1 .. Len(job.lens) /\ Len(job.lens) \in Nat /\ World \in Nat \ {0}
      /\ job.lens \in Seq(Nat)
  BY <1>1, JobRanksAre DEF JobRanks
<1>3. batch \in Seq(Places) /\ Len(batch) = Len(job.lens)
  BY <1>1, <1>2
<1>4. RanksOK
  BY <1>1, <1>3 DEF RanksOK, DataOK, RankOK, Holds, Working
<1>5. DriverOK
  <2>1. pc = "balance" => IsFiniteSet(dheap)
    BY <1>1, <1>2, FiniteHeaps
  <2> QED BY <1>1, <1>3, <2>1 DEF DriverOK
<1> QED BY <1>4, <1>5, BalanceInit DEF HomeInv

\* ... and every step keeps it.
LEMMA HomeStep == HomeInv /\ [Next]_vars => HomeInv'
<1> SUFFICES ASSUME HomeInv, [Next]_vars PROVE HomeInv'
  OBVIOUS
<1>1. BalanceInv'
  BY BalanceStep DEF HomeInv
<1>2. CASE Driver
  BY <1>1, <1>2, PadKeeps, BalanceMergeKeeps, ReorderKeeps, DispatchBatchKeeps, CollectBatchKeeps
     DEF Driver, HomeInv
<1>3. ASSUME UNCHANGED driver, RanksOK', ~(pc \in {"pad", "balance", "dispatch"} /\ rpc' # rpc) PROVE DriverOK'
  <2>1. /\ job' = job /\ pc' = pc /\ batch' = batch /\ padding' = padding /\ dheap' = dheap /\ result' = result
    BY <1>3 DEF driver
  <2>2. World' = World /\ Ranks' = Ranks /\ Places' = Places /\ Shares' = Shares
    BY <2>1 DEF World, Ranks, Places, Shares
  <2>3. Good' = Good /\ Repeatable' = Repeatable
    BY <2>1, <2>2 DEF Good, Sent, Repeatable
  <2> QED BY <1>3, <2>1, <2>2, <2>3 DEF HomeInv, DriverOK
<1>4. CASE AllReduce
  <2>1. RanksOK' /\ UNCHANGED driver
    BY <1>4, AllReduceKeeps DEF HomeInv, AllReduce
  <2>2. 0 \in Ranks
    BY BatchIs DEF HomeInv, RanksOK, JobRanks, Ranks
  <2>3. pc \notin {"pad", "balance", "dispatch"}
    BY <1>4, <2>2 DEF AllReduce, HomeInv, DriverOK
  <2> QED BY <1>1, <1>3, <2>1, <2>3 DEF HomeInv
<1>5. ASSUME NEW r \in Ranks, Rank(r) PROVE HomeInv'
  <2>1. RanksOK'
    BY <1>5, RankStepKeeps DEF HomeInv
  <2>2. UNCHANGED driver
    BY <1>5 DEF Rank, Preprocess, Count, Split, MergeSets, Arrange, SplitFixed, Forward, Revert, Postprocess
  <2>3. r \in Group(r) /\ r \in Partners(r)
    BY DEF Group, Partners
  <2>4. rpc[r] # "idle"
    BY <1>5, <2>3 DEF Rank, Preprocess, Count, Split, MergeSets, Arrange, SplitFixed, Forward, Revert, Postprocess
  <2>5. pc \notin {"pad", "balance", "dispatch"}
    BY <2>4 DEF HomeInv, DriverOK
  <2> QED BY <1>1, <1>3, <2>1, <2>2, <2>5 DEF HomeInv
<1>6. CASE UNCHANGED vars
  <2>1. UNCHANGED driver /\ rpc' = rpc /\ rows' = rows /\ heap' = heap /\ micro' = micro /\ out' = out
    BY <1>6 DEF vars, work
  <2>2. job' = job /\ batch' = batch
    BY <2>1 DEF driver
  <2>3. Ranks' = Ranks /\ Places' = Places
    BY <2>2, SameBatch
  <2>4. \A r \in Ranks : RankOK(r)'
    BY <2>1, <2>2, SameRank DEF HomeInv, RanksOK
  <2>5. RanksOK'
    BY <2>1, <2>2, <2>3, <2>4 DEF HomeInv, RanksOK, DataOK
  <2> QED BY <1>1, <1>3, <2>1, <2>5 DEF HomeInv
<1> QED BY <1>2, <1>4, <1>5, <1>6 DEF Next, Over

\* Whatever the mode, the sizes of the groups and the micro-batches, the result of
\* every row comes back at the row's place, and masked with its mask unless
\* compute_values masks dynamic micro-batches (protocol.py:539, decorator.py:169,
\* dp_actor.py:201, dp_critic.py:140), as long as the padding repeats no row twice.
THEOREM EveryRowComesHome == Spec => [](Repeatable => ResultsComeHome)
<1>1. ASSUME HomeInv, Repeatable PROVE ResultsComeHome
  <2> SUFFICES ASSUME pc = "done"
               PROVE  /\ Len(result) = Len(job.lens)
                      /\ \A i \in DOMAIN result : result[i].row = batch[i]
                      /\ ~(job.masks /\ job.tokens > 0) => \A i \in DOMAIN result : result[i].mask = batch[i]
    BY DEF ResultsComeHome, RowsComeHome, MasksComeHome
  <2>1. Piece(Results(Places), result, Good, 0, Len(job.lens)) /\ Len(job.lens) \in Nat
    BY <1>1, BatchIs DEF HomeInv, DriverOK, RanksOK, JobRanks
  <2>2. /\ Len(result) = Len(job.lens) /\ DOMAIN result = 1 .. Len(job.lens)
        /\ \A i \in 1 .. Len(job.lens) : result[i] \in Good[0 + i]
    BY <2>1, PieceIs
  <2>3. ASSUME NEW i \in 1 .. Len(job.lens)
        PROVE  /\ result[i].row = batch[i]
               /\ ~(job.masks /\ job.tokens > 0) => result[i].mask = batch[i]
    <3>1. i \in Nat /\ 0 + i = i /\ Sent[i] = {batch[i]}
      BY <2>1 DEF Sent
    <3> QED BY <2>2, <3>1 DEF Good, Rightly
  <2> QED BY <2>2, <2>3
<1> QED BY <1>1, HomeInit, HomeStep, PTL DEF Spec

\* In every micro-batch split of every rank, each row is in one place, no partition
\* gets a second row while another has none, and the sums differ by no more than
\* one row (rearrange_micro_batches, seqlen_balancing.py:230).
THEOREM RanksSplitEvenly == Spec => []BalancedMicroBatches
<1>1. ASSUME HomeInv PROVE BalancedMicroBatches
  <2> SUFFICES ASSUME NEW r \in Ranks, rpc[r] = "merge"
               PROVE  /\ EachRowOnce(heap[r], DOMAIN rows[r])
                      /\ FilledEvenly(heap[r])
                      /\ SpreadWithinRow(heap[r], Lens(rows[r]))
    BY DEF BalancedMicroBatches
  <2>1. PICK k \in Nat \ {0} : Balanced(heap[r], Lens(rows[r]), k)
    BY <1>1 DEF HomeInv, RanksOK, RankOK, Holds
  <2>2. DOMAIN Lens(rows[r]) = DOMAIN rows[r]
    BY DEF Lens
  <2> QED BY <2>1, <2>2 DEF Balanced
<1> QED BY <1>1, HomeInit, HomeStep, PTL DEF Spec

=============================================================================
