----------------------------- MODULE DataProto -----------------------------
(***************************************************************************)
(* protocol.py: the batches the driver and the workers pass around.  A     *)
(* DataProto is a pair of references, to a TensorDict and to a dictionary  *)
(* of object arrays; some methods return a new pair, some share a          *)
(* dictionary with their argument, some change it in place.  A session is  *)
(* what one process holds:                                                 *)
(*   dicts   the dictionaries, each [size, each, dims, cols]: a TensorDict *)
(*           keeps its batch size when its last key is popped; each is the *)
(*           second dimension of a folded batch, 0 when there is none;     *)
(*           dims is how many dimensions its batch size has;               *)
(*   held    the DataProtos, each [batch, non, rows]: two indices of       *)
(*           dicts; rows is not state of the code, it is which rows the    *)
(*           method that returned the DataProto says it has;               *)
(*   raised  an assertion failed, the process is over.                     *)
(* A column is a sequence of entries, an entry the sequence of its rows:   *)
(* one row, or those folded together.  meta_info is left out.              *)
(***************************************************************************)
EXTENDS Naturals, Sequences, FiniteSets, SequencesExt

CONSTANT None   \* an argument that is not given

-----------------------------------------------------------------------------
(* Columns and dictionaries. *)

Table(n, each, cols) == [size |-> n, each |-> each, dims |-> 1, cols |-> cols]
Columns(f(_), t, n, each) == Table(n, each, [k \in DOMAIN t.cols |-> f(t.cols[k])])
Only(t, keys) == [t EXCEPT !.cols = [k \in keys |-> t.cols[k]]]
Without(t, keys) == Only(t, DOMAIN t.cols \ keys)

\* union_tensor_dict and union_numpy_dict: a key of both is left as it is.
Joint(t, u) ==
  [t EXCEPT !.cols = [k \in DOMAIN t.cols \cup DOMAIN u.cols |->
                        IF k \in DOMAIN t.cols THEN t.cols[k] ELSE u.cols[k]]]
Clash(t, u) == \E k \in DOMAIN t.cols \cap DOMAIN u.cols : t.cols[k] # u.cols[k]

\* list_of_dict_to_dict_of_list, each list joined: the keys of the first.
DictOfList(ts, n) ==
  Table(n, ts[1].each, [k \in DOMAIN ts[1].cols |->
              FlattenSeq([i \in DOMAIN SelectSeq(ts, LAMBDA t : k \in DOMAIN t.cols) |->
                            SelectSeq(ts, LAMBDA t : k \in DOMAIN t.cols)[i].cols[k]])])
UnknownKey(ts) == \E i \in DOMAIN ts : ~ DOMAIN ts[i].cols \subseteq DOMAIN ts[1].cols

Picked(col, idx) == [i \in DOMAIN idx |-> col[idx[i]]]
Interval(a, b) == [i \in 1 .. b - a + 1 |-> a + i - 1]
Interleaved(n, times) == [i \in 1 .. n * times |-> ((i - 1) \div times) + 1]
Tiled(n, times) == [i \in 1 .. n * times |-> ((i - 1) % n) + 1]
Grouped(col, m) ==
  [g \in 1 .. m |->
     FlattenSeq(SubSeq(col, (g - 1) * (Len(col) \div m) + 1, g * (Len(col) \div m)))]
Ungrouped(col) == LET all == FlattenSeq(col) IN [i \in DOMAIN all |-> <<all[i]>>]

-----------------------------------------------------------------------------
(* A session. *)

Tensors(s, h) == s.dicts[s.held[h].batch]
NonTensors(s, h) == s.dicts[s.held[h].non]
Size(s, h) == Tensors(s, h).size
Raised(s) == [s EXCEPT !.raised = TRUE]

\* check_consistency: the batch size has one dimension, every object array one
\* entry per row.
Consistent(t, n) == t.dims = 1 /\ \A k \in DOMAIN n.cols : Len(n.cols[k]) = t.size

\* DataProto(batch, non_tensor_batch), of dictionaries that exist.
Share(s, b, n, rows) ==
  IF Consistent(s.dicts[b], s.dicts[n])
    THEN [s EXCEPT !.held = Append(@, [batch |-> b, non |-> n, rows |-> rows])]
    ELSE Raised(s)

\* DataProto(batch, non_tensor_batch), of new dictionaries.
Hold(s, t, n, rows) ==
  Share([s EXCEPT !.dicts = @ \o <<t, n>>], Len(s.dicts) + 1, Len(s.dicts) + 2, rows)

\* from_dict, for a first batch of n rows.
FromDict(n, keys, objects) ==
  LET col == [i \in 1 .. n |-> <<i>>]
  IN  Hold([dicts |-> << >>, held |-> << >>, raised |-> FALSE],
           Table(n, 0, [k \in keys |-> col]), Table(n, 0, [k \in objects |-> col]), col)

\* select: a dictionary whose keys are not given is shared.
Select(s, h, keys, objects) ==
  LET k  == Len(s.dicts)
      dp == s.held[h]
      t  == IF keys = None THEN << >> ELSE <<Only(Tensors(s, h), keys)>>
      n  == IF objects = None THEN << >>
            ELSE <<Only(NonTensors(s, h), objects \cap DOMAIN NonTensors(s, h).cols)>>
  IN  Share([s EXCEPT !.dicts = @ \o t \o n],
            IF keys = None THEN dp.batch ELSE k + 1,
            IF objects = None THEN dp.non ELSE k + Len(t) + 1, dp.rows)

\* pop: out of the dictionaries, for whoever shares them; from_dict refuses a
\* batch without tensors.
Pop(s, h, keys, objects) ==
  LET dp == s.held[h]
      left == [s EXCEPT !.dicts[dp.batch] = Without(@, keys), !.dicts[dp.non] = Without(@, objects)]
  IN  IF keys = {} THEN Raised(left)
      ELSE Hold(left, Only(Tensors(s, h), keys), Only(NonTensors(s, h), objects), dp.rows)

\* rename: rename_key_, in the TensorDict only.
Rename(s, h, old, new) ==
  [s EXCEPT !.dicts[s.held[h].batch] =
     [@ EXCEPT !.cols = [k \in (DOMAIN @ \ {old}) \cup {new} |-> @[IF k = new THEN old ELSE k]]]]

\* union: into the dictionaries of h; sizes and common keys are all it checks.
Union(s, h, o) ==
  IF \/ Size(s, h) # Size(s, o)
     \/ Clash(Tensors(s, h), Tensors(s, o))
     \/ Clash(NonTensors(s, h), NonTensors(s, o))
    THEN Raised(s)
    ELSE [s EXCEPT !.dicts[s.held[h].batch] = Joint(@, Tensors(s, o)),
                   !.dicts[s.held[h].non] = Joint(@, NonTensors(s, o))]

\* The rows idx of h, in new dictionaries: data[i:j], and what chunk,
\* make_iterator, repeat and reorder make of every column.
Taken(s, h, idx) ==
  LET Take(col) == Picked(col, idx)
      Of(t) == Columns(Take, t, Len(idx), t.each)
  IN  Hold(s, Of(Tensors(s, h)), Of(NonTensors(s, h)), Take(s.held[h].rows))

\* data[:n], of unpad_dataproto and of the padding.
Slice(s, h, n) == Taken(s, h, Interval(1, n))

\* make_iterator: one epoch of mini-batches over the sampler's order.
MakeIterator(s, h, m, order) ==
  IF Size(s, h) % m # 0 THEN Raised(s)
  ELSE FoldLeft(LAMBDA acc, i : Taken(acc, h, SubSeq(order, i * m - m + 1, i * m)), s,
                Interval(1, Size(s, h) \div m))

\* chunk: equal parts, or an assertion.
Chunk(s, h, chunks) ==
  LET m == Size(s, h) \div chunks
  IN  IF Size(s, h) % chunks # 0 THEN Raised(s)
      ELSE FoldLeft(LAMBDA acc, i : Taken(acc, h, Interval(i * m - m + 1, i * m)), s,
                    Interval(1, chunks))

\* concat: torch.cat wants the same tensor keys and dimensions everywhere; an object key the
\* first lacks fails an assertion, one that another lacks is found too short.
Concat(s, hs) ==
  LET n  == FoldLeft(LAMBDA acc, h : acc + Size(s, h), 0, hs)
      ts == [i \in DOMAIN hs |-> Tensors(s, hs[i])]
      ns == [i \in DOMAIN hs |-> NonTensors(s, hs[i])]
  IN  IF \/ UnknownKey(ns)
         \/ \E i \in DOMAIN ts : DOMAIN ts[i].cols # DOMAIN ts[1].cols \/ ts[i].each # ts[1].each
        THEN Raised(s)
        ELSE Hold(s, DictOfList(ts, n), DictOfList(ns, n),
                  FlattenSeq([i \in DOMAIN hs |-> s.held[hs[i]].rows]))

\* Mutant of Reorder: the object arrays keep their order.
ReorderTensorsOnly(s, h, idx) ==
  LET moved == Taken(s, h, idx)
      n == Len(moved.held)
  IN  [moved EXCEPT !.held = Front(@), !.held[h] = [moved.held[n] EXCEPT !.non = s.held[h].non]]

\* reorder: the DataProto is changed, the dictionaries others share are not.
Reorder(s, h, idx) ==
  LET moved == Taken(s, h, idx)
      n == Len(moved.held)
      front == SubSeq(moved.held, 1, n - 1)
  IN  [moved EXCEPT !.held = [front EXCEPT ![h] = moved.held[n]]]

\* repeat.
Repeat(s, h, times, interleave) ==
  Taken(s, h, IF interleave THEN Interleaved(Size(s, h), times) ELSE Tiled(Size(s, h), times))

\* fold_batch_dim: the object arrays of the argument, and of whoever shares
\* them, are folded in place; its tensors are not.
Fold(s, h, m) ==
  LET dp == s.held[h]
      F(col) == Grouped(col, m)
      k == Len(s.dicts)
      Of(t) == Columns(F, t, m, t.size \div m)
      folded == [s EXCEPT !.dicts = Append([@ EXCEPT ![dp.non] = Of(@)], Of(Tensors(s, h)))]
  IN  IF Size(s, h) % m # 0 THEN Raised(s) ELSE Share(folded, k + 1, dp.non, F(dp.rows))

\* unfold_batch_dim: auto_batch_size_ leaves the argument's TensorDict with a
\* batch size of two dimensions.
Unfold(s, h) ==
  LET dp == s.held[h]
      Of(t) == Columns(Ungrouped, t, Len(Ungrouped(dp.rows)), 0)
  IN  Hold([s EXCEPT !.dicts[dp.batch].dims = 2], Of(Tensors(s, h)), Of(NonTensors(s, h)), Ungrouped(dp.rows))

\* DataProtoFuture: part i of what the workers hold, joined where it is used.
FutureGet(s, hs, chunks, i) ==
  LET all == Concat(s, hs)
      n == Len(all.held)
      m == Size(all, n) \div chunks
  IN  IF all.raised THEN all
      ELSE IF Size(all, n) % chunks # 0 THEN Raised(all)
      ELSE Taken(all, n, Interval(i * m - m + 1, i * m))

\* Every column of every DataProto holds the rows it is said to hold, in order,
\* the tensors and the object arrays alike.  The object arrays of one that was
\* folded are grouped under it: still the same rows in the same order, but the
\* DataProto no longer passes its own check.
Together(s) ==
  \A h \in DOMAIN s.held :
     LET t == Tensors(s, h)
         n == NonTensors(s, h)
         rows == s.held[h].rows
     IN  /\ t.size = Len(rows)
         /\ \A k \in DOMAIN t.cols : t.cols[k] = rows
         /\ \A k \in DOMAIN n.cols : n.cols[k] = rows \/ (~ Consistent(t, n) /\ Ungrouped(n.cols[k]) = Ungrouped(rows))
=============================================================================
