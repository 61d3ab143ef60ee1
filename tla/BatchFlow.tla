----------------------------- MODULE BatchFlow -----------------------------
(***************************************************************************)
(* The way of a batch through one remote call of verl: the driver reorders *)
(* it for balance (or pads it), a dispatch function of                     *)
(* single_controller/base/decorator.py shares it out, each rank exchanges  *)
(* rows with its group, splits them into micro-batches, runs them, puts    *)
(* the results back into order, and a collect function joins them.         *)
(*                                                                         *)
(* A row is its position in the batch the driver was given; a result says  *)
(* which row it was computed from and which row's response_mask was        *)
(* applied to it.                                                          *)
(***************************************************************************)
EXTENDS SeqlenBalancing

CONSTANT Jobs

\* mode: "dp" (DP_COMPUTE_PROTO), "megatron" (MEGATRON_COMPUTE_PROTO) or
\* "pp_as_dp" (MEGATRON_PP_AS_DP_PROTO).  tp, pp, dp: the sizes of the parallel
\* groups.  group: of the sequence-parallel (FSDP) or micro data-parallel
\* (Megatron) group.  lens: the tokens of each row.  tokens: max_token_len, 0
\* unless use_dynamic_bsz.  micro: the rows of a micro-batch otherwise.
\* masks: compute_values, which masks what it has computed.  A training batch is
\* divisible by the ranks, which karmarkar_karp asserts; the ranks by the groups of
\* FSDP, which device_mesh and fsdp_workers.py:255 assert; Megatron's tp by the
\* group (megatron_vllm.py:256), which there is one of when it generates only.
ASSUME JobAssumption ==
  \A j \in Jobs :
    /\ j.mode \in {"dp", "megatron", "pp_as_dp"} /\ j.validate \in BOOLEAN /\ j.masks \in BOOLEAN
    /\ j.tp \in Nat \ {0} /\ j.pp \in Nat \ {0} /\ j.dp \in Nat \ {0}
    /\ j.group \in Nat \ {0} /\ j.micro \in Nat \ {0} /\ j.tokens \in Nat
    /\ j.lens \in Seq(Nat \ {0}) /\ j.lens # << >>
    /\ ~j.validate => Len(j.lens) % (j.tp * j.pp * j.dp) = 0
    /\ CASE j.mode = "dp" -> (j.tp * j.pp * j.dp) % j.group = 0
         [] j.mode = "megatron" -> j.group = 1
         [] j.mode = "pp_as_dp" -> j.tp % j.group = 0

VARIABLES
  job,       \* the call
  pc,        \* the driver
  batch,     \* the rows, in the driver's order
  padding,   \* pad_size
  dheap,     \* the driver's heap of States
  rpc,       \* each rank
  rows,      \* its rows
  count,     \* num_micro_batches
  heap,      \* its heap of States
  micro,     \* its micro-batches, sequences of positions in rows
  done,      \* how many of them it has run
  out,       \* its results
  result     \* what the driver gets back

driver == <<job, pc, batch, padding, dheap, result>>
work == <<rows, count, heap, micro, done, out>>
vars == <<driver, rpc, work>>

World == job.tp * job.pp * job.dp
Ranks == 0 .. World - 1

\* The order in which Megatron numbers its ranks.
TP(r) == r % job.tp
DP(r) == (r \div job.tp) % job.dp
PP(r) == r \div (job.tp * job.dp)

\* DataProto.chunk and DataProto.concat
Chunk(rs, chunks, i) ==
  LET size == Len(rs) \div chunks IN SubSeq(rs, i * size + 1, (i + 1) * size)
Joined(f, ranks) ==
  LET inOrder == Increasing(ranks)
  IN FlattenSeq([i \in DOMAIN inOrder |-> f[inOrder[i]]])

Lens(rs) == [i \in DOMAIN rs |-> job.lens[rs[i]]]
Tokens(rs) == SumFunction(Lens(rs))

Init ==
  /\ job \in Jobs
  /\ batch = [i \in 1 .. Len(job.lens) |-> i]
  /\ padding = 0 /\ result = << >>
  /\ IF job.validate
       THEN pc = "pad" /\ dheap = {}
       ELSE pc = "balance" /\ dheap \in InitialHeaps(job.lens, World, TRUE)
  /\ rpc = [r \in Ranks |-> "idle"]
  /\ rows = [r \in Ranks |-> << >>] /\ count = [r \in Ranks |-> 0]
  /\ heap = [r \in Ranks |-> {}] /\ micro = [r \in Ranks |-> << >>]
  /\ done = [r \in Ranks |-> 0] /\ out = [r \in Ranks |-> << >>]

-----------------------------------------------------------------------------
(* The driver. *)

\* pad_dataproto_to_divisor: data[:pad_size] has no more rows than data.
Pad ==
  /\ pc = "pad"
  /\ padding' = (World - (Len(batch) % World)) % World
  /\ batch' = batch \o SubSeq(batch, 1, Min({padding', Len(batch)}))
  /\ pc' = "dispatch"
  /\ UNCHANGED <<job, dheap, result, rpc, work>>

\* _balance_batch
BalanceMerge ==
  /\ pc = "balance" /\ Cardinality(dheap) > 1
  /\ dheap' \in Merged(dheap)
  /\ UNCHANGED <<job, pc, batch, padding, result, rpc, work>>

Reorder ==
  /\ pc = "balance" /\ Cardinality(dheap) = 1
  /\ batch' = FlattenSeq(Partitions(CHOOSE s \in dheap : TRUE))
  /\ pc' = "dispatch"
  /\ UNCHANGED <<job, padding, dheap, result, rpc, work>>

\* How many shares a dispatch function makes, and whose is which.
Shares == CASE job.mode = "dp" -> World
            [] job.mode = "megatron" -> job.dp
            [] job.mode = "pp_as_dp" -> job.dp * job.pp
ShareOf(r) == CASE job.mode = "dp" -> r
                [] job.mode = "megatron" -> DP(r)
                [] job.mode = "pp_as_dp" -> DP(r) * job.pp + PP(r)

\* chunk() asserts that the shares are equal.
DispatchBatch ==
  /\ pc = "dispatch" /\ Len(batch) % Shares = 0
  /\ rows' = [r \in Ranks |-> Chunk(batch, Shares, ShareOf(r))]
  /\ rpc' = [r \in Ranks |-> "preprocess"]
  /\ pc' = "wait"
  /\ UNCHANGED <<job, batch, padding, dheap, result, count, heap, micro, done, out>>

\* The ranks whose results are collected: all of them, those of tp 0 and the
\* last pp stage, or those of tp 0 and the first.
Collects(r) == job.mode # "dp" =>
  TP(r) = 0 /\ PP(r) = (IF job.mode = "megatron" THEN job.pp - 1 ELSE 0)

\* And unpad_dataproto.
CollectBatch ==
  /\ pc = "wait" /\ \A r \in Ranks : rpc[r] = "done"
  /\ LET all == Joined(out, {r \in Ranks : Collects(r)})
     IN result' = SubSeq(all, 1, Len(all) - padding)
  /\ pc' = "done"
  /\ UNCHANGED <<job, batch, padding, dheap, rpc, work>>

Driver == Pad \/ BalanceMerge \/ Reorder \/ DispatchBatch \/ CollectBatch

-----------------------------------------------------------------------------
(* A rank. *)

GoTo(ranks, where) == rpc' = [r \in Ranks |-> IF r \in ranks THEN where ELSE rpc[r]]

\* The group a rank shares its rows with, and the ranks that a forward pass of
\* it needs: with FSDP all of them, with Megatron those of its tp and pp groups.
Group(r) == {q \in Ranks : q \div job.group = r \div job.group}
Partners(r) == IF job.mode = "dp" THEN Ranks ELSE {q \in Ranks : DP(q) = DP(r)}

\* preprocess_data: FSDP ranks gather the rows of their group; Megatron's, whose
\* tp ranks were all sent the same rows, take their part of them, of equal size.
Preprocess(r) ==
  /\ \A q \in Group(r) : rpc[q] = "preprocess" /\ (job.mode # "dp" => Len(rows[q]) % job.group = 0)
  /\ rows' = [q \in Ranks |->
       IF q \notin Group(r) THEN rows[q]
       ELSE IF job.mode = "dp" THEN Joined(rows, Group(r))
       ELSE Chunk(rows[q], job.group, q % job.group)]
  /\ GoTo(Group(r), IF job.tokens > 0 THEN "count" ELSE "split")
  /\ UNCHANGED <<driver, count, heap, micro, done, out>>

\* rearrange_micro_batches: as many as the tokens need, rounded up ...
Count(r) ==
  /\ rpc[r] = "count"
  /\ count' = [count EXCEPT ![r] = (Tokens(rows[r]) + job.tokens - 1) \div job.tokens]
  /\ GoTo({r}, "reduce")
  /\ UNCHANGED <<driver, rows, heap, micro, done, out>>

\* Mutant of AllReduce: each rank keeps its own.
AllReduceNothing ==
  /\ \A r \in Ranks : rpc[r] = "reduce"
  /\ UNCHANGED count
  /\ GoTo(Ranks, "split")
  /\ UNCHANGED <<driver, rows, heap, micro, done, out>>

\* ... on the rank that needs most ...
AllReduce ==
  /\ \A r \in Ranks : rpc[r] = "reduce"
  /\ count' = [r \in Ranks |-> Max(Range(count))]
  /\ GoTo(Ranks, "split")
  /\ UNCHANGED <<driver, rows, heap, micro, done, out>>

\* ... balanced by karmarkar_karp, which cannot make none, nor more than rows.
Split(r) ==
  /\ rpc[r] = "split" /\ job.tokens > 0 /\ count[r] \in 1 .. Len(rows[r])
  /\ \E h \in InitialHeaps(Lens(rows[r]), count[r], FALSE) : heap' = [heap EXCEPT ![r] = h]
  /\ GoTo({r}, "merge")
  /\ UNCHANGED <<driver, rows, count, micro, done, out>>

MergeSets(r) ==
  /\ rpc[r] = "merge" /\ Cardinality(heap[r]) > 1
  /\ \E h \in Merged(heap[r]) : heap' = [heap EXCEPT ![r] = h]
  /\ UNCHANGED <<driver, rpc, rows, count, micro, done, out>>

Arrange(r) ==
  /\ rpc[r] = "merge" /\ Cardinality(heap[r]) = 1
  /\ micro' = [micro EXCEPT ![r] = Partitions(CHOOSE s \in heap[r] : TRUE)]
  /\ GoTo({r}, "forward")
  /\ UNCHANGED <<driver, rows, count, heap, done, out>>

\* batch.split(micro_batch_size)
SplitFixed(r) ==
  /\ rpc[r] = "split" /\ job.tokens = 0
  /\ LET n == Len(rows[r])
     IN micro' = [micro EXCEPT ![r] =
          [b \in 1 .. (n + job.micro - 1) \div job.micro |->
             [i \in 1 .. Min({job.micro, n - (b - 1) * job.micro}) |-> (b - 1) * job.micro + i]]]
  /\ GoTo({r}, "forward")
  /\ UNCHANGED <<driver, rows, count, heap, done, out>>

\* _forward_micro_batch: a collective, of a micro-batch on each of the ranks.
Forward(r) ==
  /\ \A q \in Partners(r) : rpc[q] = "forward" /\ done[q] < Len(micro[q])
  /\ done' = [q \in Ranks |-> IF q \in Partners(r) THEN done[q] + 1 ELSE done[q]]
  /\ UNCHANGED <<driver, rpc, rows, count, heap, micro, out>>

\* Mutant of Restored: the indices themselves, for their inverse.
RestoredTwice(values, idx) == [i \in DOMAIN idx |-> values[idx[i]]]

\* values[revert_indices]
Restored(values, idx) == [i \in DOMAIN idx |-> values[ReverseIdx(idx)[i]]]

\* The micro-batches' results are joined and put back into the order of rows.
\* compute_values applies response_mask, which is in that order, before.
Revert(r) ==
  /\ rpc[r] = "forward" /\ done[r] = Len(micro[r])
  /\ LET idx == FlattenSeq(micro[r])
         values == [i \in DOMAIN idx |->
                      [row |-> rows[r][idx[i]],
                       mask |-> rows[r][IF job.masks THEN i ELSE idx[i]]]]
     IN out' = [out EXCEPT ![r] = IF job.tokens > 0 THEN Restored(values, idx) ELSE values]
  /\ GoTo({r}, "postprocess")
  /\ UNCHANGED <<driver, rows, count, heap, micro, done>>

\* postprocess_data: FSDP ranks keep what they were sent; Megatron's join their
\* parts, when they generate, and then those of the pp stages.
Postprocess(r) ==
  LET peers == IF job.mode = "dp" THEN {r} ELSE Partners(r)
      whole == [q \in Ranks |-> Joined(out, Group(q))]
      stages(q) == {p \in Ranks : TP(p) = TP(q) /\ DP(p) = DP(q)}
  IN /\ \A q \in peers : rpc[q] = "postprocess"
     /\ out' = [q \in Ranks |->
          IF q \notin peers THEN out[q]
          ELSE IF job.mode = "dp" THEN Chunk(out[q], job.group, q % job.group)
          ELSE IF job.mode = "pp_as_dp" THEN Joined(whole, stages(q))
          ELSE out[q]]
     /\ GoTo(peers, "done")
     /\ UNCHANGED <<driver, rows, count, heap, micro, done>>

Rank(r) ==
  \/ Preprocess(r) \/ Count(r) \/ Split(r) \/ MergeSets(r) \/ Arrange(r) \/ SplitFixed(r)
  \/ Forward(r) \/ Revert(r) \/ Postprocess(r)

Over == pc = "done" /\ UNCHANGED vars

Next == Driver \/ AllReduce \/ (\E r \in Ranks : Rank(r)) \/ Over

Spec == Init /\ [][Next]_vars

\* The processes of a job run; whichever of them can move, one does.
FairSpec == Spec /\ WF_vars(Next)

-----------------------------------------------------------------------------
\* Whatever the mode, the groups and the micro-batches, the driver gets one
\* result per row, in the order in which it sent the rows (protocol.py:539,
\* decorator.py:169, dp_actor.py:201).
RowsComeHome ==
  pc = "done" =>
    /\ Len(result) = Len(job.lens)
    /\ \A i \in DOMAIN result : result[i].row = batch[i]

\* Nor is a result masked with the mask of another row, unless the critic's
\* micro-batches are dynamic (dp_critic.py:140).
MasksComeHome ==
  pc = "done" /\ ~(job.masks /\ job.tokens > 0) =>
    \A i \in DOMAIN result : result[i].mask = batch[i]

\* A row's result comes home with what belongs to the row.
ResultsComeHome == RowsComeHome /\ MasksComeHome

\* While the driver's karmarkar_karp runs, every row stays in one place, the
\* partitions keep equal sizes, and their sums never differ by more than one row
\* and another: the asserts of seqlen_balancing.py:129 and 179 hold.
EqualPartition ==
  pc = "balance" =>
    /\ EachRowOnce(dheap, DOMAIN job.lens)
    /\ EqualSizes(dheap)
    /\ SpreadWithinRows(dheap, job.lens)

\* While a rank's runs, every row stays in one place, no partition gets a second
\* row while another has none, and the sums never differ by more than one row.
BalancedMicroBatches ==
  \A r \in Ranks : rpc[r] = "merge" =>
    /\ EachRowOnce(heap[r], DOMAIN rows[r])
    /\ FilledEvenly(heap[r])
    /\ SpreadWithinRow(heap[r], Lens(rows[r]))

\* So the ranks get similar work: the docstring of _balance_batch.
SharesBalanced ==
  ~job.validate /\ (\A r \in Ranks : rpc[r] = "preprocess") /\ job.mode = "dp" =>
    \A q, r \in Ranks : \E i, j \in DOMAIN job.lens :
      Tokens(rows[q]) - Tokens(rows[r]) <= job.lens[i] - job.lens[j]

\* The asserts of rearrange_micro_batches and _check_and_sort_partitions: there
\* are not more micro-batches than rows, and none of them is empty.
SplitSucceeds ==
  \A r \in Ranks :
    /\ rpc[r] = "split" /\ job.tokens > 0 => count[r] \in 1 .. Len(rows[r])
    /\ \A b \in DOMAIN micro[r] : micro[r][b] # << >>

\* The ranks agree on how often they meet in a forward pass; every call returns.
\* On its way no split fails, and what the ranks get and make of it is balanced.
CallReturns == <>(pc = "done") /\ [](SplitSucceeds /\ BalancedMicroBatches /\ SharesBalanced)

=============================================================================
