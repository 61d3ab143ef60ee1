----------------------------- MODULE TokenPaths -----------------------------
(***************************************************************************)
(* The way of the tokens of a micro-batch through a model: the padding is  *)
(* removed (flash_attn's unpad_input), the packed tokens are padded and    *)
(* sliced over the ranks of a Ulysses group, every attention layer trades  *)
(* its slice of the sequence for a slice of the heads and back             *)
(* (utils/ulysses.py, models/transformers/llama.py), and the outputs are   *)
(* gathered, unpadded and put back into their columns (dp_actor.py,        *)
(* dp_critic.py, fsdp_workers.py, utils/torch_functional.py).              *)
(*                                                                         *)
(* A batch is a matrix of tokens and one of mask bits; a token stands for  *)
(* itself, and an output is the record of what it was computed from.       *)
(***************************************************************************)
EXTENDS Integers, Sequences, FiniteSets, SequencesExt

CONSTANTS
  Heads,      \* num_heads
  KvHeads,    \* num_key_value_heads
  Zero        \* what a padded position holds

ASSUME HeadsAssumption == Heads \in Nat /\ KvHeads \in Nat \ {0} /\ (Heads % KvHeads) = 0

-----------------------------------------------------------------------------
(* Rows, columns and packed positions. *)

Sum(x) == FoldLeft(+, 0, x)
Largest(S) == CHOOSE a \in S : \A b \in S : b <= a
Part(x, i, n) == SubSeq(x, (i - 1) * (Len(x) \div n) + 1, i * (Len(x) \div n))
Zeros(n) == [i \in 1 .. n |-> Zero]

\* compute_position_id_with_mask: cumsum - 1, clipped at 0.
PositionIds(mask) ==
  [r \in DOMAIN mask |-> [c \in DOMAIN mask[r] |->
     LET n == Sum(SubSeq(mask[r], 1, c)) IN IF n = 0 THEN 0 ELSE n - 1]]

\* create_random_mask: left padding, valid tokens, right padding.
RandomMasks(len, minValid, maxValid, maxLeft) ==
  {[c \in 1 .. len |-> IF left < c /\ c <= left + valid THEN 1 ELSE 0] :
     left \in 0 .. maxLeft, valid \in minValid .. maxValid}

\* get_unpad_data: where the attended tokens stand, and where rows begin.
UnpadData(mask) ==
  LET flat == FlattenSeq(mask)
      lens == [r \in DOMAIN mask |-> Sum(mask[r])]
  IN  [indices |-> SelectSeq([i \in DOMAIN flat |-> i], LAMBDA i : flat[i] = 1),
       cu      |-> [r \in 1 .. Len(mask) + 1 |-> Sum(SubSeq(lens, 1, r - 1))],
       max     |-> Largest({lens[r] : r \in DOMAIN mask})]

\* unpad_input and index_first_axis.
Packed(m, indices) == LET flat == FlattenSeq(m) IN [i \in DOMAIN indices |-> flat[indices[i]]]

\* pad_input.
PadInput(x, indices, batch, len) ==
  [r \in 1 .. batch |-> [c \in 1 .. len |->
     IF \E i \in DOMAIN indices : indices[i] = (r - 1) * len + c
       THEN x[CHOOSE i \in DOMAIN indices : indices[i] = (r - 1) * len + c]
       ELSE Zero]]

\* torch.roll by -1: every token's successor in the packed sequence.
Rolled(x) == Append(Tail(x), Head(x))

-----------------------------------------------------------------------------
(* Ulysses. *)

PadSize(n, sp) == (sp - (n % sp)) % sp

\* _pad_tensor, _unpad_tensor: slice(0, -0) keeps nothing.
PadTensor(x, n) == x \o Zeros(n)
UnpadTensor(x, n) == IF n = 0 THEN << >> ELSE SubSeq(x, 1, Len(x) - n)

\* slice_input_tensor.
SliceInput(x, sp, rank, padding) ==
  Part(IF padding THEN PadTensor(x, PadSize(Len(x), sp)) ELSE x, rank, sp)

\* ulysses_pad_and_slice_inputs, on every rank: the positions are padded as a
\* sequence of their own, and not sliced.
PadAndSlice(x, pos, sp) ==
  LET n == PadSize(Len(x), sp)
  IN  [x |-> [k \in 1 .. sp |-> SliceInput(PadTensor(x, n), sp, k, FALSE)],
       pos |-> pos \o [i \in 1 .. n |-> i - 1], pad |-> n]

\* all_to_all_tensor: what each rank receives, for xs[rank][position][head].
\* SeqAllToAll.backward is the other one of the two.
HeadsToSeq(xs, me) ==
  FlattenSeq([k \in DOMAIN xs |-> [p \in DOMAIN xs[k] |-> Part(xs[k][p], me, Len(xs))]])
SeqToHeads(xs, me) ==
  [p \in 1 .. (Len(xs[1]) \div Len(xs)) |->
     FlattenSeq([k \in DOMAIN xs |-> Part(xs[k], me, Len(xs))[p]])]

\* gather_seq_scatter_heads, where the length before padding is not given (0)
\* or given.
GatherSeqScatterHeads(xs, unpadded) ==
  [me \in DOMAIN xs |->
     LET x == HeadsToSeq(xs, me)
     IN  IF unpadded # 0 /\ (unpadded % Len(xs)) # 0 THEN UnpadTensor(x, Len(x) - unpadded) ELSE x]

\* gather_heads_scatter_seq: a length the ranks do not divide is padded.
GatherHeadsScatterSeq(xs) ==
  LET n == Len(xs)
      padded == [k \in 1 .. n |->
        xs[k] \o [i \in 1 .. PadSize(Len(xs[k]), n) |-> Zeros(Len(xs[k][1]))]]
  IN  [me \in DOMAIN xs |-> SeqToHeads(padded, me)]

\* gather_outpus_and_unpad: all-gather, then the padding off.
GatherOutputs(xs, pad) ==
  LET x == FlattenSeq(xs) IN IF Len(xs) = 1 \/ pad = 0 THEN x ELSE UnpadTensor(x, pad)

\* Gather.backward: a rank's slice of the gradient, scaled by the group.
GatherGrad(grad, sp, rank, scaled) ==
  [p \in 1 .. Len(Part(grad, rank, sp)) |-> IF scaled THEN sp * Part(grad, rank, sp)[p] ELSE Part(grad, rank, sp)[p]]

-----------------------------------------------------------------------------
(* Attention. *)

\* _make_causal_mask and _expand_mask: what a query of a padded row sees.
Visible(maskRow, c) == {d \in DOMAIN maskRow : d <= c /\ maskRow[d] = 1}

\* Flash attention on packed tokens: a position id 0 begins a sequence.
SegmentStart(pos, p) == Largest({s \in 1 .. p : pos[s] = 0})

\* One layer on one rank: q and k hold all positions and some heads; a query
\* head shares its key head with its neighbours; the rotary embedding leaves
\* the distance of the two positions.
Attend(q, k, pos) ==
  LET group == Len(q[1]) \div Len(k[1])
  IN  [p \in DOMAIN q |-> [h \in DOMAIN q[p] |->
         [query |-> q[p][h],
          keys  |-> {<<k[s][((h - 1) \div group) + 1], pos[p] - pos[s]>> : s \in SegmentStart(pos, p) .. p}]]]

\* llama_flash_attn_forward on the ranks of the group.
AttentionLayer(xs, pos) ==
  LET Project(x, heads) == [p \in DOMAIN x |-> [h \in 1 .. heads |-> <<x[p], h>>]]
      qs == GatherSeqScatterHeads([k \in DOMAIN xs |-> Project(xs[k], Heads)], 0)
      ks == GatherSeqScatterHeads([k \in DOMAIN xs |-> Project(xs[k], KvHeads)], 0)
  IN  GatherHeadsScatterSeq([k \in DOMAIN xs |-> Attend(qs[k], ks[k], pos)])

-----------------------------------------------------------------------------
(* Models on a micro-batch. *)

\* A batch: its ids, attention_mask and position_ids.
Batch(ids, mask, pos) == [ids |-> ids, mask |-> mask, pos |-> pos]

\* DataParallelPPOCritic._forward_micro_batch: an output per column.
ForwardValues(b, sp) ==
  LET idx == UnpadData(b.mask).indices
      in  == PadAndSlice(Packed(b.ids, idx), Packed(b.pos, idx), sp)
  IN  PadInput(GatherOutputs(AttentionLayer(in.x, in.pos), in.pad), idx, Len(b.ids), Len(b.ids[1]))

\* DataParallelPPOActor._forward_micro_batch with use_remove_padding: every
\* rank's log-probabilities of its slice of the successors, gathered.
ForwardLogProbs(b, sp) ==
  LET idx    == UnpadData(b.mask).indices
      pos    == Packed(b.pos, idx)
      in     == PadAndSlice(Packed(b.ids, idx), pos, sp)
      labels == PadAndSlice(Rolled(Packed(b.ids, idx)), pos, sp)
      logits == AttentionLayer(in.x, in.pos)
      logp   == [k \in 1 .. sp |-> [p \in DOMAIN logits[k] |->
                   [logits |-> logits[k][p], label |-> labels.x[k][p]]]]
  IN  PadInput(GatherOutputs(logp, in.pad), idx, Len(b.ids), Len(b.ids[1]))

\* The last column before the response up to the last but one.
ResponsePart(full, len) ==
  [r \in DOMAIN full |-> SubSeq(full[r], Len(full[r]) - len, Len(full[r]) - 1)]

\* log_probs_from_logits_response: padded rows, logits shifted by a column.
LogProbsFromLogitsResponse(ids, logits, len) ==
  [r \in DOMAIN ids |-> LET l == Len(ids[r])
     IN  [i \in 1 .. len |-> [logits |-> logits[r][l - len - 1 + i], label |-> ids[r][l - len + i]]]]

\* log_probs_from_logits_response_rmpad (and _all_rmpad, whose ids are packed
\* already, and the vocabulary-parallel one): packed logits, rolled ids.
LogProbsResponseRmpad(b, logits, len) ==
  LET idx == UnpadData(b.mask).indices
      labels == Rolled(Packed(b.ids, idx))
  IN  ResponsePart(PadInput([i \in DOMAIN idx |-> [logits |-> logits[i], label |-> labels[i]]],
                            idx, Len(b.ids), Len(b.ids[1])), len)

-----------------------------------------------------------------------------
(* Megatron's packed inputs. *)

\* pad_packed_inputs: the padding is one more sequence of the batch.
PadPackedInputs(x, cu, max, size) ==
  LET n == PadSize(Len(x), size)
  IN  IF n = 0 THEN [x |-> x, cu |-> cu, max |-> max]
      ELSE [x |-> PadTensor(x, n), cu |-> Append(cu, n + cu[Len(cu)]), max |-> Largest({max, n})]

\* pad_to_sequence_parallel.
PadToSequenceParallel(x, tp) == PadTensor(x, PadSize(Len(x), tp))

\* compute_transformers_input_shapes: the rows a pipeline stage is told to
\* expect of each micro-batch.
InputShapes(masks, tp, sequenceParallel) ==
  [b \in DOMAIN masks |->
     LET x == UnpadData(masks[b]).indices
     IN  IF sequenceParallel THEN Len(PadToSequenceParallel(x, tp)) \div tp ELSE Len(x)]

-----------------------------------------------------------------------------
(* Rows made by the rollouts that call the model itself. *)

\* get_eos_mask: a token is attended to when no eos stands before it.
EosMask(response) ==
  [i \in DOMAIN response |-> IF \E j \in 1 .. i - 1 : response[j] = "eos" THEN 0 ELSE 1]

\* Mutant of Continued: every row goes on from the width of the prompts.
ContinuedFromWidth(pos, n) == pos \o [i \in 1 .. n |-> Len(pos) - 1 + i]

\* The response's positions follow the last of the prompt.
Continued(pos, n) == pos \o [i \in 1 .. n |-> pos[Len(pos)] + i]

\* HFRollout._generate_minibatch: generate stops when all rows have; what is
\* missing to response_length is padded; a longer reply fails an assertion.
HfFails(replies, len) == \E r \in DOMAIN replies : Len(replies[r]) > len
HfBatch(prompts, replies, len) ==
  LET response(r) == replies[r] \o Zeros(len - Len(replies[r]))
  IN  Batch([r \in DOMAIN replies |-> prompts.ids[r] \o response(r)],
            [r \in DOMAIN replies |-> prompts.mask[r] \o EosMask(response(r))],
            [r \in DOMAIN replies |-> Continued(prompts.pos[r], len)])

\* HFRollout.generate_sequences: how many chunks, and whether they are equal.
HfChunks(batch, micro) == LET n == batch \div micro IN IF n = 0 THEN 1 ELSE n
HfChunksFail(batch, micro) == (batch % HfChunks(batch, micro)) # 0

\* NaiveRollout.generate_sequences: always response_length tokens; the mask of
\* a token is decided before it is sampled.
NaiveBatch(prompts, replies) ==
  LET goes[r \in DOMAIN replies, i \in 0 .. Len(replies[1])] ==
        IF i = 0 THEN 1 ELSE IF replies[r][i] # "eos" THEN goes[r, i - 1] ELSE 0
  IN  Batch([r \in DOMAIN replies |-> prompts.ids[r] \o replies[r]],
            [r \in DOMAIN replies |-> prompts.mask[r] \o [i \in DOMAIN replies[r] |-> goes[r, i - 1]]],
            [r \in DOMAIN replies |-> Continued(prompts.pos[r], Len(replies[r]))])

-----------------------------------------------------------------------------
(* What they are for. *)

\* What a column's output depends on, by definition: for every head, the
\* attended tokens of its own row up to the column, and how far back each is.
Context(ids, mask, r, c) ==
  [h \in 1 .. Heads |->
     [query |-> <<ids[r][c], h>>,
      keys  |-> {<< <<ids[r][d], ((h - 1) \div (Heads \div KvHeads)) + 1>>,
                    Cardinality({e \in Visible(mask[r], c) : e > d})>> : d \in Visible(mask[r], c)}]]

\* The attended column after c, if there is one.
Successors(maskRow, c) == {d \in DOMAIN maskRow : d > c /\ maskRow[d] = 1}
Least(S) == CHOOSE a \in S : \A b \in S : a <= b

ValuesAreOwn(ids, mask, out) ==
  \A r \in DOMAIN ids : \A c \in DOMAIN ids[r] :
    out[r][c] = IF mask[r][c] = 1 THEN Context(ids, mask, r, c) ELSE Zero

LogProbsAreOwn(ids, mask, out) ==
  \A r \in DOMAIN ids : \A c \in DOMAIN ids[r] :
    IF mask[r][c] = 0 THEN out[r][c] = Zero
    ELSE /\ out[r][c].logits = Context(ids, mask, r, c)
         /\ Successors(mask[r], c) # {} =>
              out[r][c].label = ids[r][Least(Successors(mask[r], c))]

\* The log-probability of a valid response token, by either function.
ResponseIsOwn(ids, mask, len, out) ==
  \A r \in DOMAIN ids : \A i \in 1 .. len :
    LET c == Len(ids[r]) - len + i
    IN  mask[r][c] = 1 /\ mask[r][c - 1] = 1 =>
          out[r][i] = [logits |-> Context(ids, mask, r, c - 1), label |-> ids[r][c]]

\* The packed sequences cover the padded tokens, and a stage expects the rows
\* a rank of the previous one has.
PackedIsWhole(x, in, tp) ==
  /\ in.cu[Len(in.cu)] = Len(in.x) /\ (Len(in.x) % tp) = 0 /\ SubSeq(in.x, 1, Len(x)) = x
  /\ \A i \in 1 .. Len(in.cu) - 1 : in.cu[i + 1] - in.cu[i] \in 1 .. in.max
=============================================================================
