---------------------------- MODULE MegatronWeights ----------------------------
(***************************************************************************)
(* How a checkpoint is cut over the ranks of Megatron and put together      *)
(* again: the loader and the merger of src/verl/models/llama/megatron/      *)
(* checkpoint_utils, the names normalize_pp_vpp_params gives the layers of  *)
(* a stage (src/verl/utils/model.py), and the shards the inference engine   *)
(* needs when its tensor parallel size is smaller than that of training     *)
(* (src/verl/workers/sharding_manager/megatron_vllm.py and the process       *)
(* groups of src/verl/third_party/vllm).                                   *)
(*                                                                         *)
(* A grid is a record: tp, pp, vpp, dp the parallel sizes of training, itp   *)
(* that of inference, layers, heads, kv, ffn and vocab the shape of the     *)
(* model.  A tensor is the sequence of its slices along the dimension that  *)
(* is cut: of attention heads, of columns of the MLP, of words.  Ranks,     *)
(* stages and layers count from 0, as in the code.                          *)
(***************************************************************************)
EXTENDS Integers, Sequences, FiniteSets, SequencesExt

World(g) == 0..(g.tp * g.dp * g.pp - 1)
\* megatron.core numbers ranks tensor, then data, then pipeline.
TpOf(g, r) == r % g.tp
DpOf(g, r) == (r \div g.tp) % g.dp
PpOf(g, r) == r \div (g.tp * g.dp)
CalcGlobalRank(g, tp, dp, pp) == (pp * g.dp + dp) * g.tp + tp

TorchChunk(s, n, i) == SubSeq(s, i * (Len(s) \div n) + 1, (i + 1) * (Len(s) \div n))
Join(n, F(_)) == FlattenSeq([i \in 1..n |-> F(i - 1)])

---------------------------------------------------------------------------
(* The checkpoint, and the parameters of a model chunk. *)
NoLayer == -1
LayerTensors == {"q", "k", "v", "o", "gate", "up", "down", "ln"}
CheckpointNames(g) ==
  ((0..(g.layers - 1)) \X LayerTensors) \cup ({NoLayer} \X {"embed", "norm", "head"})
Slices(g, part) ==
  CASE part \in {"q", "o"}             -> g.heads
    [] part \in {"k", "v"}             -> g.kv
    [] part \in {"gate", "up", "down"} -> g.ffn
    [] part \in {"embed", "head"}      -> g.vocab
    [] OTHER                           -> 1
Checkpoint(g) == [n \in CheckpointNames(g) |-> [i \in 1..Slices(g, n[2]) |-> <<n, i>>]]

LayersPerChunk(g) == (g.layers \div g.pp) \div g.vpp
\* The embedding is built where pre_process holds, the norm and the head where post_process does.
ChunkParams(g, pp, vpp) ==
  ((0..(LayersPerChunk(g) - 1)) \X {"qkv", "o", "gate_up", "down", "ln"})
    \cup (IF pp = 0 /\ vpp = 0 THEN {<<NoLayer, "embed">>} ELSE {})
    \cup (IF pp = g.pp - 1 /\ vpp = g.vpp - 1 THEN {NoLayer} \X {"norm", "head"} ELSE {})
IsTensorParallel(part) == part \notin {"ln", "norm"}

\* layer -> <<stage, chunk, index in the chunk>>
LayerMap(g) ==
  [layer \in 0..(g.layers - 1) |->
     CHOOSE pos \in (0..(g.pp - 1)) \X (0..(g.vpp - 1)) \X (0..(LayersPerChunk(g) - 1)) :
       pos[2] * (g.layers \div g.vpp) + pos[1] * LayersPerChunk(g) + pos[3] = layer]

NormalizeName(g, pp, vpp, name) ==
  LET offset == IF g.vpp > 1
                THEN ((g.layers \div g.pp) \div g.vpp) * pp + ((g.layers \div g.pp) \div g.vpp) * g.pp * vpp
                ELSE (g.layers \div g.pp) * pp
  IN  IF name[1] = NoLayer THEN name ELSE <<name[1] + offset, name[2]>>

---------------------------------------------------------------------------
(* load_state_dict_to_megatron_llama *)
LoadShard(full, tp, t) == TorchChunk(full, tp, t)

LoadGateUp(g, gate, up, t) ==
  TorchChunk(Join(g.tp, LAMBDA i : TorchChunk(gate, g.tp, i) \o TorchChunk(up, g.tp, i)), g.tp, t)

\* With fewer key-value heads than ranks, neighbouring ranks hold the same head.
LoadQkv(g, q, k, v, t) ==
  LET KvPart(x, i) == IF g.kv >= g.tp THEN TorchChunk(x, g.tp, i) ELSE <<x[(i * g.kv) \div g.tp + 1]>>
  IN  TorchChunk(Join(g.tp, LAMBDA i : TorchChunk(q, g.tp, i) \o KvPart(k, i) \o KvPart(v, i)), g.tp, t)

\* What the rank of tensor rank t gets into its chunk: layer by layer, where the layer map points.
Loaded(g, t, pp, vpp) ==
  LET sd == Checkpoint(g)
      Layer(i) == CHOOSE l \in 0..(g.layers - 1) : LayerMap(g)[l] = <<pp, vpp, i>>
  IN  [n \in ChunkParams(g, pp, vpp) |->
         LET l == IF n[1] = NoLayer THEN NoLayer ELSE Layer(n[1]) IN
         CASE n[2] = "qkv"     -> LoadQkv(g, sd[<<l, "q">>], sd[<<l, "k">>], sd[<<l, "v">>], t)
           [] n[2] = "gate_up" -> LoadGateUp(g, sd[<<l, "gate">>], sd[<<l, "up">>], t)
           [] IsTensorParallel(n[2]) /\ n[2] \notin {"qkv", "gate_up"} -> LoadShard(sd[<<l, n[2]>>], g.tp, t)
           [] OTHER            -> sd[<<l, n[2]>>]]

---------------------------------------------------------------------------
(* merge_megatron_ckpt_llama: shards is the sequence of the tensors of the tensor ranks. *)
MergeShards(shards) == FlattenSeq(shards)

MergeGateUp(g, shards) ==
  LET full == FlattenSeq(shards)
      size == g.ffn \div g.tp
      Part(i) == SubSeq(full, size * 2 * i + 1, size * 2 * (i + 1))
  IN  [gate |-> Join(g.tp, LAMBDA i : SubSeq(Part(i), 1, size)),
       up   |-> Join(g.tp, LAMBDA i : SubSeq(Part(i), size + 1, 2 * size))]

\* Mutant of MergeQkv: a replicated key-value head is taken from every rank.
MergeQkvAll(g, shards) ==
  LET qs == g.heads \div g.tp
      ks == IF g.kv >= g.tp THEN g.kv \div g.tp ELSE 1
  IN  [q |-> Join(g.tp, LAMBDA i : SubSeq(shards[i + 1], 1, qs)),
       k |-> Join(g.tp, LAMBDA i : SubSeq(shards[i + 1], qs + 1, qs + ks)),
       v |-> Join(g.tp, LAMBDA i : SubSeq(shards[i + 1], qs + ks + 1, qs + 2 * ks))]

MergeQkv(g, shards) ==
  LET full == FlattenSeq(shards)
      qs == g.heads \div g.tp
      ks == IF g.kv >= g.tp THEN g.kv \div g.tp ELSE 1
      total == qs + 2 * ks
      Part(i) == SubSeq(full, i * total + 1, (i + 1) * total)
      Keeps(i) == g.kv >= g.tp \/ (i * g.kv) % g.tp = 0
  IN  [q |-> Join(g.tp, LAMBDA i : SubSeq(Part(i), 1, qs)),
       k |-> Join(g.tp, LAMBDA i : IF Keeps(i) THEN SubSeq(Part(i), qs + 1, qs + ks) ELSE <<>>),
       v |-> Join(g.tp, LAMBDA i : IF Keeps(i) THEN SubSeq(Part(i), qs + ks + 1, total) ELSE <<>>)]

\* W: rank -> chunk -> its tensors.  The ranks of data rank 0 send theirs to rank 0.
Merged(g, W) ==
  LET From(pp, vpp, n) == [t \in 1..g.tp |-> W[CalcGlobalRank(g, t - 1, 0, pp)][vpp][n]]
      At(l, part) == LET pos == LayerMap(g)[l] IN From(pos[1], pos[2], <<pos[3], part>>)
      End(part) == From(g.pp - 1, g.vpp - 1, <<NoLayer, part>>)
  IN  [n \in CheckpointNames(g) |->
         CASE n[2] \in {"q", "k", "v"} -> MergeQkv(g, At(n[1], "qkv"))[n[2]]
           [] n[2] \in {"gate", "up"}  -> MergeGateUp(g, At(n[1], "gate_up"))[n[2]]
           [] n[2] \in {"o", "down"}   -> MergeShards(At(n[1], n[2]))
           [] n[2] = "ln"              -> At(n[1], "ln")[1]
           [] n[2] = "embed"           -> MergeShards(From(0, 0, n))
           [] n[2] = "norm"            -> End("norm")[1]
           [] n[2] = "head"            -> MergeShards(End("head"))]

---------------------------------------------------------------------------
(* From training shards to inference shards. *)
MicroSize(g) == g.tp \div g.itp
\* Neighbouring ranks gather their shards; the group is the sequence of its ranks.
MicroGroup(g, r) == [j \in 1..MicroSize(g) |-> (r \div MicroSize(g)) * MicroSize(g) + j - 1]

\* The tensor parallel group of the engine: contiguous when the sizes agree, strided otherwise.
InferGroup(g, r) ==
  IF MicroSize(g) = 1 THEN [j \in 1..g.itp |-> (r \div g.itp) * g.itp + j - 1]
  ELSE LET start == (r \div g.tp) * g.tp
       IN  [j \in 1..g.itp |-> start + ((r - start) % MicroSize(g)) + (j - 1) * MicroSize(g)]

\* Mutant of TpConcat: the shards of a fused tensor are joined as they are.
TpConcatPlain(g, part, shards) == FlattenSeq(shards)

\* Fused tensors are taken apart, joined piece by piece and fused again.
TpConcat(g, part, shards) ==
  LET n == Len(shards)
      perKv == g.heads \div g.kv
      kv == Len(shards[1]) \div (perKv + 2)
      half == Len(shards[1]) \div 2
      Piece(from, to) == FlattenSeq([i \in 1..n |-> SubSeq(shards[i], from, to)])
  IN  CASE part = "qkv"     -> Piece(1, kv * perKv) \o Piece(kv * perKv + 1, kv * (perKv + 1))
                                 \o Piece(kv * (perKv + 1) + 1, kv * (perKv + 2))
        [] part = "gate_up" -> Piece(1, half) \o Piece(half + 1, 2 * half)
        [] OTHER            -> FlattenSeq(shards)

\* The shard a rank of the engine needs: vLLM cuts q, k, v, gate and up each by its own size.
EngineShard(g, name, t) ==
  LET full(part) == Checkpoint(g)[<<name[1], part>>]
  IN  CASE name[2] = "qkv"     -> TorchChunk(full("q"), g.itp, t) \o TorchChunk(full("k"), g.itp, t)
                                    \o TorchChunk(full("v"), g.itp, t)
        [] name[2] = "gate_up" -> TorchChunk(full("gate"), g.itp, t) \o TorchChunk(full("up"), g.itp, t)
        [] IsTensorParallel(name[2]) /\ name[2] \notin {"qkv", "gate_up"} -> TorchChunk(full(name[2]), g.itp, t)
        [] OTHER               -> full(name[2])
EngineNames(g) ==
  ((0..(g.layers - 1)) \X {"qkv", "o", "gate_up", "down", "ln"}) \cup ({NoLayer} \X {"embed", "norm", "head"})
=============================================================================
