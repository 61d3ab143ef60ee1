---------------------------- MODULE Computations ----------------------------
(***************************************************************************)
(* The computations of a training step that one process makes by itself,   *)
(* each on every small input: what a caller does with a DataProto, call    *)
(* after call; rows sampled, packed, scored and put back; a reward model's *)
(* scores in any split into micro-batches; responses scored by their text; *)
(* scores turned into advantages and losses; a checkpoint cut over         *)
(* Megatron's ranks and merged; the parameters of a module packed into a   *)
(* buffer.  A job is its input, out what has been computed of it.          *)
(***************************************************************************)
EXTENDS DataProto, RewardModel, RewardScores, Advantages, MemoryBuffers, MegatronWeights

CONSTANTS
  Jobs,       \* the inputs
  MaxCalls,   \* calls on DataProtos after from_dict
  MaxHeld,    \* DataProtos a caller holds
  SpSizes     \* sizes of the Ulysses group

VARIABLES
  job,        \* the input, with its kind
  out,        \* the result so far; None before
  calls       \* how many calls were made on DataProtos

vars == <<job, out, calls>>

Init ==
  /\ job \in Jobs
  /\ out = IF job.kind = "edit" THEN FromDict(job.rows, {"ids", "mask"}, {"uid"}) ELSE None
  /\ calls = 0

-----------------------------------------------------------------------------
(* A caller of DataProto's methods. *)

\* Those it can still use: they pass the check any method makes of them.
Live == {h \in DOMAIN out.held : Consistent(Tensors(out, h), NonTensors(out, h))}
Flat(h) == Tensors(out, h).each = 0
Keys(h) == DOMAIN Tensors(out, h).cols
Objects(h) == DOMAIN NonTensors(out, h).cols
Room(n) == Len(out.held) + n <= MaxHeld

Edit(new) ==
  /\ job.kind = "edit" /\ ~ out.raised /\ calls < MaxCalls
  /\ out' = new /\ calls' = calls + 1
  /\ UNCHANGED job
Editing == job.kind = "edit"

\* Of any of them: select raises for one that was folded or unfolded, unless it
\* leaves out what was changed.
DoSelect ==
  /\ Editing /\ Room(1)
  /\ \E h \in DOMAIN out.held : \E keys \in {None, Keys(h) \cap {"ids"}} : \E objects \in {None, {}} :
       Edit(Select(out, h, keys, objects))
DoPop ==
  /\ Editing /\ Room(1)
  /\ \E h \in Live : \E keys \in {{}, Keys(h) \cap {"ids"}, Keys(h)} : \E objects \in {{}, Objects(h)} :
       Edit(Pop(out, h, keys, objects))
DoRename ==
  /\ Editing
  /\ \E h \in Live : \E old \in Keys(h) : Edit(Rename(out, h, old, "renamed"))
\* Of rows the caller knows to be the same, as the driver does with what it
\* popped before and with what the workers return.
DoUnion ==
  /\ Editing
  /\ \E h, o \in Live : out.held[h].rows = out.held[o].rows /\ Edit(Union(out, h, o))
\* Something of another size.
DoUnionOther ==
  /\ Editing
  /\ \E h, o \in Live : Size(out, h) # Size(out, o) /\ Edit(Union(out, h, o))
DoSlice ==
  /\ Editing /\ Room(1)
  /\ \E h \in Live : Size(out, h) > 1 /\ Edit(Slice(out, h, Size(out, h) - 1))
DoIterate ==
  /\ Editing
  /\ \E h \in Live : \E m \in {2, 3} : \E order \in {Interval(1, Size(out, h)), Reverse(Interval(1, Size(out, h)))} :
       /\ Room(Size(out, h) \div m)
       /\ Edit(MakeIterator(out, h, m, order))
DoChunk ==
  /\ Editing
  /\ \E h \in Live : \E chunks \in {2, 3} : Room(chunks) /\ Edit(Chunk(out, h, chunks))
DoConcat ==
  /\ Editing /\ Room(1)
  /\ \E h, o \in Live : Edit(Concat(out, <<h, o>>))
DoReorder ==
  /\ Editing
  /\ \E h \in Live : Edit(Reorder(out, h, Rolled(Interval(1, Size(out, h)))))
DoRepeat ==
  /\ Editing /\ Room(1)
  /\ \E h \in Live : \E interleave \in BOOLEAN : Edit(Repeat(out, h, 2, interleave))
DoFold ==
  /\ Editing /\ Room(1)
  /\ \E h \in Live : Flat(h) /\ Edit(Fold(out, h, 2))
DoUnfold ==
  /\ Editing /\ Room(1)
  /\ \E h \in Live : ~ Flat(h) /\ Edit(Unfold(out, h))
DoFuture ==
  /\ Editing /\ Room(2)
  /\ \E h, o \in Live : \E i \in 1 .. 2 : Edit(FutureGet(out, <<h, o>>, 2, i))

EditBatch ==
  \/ DoSelect \/ DoPop \/ DoRename \/ DoUnion \/ DoUnionOther \/ DoSlice \/ DoIterate
  \/ DoChunk \/ DoConcat \/ DoReorder \/ DoRepeat \/ DoFold \/ DoUnfold \/ DoFuture

-----------------------------------------------------------------------------
(* The other computations. *)

Compute(kind, new) ==
  /\ job.kind = kind /\ out = None
  /\ out' = new
  /\ UNCHANGED <<job, calls>>

\* A rollout's rows; the masks of the tests are rows already.
DoSample ==
  /\ job.kind = "tokens"
  /\ \/ /\ job.by = "hf" /\ HfChunksFail(Len(job.prompts.ids), job.micro)
        /\ Compute("tokens", [stage |-> "failed"])
     \/ /\ job.by = "hf" /\ ~ HfChunksFail(Len(job.prompts.ids), job.micro)
        /\ Compute("tokens", IF HfFails(job.replies, job.len) THEN [stage |-> "failed"]
                             ELSE [stage |-> "rows", batch |-> HfBatch(job.prompts, job.replies, job.len)])
     \/ /\ job.by = "naive"
        /\ Compute("tokens", [stage |-> "rows", batch |-> NaiveBatch(job.prompts, job.replies)])
     \/ /\ job.by = "mask"
        /\ Compute("tokens", [stage |-> "rows", batch |-> Batch(job.ids, job.mask, PositionIds(job.mask))])

Rows(stage) == job.kind = "tokens" /\ out # None /\ out.stage = stage
Finish(stage, result) ==
  /\ out' = [stage |-> stage, batch |-> out.batch, result |-> result]
  /\ UNCHANGED <<job, calls>>

DoLogProbs ==
  /\ Rows("rows")
  /\ \E sp \in SpSizes : Finish("logprobs", ForwardLogProbs(out.batch, sp))
DoValues ==
  /\ Rows("rows")
  /\ \E sp \in SpSizes : Finish("values", ForwardValues(out.batch, sp))

\* The logits of the model without Ulysses, as the tests compute them.
PackedLogits == LET idx == UnpadData(out.batch.mask).indices
                    pos == Packed(out.batch.pos, idx)
                IN  AttentionLayer(<<Packed(out.batch.ids, idx)>>, pos)[1]
PaddedLogits ==
  [r \in DOMAIN out.batch.ids |-> [c \in DOMAIN out.batch.ids[r] |->
     Context(out.batch.ids, out.batch.mask, r, c)]]
DoResponse ==
  /\ Rows("rows")
  /\ \/ Finish("response", LogProbsResponseRmpad(out.batch, PackedLogits, job.len))
     \/ Finish("response", LogProbsFromLogitsResponse(out.batch.ids, PaddedLogits, job.len))
DoPack ==
  /\ Rows("rows")
  /\ LET u == UnpadData(out.batch.mask)
     IN  \E tp \in SpSizes :
           Finish("packed", [tp |-> tp, shapes |-> InputShapes(<<out.batch.mask>>, tp, TRUE),
                             in |-> PadPackedInputs(Packed(out.batch.ids, u.indices), u.cu, u.max, tp)])

DoReward ==
  /\ job.kind = "reward"
  /\ \E micros \in job.splits : Compute("reward", ComputeRmScore(job.ranks, micros, job.maxLength, job.switch))

\* A question's responses, as main_eval.py scores them.
DoScore ==
  /\ job.kind = "answers"
  /\ Compute("answers",
       [scores |-> [i \in DOMAIN job.responses |-> ScoreOf(job.source, job.responses[i], job.truth)],
        passed |-> job.source = "math" /\ Passes(job.responses, job.truth)])

DoAdvantage ==
  /\ job.kind = "advantage"
  /\ LET rewards == ApplyKlPenalty(job.scores, job.logp, job.ref, job.mask, job.beta, job.penalty)
     IN  Compute("advantage",
           [rewards |-> rewards,
            coefficient |-> NextCoefficient(job.controller,
                              CurrentKl(job.logp, job.ref, job.mask, job.penalty), 1, Len(job.mask), 2),
            made |-> ComputeAdvantage(job.estimator, rewards, job.values, job.mask, job.index, job.gamma, job.lam)])
DoLoss ==
  /\ job.kind = "loss"
  /\ Compute("loss", [policy |-> PolicyLoss(job.ratio, job.adv, job.mask, job.clip),
                      value |-> ValueLoss(job.ratio, job.adv, job.old, job.mask, job.clip),
                      entropy |-> EntropyLoss(job.old, job.mask)])

DoCheckpoint ==
  /\ job.kind = "checkpoint"
  /\ Compute("checkpoint",
       Merged(job.grid, [r \in World(job.grid) |-> [v \in 0 .. job.grid.vpp - 1 |->
         Loaded(job.grid, TpOf(job.grid, r), PpOf(job.grid, r), v)]]))
DoBuffers ==
  /\ job.kind = "buffers"
  /\ Compute("buffers", [actor |-> BuildMemoryReferenceFromModule(job.module),
                         rollout |-> RolloutBuffers(<<job.module>>)[1].views])

Next ==
  \/ EditBatch
  \/ DoSample \/ DoLogProbs \/ DoValues \/ DoResponse \/ DoPack
  \/ DoReward \/ DoScore \/ DoAdvantage \/ DoLoss \/ DoCheckpoint \/ DoBuffers

Spec == Init /\ [][Next]_vars

-----------------------------------------------------------------------------
(* Properties. *)

\* Whatever a caller does with its DataProtos, and however they share their
\* dictionaries, the tensors and the object arrays of each still hold the rows
\* it was made of, in the same order; one folded under another name has its
\* object arrays grouped, which check_consistency tells (protocol.py).
RowsStayTogether == job.kind = "edit" => Together(out)

\* Padding removed, packed with other rows, sliced over any Ulysses group and
\* gathered again, every column of every row gets what its own row's tokens up
\* to it make of it, head by head, and the log-probability of its own
\* successor; a response part is cut out where it is (dp_actor.py, dp_critic.py,
\* ulysses.py, torch_functional.py).
LogProbsOfOwnTokens ==
  job.kind = "tokens" /\ out # None =>
    CASE out.stage = "logprobs" -> LogProbsAreOwn(out.batch.ids, out.batch.mask, out.result)
      [] out.stage = "values"   -> ValuesAreOwn(out.batch.ids, out.batch.mask, out.result)
      [] out.stage = "response" -> ResponseIsOwn(out.batch.ids, out.batch.mask, job.len, out.result)
      [] out.stage = "packed"   ->
           /\ PackedIsWhole(Packed(out.batch.ids, UnpadData(out.batch.mask).indices), out.result.in, out.result.tp)
           /\ out.result.shapes = <<Len(out.result.in.x) \div out.result.tp>>
      [] OTHER -> TRUE


\* The penalty is charged to the model's own columns, the advantages are those
\* of the definitions, whitened without changing their order, and the policy
\* loss is the clipped objective (core_algos.py, apply_kl_penalty and
\* compute_advantage of ray_trainer.py).
AdvantagesAsDefined ==
  /\ job.kind = "advantage" /\ out # None =>
       /\ ChargedOnce(job.scores, job.logp, job.ref, job.mask, job.beta, job.penalty, out.rewards)
       /\ job.estimator = "gae" =>
            GaeIsDefined(out.rewards, job.values, job.mask, job.gamma, job.lam, out.made)
       /\ job.estimator = "grpo" => GrpoIsDefined(out.rewards, job.mask, job.index, out.made)
  /\ job.kind = "loss" /\ out # None => LossIsClipped(job.ratio, job.adv, job.mask, job.clip)

\* What the loader cut over tensor, pipeline and virtual pipeline ranks the
\* merger puts together again, and the names a chunk's layers are given are
\* those of the layers it was given.  A module's parameters lie apart in their
\* buffers; the actor has them where the rollout has them if they are of one
\* type, and otherwise only if their sizes are padded alike: the actor's places
\* are counted in the padding of the type met last (llama_loader.py,
\* llama_saver.py, utils/model.py, memory_buffer.py).
WeightsWhole ==
  /\ job.kind = "checkpoint" /\ out # None =>
       /\ out = Checkpoint(job.grid)
       /\ \A pos \in {LayerMap(job.grid)[l] : l \in DOMAIN LayerMap(job.grid)} :
            LayerMap(job.grid)[NormalizeName(job.grid, pos[1], pos[2], <<pos[3], "ln">>)[1]] = pos
  /\ job.kind = "buffers" /\ out # None => ViewsAgree(job.module, out.actor, out.rollout)
=============================================================================
