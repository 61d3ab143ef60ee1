------------------------------ MODULE SftTrainer ------------------------------
(***************************************************************************)
(* fsdp_sft_trainer.py on all its ranks, and SFTDataset: every rank loads  *)
(* its own share of an epoch's order, and they meet in the collectives:    *)
(* FSDP's forward, backward and clip_grad_norm_, the all_reduce of tokens  *)
(* and losses, the barriers and the state_dict of a checkpoint.  A         *)
(* collective goes on only when every rank has come to it.                 *)
(*                                                                         *)
(* A row is [prompt, response], its lengths in tokens (the response's with *)
(* the end of sequence); a token is <<item, place>>.  What a step learns   *)
(* is the weight of every token in its loss, here as the whole number it   *)
(* is divided by.                                                          *)
(***************************************************************************)
EXTENDS Naturals, Sequences, FiniteSets, FiniteSetsExt, Functions

CONSTANTS
  Settings,   \* the configurations: records [trainBatch, microBatch, maxLength,
              \* truncation, balance, train, val]; train and val are sequences of rows
  Orders(_),  \* the orders a sampler may draw of so many items
  DpSize,     \* device_mesh.size()
  TotalEpochs \* trainer.total_epochs

ASSUME SftAssumption == DpSize \in Nat \ {0} /\ TotalEpochs \in Nat

\* A prompt has the tokens of the chat template.
SettingOK(c) ==
  /\ {c.trainBatch, c.microBatch} \subseteq Nat \ {0} /\ c.maxLength \in Nat /\ c.balance \in BOOLEAN
  /\ {c.train, c.val} \subseteq Seq([prompt : Nat \ {0}, response : Nat])
ASSUME SettingsAssumption == \A c \in Settings : SettingOK(c)

\* An order has every item at most once.
ASSUME OrdersAssumption ==
  \A c \in Settings : \A o \in Orders(Len(c.train)) :
    o \in [DOMAIN c.train -> DOMAIN c.train] /\ IsInjective(o)

Ranks == 0 .. DpSize - 1

VARIABLES
  config,     \* the configuration
  orders,     \* the samplers' order of the training items in each epoch drawn so far
  at,         \* where each rank is
  epoch, batch, micro,  \* each rank's loop variables
  grads,      \* what the micro-batches of this step have contributed
  learned,    \* what the last optimizer step took
  finite,     \* no weight is NaN
  step,       \* each rank's global_step
  saved       \* the checkpoints, by the step in their names

vars == <<config, orders, at, epoch, batch, micro, grads, learned, finite, step, saved>>

-----------------------------------------------------------------------------
(* SFTDataset.__getitem__. *)

Length(c, row) == IF row.prompt + row.response > c.maxLength THEN c.maxLength ELSE row.prompt + row.response
TooLong(c, row) == row.prompt + row.response > c.maxLength /\ c.truncation = "error"

\* input_ids without the padding: the places of the tokens that are kept.
InputIds(c, row) ==
  LET cut == IF c.truncation = "left" THEN row.prompt + row.response - Length(c, row) ELSE 0
  IN  [i \in 1 .. Length(c, row) |-> cut + i]

\* Mutant of LossMask: the prompt's last token, which predicts the response's
\* first, is masked out with the others.
LossMaskShifted(c, row) ==
  {i \in 1 .. Length(c, row) : i > row.prompt /\ i # Length(c, row)}

\* loss_mask: the columns whose prediction of the next one counts.
LossMask(c, row) ==
  {i \in 1 .. Length(c, row) : (row.prompt > 1 => i > row.prompt - 1) /\ i # Length(c, row)}

\* The tokens a row is trained on: the labels are shifted by one.
Labels(c, item, row) == {<<item, InputIds(c, row)[i + 1]>> : i \in LossMask(c, row)}

-----------------------------------------------------------------------------
(* Loaders. *)

\* _normalize_config_bsz, as far as it goes on.
BatchOf(c) == c.trainBatch \div DpSize
MicroOf(c) == c.microBatch \div DpSize
Normalizes(c) == (c.trainBatch % DpSize) = 0 /\ (c.microBatch % DpSize) = 0

\* DistributedSampler and DataLoader, both with drop_last.
Share(n) == n \div DpSize
TrainBatches(c) == Share(Len(c.train)) \div BatchOf(c)
ValBatches(c) == Share(Len(c.val)) \div MicroOf(c)

\* The items of a rank's b-th batch.
Batch(c, order, r, b) ==
  [i \in 1 .. BatchOf(c) |-> order[((b * BatchOf(c) + i - 1) * DpSize) + r + 1]]

\* batch.split: the last micro-batch may be smaller.
Micros(c) == (BatchOf(c) + MicroOf(c) - 1) \div MicroOf(c)
MicroBatch(c, order, r, b, m) ==
  SubSeq(Batch(c, order, r, b), (m * MicroOf(c)) + 1,
         IF (m + 1) * MicroOf(c) > BatchOf(c) THEN BatchOf(c) ELSE (m + 1) * MicroOf(c))
Tokens(c, items) == UNION {Labels(c, items[i], c.train[items[i]]) : i \in DOMAIN items}

-----------------------------------------------------------------------------
Init ==
  /\ config \in {c \in Settings : Normalizes(c)}
  /\ orders = << >>
  /\ at = [r \in Ranks |-> "build"]
  /\ epoch = [r \in Ranks |-> 0] /\ batch = [r \in Ranks |-> 0] /\ micro = [r \in Ranks |-> 0]
  /\ grads = {} /\ learned = {} /\ finite = TRUE
  /\ step = [r \in Ranks |-> 0]
  /\ saved = << >>

Goes(r, p) == at' = [at EXCEPT ![r] = p]
Together(p, q(_)) == (\A r \in Ranks : at[r] = p) /\ at' = [r \in Ranks |-> q(r)]
Learning == <<grads, learned, finite>>

\* _build_model_optimizer: FSDP spreads the weights rank 0 has loaded.
Build ==
  /\ Together("build", LAMBDA r : "epoch")
  /\ UNCHANGED <<config, orders, epoch, batch, micro, Learning, step, saved>>

\* The head of the loop over epochs: set_epoch seeds the shuffle, so the first
\* rank to get there decides the order for all.
BeginEpoch(r) ==
  /\ at[r] = "epoch"
  /\ IF epoch[r] = TotalEpochs
       THEN Goes(r, "done") /\ UNCHANGED <<orders, batch>>
       ELSE /\ Goes(r, "load")
            /\ batch' = [batch EXCEPT ![r] = 0]
            /\ IF Len(orders) > epoch[r] THEN UNCHANGED orders
               ELSE \E o \in Orders(Len(config.train)) : orders' = Append(orders, o)
  /\ UNCHANGED <<config, epoch, micro, Learning, step, saved>>

\* The loop over the training loader: a row too long raises where it is loaded.
LoadTrain(r) ==
  /\ at[r] = "load"
  /\ IF batch[r] = TrainBatches(config)
       THEN Goes(r, "val") /\ batch' = [batch EXCEPT ![r] = 0]
       ELSE /\ UNCHANGED batch
            /\ LET items == Batch(config, orders[epoch[r] + 1], r, batch[r])
               IN  Goes(r, IF \E i \in DOMAIN items : TooLong(config, config.train[items[i]])
                             THEN "raised" ELSE "forward")
  /\ micro' = [micro EXCEPT ![r] = 0]
  /\ UNCHANGED <<config, orders, epoch, Learning, step, saved>>

-----------------------------------------------------------------------------
(* training_step. *)

\* _compute_loss up to the count of tokens.
Forward ==
  /\ Together("forward", LAMBDA r : IF config.balance THEN "reduce" ELSE "backward")
  /\ UNCHANGED <<config, orders, epoch, batch, micro, Learning, step, saved>>

\* all_reduce(valid_token_this_rank).
ReduceTokens ==
  /\ Together("reduce", LAMBDA r : "backward")
  /\ UNCHANGED <<config, orders, epoch, batch, micro, Learning, step, saved>>

Now(r) == Tokens(config, MicroBatch(config, orders[epoch[r] + 1], r, batch[r], micro[r]))

\* Mutant of ValidTokens: balanced, a rank still divides by its own tokens.
ValidTokensOwn(r) == IF config.balance THEN DpSize * Cardinality(Now(r)) ELSE Cardinality(Now(r))

\* What the sum of a rank's losses is divided by.
ValidTokens(r) ==
  IF config.balance THEN MapThenSumSet(LAMBDA q : Cardinality(Now(q)), Ranks) ELSE Cardinality(Now(r))

\* loss.backward(): the mean over the ranks of FSDP's gradients.
Weight(r) == ValidTokens(r) * Micros(config) * (IF config.balance THEN 1 ELSE DpSize)
Backward ==
  /\ Together("backward", LAMBDA r : IF micro[r] + 1 < Micros(config) THEN "forward" ELSE "clip")
  /\ grads' = grads \cup UNION {Now(r) \X {micro[0]} \X {Weight(r)} : r \in Ranks}
  /\ finite' = (finite /\ \A r \in Ranks : ValidTokens(r) > 0)
  /\ micro' = [r \in Ranks |-> micro[r] + 1]
  /\ UNCHANGED <<config, orders, epoch, batch, learned, step, saved>>

\* clip_grad_norm_ and optimizer.step; zero_grad at the next step's beginning.
OptimizerStep ==
  /\ Together("clip", LAMBDA r : "average")
  /\ learned' = grads /\ grads' = {}
  /\ UNCHANGED <<config, orders, epoch, batch, micro, finite, step, saved>>

\* all_reduce(step_loss); the caller logs and counts.
AverageLoss ==
  /\ Together("average", LAMBDA r : "load")
  /\ step' = [r \in Ranks |-> step[r] + 1]
  /\ batch' = [r \in Ranks |-> batch[r] + 1]
  /\ UNCHANGED <<config, orders, epoch, micro, Learning, saved>>

-----------------------------------------------------------------------------
(* Validation. *)

\* The loop over the validation loader, whose order is not kept: a row too
\* long may be in any rank's share.  At its end rank 0 stacks the losses, and
\* raises when there are none; the others go on to the barrier.
LoadVal(r) ==
  /\ at[r] = "val"
  /\ \/ batch[r] < ValBatches(config) /\ Goes(r, "valForward")
     \/ /\ batch[r] < ValBatches(config) /\ \E i \in DOMAIN config.val : TooLong(config, config.val[i])
        /\ Goes(r, "raised")
     \/ batch[r] = ValBatches(config) /\ Goes(r, IF r = 0 /\ batch[r] = 0 THEN "raised" ELSE "barrier")
  /\ UNCHANGED <<config, orders, epoch, batch, micro, Learning, step, saved>>

\* validation_step.
ValForward ==
  /\ Together("valForward", LAMBDA r : IF config.balance THEN "valReduce" ELSE "valAverage")
  /\ UNCHANGED <<config, orders, epoch, batch, micro, Learning, step, saved>>
ValReduce ==
  /\ Together("valReduce", LAMBDA r : "valAverage")
  /\ UNCHANGED <<config, orders, epoch, batch, micro, Learning, step, saved>>
ValAverage ==
  /\ Together("valAverage", LAMBDA r : "val")
  /\ batch' = [r \in Ranks |-> batch[r] + 1]
  /\ UNCHANGED <<config, orders, epoch, micro, Learning, step, saved>>

Barrier ==
  /\ Together("barrier", LAMBDA r : "state")
  /\ UNCHANGED <<config, orders, epoch, batch, micro, Learning, step, saved>>

-----------------------------------------------------------------------------
(* save_checkpoint. *)

\* Mutant of GatherState: only rank 0, which saves, asks for the state.
GatherStateAlone ==
  /\ \A r \in Ranks : at[r] = (IF r = 0 THEN "state" ELSE "leave")
  /\ at' = [at EXCEPT ![0] = "write"]
  /\ UNCHANGED <<config, orders, epoch, batch, micro, Learning, step, saved>>

\* state_dict() gathers the shards of all ranks.
GatherState ==
  /\ Together("state", LAMBDA r : IF r = 0 THEN "write" ELSE "leave")
  /\ UNCHANGED <<config, orders, epoch, batch, micro, Learning, step, saved>>

\* Rank 0 writes the directory of its step; the others wait.
WriteCheckpoint ==
  /\ at[0] = "write"
  /\ Goes(0, "leave")
  /\ saved' = Append(saved, step[0])
  /\ UNCHANGED <<config, orders, epoch, batch, micro, Learning, step>>
LeaveCheckpoint ==
  /\ Together("leave", LAMBDA r : "epoch")
  /\ epoch' = [r \in Ranks |-> epoch[r] + 1]
  /\ UNCHANGED <<config, orders, batch, micro, Learning, step, saved>>

Next ==
  \/ \E r \in Ranks : BeginEpoch(r) \/ LoadTrain(r) \/ LoadVal(r)
  \/ Build \/ Forward \/ ReduceTokens \/ Backward \/ OptimizerStep \/ AverageLoss
  \/ ValForward \/ ValReduce \/ ValAverage \/ Barrier
  \/ GatherState \/ WriteCheckpoint \/ LeaveCheckpoint

\* A rank runs, and a collective all ranks have come to completes.
Spec == Init /\ [][Next]_vars /\ WF_vars(Next)

-----------------------------------------------------------------------------
(* Properties. *)

Places(row) == row.prompt + 1 .. row.prompt + row.response

\* What a step learns are the responses of its rows, all of their tokens with
\* the end of sequence and none of the prompts'; what is cut away on the right
\* is lost, and on the left perhaps more (sft_dataset.py, __getitem__, and
\* _compute_loss).
LearnsResponses ==
  at[0] = "average" =>
    LET items  == UNION {Range(Batch(config, orders[epoch[r] + 1], r, batch[r])) : r \in Ranks}
        tokens == {e[1] : e \in learned}
    IN  /\ \A t \in tokens : t[1] \in items /\ t[2] \in Places(config.train[t[1]])
        /\ config.truncation # "left" =>
             \A i \in items : \A k \in Places(config.train[i]) :
               <<i, k>> \in tokens <=> k <= config.maxLength

\* With balance_dp_token a token weighs the same in its step on whichever rank
\* it was trained, and the tokens of a micro-batch together weigh what a
\* micro-batch does (_compute_loss, "possible bugs here for dp", and FSDP's
\* mean over the ranks).
TokensShareTheStep ==
  config.balance =>
    \A e \in learned : e[3] = Micros(config) * Cardinality({f \in learned : f[2] = e[2]})

\* When there is something to validate on and nothing is refused for its
\* length, all ranks come to the end of fit together, with a checkpoint for
\* every epoch, named after the steps it has seen, and no weight has become NaN if every row
\* keeps a token of its response.
Sound == ValBatches(config) > 0
         /\ \A row \in Range(config.train) \cup Range(config.val) : ~ TooLong(config, row)
FitEnds ==
  Sound => <>(/\ \A r \in Ranks : at[r] = "done"
              /\ saved = [e \in 1 .. TotalEpochs |-> e * TrainBatches(config)]
              /\ finite \/ \E row \in Range(config.train) : row.prompt >= config.maxLength)
=============================================================================
