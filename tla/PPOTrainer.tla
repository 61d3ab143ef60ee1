----------------------------- MODULE PPOTrainer -----------------------------
(***************************************************************************)
(* The driver of verl/trainer/ppo/ray_trainer.py: fit() draws a batch of   *)
(* tasks, lets the rollout manager play each of them turn by turn, adds    *)
(* column after column to the batch by calling the workers of HybridEngine,*)
(* updates the critic and the actor from it, validates, saves, and counts. *)
(*                                                                         *)
(* A column is abstracted to the order of its rows and its lineage, the    *)
(* versions of the models it was computed from.  Whether a task goes on    *)
(* for another turn is the agent's choice (RolloutProtocol); the rows that *)
(* pad a batch repeat what their originals did and are left out here.      *)
(***************************************************************************)
EXTENDS HybridEngine

CONSTANTS
  Configs,    \* the configurations of a job
  MaxIter     \* data.max_iterations: the turns of a rollout

\* critic: adv_estimator is gae, else grpo.  kl_loss: use_kl_loss.  rows and
\* val_rows: the sizes of the two kinds of batches.  batches: the length of the
\* train dataloader.  total: total_training_steps, 0 where it is null.
ASSUME ConfigAssumption ==
  /\ MaxIter \in Nat \ {0}
  /\ Configs \subseteq
       [critic : BOOLEAN, kl_loss : BOOLEAN, val_before : BOOLEAN, rows : Nat \ {0},
        val_rows : Nat \ {0}, batches : Nat \ {0}, epochs : Nat \ {0}, total : Nat,
        warmup : Nat, test_freq : Nat, save_freq : Nat]

VARIABLES
  cfg,
  pc,          \* the stage fit() is in
  failed,      \* an exception has ended fit()
  epoch, left, \* the epoch, and the batches its dataloader still has
  steps,       \* global_steps
  turn, said,  \* the rollout manager: the current row's turn, the lineage of its
               \* earlier replies
  outs,        \* and the rows that are finished
  batch,       \* column -> [order, lineage]
  validated    \* the values of global_steps at which _validate() has finished

driver == <<cfg, pc, failed, epoch, left, steps, turn, said, outs, batch, validated>>
vars == <<workers, driver>>

\* _create_dataloader
TotalSteps == IF cfg.total # 0 THEN cfg.total ELSE cfg.batches * cfg.epochs

Init ==
  /\ HybridInit
  /\ cfg \in Configs
  /\ pc = "first" /\ failed = FALSE
  /\ epoch = 1 /\ left = cfg.batches /\ steps = 0
  /\ turn = 0 /\ said = {} /\ outs = << >> /\ batch = << >> /\ validated = {}

\* Mutant of Stages: the actor is updated first.
StagesSwapped == <<"rollout", "balance", "ref", "values", "reward", "kl", "advantage",
            "update_actor", "update_critic", "test", "save_actor", "save_critic", "end">>

\* One iteration of the loop, and which parts of it a configuration leaves out.
Stages == <<"rollout", "balance", "ref", "values", "reward", "kl", "advantage",
            "update_critic", "update_actor", "test", "save_actor", "save_critic", "end">>
StageSet == {Stages[i] : i \in DOMAIN Stages}
NextStage == LET i == CHOOSE j \in DOMAIN Stages : Stages[j] = pc IN Stages[i + 1]

Due(freq) == freq > 0 /\ steps % freq = 0

Wanted ==
  /\ pc \in {"values", "update_critic", "save_critic"} => cfg.critic
  /\ pc = "update_actor" => cfg.warmup <= steps
  /\ pc = "test" => Due(cfg.test_freq)
  /\ pc \in {"save_actor", "save_critic"} => Due(cfg.save_freq)

At(stage) == pc = stage /\ ~failed /\ call = None /\ Wanted

Skip ==
  /\ pc \in StageSet /\ ~Wanted /\ call = None /\ ~failed
  /\ pc' = NextStage
  /\ UNCHANGED <<workers, cfg, failed, epoch, left, steps, turn, said, outs, batch, validated>>

\* Validation before the first step: self.rollout_manager does not exist yet.
First ==
  /\ At("first")
  /\ IF cfg.val_before
       THEN failed' = TRUE /\ UNCHANGED <<pc, steps>>
       ELSE pc' = "next" /\ steps' = 1 /\ UNCHANGED failed
  /\ UNCHANGED <<workers, cfg, epoch, left, turn, said, outs, batch, validated>>

\* The two for loops, and the pop that leaves the tasks' own columns.
NextBatch ==
  /\ At("next") /\ left > 0
  /\ left' = left - 1 /\ pc' = "rollout"
  /\ batch' = [c \in {"ground_truth"} |->
                 [order |-> [i \in 1 .. cfg.rows |-> i], lineage |-> {}]]
  /\ UNCHANGED <<workers, cfg, failed, epoch, steps, turn, said, outs, validated>>

NextEpoch ==
  /\ At("next") /\ left = 0
  /\ IF epoch < cfg.epochs
       THEN epoch' = epoch + 1 /\ left' = cfg.batches /\ UNCHANGED pc
       ELSE pc' = "done" /\ UNCHANGED <<epoch, left>>
  /\ UNCHANGED <<workers, cfg, failed, steps, turn, said, outs, batch, validated>>

-----------------------------------------------------------------------------
(* RolloutManager.get_rollout, for training and for validation. *)

Validating == pc \in {"test", "final"}
Generating == At("rollout") \/ At("test") \/ At("final")
RolloutRows == IF Validating THEN cfg.val_rows ELSE cfg.rows

\* generate_sequences of the current row's next turn.  Only the batch of the
\* first turn carries the meta_info of _validate; later ones have none.
Turn ==
  /\ Generating /\ Len(outs) < RolloutRows
  /\ Invoke([method |-> "generate_sequences",
             recompute |-> ~(Validating /\ turn = 0), greedy |-> Validating /\ turn = 0])
  /\ UNCHANGED driver

\* Mutant of TurnGoesOn: the index of the loop is not advanced.
TurnGoesOnForever ==
  /\ pc \in {"rollout", "test", "final"} /\ Return
  /\ said' = said \cup Collected("sequences")
  /\ UNCHANGED <<cfg, pc, failed, epoch, left, steps, turn, outs, batch, validated>>

\* The agent answers with the next prompt, which quotes the replies so far ...
TurnGoesOn ==
  /\ pc \in {"rollout", "test", "final"} /\ Return
  /\ turn + 1 < MaxIter
  /\ turn' = turn + 1 /\ said' = said \cup Collected("sequences")
  /\ UNCHANGED <<cfg, pc, failed, epoch, left, steps, outs, batch, validated>>

\* The columns a finished row brings: its last turn's, with every reply in them,
\* and the mask (add_response_mask_to_output).
Finished(columns) ==
  [c \in columns |-> IF c \in DOMAIN result[Rank0] /\ c # "sequences"
                       THEN Collected(c) ELSE said \cup Collected("sequences")]

\* ... or with the verdict, or the turns are used up.
RowEnds ==
  /\ pc \in {"rollout", "test", "final"} /\ Return
  /\ turn' = 0 /\ said' = {}
  /\ outs' = Append(outs, Finished(DOMAIN result[Rank0] \cup {"response_mask"}))
  /\ UNCHANGED <<cfg, pc, failed, epoch, left, steps, batch, validated>>

\* DataProto.concat: torch.cat of TensorDicts that differ in their keys raises.
Mixed == \E i, j \in DOMAIN outs : DOMAIN outs[i] # DOMAIN outs[j]
Concat == [c \in DOMAIN outs[1] |->
             [order |-> [i \in DOMAIN outs |-> i], lineage |-> UNION {outs[i][c] : i \in DOMAIN outs}]]

Union(data) == [c \in DOMAIN batch \cup DOMAIN data |->
                  IF c \in DOMAIN data THEN data[c] ELSE batch[c]]

\* The uids, batch.repeat(1) and batch.union(gen_batch_output).
RolloutEnds ==
  /\ At("rollout") /\ Len(outs) = RolloutRows /\ ~Mixed
  /\ batch' = Union(Columns(Concat, "uid", batch["ground_truth"])) /\ outs' = << >> /\ pc' = "balance"
  /\ UNCHANGED <<workers, cfg, failed, epoch, left, steps, turn, said, validated>>

\* _validate scores its own batch and leaves the training batch alone.
Validated ==
  /\ At("test") \/ At("final")
  /\ Len(outs) = RolloutRows /\ ~Mixed
  /\ validated' = validated \cup {steps}
  /\ outs' = << >>
  /\ pc' = IF pc = "final" THEN "done" ELSE NextStage
  /\ UNCHANGED <<workers, cfg, failed, epoch, left, steps, turn, said, batch>>

-----------------------------------------------------------------------------
(* The columns, one after the other. *)

\* _balance_batch: DataProto.reorder permutes tensors and non-tensors alike.
Reordered(p) == [c \in DOMAIN batch |->
                   [batch[c] EXCEPT !.order = [i \in DOMAIN @ |-> @[p[i]]]]]
Permutations == {p \in [1 .. cfg.rows -> 1 .. cfg.rows] : \A i, j \in 1 .. cfg.rows :
                   i # j => p[i] # p[j]}
Balance ==
  /\ At("balance")
  /\ \E p \in Permutations : batch' = Reordered(p)
  /\ pc' = NextStage
  /\ UNCHANGED <<workers, cfg, failed, epoch, left, steps, turn, said, outs, validated>>

\* What a stage reads of the batch, and what it is called.
Sequences == {"sequences"}
Needs ==
  CASE pc = "ref" -> Sequences
    [] pc = "values" -> Sequences \cup {"response_mask"}
    [] pc = "reward" -> Sequences \cup {"ground_truth"}
    [] pc = "kl" -> {"token_level_scores"} \cup
         (IF cfg.kl_loss THEN {} ELSE Sequences \cup {"response_mask", "old_log_probs", "ref_log_prob"})
    [] pc = "advantage" -> Sequences \cup {"response_mask", "token_level_rewards"} \cup
         (IF cfg.critic THEN {"values"} ELSE {"uid"})
    [] pc = "update_critic" -> Sequences \cup {"values", "returns", "response_mask"}
    [] pc = "update_actor" -> Sequences \cup {"old_log_probs", "advantages", "response_mask"} \cup
         (IF cfg.kl_loss THEN {"ref_log_prob"} ELSE {})
    [] OTHER -> {}

Remote == [ref |-> "compute_ref_log_prob", values |-> "compute_values",
           update_critic |-> "update_critic", update_actor |-> "update_actor",
           save_actor |-> "save_actor", save_critic |-> "save_critic"]

Missing == pc \in StageSet /\ At(pc) /\ ~(Needs \subseteq DOMAIN batch)

\* An exception in the driver or in a worker ends fit(): a key that is not in the
\* batch, or outputs that cannot be concatenated.
Raise ==
  /\ Missing \/ (Generating /\ Len(outs) = RolloutRows /\ Mixed)
  /\ failed' = TRUE
  /\ UNCHANGED <<workers, cfg, pc, epoch, left, steps, turn, said, outs, batch, validated>>

\* The batch is sent to the workers; _save_checkpoint sends only a path.
Send ==
  /\ pc \in DOMAIN Remote /\ At(pc) /\ ~Missing
  /\ Invoke(IF pc \in {"save_actor", "save_critic"}
              THEN [method |-> Remote[pc], tag |-> steps] ELSE [method |-> Remote[pc]])
  /\ UNCHANGED driver

\* The ranks' chunks come back in the order they were sent: the new column has
\* the order of the batch.
Order == batch["sequences"].order
Receive ==
  /\ pc \in DOMAIN Remote /\ Return
  /\ IF pc \in {"ref", "values"}
       THEN batch' = Union([c \in DOMAIN result[Rank0] |->
                              [order |-> Order, lineage |-> Collected(c)]])
       ELSE UNCHANGED batch
  /\ pc' = NextStage
  /\ UNCHANGED <<cfg, failed, epoch, left, steps, turn, said, outs, validated>>

\* Columns the driver computes itself, row by row.
Made(columns) ==
  [c \in columns |-> [order |-> Order, lineage |-> UNION {batch[d].lineage : d \in Needs}]]
Compute(stage, columns) ==
  /\ At(stage) /\ ~Missing
  /\ batch' = Union(Made(columns))
  /\ pc' = NextStage
  /\ UNCHANGED <<workers, cfg, failed, epoch, left, steps, turn, said, outs, validated>>

Reward == Compute("reward", {"token_level_scores"})
ApplyKL == Compute("kl", {"token_level_rewards"})
Advantage == Compute("advantage", {"advantages", "returns"})

\* The end of an iteration: the last one validates, whatever test_freq is.
EndStep ==
  /\ At("end")
  /\ steps' = steps + 1
  /\ pc' = IF steps' >= TotalSteps THEN "final" ELSE "next"
  /\ UNCHANGED <<workers, cfg, failed, epoch, left, turn, said, outs, batch, validated>>

Driver ==
  \/ Skip \/ First \/ NextBatch \/ NextEpoch
  \/ Turn \/ TurnGoesOn \/ RowEnds \/ RolloutEnds \/ Validated
  \/ Balance \/ Raise \/ Send \/ Receive \/ Reward \/ ApplyKL \/ Advantage \/ EndStep

WorkerStep(k) == Worker(k) /\ UNCHANGED driver
CollectiveStep == Collective /\ UNCHANGED driver
Over == (pc = "done" \/ failed) /\ UNCHANGED vars

Next == Driver \/ (\E k \in Ranks : WorkerStep(k)) \/ CollectiveStep \/ Over

Fairness ==
  /\ WF_vars(Driver)
  /\ \A k \in Ranks : WF_vars(WorkerStep(k))
  /\ WF_vars(CollectiveStep)

Spec == Init /\ [][Next]_vars /\ Fairness

-----------------------------------------------------------------------------
Column == [order : UNION {[1 .. n -> Nat] : n \in Nat}, lineage : Lineages]

TypeOK ==
  /\ HybridTypeOK
  /\ cfg \in Configs
  /\ pc \in StageSet \cup {"first", "next", "final", "done"}
  /\ failed \in BOOLEAN
  /\ epoch \in 1 .. cfg.epochs /\ left \in 0 .. cfg.batches
  /\ steps \in 0 .. cfg.batches * cfg.epochs + 1
  /\ turn \in 0 .. MaxIter - 1
  /\ said \in Lineages
  /\ \A i \in DOMAIN outs : \A c \in DOMAIN outs[i] : outs[i][c] \in Lineages
  /\ \A c \in DOMAIN batch : batch[c].lineage \in Lineages
                              /\ DOMAIN batch[c].order = 1 .. cfg.rows
  /\ validated \subseteq 0 .. steps

\* Once the batch is balanced, and through every union after it, all columns
\* list the tasks in the same order, so that no reward is credited to another
\* row's tokens (ray_trainer.py:628).
RowsAligned ==
  pc \in StageSet => \A c, d \in DOMAIN batch : batch[c].order = batch[d].order

\* The updates learn from what the models were before either was updated: every
\* reply of every turn, its log probabilities and its values come from the one
\* version each rank's shards have when the critic's update is sent, and the
\* actor has not moved when its own is sent (ray_trainer.py:676-688).
FreshExperience ==
  call = None /\ ~failed =>
    \A c \in DOMAIN batch, k \in Ranks : \A source \in batch[c].lineage :
      /\ pc = "update_critic" => source[2] = shard[k][source[1]]
      /\ pc = "update_actor" /\ source[1] # "critic" => source[2] = shard[k][source[1]]

\* Training never misses a column, in any configuration.  fit() fails only where
\* it validates: before the first step, and when some rollouts of a validation
\* end in their first turn and others do not (rollout_manager.py:219).
FailsOnlyInValidation == failed => pc = "first" \/ (Validating /\ Mixed)

\* Between two calls, what is configured to be offloaded is on the CPU; only the
\* actor's parameters stay on the GPU until the first turn of the job is over.
FirstTurn == steps <= 1 /\ pc \in {"first", "next", "rollout"} /\ outs = << >> /\ turn = 0
GpuGivenBack ==
  \A k \in Ranks : (call = None \/ wpc[k] = "done") =>
    (gpu[k] \cap offload) \subseteq (IF FirstTurn THEN {"actor"} ELSE {})

\* Every checkpoint holds one version of its model, the one after the updates of
\* the step it is named for, and at the end of a step there is one of each model
\* or none (ray_trainer.py:698).
ActorUpdates(n) == Cardinality({s \in 1 .. n : cfg.warmup <= s})
UpdatesOf(model, n) == IF model = "critic" THEN n ELSE ActorUpdates(n)
CheckpointsAgree ==
  /\ \A c \in saved : c.lineage = {<<c.model, UpdatesOf(c.model, c.tag)>>}
  /\ pc = "end" =>
       {c.model : c \in {c \in saved : c.tag = steps}} =
         IF ~Due(cfg.save_freq) THEN {} ELSE {"actor"} \cup (IF cfg.critic THEN {"critic"} ELSE {})

\* Between two steps every rank has made the same updates: one of the critic for
\* every step so far, one of the actor for every step after the warmup.
UpdatesCounted ==
  pc \in {"next", "final", "done"} =>
    \A k \in Ranks :
      /\ shard[k]["critic"] = (IF cfg.critic THEN steps - 1 ELSE 0)
      /\ shard[k]["actor"] = ActorUpdates(steps - 1)

\* A job that can reach total_training_steps ends with a validation of the final
\* weights, whatever test_freq is (ray_trainer.py:712).
FinalValidated ==
  pc = "done" /\ TotalSteps <= cfg.batches * cfg.epochs
    => steps >= TotalSteps /\ steps \in validated

\* The columns of an update are those of one batch: aligned, and fresh.
ExperienceFits == RowsAligned /\ FreshExperience

\* What holds of a job at every moment: its failures, the memory it holds, its
\* checkpoints, the count of its updates and its last validation.
JobKept == FailsOnlyInValidation /\ GpuGivenBack /\ CheckpointsAgree /\ UpdatesCounted /\ FinalValidated

\* fit() comes to its end, no rank waiting at a collective for one that left; on
\* the way it only fails where it validates, gives the memory back, saves
\* checkpoints that agree, counts its updates, and validates the final weights.
EndsWell == <>(pc = "done" \/ failed) /\ []JobKept

=============================================================================
