# A formal model of TinyZero's Cybench training

This directory holds TLA+ modules that model how this repository trains a language model on
Cybench tasks, TLC configurations that check them on small instances, and proofs that TLAPS
checks for every value of the constants. Paths below are relative to the root of the repository.

Read the modules in this order: `RolloutProtocol` (trainer and agent), `ResponseMask` (one rollout,
seen as tokens), `HybridEngine` and `PPOTrainer` (the workers and the loop that calls them),
`SeqlenBalancing` and `BatchFlow` (one batch on its way through one remote call), `Cluster` (how the
workers come up), `MegatronEngine` (the other back end), `Computations` with the modules it extends
(what one process computes by itself), and then the programs beside the training: `SftTrainer`,
`TaskRunner` with `EvalAgent`, `TreeAgents`.

## 1. The system

### Parts, their state, their operations

| part | code | state | operations |
|---|---|---|---|
| PPO driver | `verl/trainer/ppo/ray_trainer.py` | `global_steps`, the current batch (named columns), the dataloader | `fit`, `_validate`, `_balance_batch`, `_save_checkpoint` |
| Rollout manager | `verl/utils/cyagent/rollout_manager.py` | row, turn, `response_idxs`, files `<rid>_<turn>.out` | `get_rollout`, `get_single_rollout`, `add_response_mask_to_output` |
| Prompt dataset | `verl/utils/dataset/rl_dataset.py` | a fresh rollout id per row | `__getitem__` waits for `_0.in` |
| Reward | `verl/trainer/main_ppo.py`, `verl/utils/reward_score/cybench.py` | none | waits for `<rid>_*_score.txt` and reads it |
| Agent | `cybench/agent/agent.py` | chat chain and its two index lists, the claimed rollout, `processed_rollouts` | claim a rollout, listen, grade, run a command, write the next prompt or the score |
| Launchers | `cybench/run_task.sh`, `cybench/run_train_interface.sh`, `multilaunch_cyagent.sh` | the name of one container | remove, run, remove, again |
| Workers | `verl/workers/fsdp_workers.py` and the actors and critics | shards of the models and optimizers, what is on the GPU | eight remote methods |
| Inference engine | `verl/workers/sharding_manager/fsdp_vllm.py`, `verl/workers/rollout/vllm_rollout` | a copy of the actor | enter, sample, exit |
| Data movement | `verl/protocol.py`, `verl/single_controller/base/decorator.py`, the sharding managers | rows in chunks | pad, chunk, dispatch, collect, concat, reorder |
| Balancing | `verl/utils/seqlen_balancing.py` | a heap of States of Sets | `karmarkar_karp`, `rearrange_micro_batches` |
| Megatron back end | `verl/workers/megatron_workers.py`, `verl/models/llama/megatron` | pp, tp, dp ranks; copies of the other stages; what the engine is bound to | the same remote methods, loading and merging checkpoints |
| Algorithms | `verl/trainer/ppo/core_algos.py`, `verl/utils/torch_functional.py`, `verl/utils/ulysses.py`, `verl/utils/reward_score` | the KL coefficient | advantages, losses, packed forward passes, scores of texts |
| SFT trainer | `verl/trainer/fsdp_sft_trainer.py`, `verl/utils/dataset/sft_dataset.py` | rank, epoch, step | `fit`, `_compute_loss`, `save_checkpoint` |
| Start-up | `verl/single_controller/ray`, `register_center`, `verl/utils/fs.py` | placement groups, named actors, the local copy of the model | create workers, find rank zero, spawn, initialise, copy under a lock |
| Cybench runner | `cybench/run_task.py`, `run_benchmark.py`, `grade_benchmark.py` | task, subtasks, logs | set up a task, run or continue the agent, clean up, grade |
| Evaluation agent | `cybench/agent/eval_agent.py`, `cybench/agent/models` | chat, window, iterations | ask a model with retries, run commands, answer |
| Earlier agents | `cybench/agent/agent_treeexec.py`, `agent_manualtags.py` | the list of processed replies, saved chats | take one reply, grade it, write the next prompt |

`PROJECT.json` lists all components, with the ones that are not modelled and the reason.

### How they interact

- The driver and the agent share nothing but a directory. For rollout `r` the rollout manager
  writes reply `i` of the model to `r_i.out`; the agent answers with `r_(i+1).in` or ends the
  rollout with `r_i_score.txt`. Both poll for existence, without a timeout. `open(path, "w")`
  creates the file before `flock` is taken on it.
- The agent is one process per rollout in one container with a fixed name, started again and again
  by a shell loop. It finds its rollout by globbing for `*_0.out` files that are not on a list it
  keeps in a file.
- The driver calls worker groups and blocks (`execute_all` + `ray.get`). Each call is dispatched in
  chunks, runs on every rank, meets the other ranks in collectives, and is collected.
- Inside a worker, a method loads what is offloaded, works, offloads. To generate, the shards of the
  actor are gathered into the engine, and the engine's copy is dropped after.
- Before the first step the driver places one process per GPU, finds rank zero of each pool through a
  named actor, gives its address to the others, and initialises role after role; the processes of a
  node share one local copy of the model behind a file lock.
- A batch gains a column with every stage of `fit`; it is permuted once in the middle.

### What is hard about it

Files seen between creation and filling; two launchers with one container name; an agent that dies
between claiming and scoring; a job submitted again over the files of the one before; the trainer's
and the agent's numbers of turns, set in different files; spans recorded in one prompt and applied
to another; a copy of the actor that must never be stale; collectives that some rank might not join;
rows that go through five permutations and must come home; processes that find each other by name
and may die first; a copy of the model that was cut off; pipeline stages that shuffle for themselves;
tokens packed, shifted and sliced over ranks; logs that are continued and files that replace each
other. Every one of them is in the
`hazards` of `PROJECT.json`, at the line where it bites, with the properties about it.

### What makes each part correct

- Exchange: strict alternation of turns, one deserved verdict per rollout, every rollout claimed
  once, the reward of a row is the verdict on its rollout, everybody gets an answer in the end.
- Tokens: what the agent writes fits the trainer's prompt; the response mask covers the replies.
- Workers: nothing computes on what is offloaded; the engine has the current actor and only while it
  generates; checkpoints hold one version.
- Driver: columns are aligned; updates learn from data of the models as they are; counters agree
  with what was done; `fit` ends.
- Data movement: each row is computed exactly once and comes back to its place; micro-batches are
  as many on each rank, none is empty, and their work is balanced.
- Start-up: processes meet those of their own pool only, on a GPU each; models are loaded from whole
  copies; bringing up ends, well or with an error.
- Megatron: whoever generates does so with the shards the engine wants of the current weights; the
  ranks of one model work on the same rows; no call leaves ranks at different collectives.
- Computations: a token is scored against its own successor, a row by its own text; advantages and
  losses are those of the definitions; weights cut over ranks are whole again when merged.
- SFT: the loss is over the responses, each token alike; all ranks end together.
- Evaluation: logs account for what was used, no success is lost, the model sees the newest messages,
  the benchmark ends. Tree agents: prompts hold the conversation that led to them, commands run in an
  environment of their own conversation, every reply is graded.

## 2. The modules

| module | models |
|---|---|
| `RolloutDialogue` | what the exchange promises, as an abstract specification: a rollout is taken up, replies and prompts alternate, one verdict ends it |
| `RolloutProtocol` | trainer, agent, launchers and the files between them, crashes and resubmission |
| `RolloutRefinement` | the mapping under which `RolloutProtocol` implements `RolloutDialogue` |
| `ResponseMask` | chat chain, truncation, chat template, spans, mask, reward column, labels |
| `HybridEngine` | the worker ranks and the engine under any caller that waits for its answers |
| `PPOTrainer` | `fit()` and `_validate()`, composed with `HybridEngine` |
| `SeqlenBalancing` | `karmarkar_karp` |
| `BatchFlow` | one remote call: balance or pad, dispatch, group exchange, micro-batches, restore, collect |
| `Cluster` | `init_workers`: pools, processes, register centres, rendezvous, colocated roles, the locked local copy, crashes |
| `MegatronWeights`, `MegatronEngine` | checkpoints cut and merged over Megatron's ranks; the Megatron workers as programs of collectives |
| `DataProto`, `TokenPaths`, `RewardModel`, `RewardScores`, `Advantages`, `MemoryBuffers` | what one process computes: batches and their dictionaries, packed forward passes, rewards, advantages and losses, parameter buffers |
| `Computations` | these, each run on every small input |
| `SftTrainer` | supervised fine-tuning on all its ranks |
| `EvalAgent`, `TaskRunner` | the evaluation agent in the program that runs, continues, cleans up and grades tasks |
| `TreeAgents` | the two earlier agents, one process per reply |
| `MC*` | instances for TLC |
| `*Proofs` | theorems (section 5) |

### RolloutProtocol

`prompt0`, `out`, `inp`, `grade`, `score` and `processed` are the files. A file is `None` until it
exists, then a sequence, `<<>>` between its creation and its filling, so that "open" and "locked
write" are two actions (`Generate`/`WriteOut`, `OpenInput`/`WriteInput`, `OpenScore`/`WriteScore`).
The trainer's program counter `tpc` follows `RLHFDataset.__getitem__` (`Fetch`), the two loops of
the rollout manager (`Generate`, `WriteOut`, `SeeScore`, `SeeInput`, `ReadInput`) and
`RewardManager` (`ReadScore`, `EndBatch`). The agent's `apc` follows `_process_newrollout`
(`OpenPrompt`, `PrimePrompt`, `SkipPrompt`, `Claim`), `_process_iteration` (`Listen`, `OpenInput`,
`WriteInput`) and the end of `_process_subtask` (`OpenScore`, `WriteScore`, `Exit`). `lpc` is each
shell loop, `owner` the one container name. `Crash` kills the agent in any state; `Resubmit` starts
the job again on the same directory.

A reply is one of four kinds: the flag, another answer, a command, prose. Commands are not run: what
one prints matters only to `ResponseMask`. Rollout ids are drawn, once each, from a set, as uuids are
taken to be distinct.

### ResponseMask

A token is the number of the turn whose reply it belongs to, or 0. `chain`, `responses` and
`observations` are the agent's chain and its index lists, `text` the prompt file, `prompt` the tokens
of the last prompt, `spans` the `response_idxs`, `mask` the columns of `response_mask`. Decoding and
tokenizing again is taken to preserve the length of a text. The buffer of 100 tokens, the template's
prefix and suffix and the agent's headers are constants; the assumption that the template fits into
the buffer is the one that the agent makes.

### HybridEngine and PPOTrainer

Weights are counted: `shard[k][m]` is how many updates rank k's shard of model m has had, and a
column of a batch carries the set of (model, version) pairs it was computed from. `wpc[k]` is where
rank k is in the call; collectives (`Enter`, `Forward`, `Backward`, `GatherCheckpoint`, `Barrier`)
move all ranks together. `Invoke` and `Return` are `execute_all` and the wait for its results.

`PPOTrainer` runs the stages of `fit()` in the order of `Stages`, skips those that the configuration
leaves out (`Wanted`), and raises if a stage needs a column that is not in the batch (`Needs`,
`Raise`). What the agent answers is a choice here. Its next-state relation is the driver's step, a rank's, or a
collective; `TrainerUsesWorkers` proves that it refines `HybridSpec`.

### SeqlenBalancing and BatchFlow

A Set is a sum and its rows, a State a sequence of Sets, the heap a set of States. Python's orders
on Sets and States are total on the lists that occur, so `Merged` and `Sorted`, which are written as sets
of outcomes, are what the code computes. `BatchFlow` carries rows as their positions in the driver's
batch: a result says which row it was computed from and whose `response_mask` was applied to it.
Ranks are numbered as Megatron numbers them; `ShareOf` is dispatch, `Collects` is collect, and
`Preprocess` and `Postprocess` are the exchanges of the three sharding managers; a chunk of unequal
parts raises, and the step cannot be taken. `JobAssumption` has what the code asserts of the sizes: the ranks divide a
training batch, the groups of FSDP the ranks, the micro data-parallel groups Megatron's tp ranks.

### Cluster

`pc` is where `init_workers` is; it places the groups of a pool (`Placements`, `Place`), creates a
process per GPU (`CreateWorker`), polls for the register centre of the pool after rank zero (`Poll`,
at most `MaxPolls` times), spawns a group per role (`Spawn`) and calls `init_model` role by role
(`CallInit`, `InitReturns`, `InitFails`). A process configures itself (`Configure`), joins and forms
its rendezvous (`Join`, `Form`), or gives up if a partner died (`GiveUp`); it then serves calls. What
`spawn` binds under which name is `Bound` and `Rebound`; a call reaches the worker whose prefix its
name has. Before a model is loaded the process copies it under the lock of its node (`BeginCopy`,
`EndCopy`, `CopyFails`) or finds the path (`Found`). The processes of a pool are counted as a set (`Bundles`,
`Total`); a role whose model no algorithm needs has a group and nobody calls it (`Unused`). `Crash` kills a process at any moment. That a port may be taken by another program between its
choice and its use (`_get_free_port` closes the socket) is outside the model.

### MegatronWeights and MegatronEngine

A tensor is the sequence of its slices, a checkpoint a function from names to tensors. `Loaded` is
what a rank gets of it, `Merged` what the merger makes of all ranks, `NormalizeName` the name of a
layer over stages, `TpConcat` and `EngineShard` what the engine is given and what it wants. In
`MegatronEngine` a call of the driver is a program per rank, a sequence of steps (`Program`);
a collective happens when all ranks of its group stand at it (`Meet`). A model is where its weights are and
which version they have; rows are numbers, and what each rank works on is `work`. The driver's
dispatch and collection are `Dispatch`, `Argument`, `CollectFrom` and `Collect`.

### Computations and the modules it extends

`Computations` has one variable for the input and one for the result, and an action per computation.
`DataProto` models the objects as references into dictionaries, since methods share, copy or change
them; a caller makes up to `MaxCalls` calls in any order. `TokenPaths` carries, for each output, the record of what it
was computed from (the tokens before it, the head, the label), through unpadding, Ulysses slices,
the all-to-all of heads and sequence, and back; `RewardModel` adds the switch of templates and
micro-batches. `Advantages` computes with integers; a mean is a pair of sum and count, and whitening
is kept up to its positive scale. `RewardScores` has a text as a sequence of markers and characters; `OwnAnswer` says which answer of a text
it is judged by, in the words of the format and not of the code. `MemoryBuffers` lays parameters out twice, with the
padding of their own types (the rollout) and of the type met last (the actor). A DataProto whose
dictionaries were changed under it stays in the session: a caller may go on with it only as far as
`check_consistency` lets it (`Live`), and `RowsStayTogether` says what its columns still hold. `fold_batch_dim` and
`unfold_batch_dim` are called by a test only (`tests/utility/test_tensor_dict_utilities.py:207`).

### SftTrainer

Each rank has its place in the program and meets the others in the forward pass, the reductions, the
backward pass, the barrier and the gathering of the state. A row is two lengths; `learned` is which
token had which weight in a step. `SettingsAssumption` has a prompt of at least one token (the chat template's) and
the sizes that the configuration gives; `OrdersAssumption` has the sampler's order of an epoch list no row twice.

### TaskRunner, EvalAgent and TreeAgents

`EvalAgent` is the agent of the evaluation: `CallReturns` and `CallFails` are a request and its
retries, `Window` which messages of the chat are shown (their positions), `Cut` the cut of a long prompt in
tokens of the tokenizer that serves the provider, `Answered`, `Commanded`, `Rambled` what may come back.
`TaskRunner` starts it from an argument record (`Arguments`), from an earlier log (`Resume`) or without one, raises if
the log found cannot be continued (`Continues`, `ResumeFails`), logs what it yields (`Log`, `Save`),
cleans up, and grades all logs at the end (`Grade`, `Read`, and `Solved` of `Attempted`, which the
percentage divides). A model is called `provider/name`, so the provider becomes a directory and the name of a
log's file has the rest only (`BaseName`): "QwenTrain" is a second provider of the name "Qwen".

`TreeAgents` is a directory of replies and prompts that several containers may share. A process takes one
reply (`Take`), notes it (`Note`), loads its chat (`Load`), judges it and writes the next prompt. A file
that others wait for is there, blank, before it is filled (`OpenPrompt`/`FillPrompt`, `OpenChat`/`SaveChat`), and the
prompt is there before the chat; that the list of processed replies is missing is seen in one step and
mended in another (`FindList`, `CreateList`). The files that nobody waits for (grades, scores, commands) are written in
one. `Kill` ends a process anywhere. The tag agent reads nothing of a reply that begins
with the marker, and doubles, or repeats a part of, a text without one (`Seen`, `TagTalks`). Neither agent is
imported by `run_task.py`. The trainer that answers is not in the repository and is external (`Answer`).

## 3. The runs

Run one with `tlc -config <cfg> <module>`.

| run | question | result |
|---|---|---|
| `RolloutExchange` | one launcher, no faults, two rollouts of two turns padded to three ranks, all kinds of reply: deserved scores, prompts that quote the replies, rewards that are the scores, and every rollout that starts is scored | holds |
| `RolloutFaults` | two launchers, a crash and a resubmission anywhere: the inductive invariant, the abstract dialogue, single claims | holds |
| `MaskRollout` | rollouts of up to four turns that are cut and pruned | holds |
| `MaskLogProbs` | are the masked log probabilities those of the replies? | no: finding 1 |
| `Training` | whole jobs in 24 configurations and three choices of offloading, on two ranks: aligned and fresh experience, loaded and current weights, a good end | holds |
| `BatchFlow` | batches on two to eight ranks in all modes: rows, masks, balance, an end to every call | holds |
| `Cluster` | two pools on two nodes, a process that dies or a copy that fails: groups kept apart, order of initialisation, whole copies, an end | holds |
| `Megatron` | four ranks in six shapes, from start-up to the save: the engine's weights, rows in step, weights where they are used, no call that hangs | holds |
| `Computations` | every small input of the computations against their definitions | holds |
| `SftTraining` | two epochs on two ranks in eleven settings: what is learned, with what weight, and the end | holds |
| `Evaluation` | eleven lists of runs, some continued, of two providers of one name, with failing calls: logs, window, successes, the end | holds |
| `TreeSearch` | up to three replies in a tree, one container or two, a process killed: conversations, environments, and which replies are never graded | holds |

Each property of a run that holds is paired in `PROJECT.json`
with a mutant, an operator that changes a definition as a plausible slip in the code would. Mutants
stand before the definition they change. Some properties join what the code has to keep together:
`EndsWell` says that `fit` ends, that it fails in validation only, gives the GPU back, writes
checkpoints of one version, counts its updates and validates at the end; `CallReturns` says that a
call ends, that no split into micro-batches fails and that they are balanced.

### Bounds, and why they are enough

- `RolloutProtocol`: two rollouts are the fewest that an agent could confuse, two turns the fewest with a
  middle, three ranks the fewest that pad two rows. `MaxCrashes` and `MaxRestarts` are 1 in
  `RolloutFaults`: after a crash the launcher starts an agent in the state it starts any agent in, and
  one restart gives a directory with old files. Two launchers are the fewest that compete. Launchers are symmetric;
  rollouts are not, as rows have an order.
- `ResponseMask`: lengths are small but keep the code's relations: a prompt that one or two turns
  fit into and four do not, replies shorter than and as long as `MaxReply`, a header longer than the
  suffix in `MaskRollout` (where the mask moves) and equal in `MaskLogProbs` (so that nothing but the
  shift is to blame).
- `Training`: two ranks (Rank0 and another), two turns, batches of two rows, three or four
  batches in two epochs, so that warmup, test, save and the early end each come due between others.
- `BatchFlow`: six rows of one to three tokens in all 729 combinations on two ranks; pairs of
  sequence-parallel ranks; Megatron with 2x2x2 ranks and with three dp ranks.
- `Cluster`: two pools are the fewest that could be confused, one over two nodes and one within a node
  that both share; three roles and more in a pool; `MaxPolls` is 2 (120 in the code), one look before the
  centre is there and one after; one fault, since the driver raises on the first it sees.
- `Megatron`: four ranks give every pair of the three kinds of parallelism, and a micro group
  (several training ranks to an engine rank) of one and of two; two layers, one per stage; four rows, so that each shape has
  at least one row per share. Virtual stages are refused by the workers (`GridsAssumption`) and appear
  in `Computations` only.
- `Computations`: two to six rows, up to five columns, groups of one and two ranks, three calls in a row on
  DataProtos, answers of up to four characters, grids of up to four ranks and two virtual stages, modules of up to four
  parameters of two types. The definitions have no case that
  depends on more than a neighbour, a boundary between two rows or slices, and an end.
- `SftTraining`: up to six rows, every order of up to four and the rotations of six, lengths around the limit, a
  smaller last micro-batch, and a validation set too small for a batch.
- `Evaluation`: two attempts instead of thirty, a prompt limit that some prompts exceed, one
  message of each kind kept; four iterations at most, so that a window moves twice.
- `TreeSearch`: six teams. Three replies and one container give a chain, a fork and two roots; two containers
  get two replies, or one and a killed process, which is enough for a reply to be taken before its chat is there, by
  the other or by the next process.

### Fairness

- `RolloutExchange` (`Fairness` of `RolloutProtocol`): weak fairness of the
  trainer, of the agent and of each launcher. They are operating system processes which poll in
  loops with `sleep`; none is blocked by another for ever, as locks are held for one write.
  The liveness run has no crashes: after one, a claimed rollout is lost (section 4). A command in
  the container is ended by its own timeout, so that `Listen` is one step.
- `Training`: weak fairness of the driver, of each rank and of the collectives, which are the
  NCCL calls all ranks have reached.
- `BatchFlow`, `Megatron`, `SftTraining`: weak fairness of the whole next-state relation: some
  process that can run does. It is enough, since each step brings the call nearer to its end.
- `Cluster`: weak fairness of the driver and of each process, not of crashes and failing copies.
- `Evaluation`: weak fairness of the process and of the shell loop around it. A call may fail, but
  tenacity stops after its attempts.
- `TreeSearch`: weak fairness of each container's process, and strong fairness of the choice of each reply:
  the agents draw one of the open replies at random, so that one that is open again and again is drawn
  with probability one. It is the only strong fairness assumed. Nothing is fair about `Kill`.

`RolloutFaults` and the mask runs check safety only, `Computations` as well. Deadlock is checked in
`RolloutExchange`, `MaskRollout`, `MaskLogProbs`, `Training`, `BatchFlow` and `Evaluation`. It is not
where the system does stop: a lost rollout leaves everybody waiting (`RolloutFaults`), ranks wait for
one that raised (`SftTraining`, `Megatron`), the cluster is up or the driver has raised (`Cluster`), a
computation is over (`Computations`), the trainer has replied as often as it may (`TreeSearch`).

## 4. Findings

`MaskLogProbs` is a violation run; its property states what the quoted text says.

1. `verl/workers/actor/dp_actor.py:144`: since the logits are no longer shifted, a
   masked column's log probability is not that of its reply token given the tokens before it.

The models show where the code and its texts part in other places too. These have no run of their
own; the definitions named carry the behaviour, and properties that hold say where they stop, by name.

- `cybench/agent/agent.py:639`: a rollout is put on the processed list when it is claimed, not when it
  is scored (comment at 629, "only choose one we haven't scored yet"). If the agent dies in between, nobody
  takes it up again, and the trainer waits without a timeout (`Claim`, `Crash`).
- `verl/utils/cyagent/rollout_manager.py:42`: earlier replies are masked where they stood in the prompts
  of their own turns; if the agent has cut a later prompt, these columns hold something else
  (`ShownAndMasked` speaks of uncut prompts only).
- `verl/workers/fsdp_workers.py:404`: from the second turn on a validation rollout has no `meta_info`: it
  samples, and recomputes log probabilities (`Turn`); `fit` raises with `val_before_train`, and when a
  validation mixes rollouts of one and of several turns (`FailsOnlyInValidation`).
- `verl/trainer/ppo/ray_trainer.py:712`: training ends one batch before `total_epochs` are over (`EndStep`).
- `verl/protocol.py:53`: a batch with fewer rows than the padding it needs is not padded to a multiple.
- `verl/workers/critic/dp_critic.py:140`: with dynamic micro-batches the mask is applied before the rows are
  put back (`MasksComeHome` excludes the combination).
- `verl/workers/megatron_workers.py:402`: `save_checkpoint` takes one path, the driver passes two: it raises
  (`SaveFails`). The reward model looks for `ppo_micro_batch_size`, which its configuration lacks, and
  runs one batch (`ForwardReward`).
- `verl/trainer/fsdp_sft_trainer.py:341`: rank 0 raises on an empty validation set while the others
  stand at the barrier, and a row that is too long raises on one rank only (`FitEnds` assumes neither,
  in `Sound`). A row without response tokens left makes the loss 0/0, and the weights NaN.
- `verl/workers/fsdp_workers.py:965`: the chat is put into the template, and the result into the
  template once more (`SwitchChatTemplate`).
- `verl/workers/rollout/hf_rollout.py:42`: the number of chunks may not divide the batch (`HfChunksFail`).
- `verl/trainer/main_ppo.py`: every scoring function is called with `rollout_id` and `log_dir`, which only
  the one for Cybench accepts.
- `verl/utils/reward_score/math.py:65`: "\boxed " anywhere in a text wins over a later `\boxed{}`; an
  `\fbox` is found (line 68) but `remove_boxed` refuses it (line 57), so it never scores; spaces are removed before
  comparison, so that "1 2" is "12". `reward_score/gsm8k.py:23` takes the first number that is marked, so that a
  text which corrects itself is judged by what it said first (`OwnAnswer` has both).
- `verl/workers/fsdp_workers.py:988`: `ppo_trainer.yaml:126` and `docs/examples/config.rst:257` say of `input_tokenizer`
  "set this to null if the chat template is identical"; `rm_data` is then never bound, and `compute_rm_score` raises at line 991
  (`ComputeRmScore`, `Unbound`).
- `verl/trainer/ppo/core_algos.py:56`: nobody calls `get_kl_controller`; an adaptive controller would fail there, as
  line 60 asks `config.kl_ctrl` for the horizon that is under `config.critic.kl_ctrl`. `NextCoefficient` follows the constructor of the
  driver (`ray_trainer.py:333`), which makes its own.
- `verl/utils/memory_buffer.py:107`: the start of a parameter is advanced by the padding of the type
  that an earlier loop ended with. With several types in a module the actor's views may stand elsewhere than the
  rollout's, or an assertion fails; `ViewsAgree` says exactly when they agree (`PaddedAlike`).
- `verl/protocol.py:118`: `fold_batch_dim` folds the object arrays of its argument in place and leaves its tensors as they are: the
  argument no longer passes its own check (`RowsStayTogether` says what it holds).
- `cybench/README.md:83` calls `--max_input_tokens` "the limit on the number of input tokens sent to the
  model; truncates if it exceeds this value": a prompt is cut once, in tokens of the tokenizer at hand and
  with the alert in its middle added, and not counted again (`Cut`). `run_benchmark.py` never passes
  `--eval_mode`, without which `run_task.py` runs the agent of the training.
- `cybench/run_task.py:518`: a run that continues a log adds tokens and time to those of the log (523-528), but starts
  `iterations_used` at zero: the count in the file is that of the last process (`IterationsUsedByLast`), although `cybench/README.md:87` speaks of
  one run that goes on. It also keeps the score of the log
  (547): a continued run that solves the task is logged, and named, as a failure (`FirstVerdict`), no count by score credits it, and it may be
  replaced by another file of that name.
- `cybench/run_task.py:530` takes over the subtasks of the log that is continued and never asks whether it was a guided one:
  an unguided run that continues a guided log keeps the score of its first subtask under the
  name of an unguided run, where it may replace a success.
- `cybench/grade_benchmark.py:58`: `move_files` sees the part of a name behind the slash only, so that the logs of two providers
  of one name replace each other, and the credit may go to the other (`NoSuccessLost` promises it to a model of that name).
- `cybench/agent/agent_treeexec.py:624` says "only choose one we haven't scored yet"; a reply is noted
  before it is judged (637), and the prompt it answers is there before the chat that goes with it (561-569). A process that is killed, or that
  takes a reply before its chat is there, loses it (`EveryReplyGraded` names these two cases and no other).
- `cybench/agent/agent_manualtags.py`: `remove_hallucinations` cuts a reply at its first marker, which the agent has left at its
  head: of a reply with a marker nothing is read (`Seen`).
- `cybench/agent/agent_treeexec.py:742` speaks of replaying commands; the file that is looked for is
  named otherwise than the one that is written (line 640), and none is replayed (`RunCommands`).

## 5. What is proved

Run `tlapm <module>`; all obligations are discharged by the SMT back end, Zenon and the temporal
prover. `PROJECT.json` lists the theorems, with the property of a run that each states, if any.

**The exchange** (`RolloutProtocolProofs`). For every set of rollouts, every number of launchers,
turns, batches, crashes and resubmissions: types (`TypeCorrect`), alternation (`Alternation`), one
verdict (`VerdictIsUnique`), no rollout is left unscored if the trainer has as many turns as the
agent (`NeverGetHere`), no rollout is claimed twice (`AtMostOneClaim`, an action property), a score is
what its reply deserves (`ScoresAreDeserved`), a prompt quotes the replies (`PromptsQuote`), a reward is
the verdict on its rollout (`RewardsAreVerdicts`), and the exchange implements `RolloutDialogue`
(`ExchangeIsDialogue`).

None of these is inductive. `IInv` is `OrderInv /\ ContentInv`: which files exist, and what is in them.
`OrderInv` adds `ProcessInv` (an agent process exists while the container
name is taken, the list it searches with is still the current one, its rollout is on the list),
`FilesInv` (only listed rollouts have the agent's files), `TrainerInv` (which files exist, by the
trainer's program counter) and `AgentInv` (likewise for the agent). The crux is `ProcessInv`: the list is
read once and used later, which is sound only because at most one process runs, which is so only
because of the container name. Files on the list survive crashes and resubmissions, so the invariant
needs no case for them. The proof is a lemma per action, each in three parts (files, trainer, agent).
`ContentInv` adds `RepliesInv` (replies appear in the order of turns, and a reply still to come has no file) and
`ChatInv` (the agent's chat quotes the replies). A reply is written once only because a rollout id is drawn
once (`DistinctAssumption`): a padding row is the exception (`Repeated`), and the properties about
replies leave such a rollout out, for it is generated again over its own files. For the refinement each
step is shown to be a step of the dialogue or none: `GenerateMaps`, `OpenInputMaps`, `OpenScoreMaps` and
`WriteScoreMaps` are those that show; that a crash shows nothing rests on the
agent's program counter not being part of the dialogue.

**Tokens** (`ResponseMaskProofs`). For all lengths that satisfy the assumptions: `NeverTooLong` (the
tokenizer never raises) and `RewardIsMasked` (the last reply is in the mask and its reward on it).
`IInv` bounds the text by `MaxPromptLength - Buffer`, and remembers that the last span is the last
reply's in the last prompt. `TruncatedFits` and `AttendedBound` are the arithmetic. `RepliesAreMasked` proves
`ShownAndMasked`: what the agent shows of a chat, and that a mask computed from sums of lengths covers
the replies. Its invariant `ChatInv` says that the two index lists enumerate the replies and the observations
(`ListsInv`), that the prompt is the rendered chat as long as nothing is dropped or cut (`PromptInv`), that
each span begins where its prompt ended (`SpansInv`), and what the mask is (`MaskedInv`). It needs no induction over
the chat: a message's place in the window is its rank among those that are kept, a token's place in the
prompt is the number of tokens before it, and `Ranks` shows once that such ranks number a finite ordered set.
`UncutBeginning` carries the claim from the last prompt back to the earlier ones: a chat that is shown whole
had been shown whole before.

**Workers and driver** (`PPOTrainerProofs`). For any number of ranks, any offloading and any caller
(`HybridSpec`): the engine has the current actor, nothing computes on the CPU, the engine yields.
`HybridInv` adds `OnPath` (where a rank may be in each kind of call), `NeverOffloaded`, `ShardsAgree` (two
ranks' shards differ by one while an optimizer steps, and agree otherwise; without it the gathered
weights could mix versions) and `CheckpointsWhole`. `AnswersAreCurrent` says of what a rank answers
with that it was computed from the current weights of all ranks.

`TrainerUsesWorkers`: a training job implements `HybridSpec`, step by step; so these theorems hold
of training (`TrainingIsFresh`, `TrainingIsLoaded`, `TrainingIsYielded`). `ExperienceIsFresh` is about the
whole loop, in every configuration and for any number of batches and turns: what an update computes with belongs to
the batch at hand, in its order, and was computed by the models as they are. Its invariant `FitInv` says which
call is open at which stage (`CallInv`), that the finished rollouts of a batch come from the
current models (`OutsInv`), and, column by column, that what stays in a batch comes from models that no update has touched
since, as long as any later stage may read it (`BatchInv`).

**Balancing** (`BatchFlowProofs`). For all lists of rows and all numbers of
partitions, a heap starts with, and each merge keeps: every row in one place; either equal sizes
(when it is asked for) or no Set with two rows while another of its State is empty; and sums that
differ by at most one row (without equal sizes), or by one row and another (with). `MergeSpread` is the reason for
the latter: joining the largest with the smallest gives sums no further apart than the wider of the
two States. `NoEmptyPartition` is the assert of `get_seqlen_balanced_partitions`, by the pigeonhole
principle. `PartitionsAreEqual` lifts it to every behaviour of `BatchFlow` whose training batches
the ranks divide (`JobAssumption`, which the code asserts), `RanksSplitEvenly` to the micro-batches of every
rank.

**A batch's way home** (`BatchFlowProofs`). For all sizes of the parallel groups, all three dispatch modes, any
micro-batches and any batch: the result of every row comes back at the row's place and with its mask
(`EveryRowComesHome`). In `HomeInv` each rank holds a *piece* (`Piece`): the rows or results of so many places after a
certain one, in their order. `Given`, `From` and `Home` say which piece a rank was sent, works on and answers, by its
numbers in the tp, dp and pp groups. A chunk of a piece is a piece (`ChunkIs`), pieces that follow each other are joined to
one (`JoinedIs`), and the ranks of a group, of the pp stages or of those that are collected follow
each other as their pieces do (`GroupLists`, `StageLists`, `FirstLists`: a rank is a number of three
digits). Within a rank, the micro-batches name each of its rows once (`PartitionsPermute`, `FixedAreInOrder`), so that
`get_reverse_idx` undoes them (`RevertIs`). `FlattenSeq` is a loop (`FlattenLoops`); what an induction over it
would show is shown of the smallest step at which it would fail. The theorem says what it needs: a batch that padding can
fill without repeating a row twice (`Repeatable`; section 4, `protocol.py:53`).

**Start-up** (`ClusterProofs`). For any pools, nodes, roles and any number of crashes: groups stay apart
(`GroupsStayApart`), the rollout is initialised last and every model once (`RolloutIsLast`), models are loaded
from whole copies (`CopiesAreWhole`). `ClusterInv` has a part for each: `RendezvousInv` (a centre
holds the address of rank zero of its own pool, and that address is what a process is configured with),
`PlacesInv` (processes not created yet have no place; the others hold the bundle their rank counts to, so two of a node
never share one), `CopiesInv` (a copy that is not whole has its writer at the lock, unless something failed) and
`RolesInv` (what a process has initialised is what the driver is through with, in the order of
`InitOrder`). That a rank's place is a bijection is shown by counting: the ranks of a pool are as many as
its bundles. `RolesInv` needs that `init_model` under a role's prefix is that role's own, whatever `spawn`
has bound before (`Rebound`).

**Benchmark** (`TaskRunnerProofs`). For any list of runs, any models, answers and limits: a log's tokens are
the sums over its iterations, its count of iterations is that of the last process, its verdict that of the first, and its iterations
are no more than one logged run of that model on that task was allowed (`LogsAreAccounted`); the model is shown the first
message and the newest of its replies and observations (`WindowIsKept`), and grading credits every task that an unguided log scores as
solved to a model of that name (`SuccessIsKept`). `RunnerInv` has a part for the run in its process (`RunInv`: the score it would
log is one it answered; the iterations of a continued log come first), for the logs (`LogsInv`), for the graded
files (`GradedInv`) and for the chat (`ChatInv`: both index lists name messages of their role, each once). The sum of a
log that was continued is the sum of its parts: `Sum` is a recursive function, and what an induction would show is
shown of the smallest position at which it would fail (`SumLoop`, `SumsAgree`, `SumJoin`). That
the printed share counts the task needs, besides, that every unguided log is about the last subtask: an unguided
run that has continued a guided log breaks it (section 4), and the property says so.

**Tree agents** (`TreeAgentsProofs`). For any number of containers and replies: prompts hold the conversation
that led to them (`ConversationIsKept`), commands run in an environment of their own conversation
(`EnvironmentIsFresh`), and no command is ever replayed (`NothingIsReplayed`, the point of section 4
where code and comment part). `TreeInv` says that the conversation saved beside a prompt is the
one in it, and that a container which took a reply holds that reply's conversation, whatever the others write
meanwhile (`Grows`: new replies change no conversation).

**Supervised training** (`SftTrainerProofs`). For any data set, any numbers of ranks, steps and epochs and
any sizes of batches and micro-batches: the trainer learns the responses, only these, and all of those in a
batch (`ResponsesLearned`), and all tokens of a step weigh the same (`TokensWeighAlike`). `IInv` says that a rank is in the
micro-batch, the step and the epoch of the others until they have met in it (`EpochInv`, `BatchInv`, `MicroInv`), and
that a gradient is that of the micro-batches so far, each token with the weight of its own (`GradsInv`). The weight is right because the
sum that `all_reduce` makes of the ranks' counts is the number of tokens in the union of their micro-batches. That holds only
if no token is on two ranks (`NothingCountsTwice`): row `i` of rank `r` in step `b` is at the place `(b * B + i - 1) * Dp + r + 1`
of one order, and two such places are equal only if rank, step and row are (`PlaceOfRank`). `SumOfSizes` shows what a
sum over a set of ranks is without an induction over the set.

Assumed: only the named assumptions on constants, each of which TLC evaluates in a run.

## 6. What is only model-checked

- Liveness, and what rests on fairness: `EveryRolloutScored`, `EndsWell`, `CallReturns`, `BringUpEnds`,
  `CallsEnd`, `FitEnds`, `BenchmarkEnds`, `EveryReplyGraded`. They are out of the prover's reach.
- `EngineServesCurrentModel`, `RowsInStep`, `WeightsWhereUsed` of `MegatronEngine`: the first two have the argument
  of `PPOTrainerProofs` with one more axis; the third rests on what `MegatronWeights` computes for given
  sizes, whose slices and layer maps are checked for each setting of its run.
- All of `Computations`: its properties hold of each setting that the run enumerates. Those about
  recursive functions (advantages, scores) would be inductions over data.

Some hazards of `PROJECT.json` are described by a model and not prevented by the code; a property then admits them by
name, and their `note` says so: a rollout claimed and lost in a crash (`agent.py:639`), different numbers of turns
(`RolloutExchange` runs equal ones, as configured), the extra token that the attention mask counts, validation by default
and of mixed outputs, a local copy that was cut off, values of masked columns in the advantages, a refused
row or an empty validation set in supervised training.

## 7. What is not modelled

- Numbers: gradients, rounding and overflow of floating point, sampling, attention. Where an order of
  operations matters (advantages, averages over micro-batches, clipping) the model computes with integers
  or with exact multiples, so it shows which terms are added and not how they are rounded.
- Contents: tokenization other than by length, the wording of prompts, what a shell prints, what a model
  replies. They are values drawn from small sets.
- The machines: Docker beyond the container's name and its removal, Ray beyond the placement of bundles and the
  registration of ranks, NCCL errors, ports that are taken in between. The file system is create,
  write and list, coherent between trainer and agent, as NFS may not be.
- Megatron's pipeline schedule (the order of forward and backward of micro-batches) and the vendored
  vLLM's scheduler: they are external, and modelled by what their callers rely on.
- `rollout.n` greater than 1, which the Cybench rollout manager cannot serve (see Hazards in
  `PROJECT.json`).
- Code that nothing calls or that always raises: detached worker groups, the aliveness thread,
  `rm_dataset.py`, `cybench_txt`. There is no behaviour of the system that would show in a model of them.
- Metrics, logging, plots, the analysis scripts and notebooks, the examples, and the preprocessors that
  download a data set and write it as parquet: they transform a file once, and nothing interleaves with them.
- Model providers: the requests of the eight clients are one action with its outcomes; which client
  serves a call, and what is tried again, is in `EvalAgent`.

## 8. Plan

Done: the exchange, the tokens of a rollout, the workers and the driver, the way of a batch, the bring-up of
worker groups, Megatron's engine and weights, the data containers, the computations between driver and
workers, supervised training, the benchmark with its agents, and the tree search.

Proved of it: all safety properties the runs find to hold of the exchange, of the workers and the driver, of the bring-up, of the
tokens of a rollout, of the benchmark, of the tree search, of supervised training and of the way of a batch.

What would come next:

1. Proofs about `MegatronEngine`: `RowsInStep` and `EngineServesCurrentModel`, whose invariants are those of
   `PPOTrainerProofs` with one more axis, and `WeightsWhereUsed`, which rests on the plan of calls
   (first every `init_model`, and no update while a generation is open).
