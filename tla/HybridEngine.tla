---------------------------- MODULE HybridEngine ----------------------------
(***************************************************************************)
(* One WorkerDict process per GPU holds the actor (with its inference      *)
(* engine), the critic and the reference policy, each sharded over all the *)
(* ranks (verl/workers/fsdp_workers.py).  A remote call runs on every rank:*)
(* it loads what it uses to the GPU, computes, and offloads again.  When   *)
(* the actor generates, FSDPVLLMShardingManager gathers its shards, copies *)
(* them into the engine and drops them afterwards.  Every forward pass,    *)
(* every state_dict() and the barrier of save_checkpoint are collectives:  *)
(* no rank passes before all the ranks are there.                          *)
(*                                                                         *)
(* Weights are counted, not computed: shard[k][m] is how many updates      *)
(* rank k's shard of model m has had, and a column of data has a lineage,  *)
(* the set of <<model, updates>> pairs it was computed from.               *)
(***************************************************************************)
EXTENDS Naturals, Sequences, FiniteSets

CONSTANTS
  Ranks,      \* the worker processes
  Rank0,      \* the one that writes checkpoints
  Offloads,   \* the sets of parts a configuration may keep on the CPU
  None

Models == {"actor", "critic", "ref"}
Parts == Models \cup {"actor_optimizer", "critic_optimizer"}

ASSUME RankAssumption == IsFiniteSet(Ranks) /\ Rank0 \in Ranks
ASSUME OffloadAssumption == Offloads \subseteq SUBSET Parts

VARIABLES
  offload,    \* param_offload and optimizer_offload, fixed for a job
  call,       \* the remote call being served, None between calls
  wpc,        \* where each rank is in it
  gpu,        \* the parts on each rank's GPU
  shard,      \* the updates each rank's shard of each model has had
  engine,     \* the lineage of the weights in each rank's inference engine, or None
  result,     \* each rank's result: column -> lineage
  saved       \* checkpoints written: [model, tag, lineage]

workers == <<offload, call, wpc, gpu, shard, engine, result, saved>>

Updates == {"update_actor", "update_critic"}
Saves == {"save_actor", "save_critic"}
Methods == {"generate_sequences", "compute_ref_log_prob", "compute_values"} \cup Updates \cup Saves

\* The model of a method, the parts of it that the method works with, and what
\* the shards of a model amount to when they are gathered.
ModelOf(method) ==
  IF method = "compute_ref_log_prob" THEN "ref"
  ELSE IF method \in {"compute_values", "update_critic", "save_critic"} THEN "critic"
  ELSE "actor"
Optimizer(model) == IF model = "actor" THEN "actor_optimizer" ELSE "critic_optimizer"
Uses(method) ==
  {ModelOf(method)} \cup (IF method \in Updates THEN {Optimizer(ModelOf(method))} ELSE {})
Gathered(m) == {<<m, shard[k][m]>> : k \in Ranks}

\* What the ranks' chunks amount to when the driver has concatenated them.
Collected(column) == UNION {result[k][column] : k \in Ranks}

Columns(data, column, lineage) ==
  [c \in DOMAIN data \cup {column} |-> IF c = column THEN lineage ELSE data[c]]

\* init_model: everything is built on the GPU and what is configured so is
\* offloaded, but the actor's parameters, which the engine is about to need.
HybridInit ==
  /\ offload \in Offloads
  /\ call = None
  /\ wpc = [k \in Ranks |-> "idle"]
  /\ gpu = [k \in Ranks |-> Parts \ (offload \ {"actor"})]
  /\ shard = [k \in Ranks |-> [m \in Models |-> 0]]
  /\ engine = [k \in Ranks |-> None]
  /\ result = [k \in Ranks |-> << >>]
  /\ saved = {}

\* execute_all: the call is sent to every rank ...
Invoke(c) ==
  /\ call = None
  /\ call' = c
  /\ wpc' = [k \in Ranks |-> "load"]
  /\ result' = [k \in Ranks |-> << >>]
  /\ UNCHANGED <<offload, gpu, shard, engine, saved>>

\* Mutant of Answered: the first rank's answer is taken for all of them.
AnsweredByOne == call # None /\ \E k \in Ranks : wpc[k] = "done"

\* ... and the driver blocks until each has answered.
Answered == call # None /\ \A k \in Ranks : wpc[k] = "done"
Return ==
  /\ Answered
  /\ call' = None
  /\ wpc' = [k \in Ranks |-> "idle"]
  /\ UNCHANGED <<offload, gpu, shard, engine, result, saved>>

-----------------------------------------------------------------------------
(* A rank. *)

Goto(k, where) == wpc' = [wpc EXCEPT ![k] = where]
\* A collective: the ranks leave it together.
Together(from, to) ==
  /\ \A k \in Ranks : wpc[k] = from
  /\ wpc' = [k \in Ranks |-> to]

\* Mutant of Load: the parameters only.
LoadParameters(k) ==
  /\ wpc[k] = "load"
  /\ gpu' = [gpu EXCEPT ![k] = @ \cup (Uses(call.method) \cap offload \cap Models)]
  /\ Goto(k, IF call.method = "generate_sequences" THEN "enter" ELSE "compute")
  /\ UNCHANGED <<offload, call, shard, engine, result, saved>>

Load(k) ==
  /\ wpc[k] = "load"
  /\ gpu' = [gpu EXCEPT ![k] = @ \cup (Uses(call.method) \cap offload)]
  /\ Goto(k, IF call.method = "generate_sequences" THEN "enter" ELSE "compute")
  /\ UNCHANGED <<offload, call, shard, engine, result, saved>>

\* FSDPVLLMShardingManager.__enter__: state_dict() and sync_model_weights.
Enter ==
  /\ Together("enter", "sample")
  /\ engine' = [k \in Ranks |-> Gathered("actor")]
  /\ UNCHANGED <<offload, call, gpu, shard, result, saved>>

\* vLLMRollout.generate_sequences on the rank's own rows.
Sample(k) ==
  /\ wpc[k] = "sample"
  /\ result' = [result EXCEPT ![k] = Columns(@, "sequences", engine[k])]
  /\ Goto(k, "exit")
  /\ UNCHANGED <<offload, call, gpu, shard, engine, saved>>

\* FSDPVLLMShardingManager.__exit__: offload_model_weights.
Exit(k) ==
  /\ wpc[k] = "exit"
  /\ engine' = [engine EXCEPT ![k] = None]
  /\ Goto(k, IF call.recompute THEN "compute" ELSE "offload")
  /\ UNCHANGED <<offload, call, gpu, shard, result, saved>>

\* The column a forward pass adds.
Adds == [generate_sequences |-> "old_log_probs", compute_ref_log_prob |-> "ref_log_prob",
         compute_values |-> "values"]

\* compute_log_prob and compute_values.
Forward ==
  /\ call # None /\ call.method \in DOMAIN Adds
  /\ Together("compute", "offload")
  /\ result' = [k \in Ranks |->
                  Columns(result[k], Adds[call.method], Gathered(ModelOf(call.method)))]
  /\ UNCHANGED <<offload, call, gpu, shard, engine, saved>>

\* update_policy and update_critic: forward and backward with the other ranks ...
Backward ==
  /\ call # None /\ call.method \in Updates
  /\ Together("compute", "step")
  /\ UNCHANGED <<offload, call, gpu, shard, engine, result, saved>>

\* ... and the optimizer's step on the rank's own shard.
Step(k) ==
  /\ wpc[k] = "step"
  /\ shard' = [shard EXCEPT ![k][ModelOf(call.method)] = @ + 1]
  /\ Goto(k, "offload")
  /\ UNCHANGED <<offload, call, gpu, engine, result, saved>>

\* save_checkpoint: the gathered state dict, on rank 0 only.
GatherCheckpoint ==
  /\ call # None /\ call.method \in Saves
  /\ Together("compute", "write")
  /\ result' = [k \in Ranks |->
       IF k = Rank0 THEN Columns(<< >>, "state_dict", Gathered(ModelOf(call.method))) ELSE << >>]
  /\ UNCHANGED <<offload, call, gpu, shard, engine, saved>>

\* save_pretrained on rank 0; the others go to the barrier at once.
WriteCheckpoint(k) ==
  /\ wpc[k] = "write"
  /\ saved' = IF k = Rank0
                THEN saved \cup {[model |-> ModelOf(call.method), tag |-> call.tag,
                                  lineage |-> result[k]["state_dict"]]}
                ELSE saved
  /\ Goto(k, "barrier")
  /\ UNCHANGED <<offload, call, gpu, shard, engine, result>>

Barrier ==
  /\ Together("barrier", "offload")
  /\ UNCHANGED <<offload, call, gpu, shard, engine, result, saved>>

Offload(k) ==
  /\ wpc[k] = "offload"
  /\ gpu' = [gpu EXCEPT ![k] = @ \ (Uses(call.method) \cap offload)]
  /\ Goto(k, "done")
  /\ UNCHANGED <<offload, call, shard, engine, result, saved>>

Worker(k) ==
  Load(k) \/ Sample(k) \/ Exit(k) \/ Step(k) \/ WriteCheckpoint(k) \/ Offload(k)
Collective == Enter \/ Forward \/ Backward \/ GatherCheckpoint \/ Barrier

-----------------------------------------------------------------------------
(* Any caller that waits for its answer. *)

Calls(tags) ==
  [method : {"generate_sequences"}, recompute : BOOLEAN, greedy : BOOLEAN]
  \cup [method : Saves, tag : tags]
  \cup [method : Methods \ (Saves \cup {"generate_sequences"})]

Lineages == SUBSET (Models \X Nat)

ASSUME NoneAssumption == None \notin Calls(Nat)

HybridNext ==
  \/ call' \in Calls(Nat) /\ Invoke(call')
  \/ Return
  \/ \E k \in Ranks : Worker(k)
  \/ Collective

HybridSpec == HybridInit /\ [][HybridNext]_workers

-----------------------------------------------------------------------------
HybridTypeOK ==
  /\ offload \in Offloads
  /\ call = None \/ call \in Calls(Nat)
  /\ wpc \in [Ranks -> {"idle", "load", "enter", "sample", "exit", "compute",
                        "step", "write", "barrier", "offload", "done"}]
  /\ gpu \in [Ranks -> SUBSET Parts]
  /\ shard \in [Ranks -> [Models -> Nat]]
  /\ engine \in [Ranks -> {None} \cup Lineages]
  /\ DOMAIN result = Ranks
  /\ saved \subseteq [model : Models, tag : Nat, lineage : Lineages]

\* No rank computes with, gathers or saves a part that is on its CPU, whatever
\* is offloaded between the calls (fsdp_workers.py:361, 408, 453, 481, 677, 701).
UsedIsLoaded ==
  \A k \in Ranks : wpc[k] \in {"enter", "sample", "exit", "compute", "step", "write", "barrier"}
                     => Uses(call.method) \subseteq gpu[k]

\* The engine samples from one version of the actor, the current one: no rank's
\* engine keeps the weights of before an update, and none mixes shards of two
\* versions (fsdp_vllm.py:69).
EngineIsCurrent ==
  \A j, k \in Ranks : engine[k] # None => engine[k] = {<<"actor", shard[j]["actor"]>>}

\* The engine's copy has left the GPU before a rank joins a forward or backward
\* pass, and between calls: it never competes with training (fsdp_vllm.py:93).
EngineGivesWay ==
  \A k \in Ranks : engine[k] # None =>
    call # None /\ call.method = "generate_sequences" /\ wpc[k] \in {"sample", "exit"}

-----------------------------------------------------------------------------
(* What a call has done so far, from where its ranks are: the inductive       *)
(* invariant behind the three properties above.                               *)

\* Where a rank can be, by what it was called for.
Path(c) ==
  IF c.method = "generate_sequences"
    THEN {"load", "enter", "sample", "exit", "compute", "offload", "done"}
  ELSE IF c.method \in Updates THEN {"load", "compute", "step", "offload", "done"}
  ELSE IF c.method \in Saves THEN {"load", "compute", "write", "barrier", "offload", "done"}
  ELSE {"load", "compute", "offload", "done"}

\* Rank k has made the step of the update that is being served.
Stepped(k, m) ==
  call # None /\ call.method \in Updates /\ m = ModelOf(call.method)
    /\ wpc[k] \in {"offload", "done"}

\* Ranks that are both before or both after their step have the same version, and
\* one that has stepped is one ahead of one that has not.
ShardsAgree ==
  \A j, k \in Ranks, m \in Models :
    /\ (Stepped(j, m) <=> Stepped(k, m)) => shard[j][m] = shard[k][m]
    /\ Stepped(j, m) /\ ~Stepped(k, m) => shard[j][m] = shard[k][m] + 1

\* One version of a model, whole.
OneVersion(lineage, model) ==
  lineage \subseteq {model} \X Nat /\ \A p, q \in lineage : p = q

\* Every checkpoint is of one version, and so is the state dict it is written from.
CheckpointsWhole ==
  /\ wpc[Rank0] = "write" => OneVersion(result[Rank0]["state_dict"], ModelOf(call.method))
  /\ \A c \in saved : OneVersion(c.lineage, c.model)

OnPath == \A k \in Ranks : IF call = None THEN wpc[k] = "idle" ELSE wpc[k] \in Path(call)
NeverOffloaded == \A k \in Ranks : Parts \ offload \subseteq gpu[k]

HybridInv ==
  /\ HybridTypeOK
  /\ OnPath
  /\ NeverOffloaded
  /\ ShardsAgree
  /\ CheckpointsWhole
  /\ UsedIsLoaded
  /\ EngineIsCurrent
  /\ EngineGivesWay

=============================================================================
