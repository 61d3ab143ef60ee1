----------------------------- MODULE MegatronEngine -----------------------------
(***************************************************************************)
(* The Megatron workers of src/verl/workers: the driver calls a method on    *)
(* every rank of a tensor x data x pipeline grid, and each rank runs the     *)
(* method as a sequence of local steps and collectives.  A collective        *)
(* happens when every rank of its group has come to it; a rank that comes    *)
(* to another one waits for ever.                                           *)
(*                                                                         *)
(* A rank keeps the weights of its own stage on its GPU, and buffers for     *)
(* those of the other stages, which it fills from their owners when it has   *)
(* to generate, binds to the inference engine and moves out again.          *)
(***************************************************************************)
EXTENDS MegatronWeights

CONSTANTS
  Grids,    \* the configurations: the fields of MegatronWeights, and below
  Plan,     \* the calls of the driver, in their order: sequence of [op, role]
  Rows      \* the rows of a batch: a sequence

\* mini, micro: the batch sizes of the configuration; shuffle: of the mini-batches;
\* offload: param_offload of the reference policy and the reward model.
GridFields == {"tp", "pp", "vpp", "dp", "itp", "layers", "heads", "kv", "ffn", "vocab",
               "mini", "micro", "shuffle", "offload"}
ASSUME GridsAssumption == \A g \in Grids : DOMAIN g = GridFields /\ g.vpp = 1

VARIABLES
  grid,     \* the configuration of the run
  at,       \* the number of the call the driver is in, or done with
  called,   \* the call runs
  failed,   \* a rank raised in it
  todo,     \* rank -> what is left of the program of the call
  copies,   \* rank -> stage -> [dev, ver]: the actor; the own stage is the trained one
  mods,     \* rank -> role -> [dev, ver]: the stage of the critic, reference and reward models
  engine,   \* rank -> the tensors bound to the inference engine, or NoEngine
  orders,   \* stage -> the order its ranks shuffle the rows in
  minis,    \* rank -> how many mini-batches of the call it has taken
  held,     \* rank -> the rows it was given
  work,     \* rank -> the rows it works on
  res,      \* rank -> its results: sequence of [row, ver]
  got       \* what the driver collected from the last call
vars == <<grid, at, called, failed, todo, copies, mods, engine, orders, minis, held, work, res, got>>

Ranks == 0..3
NoEngine == <<>>
Unset == 0
OtherRoles == {"critic", "ref", "rm"}
Call == Plan[at]
Own(r) == PpOf(grid, r)

---------------------------------------------------------------------------
(* Process groups, as sequences of ranks. *)
PpGroup(r) == [p \in 1..grid.pp |-> CalcGlobalRank(grid, TpOf(grid, r), DpOf(grid, r), p - 1)]
TpGroup(r) == [t \in 1..grid.tp |-> CalcGlobalRank(grid, t - 1, DpOf(grid, r), Own(r))]
\* The ranks that hold one model together.
ModelGroup(r) == [i \in 1..(grid.tp * grid.pp) |->
                    CalcGlobalRank(grid, (i - 1) % grid.tp, DpOf(grid, r), (i - 1) \div grid.tp)]
Group(op, r) ==
  CASE op \in {"load", "forward"}                                        -> ModelGroup(r)
    [] op \in {"gather_stages", "gather_pp", "share_batch", "share_result"} -> PpGroup(r)
    [] op \in {"sync_weights", "gather_micro"}                           -> MicroGroup(grid, r)
    [] op = "take_batch"                                                 -> TpGroup(r)
    [] op = "sample"                                                     -> InferGroup(grid, r)
    [] op \in {"sync_replicas", "make_engine", "step"}                   -> [i \in 1..4 |-> i - 1]
    [] OTHER                                                             -> <<r>>
Members(op, r) == {Group(op, r)[i] : i \in DOMAIN Group(op, r)}
PlaceIn(seq, r) == CHOOSE i \in DOMAIN seq : seq[i] = r

---------------------------------------------------------------------------
(* What a rank does in a call. *)
PerRank(n) == n \div grid.dp            \* the "//=" of the constructors
Minis == (Len(Rows) \div grid.dp) \div PerRank(grid.mini)

\* Mutant of Scored: only the last stage, which has the result, sends it.
ScoredByLast(r) ==
  <<"share_batch", "forward">> \o (IF Own(r) = grid.pp - 1 THEN <<"share_result">> ELSE <<>>)

Scored(r) == <<"share_batch", "forward", "share_result">>

\* Mutant of Generated: the copies of the other stages stay on the GPU.
GeneratedStaying(r) ==
  <<"stages_in", "gather_stages", "sync_weights", "take_batch", "sample">>
    \o (IF MicroSize(grid) > 1 THEN <<"gather_micro">> ELSE <<>>) \o <<"gather_pp">>

Generated(r) ==
  <<"stages_in", "gather_stages", "sync_weights", "take_batch", "sample">>
    \o (IF MicroSize(grid) > 1 THEN <<"gather_micro">> ELSE <<>>) \o <<"gather_pp", "stages_out">>

InitModel == <<"build", "load", "sync_replicas">>
ActorInit == InitModel \o <<"stages_in", "gather_stages", "make_engine">>
RewardInit == InitModel \o (IF grid.offload THEN <<"offload">> ELSE <<>>)
RefScored(r) == IF grid.offload THEN <<"onload">> \o Scored(r) \o <<"offload">> ELSE Scored(r)
RewardScored(r) == IF grid.offload THEN <<"onload">> \o Scored(r) \o <<"offload">> ELSE Scored(r)
Updated == FlattenSeq([i \in 1..Minis |-> <<"next_mini", "share_batch", "forward", "step">>])

Program(call, r) ==
  CASE call.op = "init" /\ call.role \in {"critic", "ref"} -> InitModel
    [] call.op = "init" /\ call.role = "rm"     -> RewardInit
    [] call.op = "init" /\ call.role = "actor"  -> ActorInit
    [] call.op = "generate"                     -> Generated(r) \o Scored(r)
    [] call.op = "validate"                     -> Generated(r)
    [] call.op = "score" /\ call.role = "ref"    -> RefScored(r)
    [] call.op = "score" /\ call.role = "critic" -> Scored(r)
    [] call.op = "score" /\ call.role = "rm"     -> RewardScored(r)
    [] call.op = "update"                       -> Updated
    [] call.op = "save"                         -> <<"save">>

IsAt(op, r) == todo[r] # <<>> /\ Head(todo[r]) = op
\* The collective op of r's group: everyone is there.
Meet(op, r) == ~failed /\ called /\ r = Group(op, r)[1] /\ \A s \in Members(op, r) : IsAt(op, s)
Pass(op, r) == todo' = [s \in Ranks |-> IF s \in Members(op, r) THEN Tail(todo[s]) ELSE todo[s]]
InGroup(f, op, r, F(_)) == [s \in Ranks |-> IF s \in Members(op, r) THEN F(s) ELSE f[s]]

\* The module the call works on.
Module(s) == IF Call.role = "actor" THEN copies[s][Own(s)] ELSE mods[s][Call.role]
SetModules(S, m) ==
  IF Call.role = "actor"
  THEN /\ copies' = [s \in Ranks |-> IF s \in S THEN [copies[s] EXCEPT ![Own(s)] = m] ELSE copies[s]]
       /\ UNCHANGED mods
  ELSE /\ mods' = [s \in Ranks |-> IF s \in S THEN [mods[s] EXCEPT ![Call.role] = m] ELSE mods[s]]
       /\ UNCHANGED copies

---------------------------------------------------------------------------
(* The steps of a rank. *)
Kept == UNCHANGED <<grid, at, called, orders, held, got>>

\* AllGatherPPModel.__init__ builds every stage, its own last; the others go to the CPU.
Build(r) ==
  /\ Meet("build", r) /\ Pass("build", r)
  /\ IF Call.role = "actor"
     THEN /\ copies' = [copies EXCEPT ![r] =
                          [p \in 0..(grid.pp - 1) |-> [dev |-> IF p = Own(r) THEN "gpu" ELSE "cpu", ver |-> Unset]]]
          /\ UNCHANGED mods
     ELSE SetModules({r}, [dev |-> "gpu", ver |-> Unset])
  /\ Kept /\ UNCHANGED <<failed, engine, minis, work, res>>

\* The first model group fills its ranks from the checkpoint.
Load(r) ==
  /\ Meet("load", r) /\ Pass("load", r)
  /\ IF DpOf(grid, r) = 0 THEN SetModules(Members("load", r), [dev |-> "gpu", ver |-> 1])
     ELSE UNCHANGED <<copies, mods>>
  /\ Kept /\ UNCHANGED <<failed, engine, minis, work, res>>

\* A barrier, and the replicas receive the weights of the first.
SyncReplicas(r) ==
  /\ Meet("sync_replicas", r) /\ Pass("sync_replicas", r)
  /\ SetModules(Ranks, Module(r))
  /\ Kept /\ UNCHANGED <<failed, engine, minis, work, res>>

MoveStages(r, dev) ==
  copies' = [copies EXCEPT ![r] =
    [p \in 0..(grid.pp - 1) |-> IF p = Own(r) THEN @[p] ELSE [@[p] EXCEPT !.dev = dev]]]

StagesIn(r) ==
  /\ Meet("stages_in", r) /\ Pass("stages_in", r) /\ MoveStages(r, "gpu")
  /\ Kept /\ UNCHANGED <<failed, mods, engine, minis, work, res>>

\* Each stage is broadcast by its owner.
GatherStages(r) ==
  /\ Meet("gather_stages", r) /\ Pass("gather_stages", r)
  /\ copies' = InGroup(copies, "gather_stages", r, LAMBDA s :
       [p \in 0..(grid.pp - 1) |-> [copies[s][p] EXCEPT !.ver = copies[PpGroup(r)[p + 1]][p].ver]])
  /\ Kept /\ UNCHANGED <<failed, mods, engine, minis, work, res>>

MakeEngine(r) ==
  /\ Meet("make_engine", r) /\ Pass("make_engine", r)
  /\ engine' = [s \in Ranks |-> NoEngine]
  /\ Kept /\ UNCHANGED <<failed, copies, mods, minis, work, res>>

\* The slices a rank holds of a stage, and those the engine wants of it.
Shards == [g \in Grids |-> [t \in 0..(g.tp - 1) |-> [p \in 0..(g.pp - 1) |-> Loaded(g, t, p, 0)]]]
Wanted == [g \in Grids |-> [t \in 0..(g.itp - 1) |-> [n \in EngineNames(g) |-> EngineShard(g, n, t)]]]

\* What rank s binds: name -> [ver, of], of the slices.
Bound(s) ==
  LET peers == MicroGroup(grid, s)
      All(p, n) ==
        IF MicroSize(grid) > 1 /\ IsTensorParallel(n[2])
        THEN [ver |-> {copies[peers[i]][p].ver : i \in DOMAIN peers},
              of  |-> TpConcat(grid, n[2], [i \in DOMAIN peers |-> Shards[grid][TpOf(grid, peers[i])][p][n]])]
        ELSE [ver |-> {copies[s][p].ver}, of |-> Shards[grid][TpOf(grid, s)][p][n]]
      From(name) == CHOOSE pn \in UNION {{p} \X ChunkParams(grid, p, 0) : p \in 0..(grid.pp - 1)} :
                      NormalizeName(grid, pn[1], 0, pn[2]) = name
  IN  [name \in EngineNames(grid) |-> All(From(name)[1], From(name)[2])]

SyncWeights(r) ==
  /\ Meet("sync_weights", r) /\ Pass("sync_weights", r)
  /\ engine' = InGroup(engine, "sync_weights", r, Bound)
  /\ Kept /\ UNCHANGED <<failed, copies, mods, minis, work, res>>

\* preprocess_data: the rows of the first tensor rank, cut over the micro group.
TakeBatch(r) ==
  /\ Meet("take_batch", r) /\ Pass("take_batch", r)
  /\ work' = InGroup(work, "take_batch", r, LAMBDA s :
       TorchChunk(work[r], MicroSize(grid), PlaceIn(MicroGroup(grid, s), s) - 1))
  /\ Kept /\ UNCHANGED <<failed, copies, mods, engine, minis, res>>

Sample(r) ==
  /\ Meet("sample", r) /\ Pass("sample", r)
  /\ Kept /\ UNCHANGED <<failed, copies, mods, engine, minis, work, res>>

\* postprocess_data: all_gather of rows over a group.
Gather(op, r) ==
  /\ Meet(op, r) /\ Pass(op, r)
  /\ work' = InGroup(work, op, r, LAMBDA s : FlattenSeq([i \in DOMAIN Group(op, r) |-> work[Group(op, r)[i]]]))
  /\ Kept /\ UNCHANGED <<failed, copies, mods, engine, minis, res>>
GatherMicro(r) == Gather("gather_micro", r)
GatherPp(r) == Gather("gather_pp", r)

StagesOut(r) ==
  /\ Meet("stages_out", r) /\ Pass("stages_out", r) /\ MoveStages(r, "cpu")
  /\ engine' = [engine EXCEPT ![r] = NoEngine]
  /\ Kept /\ UNCHANGED <<failed, mods, minis, work, res>>

Onload(r) ==
  /\ Meet("onload", r) /\ Pass("onload", r) /\ SetModules({r}, [Module(r) EXCEPT !.dev = "gpu"])
  /\ Kept /\ UNCHANGED <<failed, engine, minis, work, res>>
Offload(r) ==
  /\ Meet("offload", r) /\ Pass("offload", r) /\ SetModules({r}, [Module(r) EXCEPT !.dev = "cpu"])
  /\ Kept /\ UNCHANGED <<failed, engine, minis, work, res>>

\* make_minibatch_iterator: each process shuffles for itself.
NextMini(r) ==
  /\ Meet("next_mini", r) /\ Pass("next_mini", r)
  /\ work' = [work EXCEPT ![r] =
       TorchChunk(IF orders[Own(r)] = "drawn" THEN Reverse(held[r]) ELSE held[r], Minis, minis[r])]
  /\ minis' = [minis EXCEPT ![r] = @ + 1]
  /\ Kept /\ UNCHANGED <<failed, copies, mods, engine, res>>

\* forward_backward_batch starts with the rows of the last stage.
ShareBatch(r) ==
  /\ Meet("share_batch", r) /\ Pass("share_batch", r)
  /\ work' = InGroup(work, "share_batch", r, LAMBDA s : work[PpGroup(r)[grid.pp]])
  /\ Kept /\ UNCHANGED <<failed, copies, mods, engine, minis, res>>

\* split_dict_tensor_into_batches asserts that the rows divide.
Splits(n, size) == size > 0 /\ n % size = 0
RunModel(r, size) ==
  /\ Meet("forward", r)
  /\ \/ /\ Splits(Len(work[r]), size) /\ Pass("forward", r) /\ UNCHANGED failed
        /\ res' = InGroup(res, "forward", r, LAMBDA s :
             [i \in DOMAIN work[s] |-> [row |-> work[s][i], ver |-> IF Own(s) = grid.pp - 1 THEN Module(s).ver ELSE Unset]])
     \/ ~Splits(Len(work[r]), size) /\ failed' = TRUE /\ UNCHANGED <<todo, res>>
  /\ Kept /\ UNCHANGED <<copies, mods, engine, minis, work>>
ForwardActor(r) == called /\ Call.role \in {"actor", "ref"} /\ RunModel(r, PerRank(grid.micro))
ForwardCritic(r) == called /\ Call.role = "critic" /\ RunModel(r, PerRank(grid.micro))
\* It looks for ppo_micro_batch_size, which its configuration does not have: one batch.
ForwardReward(r) == called /\ Call.role = "rm" /\ RunModel(r, Len(work[r]))

ShareResult(r) ==
  /\ Meet("share_result", r) /\ Pass("share_result", r)
  /\ res' = InGroup(res, "share_result", r, LAMBDA s : res[PpGroup(r)[grid.pp]])
  /\ Kept /\ UNCHANGED <<failed, copies, mods, engine, minis, work>>

Step(r) ==
  /\ Meet("step", r) /\ Pass("step", r)
  /\ SetModules(Ranks, [Module(r) EXCEPT !.ver = @ + 1])
  /\ Kept /\ UNCHANGED <<failed, engine, minis, work, res>>

\* save_checkpoint takes one path; the driver passes two.
SaveFails(r) ==
  /\ Meet("save", r) /\ failed' = TRUE
  /\ Kept /\ UNCHANGED <<todo, copies, mods, engine, minis, work, res>>

---------------------------------------------------------------------------
(* The driver. *)
\* Mutant of Argument: pipeline first, then data.
ArgumentPpFirst(call, r) ==
  CASE call.op \in {"generate", "validate"} -> TorchChunk(Rows, grid.dp * grid.pp, Own(r) * grid.dp + DpOf(grid, r))
    [] call.op \in {"score", "update"}      -> TorchChunk(Rows, grid.dp, DpOf(grid, r))
    [] OTHER                                -> <<>>

Argument(call, r) ==
  CASE call.op \in {"generate", "validate"} -> TorchChunk(Rows, grid.dp * grid.pp, DpOf(grid, r) * grid.pp + Own(r))
    [] call.op \in {"score", "update"}      -> TorchChunk(Rows, grid.dp, DpOf(grid, r))
    [] OTHER                                -> <<>>

Dispatch ==
  /\ ~called /\ ~failed /\ at < Len(Plan)
  /\ at' = at + 1 /\ called' = TRUE
  /\ todo' = [r \in Ranks |-> Program(Plan[at + 1], r)]
  /\ minis' = [r \in Ranks |-> 0]
  /\ held' = [r \in Ranks |-> Argument(Plan[at + 1], r)] /\ work' = held'
  /\ orders' \in [0..1 -> IF grid.shuffle /\ Plan[at + 1].op = "update" THEN {"given", "drawn"} ELSE {"given"}]
  /\ res' = [r \in Ranks |-> <<>>]
  /\ UNCHANGED <<grid, failed, copies, mods, engine, got>>

\* Tensor rank 0 of each replica: of the first stage after generation, of the last otherwise.
CollectFrom == IF Call.op \in {"generate", "validate"} THEN 0 ELSE grid.pp - 1
Collect ==
  /\ called /\ ~failed /\ \A r \in Ranks : todo[r] = <<>>
  /\ called' = FALSE
  /\ got' = LET Answer(r) == IF Call.op = "validate" THEN [i \in DOMAIN work[r] |-> [row |-> work[r][i], ver |-> Unset]]
                             ELSE res[r]
            IN  FlattenSeq([d \in 1..grid.dp |-> Answer(CalcGlobalRank(grid, 0, d - 1, CollectFrom))])
  /\ UNCHANGED <<grid, at, failed, todo, copies, mods, engine, orders, minis, held, work, res>>

Init ==
  /\ grid \in Grids /\ at = 0 /\ called = FALSE /\ failed = FALSE
  /\ todo = [r \in Ranks |-> <<>>]
  /\ copies = [r \in Ranks |-> <<>>]
  /\ mods = [r \in Ranks |-> [m \in OtherRoles |-> [dev |-> "cpu", ver |-> Unset]]]
  /\ engine = [r \in Ranks |-> NoEngine]
  /\ orders = [p \in 0..1 |-> "given"]
  /\ minis = [r \in Ranks |-> 0]
  /\ held = [r \in Ranks |-> <<>>] /\ work = held /\ res = held /\ got = <<>>

Next ==
  \/ Dispatch \/ Collect
  \/ \E r \in Ranks :
       \/ Build(r) \/ Load(r) \/ SyncReplicas(r) \/ StagesIn(r) \/ GatherStages(r) \/ MakeEngine(r)
       \/ SyncWeights(r) \/ TakeBatch(r) \/ Sample(r) \/ GatherMicro(r) \/ GatherPp(r) \/ StagesOut(r)
       \/ Onload(r) \/ Offload(r) \/ NextMini(r) \/ ShareBatch(r) \/ ForwardActor(r)
       \/ ForwardCritic(r) \/ ForwardReward(r) \/ ShareResult(r) \/ Step(r) \/ SaveFails(r)
Spec == Init /\ [][Next]_vars /\ WF_vars(Next)

---------------------------------------------------------------------------
(* Properties. *)
Running(op, r) == called /\ ~failed /\ IsAt(op, r)

\* Whoever generates does so with the shards vLLM cuts for its place in the inference group, out of
\* the weights the trainer has reached, whatever stage and tensor rank they were trained on.
EngineServesCurrentModel ==
  \A r \in Ranks : Running("sample", r) =>
    \A n \in EngineNames(grid) :
      /\ engine[r][n].of = Wanted[grid][PlaceIn(InferGroup(grid, r), r) - 1][n]
      /\ engine[r][n].ver = {copies[r][Own(r)].ver} /\ Unset \notin engine[r][n].ver

\* The ranks of an inference group generate for the same rows, and those that hold one model run
\* it over the same rows, though each was given or drew its own.
GroupsShareRows ==
  \A op \in {"sample", "forward"}, r \in Ranks :
    called /\ (\A s \in Members(op, r) : IsAt(op, s)) => \A s \in Members(op, r) : work[s] = work[r]

\* What the driver collects has a row for each row it sent, in the order it sent them, and results
\* of the last stage, not what another stage has in their place.
RepliesInOrder ==
  ~called /\ at > 0 /\ ~failed /\ Call.op \in {"generate", "validate", "score"} =>
    /\ [i \in DOMAIN got |-> got[i].row] = Rows
    /\ Call.op # "validate" => \A i \in DOMAIN got : got[i].ver = Module(0).ver /\ got[i].ver # Unset

\* The rows of a call stay together within a group, and come back in order.
RowsInStep == GroupsShareRows /\ RepliesInOrder

\* "During training, only the current pp stage holds the parameters"; the model that runs is on the GPU.
WeightsWhereUsed ==
  \A r \in Ranks : Running("forward", r) =>
    /\ Module(r).dev = "gpu"
    /\ \A p \in DOMAIN copies[r] \ {Own(r)} : Call.op = "update" => copies[r][p].dev = "cpu"

\* No call leaves ranks waiting at different collectives: every call returns or raises.
CallsEnd == \A i \in 1..Len(Plan) : (called /\ at = i) ~> (~called \/ failed)
=============================================================================
