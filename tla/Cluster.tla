-------------------------------- MODULE Cluster --------------------------------
(***************************************************************************)
(* How the driver brings up its worker processes:                          *)
(* RayPPOTrainer.init_workers (src/verl/trainer/ppo/ray_trainer.py), the   *)
(* worker groups of src/verl/single_controller and the bootstrap of a      *)
(* worker.  The driver creates one process per GPU of every resource pool; *)
(* rank zero of a pool picks an address and publishes it in a register     *)
(* centre, which the driver polls; the other ranks get it in their         *)
(* environment, and all of them meet there before a constructor ends.  One *)
(* process holds the workers of all roles of its pool (WorkerDict).        *)
(*                                                                         *)
(* The workers of a node share the local copy of the model (utils/fs.py).  *)
(* Ray and torch.distributed are external: actors start at any time and in *)
(* any order, any process may die, and a rendezvous waits for all ranks or *)
(* is given up once one of them is dead.  A port is not given out twice    *)
(* (_get_free_port closes it before it is used: see the README).           *)
(***************************************************************************)
EXTENDS Integers, Sequences, FiniteSets, TLC, SequencesExt

CONSTANTS
  Store,       \* pool -> processes on each of its nodes: process_on_nodes
  Configs,     \* [megatron, estimator, ref, rm, pool |-> role -> its pool]
  Methods,     \* role -> its registered methods, each a sequence of words
  Nodes,       \* the nodes of the cluster
  GPUs,        \* node -> its GPUs
  MaxPolls,    \* how often the driver looks for a register centre (120 in the code)
  MaxCrashes   \* bound: processes that die and copies that fail

Pools == DOMAIN Store
\* The places of processes on nodes with s[1], s[2], ... of them; sum(self._store) counts them.
Bundles(s) == UNION {{i} \X (0..(s[i] - 1)) : i \in DOMAIN s}
Total(s) == Cardinality(Bundles(s))
WorldSize(g) == Total(Store[g])
Members(g) == {<<g, r>> : r \in 0..(WorldSize(g) - 1)}
Procs == UNION {Members(g) : g \in Pools}
InitModel == <<"init", "model">>
\* A role is the sequence of the words of its name.
ActorRollout == <<"actor", "rollout">>
AllRoles == <<ActorRollout, <<"critic">>, <<"ref">>, <<"rm">>>>
Nobody == <<0, 0>>

ASSUME ClusterAssumption ==
  /\ MaxPolls \in Nat \ {0} /\ MaxCrashes \in Nat
  /\ Store \in Seq(Seq(Nat \ {0}) \ {<<>>}) \ {<<>>}
  /\ \A role \in Range(AllRoles) : InitModel \in Methods[role] /\ \A m \in Methods[role] : m \in Seq(Range(m))
  /\ \A c \in Configs :
       /\ {c.megatron, c.ref, c.rm} \subseteq BOOLEAN /\ c.estimator \in {"gae", "grpo"}
       /\ c.pool \in [Range(AllRoles) -> Pools]

VARIABLES
  config,      \* the configuration of the trainer
  pc, pool,    \* the driver: where it is, and the pool it is bringing up
  polls,       \* iterations of its polling loop
  next,        \* the rank it creates next
  pgs,         \* pool -> the node of each placement group
  master,      \* pool -> _master_addr and _master_port of its group: the process they name
  centres,     \* named actors: prefix of a group -> the process whose address is registered
  proc,        \* process -> its state
  env,         \* process -> MASTER_ADDR and MASTER_PORT it was given, or set itself
  at,          \* process -> <<node, bundle>>
  wg,          \* role -> method name -> <<role, method>> in the process it reaches
  todo,        \* the roles whose init_model is still to be called, in order
  asked,       \* process -> the method it was sent, or <<>>
  inited,      \* process -> the roles initialised in it, in order
  cache,       \* node -> what stands at the local path of the model: "none", "partial", "whole"
  lock,        \* node -> the process that holds the lock file of that path
  crashes

driver == <<pc, pool, polls, next, todo>>
files == <<cache, lock>>
vars == <<config, driver, pgs, master, centres, proc, env, at, wg, asked, inited, files, crashes>>

Empty == [x \in {} |-> x]
Prefix(g) == g  \* name_prefix: a random string for each group

Init ==
  /\ config \in Configs
  /\ pc = "place" /\ pool = 1 /\ polls = 0 /\ next = 0 /\ todo = <<>>
  /\ pgs = [g \in Pools |-> <<>>] /\ master = [g \in Pools |-> Nobody]
  /\ centres = Empty /\ wg = Empty
  /\ proc = [p \in Procs |-> "none"]
  /\ env = [p \in Procs |-> Nobody] /\ at = [p \in Procs |-> <<>>]
  /\ asked = [p \in Procs |-> <<>>] /\ inited = [p \in Procs |-> <<>>]
  /\ cache = [n \in Nodes |-> "none"] /\ lock = [n \in Nodes |-> Nobody]
  /\ crashes = 0

\* The worker classes init_workers puts into each pool: the critic only for GAE, the reference and
\* the reward model only when they are used.
Uses(role) ==
  CASE role = <<"critic">> -> config.estimator = "gae"
    [] role = <<"ref">>    -> config.ref
    [] role = <<"rm">>     -> config.rm
    [] OTHER               -> TRUE
RolesOf(g) == {role \in Range(AllRoles) : Uses(role) /\ config.pool[role] = g}

---------------------------------------------------------------------------
(* RayResourcePool.get_placement_groups: STRICT_PACK puts the bundles of a group on one node. *)
Taken(places, n) ==
  Cardinality(UNION {{g} \X {b \in Bundles(Store[g]) : b[1] \in DOMAIN places[g] /\ places[g][b[1]] = n} : g \in Pools})
Placements(g) ==
  {nodes \in [DOMAIN Store[g] -> Nodes] :
     \A n \in Nodes : Taken([pgs EXCEPT ![g] = nodes], n) <= GPUs[n]}
Place ==
  /\ pc = "place" /\ RolesOf(pool) # {}
  /\ \E nodes \in Placements(pool) : pgs' = [pgs EXCEPT ![pool] = nodes]
  /\ pc' = "create" /\ next' = 0
  /\ UNCHANGED <<config, pool, polls, todo, master, centres, proc, env, at, wg, asked, inited, crashes, files>>

\* create_colocated_worker_cls has no class to build on for a pool without a role.
NoClass ==
  /\ pc = "place" /\ RolesOf(pool) = {}
  /\ pc' = "failed"
  /\ UNCHANGED <<config, pool, polls, next, todo, pgs, master, centres, proc, env, at, wg, asked, inited, crashes, files>>

\* The placement group and the local rank of a global rank, as the two loops run.
Slot(g, rank) ==
  LET i == CHOOSE j \in DOMAIN Store[g] :
             Total(SubSeq(Store[g], 1, j - 1)) <= rank /\ rank < Total(SubSeq(Store[g], 1, j))
  IN  <<pgs[g][i], <<i, rank - Total(SubSeq(Store[g], 1, i - 1))>>>>

\* One turn of the loop over ranks: rank zero gets no address, the others that of their group.
CreateWorker ==
  /\ pc = "create" /\ next < WorldSize(pool)
  /\ LET p == <<pool, next>> IN
       /\ proc' = [proc EXCEPT ![p] = "created"]
       /\ at' = [at EXCEPT ![p] = Slot(pool, next)]
       /\ env' = [env EXCEPT ![p] = IF next = 0 THEN Nobody ELSE master[pool]]
  /\ next' = next + 1
  /\ IF next = 0 THEN pc' = "poll" /\ polls' = 0 ELSE UNCHANGED <<pc, polls>>
  /\ UNCHANGED <<config, pool, todo, pgs, master, centres, wg, asked, inited, crashes, files>>

\* Mutant of Poll: the driver waits until the register centre appears.
PollOn ==
  /\ pc = "poll"
  /\ IF Prefix(pool) \in DOMAIN centres
     THEN /\ master' = [master EXCEPT ![pool] = centres[Prefix(pool)]]
          /\ pc' = "create" /\ UNCHANGED polls
     ELSE UNCHANGED <<polls, master, pc>>
  /\ UNCHANGED <<config, pool, next, todo, pgs, centres, proc, env, at, wg, asked, inited, crashes, files>>

\* A turn of the polling loop; after the last one the assertion fails.
Poll ==
  /\ pc = "poll"
  /\ IF Prefix(pool) \in DOMAIN centres
     THEN /\ master' = [master EXCEPT ![pool] = centres[Prefix(pool)]]
          /\ pc' = "create" /\ UNCHANGED polls
     ELSE /\ polls' = polls + 1 /\ UNCHANGED master
          /\ pc' = IF polls + 1 = MaxPolls THEN "failed" ELSE "poll"
  /\ UNCHANGED <<config, pool, next, todo, pgs, centres, proc, env, at, wg, asked, inited, crashes, files>>

\* _bind_workers_method_to_parent: the registered methods of one role, under {role}_{method}.
DictMethods(role) ==
  [name \in {role \o m : m \in Methods[role]} |-> <<role, SubSeq(name, Len(role) + 1, Len(name))>>]
\* The group has all methods of the WorkerDict its processes run.
Bound(g) ==
  [name \in UNION {DOMAIN DictMethods(role) : role \in RolesOf(g)} |->
     DictMethods(CHOOSE role \in RolesOf(g) : name \in DOMAIN DictMethods(role))[name]]

\* spawn, for one role: a group on the same processes, whose methods of that role lose the prefix.
Rebound(role, bound) ==
  LET own == {name \in DOMAIN bound : IsPrefix(role, name)}
      short(name) == SubSeq(name, Len(role) + 1, Len(name))
  IN  [name \in DOMAIN bound \cup {short(n) : n \in own} |->
         IF \E n \in own : short(n) = name
         THEN bound[CHOOSE n \in own : short(n) = name] ELSE bound[name]]

\* Mutant of InitOrder: the rollout is built first.
InitOrderEager == <<<<"actor", "rollout">>, <<"critic">>, <<"ref">>, <<"rm">>>>

\* The order in which init_workers calls init_model: the rollout last.
InitOrder == <<<<"critic">>, <<"ref">>, <<"rm">>, <<"actor", "rollout">>>>

\* A Megatron group asks every worker for its rank information, and waits for it.
RankInfo ==
  /\ config.megatron /\ pc = "create" /\ next = WorldSize(pool)
  /\ \/ (\A p \in Members(pool) : proc[p] = "alive") /\ pc' = "spawn"
     \/ (\E p \in Members(pool) : proc[p] = "dead") /\ pc' = "failed"
  /\ UNCHANGED <<config, pool, polls, next, todo, pgs, master, centres, proc, env, at, wg, asked, inited, crashes, files>>

Spawn ==
  /\ pc = IF config.megatron THEN "spawn" ELSE "create"
  /\ next = WorldSize(pool)
  /\ wg' = [role \in DOMAIN wg \cup RolesOf(pool) |->
              IF role \in DOMAIN wg THEN wg[role] ELSE Rebound(role, Bound(pool))]
  /\ IF pool + 1 \in Pools THEN pool' = pool + 1 /\ pc' = "place" /\ UNCHANGED todo
     ELSE pc' = "init" /\ todo' = InitOrder /\ UNCHANGED pool
  /\ UNCHANGED <<config, polls, next, pgs, master, centres, proc, env, at, asked, inited, crashes, files>>

\* "if self.use_critic" and the like.
Unused ==
  /\ pc = "init" /\ ~Uses(Head(todo))
  /\ todo' = Tail(todo)
  /\ UNCHANGED <<config, pc, pool, polls, next, pgs, master, centres, proc, env, at, wg, asked, inited, crashes, files>>
\* init_model of a role, sent to all processes of its group; then ray.get of the answers.
CallInit ==
  /\ pc = "init" /\ Uses(Head(todo))
  /\ LET call == wg[Head(todo)][InitModel] IN
       asked' = [p \in Procs |-> IF p \in Members(config.pool[Head(todo)]) THEN call ELSE asked[p]]
  /\ pc' = "wait"
  /\ UNCHANGED <<config, pool, polls, next, todo, pgs, master, centres, proc, env, at, wg, inited, crashes, files>>
InitReturns ==
  /\ pc = "wait"
  /\ \A p \in Members(config.pool[Head(todo)]) : asked[p] = <<>>
  /\ todo' = Tail(todo) /\ pc' = IF Tail(todo) = <<>> THEN "trained" ELSE "init"
  /\ UNCHANGED <<config, pool, polls, next, pgs, master, centres, proc, env, at, wg, asked, inited, crashes, files>>
\* A dead actor, or a method that raised: ray.get raises, and so does the driver.
InitFails ==
  /\ pc = "wait"
  /\ \E p \in Members(config.pool[Head(todo)]) : proc[p] \in {"dead", "raised"} /\ asked[p] # <<>>
  /\ pc' = "failed"
  /\ UNCHANGED <<config, pool, polls, next, todo, pgs, master, centres, proc, env, at, wg, asked, inited, crashes, files>>

Driver == Place \/ NoClass \/ CreateWorker \/ Poll \/ RankInfo \/ Spawn \/ Unused \/ CallInit \/ InitReturns \/ InitFails

---------------------------------------------------------------------------
(* A worker process. *)
\* create_worker_group_register_center: a named actor that holds the address of its creator.
Registered(name, p) == [k \in {name} \cup DOMAIN centres |-> IF k = name THEN p ELSE centres[k]]
\* Worker.__init__: the address is read from the environment, and set there.
MasterOf(p) == env[p]

\* Mutant of Configure: the name of the register centre does not tell groups apart.
ConfigureShared(p) ==
  /\ proc[p] = "created"
  /\ proc' = [proc EXCEPT ![p] = "configured"]
  /\ IF p[2] = 0
     THEN env' = [env EXCEPT ![p] = p] /\ centres' = centres @@ [k \in Pools |-> p]
     ELSE UNCHANGED <<env, centres>>
  /\ UNCHANGED <<config, driver, pgs, master, at, wg, asked, inited, crashes, files>>

\* Worker.__new__ and __init__: rank zero picks an address, publishes it in the register centre
\* named after its group and sets it in its environment.
Configure(p) ==
  /\ proc[p] = "created"
  /\ proc' = [proc EXCEPT ![p] = "configured"]
  /\ IF p[2] = 0
     THEN env' = [env EXCEPT ![p] = p] /\ centres' = Registered(Prefix(p[1]), p)
     ELSE UNCHANGED <<env, centres>>
  /\ UNCHANGED <<config, driver, pgs, master, at, wg, asked, inited, crashes, files>>

\* init_process_group in the constructor of the first role: a rank joins the store at its master's
\* address once that rank zero listens there.
Join(p) ==
  /\ proc[p] = "configured"
  /\ p[2] = 0 \/ proc[MasterOf(p)] \in {"joined", "alive"}
  /\ proc' = [proc EXCEPT ![p] = "joined"]
  /\ UNCHANGED <<config, driver, pgs, master, centres, env, at, wg, asked, inited, crashes, files>>
\* It returns when world_size ranks have joined; then the constructor ends.
Met(p) == {q \in Procs : MasterOf(q) = MasterOf(p) /\ proc[q] \in {"joined", "alive"}}
Form(p) ==
  /\ proc[p] = "joined" /\ Cardinality(Met(p)) >= WorldSize(p[1])
  /\ proc' = [proc EXCEPT ![p] = "alive"]
  /\ UNCHANGED <<config, driver, pgs, master, centres, env, at, wg, asked, inited, crashes, files>>
\* The rendezvous of a rank is given up when a process of its group is dead.
GiveUp(p) ==
  /\ proc[p] \in {"configured", "joined"}
  /\ \E q \in Members(p[1]) : proc[q] = "dead"
  /\ proc' = [proc EXCEPT ![p] = "dead"]
  /\ UNCHANGED <<config, driver, pgs, master, centres, env, at, wg, asked, inited, crashes, files>>
\* copy_local_path_from_hdfs: with the lock of the path on its node, a process looks whether the path
\* exists, and if not copies the model there; the path exists as soon as the copy begins.
Local(p) == at[p][1]
BeginCopy(p) ==
  /\ proc[p] = "alive" /\ asked[p] # <<>>
  /\ lock[Local(p)] = Nobody /\ cache[Local(p)] = "none"
  /\ lock' = [lock EXCEPT ![Local(p)] = p] /\ cache' = [cache EXCEPT ![Local(p)] = "partial"]
  /\ UNCHANGED <<config, driver, pgs, master, centres, proc, env, at, wg, asked, inited, crashes>>
EndCopy(p) ==
  /\ proc[p] = "alive" /\ lock[Local(p)] = p
  /\ lock' = [lock EXCEPT ![Local(p)] = Nobody] /\ cache' = [cache EXCEPT ![Local(p)] = "whole"]
  /\ UNCHANGED <<config, driver, pgs, master, centres, proc, env, at, wg, asked, inited, crashes>>
\* The status of the copy is not looked at: the path is returned, and loading what is there raises.
CopyFails(p) ==
  /\ crashes < MaxCrashes /\ proc[p] = "alive" /\ lock[Local(p)] = p
  /\ lock' = [lock EXCEPT ![Local(p)] = Nobody]
  /\ \E left \in {"none", "partial"} : cache' = [cache EXCEPT ![Local(p)] = left]
  /\ proc' = [proc EXCEPT ![p] = "raised"] /\ crashes' = crashes + 1
  /\ UNCHANGED <<config, driver, pgs, master, centres, env, at, wg, asked, inited>>

\* Mutant of Found: whoever sees the path takes it for the copy.
FoundUnlocked(p) == cache[Local(p)] # "none"

\* The path exists, and the lock is free to look.
Found(p) == lock[Local(p)] = Nobody /\ cache[Local(p)] # "none"

\* The method runs on the worker of its role in the process, WorkerDict.worker_dict[key], and loads
\* the model from the path.
Serve(p) ==
  /\ proc[p] = "alive" /\ asked[p] # <<>> /\ Found(p)
  /\ \/ /\ cache[Local(p)] = "whole"
        /\ inited' = [inited EXCEPT ![p] = Append(@, asked[p][1])]
        /\ asked' = [asked EXCEPT ![p] = <<>>]
        /\ UNCHANGED proc
     \/ /\ cache[Local(p)] = "partial"
        /\ proc' = [proc EXCEPT ![p] = "raised"]
        /\ UNCHANGED <<inited, asked>>
  /\ UNCHANGED <<config, driver, pgs, master, centres, env, at, wg, crashes, files>>
Worker(p) == Configure(p) \/ Join(p) \/ Form(p) \/ GiveUp(p) \/ BeginCopy(p) \/ EndCopy(p) \/ Serve(p)

\* A process dies; the register centre it owns and the lock it holds go with it, its copy stays.
Crash(p) ==
  /\ crashes < MaxCrashes /\ proc[p] \notin {"none", "dead"} /\ pc \notin {"trained", "failed"}
  /\ proc' = [proc EXCEPT ![p] = "dead"] /\ crashes' = crashes + 1
  /\ centres' = [k \in {j \in DOMAIN centres : centres[j] # p} |-> centres[k]]
  /\ lock' = [n \in Nodes |-> IF lock[n] = p THEN Nobody ELSE lock[n]]
  /\ UNCHANGED <<config, driver, pgs, master, env, at, wg, asked, inited, cache>>

Next == Driver \/ \E p \in Procs : Worker(p) \/ CopyFails(p) \/ Crash(p)
Spec == Init /\ [][Next]_vars /\ WF_vars(Driver) /\ \A p \in Procs : WF_vars(Worker(p))

---------------------------------------------------------------------------
(* Processes meet in a rendezvous only with processes of their own pool, and a pool whose        *)
(* rendezvous ended has met there with all its ranks, each on a GPU of its own: no rank is given *)
(* the address of another group, whichever group's rank zero registers first.                    *)
GroupsApart ==
  \A p \in Procs : proc[p] \in {"joined", "alive"} =>
    /\ Met(p) \subseteq Members(p[1])
    /\ proc[p] = "alive" => Cardinality({at[q] : q \in Members(p[1])}) = WorldSize(p[1])

(* "we should create rollout at the end so that vllm can have a better estimation of kv cache     *)
(* memory" (ray_trainer.py): when init_model of the rollout runs in a process, the models of all  *)
(* other roles of that process are already there, and no worker is initialised twice.             *)
RolloutLast ==
  \A p \in Procs :
    /\ IsInjective(inited[p])
    /\ <<"actor", "rollout">> \in Range(inited[p]) => Range(inited[p]) = RolesOf(p[1])

(* A process loads a whole model or the copy to its node was cut off: as long as no process died  *)
(* and no copy failed, none takes the path of a copy another process is still writing, and one    *)
(* that has loaded a model has a whole copy beside it (utils/fs.py).                              *)
LoadsWholeCopies ==
  \A p \in Procs :
    /\ proc[p] = "raised" => crashes > 0
    /\ inited[p] # <<>> => cache[Local(p)] = "whole"

(* Bringing up the workers ends: training starts with every role initialised, or the driver       *)
(* raises; it neither polls nor waits for an answer for ever, whichever process dies and when.    *)
BringUpEnds == <>(pc = "failed" \/ (pc = "trained" /\ \A p \in Procs : Len(inited[p]) = Cardinality(RolesOf(p[1]))))
=============================================================================
