------------------------------- MODULE MCCluster -------------------------------
(* Two resource pools of three and two GPUs on two nodes, as in examples/split_placement, with *)
(* FSDP and with Megatron workers, and with GRPO, which leaves the pool of the critic empty.    *)
EXTENDS Cluster
MCStore == <<<<2, 1>>, <<2>>>>
MCMethods == [role \in Range(AllRoles) |-> {InitModel, <<"save", "checkpoint">>}]
Split == [role \in Range(AllRoles) |-> IF role = <<"critic">> THEN 2 ELSE 1]
Paired == [role \in Range(AllRoles) |-> IF role \in {<<"critic">>, <<"rm">>} THEN 2 ELSE 1]
MCConfigs ==
  {[megatron |-> FALSE, estimator |-> "gae", ref |-> TRUE, rm |-> FALSE, pool |-> Split],
   [megatron |-> TRUE, estimator |-> "gae", ref |-> TRUE, rm |-> TRUE, pool |-> Paired],
   [megatron |-> FALSE, estimator |-> "grpo", ref |-> TRUE, rm |-> TRUE, pool |-> Split]}
MCGPUs == [n \in Nodes |-> 3]
=============================================================================
