--------------------------- MODULE MCMegatronEngine ---------------------------
(* Four ranks in every shape the configuration allows, start-up, an iteration of training, validation and the save. *)
EXTENDS MegatronEngine, TLC

Grid(tp, pp, dp, itp, mini, micro, shuffle, offload) ==
  [tp |-> tp, pp |-> pp, vpp |-> 1, dp |-> dp, itp |-> itp, layers |-> 2, heads |-> 4, kv |-> tp,
   ffn |-> 4, vocab |-> 4, mini |-> mini, micro |-> micro, shuffle |-> shuffle, offload |-> offload]
MCGrids == {Grid(2, 2, 1, 2, 2, 2, TRUE, TRUE), Grid(2, 2, 1, 1, 4, 2, FALSE, FALSE),
            Grid(2, 1, 2, 1, 4, 2, FALSE, TRUE), Grid(1, 2, 2, 1, 2, 2, TRUE, FALSE),
            Grid(4, 1, 1, 2, 2, 1, FALSE, FALSE), Grid(2, 1, 2, 2, 2, 1, FALSE, FALSE)}
C(op, role) == [op |-> op, role |-> role]
MCPlan == <<C("init", "critic"), C("init", "ref"), C("init", "rm"), C("init", "actor"),
            C("generate", "actor"), C("score", "ref"), C("score", "critic"), C("score", "rm"),
            C("update", "critic"), C("update", "actor"),
            C("validate", "actor"), C("save", "actor")>>
MCRows == <<1, 2, 3, 4>>
=============================================================================
