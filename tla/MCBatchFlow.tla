---------------------------- MODULE MCBatchFlow ----------------------------
\* Instances of BatchFlow for TLC.
EXTENDS BatchFlow

Fsdp(world, group, lens, tokens, micros, masks) ==
  [mode |-> "dp", tp |-> 1, pp |-> 1, dp |-> world, group |-> group, lens |-> lens,
   tokens |-> tokens, micro |-> micros, validate |-> FALSE, masks |-> masks]
Megatron(mode, tp, pp, dp, group, n, micros) ==
  [mode |-> mode, tp |-> tp, pp |-> pp, dp |-> dp, group |-> group,
   lens |-> [i \in 1 .. n |-> 1 + (i % 3)], tokens |-> 0, micro |-> micros,
   validate |-> FALSE, masks |-> FALSE]
Validation(world, n) ==
  [Fsdp(world, 1, [i \in 1 .. n |-> 1], 0, 1, FALSE) EXCEPT !.validate = TRUE]

\* Two ranks of three rows each; four ranks in sequence-parallel pairs; the
\* critic with fixed micro-batches and with dynamic ones; Megatron's two ways;
\* and validation batches that are not divisible by the ranks.
MCJobs ==
  {Fsdp(2, 1, lens, t, 1, FALSE) : lens \in [1 .. 6 -> 1 .. 3], t \in {4}}
  \cup {Fsdp(4, 2, lens, 4, 1, FALSE) : lens \in {<<1, 2, 3, 1>>, <<3, 3, 1, 2>>, <<1, 1, 1, 1>>}}
  \cup {Fsdp(2, 1, <<3, 1, 2, 3, 1, 1>>, t, 2, TRUE) : t \in {0, 3}}
  \cup {Megatron("megatron", 2, 2, 2, 1, 8, 2), Megatron("pp_as_dp", 2, 2, 1, 2, 8, 1),
        Megatron("pp_as_dp", 1, 2, 3, 1, 6, 1)}
  \cup {Validation(3, n) : n \in 2 .. 4}

=============================================================================
