---------------------------- MODULE MCPPOTrainer ----------------------------
(* Jobs for model checking PPOTrainer: two tasks a batch, one or two to      *)
(* validate with, three or four batches in all.                              *)
EXTENDS PPOTrainer

Job(critic, kl_loss, val_rows) ==
  [critic |-> critic, kl_loss |-> kl_loss, val_before |-> FALSE, rows |-> 2,
   val_rows |-> val_rows, batches |-> 2, epochs |-> 2, total |-> 0, warmup |-> 0,
   test_freq |-> 2, save_freq |-> 2]

\* What a job may do otherwise.
Variants(job) ==
  {job,
   [job EXCEPT !.val_before = TRUE],
   [job EXCEPT !.warmup = 2, !.save_freq = 1],
   [job EXCEPT !.batches = 1, !.epochs = 1, !.test_freq = 0],
   [job EXCEPT !.total = 3, !.test_freq = 0, !.save_freq = 0],
   [job EXCEPT !.total = 9, !.batches = 1]}

Jobs == UNION {Variants(Job(c, l, v)) : c \in BOOLEAN, l \in BOOLEAN, v \in {1, 2}}

OnGpu == {{}, Parts, {"actor", "ref"}}

=============================================================================
