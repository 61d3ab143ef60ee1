------------------------- MODULE RolloutRefinement -------------------------
(***************************************************************************)
(* RolloutProtocol implements RolloutDialogue: a turn is taken when its    *)
(* file appears, not when it is filled, because that is the event the      *)
(* other side polls for; a verdict counts when it can be read.             *)
(***************************************************************************)
EXTENDS RolloutProtocol

Closed(r) == \E i \in Iters : Exists(score[r][i])
Asked(r) == \E i \in Iters : Exists(inp[r][i]) /\ ~Exists(out[r][i])

PhaseOf(r) ==
  CASE Closed(r) -> "closed"
    [] ~Closed(r) /\ ~Exists(out[r][0]) -> "new"
    [] ~Closed(r) /\ Exists(out[r][0]) /\ Asked(r) -> "asked"
    [] OTHER -> "replied"
VerdictOf(r) ==
  CASE \E i \in Iters : score[r][i] = <<1>> -> "passed"
    [] \E i \in Iters : score[r][i] = <<0>> -> "failed"
    [] OTHER -> "none"

Dialogue == INSTANCE RolloutDialogue WITH
  MaxTurns <- TrainerMaxIter,
  phase <- [r \in Rollouts |-> PhaseOf(r)],
  turns <- [r \in Rollouts |-> Cardinality({i \in Iters : Exists(out[r][i])})],
  verdict <- [r \in Rollouts |-> VerdictOf(r)]

\* Every rollout is a dialogue in turns with one closing verdict, whatever
\* agents crash, whatever launchers kill each other's container, whatever files
\* a resubmitted job finds.
ImplementsDialogue == Dialogue!DialogueSpec

=============================================================================
