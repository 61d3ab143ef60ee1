-------------------------- MODULE RolloutDialogue --------------------------
(***************************************************************************)
(* What the exchange of files promises for every rollout, with the files   *)
(* left out: trainer and agent speak in turn, the trainer first and at     *)
(* most MaxTurns times, until the agent closes the rollout; the verdict is *)
(* published once, after that.  A rollout may stop at any point (its agent *)
(* may die), but it never runs in another order.                           *)
(***************************************************************************)
EXTENDS Naturals

CONSTANTS Rollouts, MaxTurns

VARIABLES phase, turns, verdict

dialogueVars == <<phase, turns, verdict>>

DialogueInit ==
  /\ phase = [r \in Rollouts |-> "new"]
  /\ turns = [r \in Rollouts |-> 0]
  /\ verdict = [r \in Rollouts |-> "none"]

\* The trainer replies: it begins the rollout or was asked to go on.
Reply(r) ==
  /\ phase[r] \in {"new", "asked"}
  /\ turns[r] < MaxTurns
  /\ phase' = [phase EXCEPT ![r] = "replied"]
  /\ turns' = [turns EXCEPT ![r] = @ + 1]
  /\ UNCHANGED verdict

\* The agent asks for another turn.
Ask(r) ==
  /\ phase[r] = "replied"
  /\ phase' = [phase EXCEPT ![r] = "asked"]
  /\ UNCHANGED <<turns, verdict>>

\* The agent closes the rollout, then publishes its verdict.
Close(r) ==
  /\ phase[r] = "replied"
  /\ phase' = [phase EXCEPT ![r] = "closed"]
  /\ UNCHANGED <<turns, verdict>>

Publish(r) ==
  /\ phase[r] = "closed"
  /\ verdict[r] = "none"
  /\ \E v \in {"passed", "failed"} : verdict' = [verdict EXCEPT ![r] = v]
  /\ UNCHANGED <<phase, turns>>

DialogueNext == \E r \in Rollouts : Reply(r) \/ Ask(r) \/ Close(r) \/ Publish(r)

DialogueSpec == DialogueInit /\ [][DialogueNext]_dialogueVars

=============================================================================
