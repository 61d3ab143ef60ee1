SPECIFICATION FairSpec
CONSTANTS
  r1 = r1
  r2 = r2
  l1 = l1
  l2 = l2
  None = None
  Rollouts = {r1, r2}
  Launchers = {l1}
  Batches <- MCOneBatch
  WorldSize = 3
  TrainerMaxIter = 2
  AgentMaxIter = 2
  Kinds = {"right", "wrong", "command", "prose"}
  MaxCrashes = 0
  MaxRestarts = 0
INVARIANTS ScoreDeserved PromptQuotesReplies RewardIsVerdict
PROPERTIES EveryRolloutScored
