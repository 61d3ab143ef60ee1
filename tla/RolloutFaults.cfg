SPECIFICATION Spec
CONSTANTS
  r1 = r1
  r2 = r2
  l1 = l1
  l2 = l2
  None = None
  Rollouts = {r1, r2}
  Launchers = {l1, l2}
  Batches <- MCTwoBatches
  WorldSize = 1
  TrainerMaxIter = 2
  AgentMaxIter = 2
  Kinds = {"right", "command"}
  MaxCrashes = 1
  MaxRestarts = 1
SYMMETRY MCSymmetry
CHECK_DEADLOCK FALSE
INVARIANTS IInv
PROPERTIES ClaimedOnce ImplementsDialogue
