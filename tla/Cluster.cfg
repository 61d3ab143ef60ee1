SPECIFICATION Spec
CONSTANTS
  Store <- MCStore
  Configs <- MCConfigs
  Methods <- MCMethods
  Nodes = {"n1", "n2"}
  GPUs <- MCGPUs
  MaxPolls = 2
  MaxCrashes = 1
INVARIANTS GroupsApart RolloutLast LoadsWholeCopies
PROPERTIES BringUpEnds
CHECK_DEADLOCK FALSE
