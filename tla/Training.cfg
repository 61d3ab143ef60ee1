SPECIFICATION Spec
CONSTANTS
  None = None
  Ranks = {k1, k2}
  Rank0 = k1
  Offloads <- OnGpu
  Configs <- Jobs
  MaxIter = 2
INVARIANTS ExperienceFits UsedIsLoaded EngineIsCurrent
PROPERTIES EndsWell
