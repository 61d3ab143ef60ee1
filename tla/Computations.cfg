SPECIFICATION Spec
CONSTANTS
  None = None
  Zero = Zero
  NaN = NaN
  Raise = Raise
  OutOfRange = OutOfRange
  Heads = 4
  KvHeads = 2
  SpSizes = {1, 2}
  MaxCalls = 3
  MaxHeld = 5
  WordsOf <- MCWordsOf
  Prefix <- MCPrefix
  Suffix <- MCSuffix
  Jobs <- MCJobs
INVARIANTS
  RowsStayTogether
  LogProbsOfOwnTokens
  
  AdvantagesAsDefined
  WeightsWhole
CHECK_DEADLOCK FALSE
