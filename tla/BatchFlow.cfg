SPECIFICATION FairSpec
CONSTANTS
  Jobs <- MCJobs
INVARIANTS ResultsComeHome EqualPartition
PROPERTIES CallReturns
