SPECIFICATION Spec
CONSTANTS
  DpSize = 2
  TotalEpochs = 2
  Settings <- MCSettings
  Orders <- MCOrders
INVARIANTS
  LearnsResponses
  TokensShareTheStep
PROPERTIES
  FitEnds
CHECK_DEADLOCK FALSE
