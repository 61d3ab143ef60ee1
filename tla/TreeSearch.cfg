SPECIFICATION Spec
CONSTANTS
  MaxReplies = 3
  Teams <- MCTeams
  MaxIterations = 2
INVARIANTS ConversationsKept EnvironmentsFresh
PROPERTIES EveryReplyGraded
CHECK_DEADLOCK FALSE
