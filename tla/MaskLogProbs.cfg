SPECIFICATION Spec
CONSTANTS
  MaxPromptLength = 40
  MaxReply = 3
  Buffer = 3
  AlertLen = 1
  HeaderLen = 1
  PrefixLen = 2
  SuffixLen = 1
  TaskLen = 2
  HintLen = 1
  ReplyLens <- Replies
  ObservationLens <- Outputs
  MaxIter = 4
  TurnsUntilHint = 1
  ResponsesToKeep = 6
  ObservationsToKeep = 6
  LongestMessage = 3
  RemovePadding = FALSE
INVARIANTS LossScoresReplies
