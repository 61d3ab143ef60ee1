SPECIFICATION Spec
CONSTANTS
  MaxPromptLength = 30
  MaxReply = 3
  Buffer = 3
  AlertLen = 1
  HeaderLen = 2
  PrefixLen = 2
  SuffixLen = 1
  TaskLen = 2
  HintLen = 1
  ReplyLens <- Replies
  ObservationLens <- Outputs
  MaxIter = 4
  TurnsUntilHint = 1
  ResponsesToKeep = 3
  ObservationsToKeep = 2
  LongestMessage = 3
  RemovePadding = TRUE
INVARIANTS PromptFits ShownAndMasked LastReplyMasked
