SPECIFICATION Spec
CONSTANTS
  Attempts = 2
  MaxInputTokens = 9
  AlertTokens = 1
  ResponsesToKeep = 1
  ObservationsToKeep = 1
  HasHints = TRUE
  Size <- MCSize
  Ratio <- MCRatio
  Values <- MCValues
  Answers <- MCAnswers
  Batches <- MCBatches
  Braced = {"flag"}
  PartIn <- MCPartIn
INVARIANTS LogsAccount WindowKept NoSuccessLost
PROPERTIES BenchmarkEnds
