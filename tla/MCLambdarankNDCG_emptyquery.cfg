\* an empty query (cnt = 0) beside a query of two documents
CONSTANTS
  TruncationLevel = 2
  KMinScore <- MCKMinScore
  LabelGain <- MCLabelGain
  Norm = TRUE
  Unbiased = FALSE
  EtaSign = 1
  QueryCnt <- MCQueryCnt0x2
  TeamSize = 1
  Labelings <- MCLabels01
  ScoreSet <- MCScoreSet
  HasWeights = FALSE
  WeightSet = {"pos"}
  MaxInits = 0
SPECIFICATION Spec
INVARIANTS
  MemorySafe
