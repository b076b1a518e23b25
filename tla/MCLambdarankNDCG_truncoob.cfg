\* unbiased_ off: a query longer than the truncation level
CONSTANTS
  TruncationLevel = 2
  KMinScore <- MCKMinScore
  LabelGain <- MCLabelGain
  Norm = TRUE
  Unbiased = FALSE
  EtaSign = 1
  QueryCnt <- MCQueryCnt3
  TeamSize = 1
  Labelings <- MCLabels01
  ScoreSet <- MCScoreSet
  HasWeights = FALSE
  WeightSet = {"pos"}
  MaxInits = 0
SPECIFICATION Spec
INVARIANTS
  MemorySafe
