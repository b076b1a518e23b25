\* unbiased_ off, two threads, three queries no longer than the truncation level
CONSTANTS
  TruncationLevel = 3
  KMinScore <- MCKMinScore
  LabelGain <- MCLabelGain
  Norm = TRUE
  Unbiased = FALSE
  EtaSign = 1
  QueryCnt <- MCQueryCnt1x2x1
  TeamSize = 2
  Labelings <- MCLabels01
  ScoreSet <- MCScoreSet
  HasWeights = TRUE
  WeightSet = {"zero", "pos"}
  MaxInits = 0
SPECIFICATION Spec
INVARIANTS
  OutputsDeterministic
  GradientsFinite
  SentinelGetsZero
