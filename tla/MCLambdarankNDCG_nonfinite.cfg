\* unbiased_ on: a bias power of 0, inf or NaN reaches the gradients
CONSTANTS
  TruncationLevel = 2
  KMinScore <- MCKMinScore
  LabelGain <- MCLabelGain
  Norm = TRUE
  Unbiased = TRUE
  EtaSign = 1
  QueryCnt <- MCQueryCnt2x2
  TeamSize = 1
  Labelings <- MCLabelsMixed
  ScoreSet <- MCScoreSetNoSentinel
  HasWeights = FALSE
  WeightSet = {"pos"}
  MaxInits = 0
SPECIFICATION Spec
INVARIANTS
  GradientsFinite
