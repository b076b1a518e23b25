\* unbiased_ on, eta_ > 0, a single OpenMP thread, queries within the truncation level
CONSTANTS
  TruncationLevel = 2
  KMinScore <- MCKMinScore
  LabelGain <- MCLabelGain
  Norm = TRUE
  Unbiased = TRUE
  EtaSign = 1
  QueryCnt <- MCQueryCnt2x2
  TeamSize = 1
  Labelings <- MCLabels01
  ScoreSet <- MCScoreSet
  HasWeights = FALSE
  WeightSet = {"pos"}
  MaxInits = 1
SPECIFICATION Spec
INVARIANTS
  LambdaSignFollowsLabels
  LambdasBalance
PROPERTIES
  BiasUpdateMatchesCosts
  ImplementsAtomic
