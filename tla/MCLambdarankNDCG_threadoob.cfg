\* unbiased_ on, two OpenMP threads: cost buffers sized by omp_get_num_threads() outside the loop
CONSTANTS
  TruncationLevel = 2
  KMinScore <- MCKMinScore
  LabelGain <- MCLabelGain
  Norm = TRUE
  Unbiased = TRUE
  EtaSign = 1
  QueryCnt <- MCQueryCnt2x2
  TeamSize = 2
  Labelings <- MCLabels01
  ScoreSet <- MCScoreSet
  HasWeights = FALSE
  WeightSet = {"pos"}
  MaxInits = 0
SPECIFICATION Spec
INVARIANTS
  MemorySafe
