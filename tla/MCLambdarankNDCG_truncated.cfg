\* one query of three documents truncation level 1 so that pairs reach past the window; unbiased_ off, one thread
CONSTANTS
  TruncationLevel = 1
  KMinScore <- MCKMinScore
  LabelGain <- MCLabelGain
  Norm = TRUE
  Unbiased = FALSE
  EtaSign = 1
  QueryCnt <- MCQueryCnt3
  TeamSize = 1
  Labelings <- MCLabels01
  ScoreSet <- MCScoreSet
  HasWeights = FALSE
  WeightSet = {"pos"}
  MaxInits = 0
SPECIFICATION Spec
INVARIANTS
  TypeOK
  PairsMatchReference
