\* scores 40 apart: the leader's softmax rounds to exactly 1.0
CONSTANTS
  QueryCnt <- MCQueryCnt
  Labelings <- MCLabels
  TeamSize = 1
  ScoreSet <- MCScoreSetWide
  RoundGap = 37
  MaxCalls = 1
  MaxInits = 0
SPECIFICATION Spec
CHECK_DEADLOCK FALSE
INVARIANTS
  XEGradientsFinite
