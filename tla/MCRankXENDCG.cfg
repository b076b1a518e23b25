\* scores no more than 2 apart: the softmax never rounds to 1.0
CONSTANTS
  QueryCnt <- MCQueryCnt
  Labelings <- MCLabels
  TeamSize = 2
  ScoreSet <- MCScoreSet
  RoundGap = 37
  MaxCalls = 2
  MaxInits = 1
SPECIFICATION Spec
\* the booster stops calling after MaxCalls iterations
CHECK_DEADLOCK FALSE
INVARIANTS
  TypeOK
  OwnStreamDraws
  XEGradientsFinite
