\* exact index arithmetic, up to three Init calls on one objective
CONSTANTS
  SigmoidSet <- MCSigmoidSet
  RawMinInput <- MCRawMinInput
  Bins = 4
  MaxInits = 3
  RoundErr <- MCNoRoundErr
  ProbeSet <- MCProbeSet
SPECIFICATION Spec
\* the objective stops being re-initialised, and a Fatal aborts training
CHECK_DEADLOCK FALSE
INVARIANTS
  TypeOK
  LookupMatchesSpec
