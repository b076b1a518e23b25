\* two Init calls on one objective
CONSTANTS
  SigmoidSet <- MCSigmoidSet
  RawMinInput <- MCRawMinInput
  Bins = 4
  MaxInits = 2
  RoundErr <- MCNoRoundErr
  ProbeSet <- MCProbeSet
SPECIFICATION Spec
CHECK_DEADLOCK FALSE
INVARIANTS
  DomainAsSpecified
