\* the default sigmoid 1, one Init, the bin index rounded by up to 1/500 of a bin
CONSTANTS
  SigmoidSet <- MCSigmoidOne
  RawMinInput <- MCRawMinInput
  Bins = 4
  MaxInits = 1
  RoundErr <- MCRoundErr
  ProbeSet <- MCProbeSet
SPECIFICATION Spec
CHECK_DEADLOCK FALSE
INVARIANTS
  LookupInTable
