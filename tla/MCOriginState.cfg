SPECIFICATION Spec
CONSTANTS
  Recorders = {r1, r2, p}
  Probers = {p}
  Samples = {0, 20}
  MaxSample = 20
  FailureThresholds = {2}
  SuccessThresholds = {2}
  U32 = 6
  U64 = 16
  MaxTotal = 3
SYMMETRY Symmetry
CHECK_DEADLOCK FALSE
INVARIANTS
  TypeOK
  StreakExclusion
  UnhealthyIsEarned
  EwmaBounded
  FlagAgreesUnlessCrossed
PROPERTIES
  LatencySampleApplied
