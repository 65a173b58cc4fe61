SPECIFICATION FairSpec
CONSTANTS
  Recorders = {r1, r2, p}
  Probers = {p}
  Samples = {0}
  MaxSample = 0
  FailureThresholds = {2}
  SuccessThresholds = {2}
  U32 = 4
  U64 = 1
  MaxTotal = 1
PROPERTIES
  PersistentOutcomeDecides
