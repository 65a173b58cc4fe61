SPECIFICATION Spec
CONSTANTS
  Ips = {a, b}
  Unit = 2
  Rate = 1
  Burst = 2
  MaxIdle = 4
  Interval = 2
  Lag = 1
  MaxReloads = 1
  MaxTime = 12
SYMMETRY Symmetry
INVARIANTS
  TypeOK
  RateRespected
  IdleBucketsEvicted
PROPERTIES
  ImplementsTokenBucket
