SPECIFICATION Spec
CONSTANTS
  o1 = o1
  o2 = o2
  o3 = o3
  Algorithms = {"round_robin", "weighted_latency", "weighted_metrics"}
  Origins = {o1, o2, o3}
  Candidates <- ListedTwice
  UserWeight <- SomeWeights
  Latencies = {0, 1, 3}
  Scale = 4
  U64 = 5
INVARIANTS
  TypeOK
  PickIsJustified
  NoneIsJustified
  FasterWeighsMore
