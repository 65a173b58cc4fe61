SPECIFICATION RequestsSpec
CONSTANTS
  c1 = c1
  c2 = c2
  p1 = p1
  p2 = p2
  u1 = u1
  u2 = u2
  k1 = k1
  k2 = k2
  s1 = s1
  h1 = h1
  Configs = {c1, c2}
  Invalid = Invalid
  InitialConfig = c1
  Edits = {c2}
  Keys = {k1, k2}
  Pools = {p1, p2}
  Urls = {u1, u2}
  StaticOrigins <- MCStaticOrigins
  PoolNames <- MCPoolNames
  LimitedKeys <- MCLimitedKeys
  Services = {s1}
  Mappings <- MCMappings
  NoOrigin = NoOrigin
  Deletable = {s1}
  NoConfig = NoConfig
  ChannelSize = 1
  MaxEvents = 1
  MaxStream = 1
  Handlers = {h1}
  RouteKeys <- MCRouteKeys
  WeightedKeys <- MCWeightedKeys
  PassiveOn = {c2}
  Global = Global
  HasGlobal = TRUE
  NoUrl = NoUrl
INVARIANTS
  RequestsTypeOK
  ConfigReady
  CandidatesHaveState
  GovernedByLiveConfig
  QuietRequestsSeeOneConfig
  AnswersAreRecorded
  RefusalsAreJustified
