SPECIFICATION Spec
CONSTANTS
  c1 = c1
  c2 = c2
  p1 = p1
  p2 = p2
  u1 = u1
  u2 = u2
  u3 = u3
  u4 = u4
  k1 = k1
  k2 = k2
  s1 = s1
  s2 = s2
  Configs = {c1, c2}
  Invalid = Invalid
  InitialConfig = c1
  Keys = {k1, k2}
  Pools = {p1, p2}
  Urls = {u1, u2, u3, u4}
  StaticOrigins <- MCStaticOrigins
  PoolNames <- MCPoolNames
  LimitedKeys <- MCLimitedKeys
  NoOrigin = NoOrigin
  NoConfig = NoConfig
  ChannelSize = 2
  Edits = {c2}
  Services = {s1}
  Mappings <- OneService
  Deletable = {}
  MaxEvents = 1
  MaxStream = 1
INVARIANTS
  ServicesAreCandidates
