SPECIFICATION FairSpec
CONSTANTS
  c1 = c1
  c2 = c2
  p1 = p1
  p2 = p2
  u1 = u1
  u2 = u2
  u3 = u3
  u4 = u4
  k1 = k1
  k2 = k2
  s1 = s1
  s2 = s2
  Configs = {c1, c2}
  Invalid = Invalid
  InitialConfig = c1
  Keys = {}
  Pools = {p1, p2}
  Urls = {u1, u2, u3, u4}
  StaticOrigins <- OtherOrigins
  PoolNames <- MCPoolNames
  LimitedKeys <- NoLimits
  NoOrigin = NoOrigin
  NoConfig = NoConfig
  ChannelSize = 1
  Edits = {c1, c2, Invalid}
  Services = {s1}
  Mappings <- OneService
  Deletable = {s1}
  MaxEvents = 1
  MaxStream = 1
PROPERTIES
  EditsTakeEffect
  ServicesGetRouted
