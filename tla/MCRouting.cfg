SPECIFICATION Spec
CONSTANTS
  Char <- Characters
  Configs <- AllConfigs
  Hosts <- AllHosts
  Paths <- SomePaths
CHECK_DEADLOCK FALSE
INVARIANTS
  RoutedByGlob
  LimiterIsOwn
  RoutedIsServable
