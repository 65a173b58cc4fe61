SPECIFICATION FairSpec
CONSTANTS
  Urls <- MCUrls
  Setups <- MCSetups
  Handlers = {1, 2}
  healthy_threshold = 2
  unhealthy_threshold = 2
  success_threshold = 1
  failure_threshold = 2
  default_success = 2
  default_failure = 2
INVARIANTS
  TypeOK
PROPERTIES
  StrandedStays
  GoodOriginReturns
  BadOriginLeaves
  ErringOriginLeaves
