SPECIFICATION MCSpec
CONSTANTS
  Sinks <- MCSinks
  WebhookTypes = {"compromised", "recovered"}
  WebhookTimeout = TRUE
  SourceIDs <- MCSources
  safeID <- MCsafeID
  Nodes = {"n1"}
  NoNode = "none"
  ConfigNode = "none"
  HaveToken = TRUE
  HaveTokenFile = TRUE
  HasEntity = TRUE
  VaultDenies = {}
  MaxSETs = 3
  TheSinks = "targets"
  Clashing = FALSE
INVARIANTS
  FanOutComplete
  CordonFollowsSETs
  SelfIsolated
  RecoveryClears
CHECK_DEADLOCK FALSE
