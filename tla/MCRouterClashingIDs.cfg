SPECIFICATION MCSpec
CONSTANTS
  Sinks <- MCSinks
  WebhookTypes = {"compromised", "recovered"}
  WebhookTimeout = TRUE
  SourceIDs <- MCSources
  safeID <- MCsafeID
  Nodes = {"n1"}
  NoNode = "none"
  ConfigNode = "n1"
  HaveToken = TRUE
  HaveTokenFile = TRUE
  HasEntity = TRUE
  VaultDenies = {}
  MaxSETs = 2
  TheSinks = "opa"
  Clashing = TRUE
INVARIANTS
  QuarantineHolds
CHECK_DEADLOCK FALSE
