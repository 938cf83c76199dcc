SPECIFICATION MCSpec
CONSTANTS
  Sinks <- MCSinks
  WebhookTypes = {"compromised", "recovered"}
  WebhookTimeout = TRUE
  SourceIDs <- MCSources
  safeID <- MCsafeID
  Nodes = {"n1"}
  NoNode = "none"
  ConfigNode = "n1"
  HaveToken = TRUE
  HaveTokenFile = TRUE
  HasEntity = TRUE
  VaultDenies = {}
  MaxSETs = 3
  TheSinks = "opa"
  Clashing = FALSE
INVARIANTS
  RouterTypeOK
  QuarantineHolds
  RecoveryLifts
CHECK_DEADLOCK FALSE
