SPECIFICATION MCSpec
CONSTANTS
  Sinks <- MCSinks
  WebhookTypes = {"compromised", "recovered"}
  WebhookTimeout = TRUE
  SourceIDs <- MCSources
  safeID <- MCsafeID
  Nodes = {"n1"}
  NoNode = "none"
  ConfigNode = "n1"
  HaveToken = TRUE
  HaveTokenFile = TRUE
  HasEntity = TRUE
  VaultDenies = {"revoke"}
  MaxSETs = 1
  TheSinks = "vault"
  Clashing = FALSE
INVARIANTS
  SelfIsolated
CHECK_DEADLOCK FALSE
