SPECIFICATION FairSpec
CONSTANTS
  Sinks <- MCSinks
  WebhookTypes = {"compromised"}
  WebhookTimeout = TRUE
  SourceIDs <- MCSources
  safeID <- MCsafeID
  Nodes = {}
  NoNode = "none"
  ConfigNode = "none"
  HaveToken = TRUE
  HaveTokenFile = TRUE
  HasEntity = TRUE
  VaultDenies = {}
  SETs <- MCSETs
  MaxPublished = 3
  MaxNoise = 1
  LimitFrames = 2
INVARIANTS
  SubscriberTypeOK
  HandledInOrder
  Accounted
  OneAtATime
PROPERTIES
  ImplementsRunner
  ReadIsHandled
  Reconnects
CHECK_DEADLOCK FALSE
