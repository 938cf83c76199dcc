SPECIFICATION RelayFairSpec
CONSTANTS
  Sockets = {1, 2}
  Conns = {"c1"}
  At <- MCAt
  ScanBuf = 2
  SockBuf = 2
  TimeoutSecs = 0
  MaxSent <- MCMaxSent
  Transports <- MCTransports
INVARIANTS
  RelayTypeOK
  CleanExit
  ErrorIsNotLost
PROPERTIES
  SignalEnds
CHECK_DEADLOCK FALSE
