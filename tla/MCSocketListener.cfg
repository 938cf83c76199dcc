SPECIFICATION SocketFairSpec
CONSTANTS
  Sockets = {"s"}
  Conns = {"c1", "c2"}
  At <- MCAt
  ScanBuf = 2
  SockBuf = 2
  TimeoutSecs = 0
  MaxSent <- MCMaxSent
INVARIANTS
  SocketTypeOK
  EveryLineParsed
  ReceivedOnce
PROPERTIES
  ImplementsLineFeeds
  ImplementsRunner
  HungUpIsRead
CHECK_DEADLOCK FALSE
