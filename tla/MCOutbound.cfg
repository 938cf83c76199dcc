SPECIFICATION OutboundSpec
CONSTANTS
  Null = Null
  Malformed = Malformed
  Setups <- MCSetups
  Operations <- MCOperations
  MaxOps = 2
  MaxStray = 1
  Cuts <- MCCuts
  MaxFaults = 1
INVARIANTS
  OutboundTypeOK
  OneEventPerOperation
  EventsAreTrue
  ReportedIfWanted
  SignedAsConfigured
CHECK_DEADLOCK FALSE
