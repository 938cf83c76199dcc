SPECIFICATION FairSpec
CONSTANTS
  TailBufSize = 1
  MaxBytes = 2
  MaxInodes = 2
  MaxTruncs = 1
  MaxStatErrs = 1
PROPERTIES
  Converges
  ImplementsRunner
CHECK_DEADLOCK FALSE
