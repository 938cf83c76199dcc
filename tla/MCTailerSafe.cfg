SPECIFICATION Spec
CONSTANTS
  TailBufSize = 2
  MaxBytes = 5
  MaxInodes = 2
  MaxTruncs = 1
  MaxStatErrs = 1
INVARIANTS
  TypeOK
  OrderedOnce
  NoReplay
  WholeLines
  NoSilentDrop
PROPERTIES
  ImplementsLineFeed
CHECK_DEADLOCK FALSE
