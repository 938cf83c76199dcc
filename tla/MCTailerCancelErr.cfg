SPECIFICATION Spec
CONSTANTS
  TailBufSize = 2
  MaxBytes = 1
  MaxInodes = 1
  MaxTruncs = 0
  MaxStatErrs = 0
INVARIANT
  ReturnsNilOnCancel
CHECK_DEADLOCK FALSE
