SPECIFICATION FairSpec
CONSTANTS
  TailBufSize = 2
  MaxBytes = 3
  MaxInodes = 2
  MaxTruncs = 0
  MaxStatErrs = 0
PROPERTY
  FinishesRotatedFile
CHECK_DEADLOCK FALSE
