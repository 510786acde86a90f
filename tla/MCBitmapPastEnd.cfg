CONSTANTS
  W = 4
  Len = 2
SPECIFICATION Spec
INVARIANT FoundInBitmap
CHECK_DEADLOCK FALSE
