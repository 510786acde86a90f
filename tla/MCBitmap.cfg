CONSTANTS
  W = 4
  Len = 2
SPECIFICATION Spec
INVARIANTS
  BitmapTypeOK
PROPERTIES
  FirstFit
  HandedOutOnce
CHECK_DEADLOCK FALSE
