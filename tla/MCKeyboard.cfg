CONSTANTS
  Keys <- MCKeys
  MaxHeld = 3
  MaxPort = 3
SPECIFICATION Spec
INVARIANTS
  FlagsTold
  PrefixTold
  CharTold
