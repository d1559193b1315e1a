SPECIFICATION Spec
CONSTANTS
  MaxSize = 5
  MaxBlocked = 2
INVARIANTS
  ScanFindsFirst
  ExhaustedOnlyWhenFull
  CountIsHonest
