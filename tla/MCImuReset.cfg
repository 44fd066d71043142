CONSTANTS
  MaxLate = 0
  MaxResets = 1
  MaxDrops = 0
SPECIFICATION FairSpec
PROPERTIES
  ResetReconfigures
CHECK_DEADLOCK FALSE
