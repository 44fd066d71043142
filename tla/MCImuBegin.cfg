CONSTANTS
  MaxLate = 1
  MaxResets = 0
  MaxDrops = 0
SPECIFICATION FairSpec
PROPERTIES
  DetectedIsInitialised
CHECK_DEADLOCK FALSE
