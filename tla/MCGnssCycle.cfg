CONSTANTS
  Schedule <- FullSchedule
  Epochs = 3
  Starts <- FullStarts
  Body = 2
  LineMax = 3
  Slots = 2
  MaxLost = 2
SPECIFICATION FairSpec
INVARIANTS
  TypeOK
  LineIntegrity
  ValidIsLatest
  SkewBoundedByLoss
PROPERTIES
  NothingPushedTwice
  EpochsPushed
CHECK_DEADLOCK FALSE
