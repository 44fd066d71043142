CONSTANTS
  Schedule <- ReadmeSchedule
  Epochs = 3
  Starts = {0, 1, 4, 6}
  Body = 2
  LineMax = 3
  Slots = 2
  MaxLost = 0
SPECIFICATION FairSpec
PROPERTIES
  EpochsPushed
CHECK_DEADLOCK FALSE
