CONSTANTS
  Entities = 2
  MaxRestarts = 2
  MaxOutages = 2
SPECIFICATION FairSpec
PROPERTIES
  LostAgentReboots
CHECK_DEADLOCK FALSE
