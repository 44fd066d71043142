CONSTANTS
  Entities = 3
  MaxRestarts = 3
  MaxOutages = 3
SPECIFICATION FairSpec
INVARIANTS
  TypeOK
  LoopIsReady
PROPERTIES
  RebootJustified
  DeadAgentReboots
  Recovers
CHECK_DEADLOCK FALSE
