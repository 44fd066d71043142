CONSTANTS
  MaxLate = 1
  MaxResets = 2
  MaxDrops = 2
SPECIFICATION FairSpec
INVARIANTS
  TypeOK
  SessionUp
  NoResetForgotten
PROPERTIES
  EventReconfigures
  LoopGoesOn
CHECK_DEADLOCK TRUE
