CONSTANTS
  Size = 4
  MaxBytes = 9
SPECIFICATION FairSpec
INVARIANTS
  TypeOK
  Contents
  Accounted
PROPERTIES
  ImplementsFifo
  AllTaken
CHECK_DEADLOCK FALSE
