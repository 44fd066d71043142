CONSTANTS
  Capacity = 2
  MaxSamples = 5
  MaxFailures = 2
  Id <- MCId
  States <- MCStates
SPECIFICATION ServoFairSpec
INVARIANTS
  PushNeverFails
  InOrder
  NewestKept
  ServoTypeOK
  AckGenuine
PROPERTIES
  FreshOnReturn
  ServoSettles
  ImplementsMailbox
CHECK_DEADLOCK TRUE
