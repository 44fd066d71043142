CONSTANTS
  MaxPulses = 4
SPECIFICATION FairSpec
INVARIANTS
  TypeOK
  PulseHasAlarm
PROPERTIES
  NoPulseCutShort
  PatternEnds
CHECK_DEADLOCK TRUE
