CONSTANTS
  Chunk = 2
  AdvertSize = 5
  Sizes = {1, 3}
  Channels = {0, 1}
  SeqMod = 4
  MaxCargoes = 7
  MaxResets = 2
  MaxFails = 2
  MaxSends = 1
SPECIFICATION FairSpec
INVARIANTS
  TypeOK
PROPERTIES
  ImplementsLink
  Drains
CHECK_DEADLOCK TRUE
