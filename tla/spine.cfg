\* Two records over three connections, fair threads.
SPECIFICATION SpineFairSpec
CONSTANTS
  Identities = {}
  NoId = NoId
  Window = 1
  MaxSeq = 2
  SeedRace = FALSE
  MaxConnects = 3
  MaxTimeouts = 1
INVARIANTS
  SpineTypeOK
  ExactlyOnce
PROPERTIES
  EventuallyConsumed
CHECK_DEADLOCK FALSE
