SPECIFICATION Spec
CONSTANTS
  Turn = 9
  PerPacket = 2
  Window = 3
  MaxRead = 3
  FirstPacket = 3
  LastPacket = 14
INVARIANTS
  TypeOK
  NothingStranded
  FrameIsOneTurn
  AbortsOnlyAtShutdown
PROPERTIES
  EndsOnShutdown
  KeepsMailbox
CHECK_DEADLOCK FALSE
