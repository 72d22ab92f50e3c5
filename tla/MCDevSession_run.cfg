SPECIFICATION FairSpec
CONSTANTS
  Conns = {"c"}
  ClientPieces = 2
  ServerPieces = 1
  Room = 2
  HeaderLimit = 0
  Platforms = {"macos", "ios"}
  Commands <- MCCommands
  MaxRetries = 1
INVARIANTS NothingOutlivesSession FailureIsReported RelayIsTransparent
PROPERTIES SessionEnds ConnectionEnds
CHECK_DEADLOCK FALSE
