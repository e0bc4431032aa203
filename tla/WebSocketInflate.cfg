SPECIFICATION Spec
CONSTANTS
  UserCodes <- OneCode
  MaxSends <- TwoOfTheServer
  MaxPings <- OneOfTheServer
  Events <- NoEvents
  Compression = TRUE
INVARIANTS CloseIsGraceful

CHECK_DEADLOCK FALSE
