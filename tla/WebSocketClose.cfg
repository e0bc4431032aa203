SPECIFICATION Spec
CONSTANTS
  UserCodes <- TwoCodes
  MaxSends <- TwoOfTheServer
  MaxPings <- OneEach
  Events <- NoEvents
  Compression = FALSE
INVARIANTS TypeOK CloseIsClean CloseIsGraceful
PROPERTIES ReadyStateAdvances
CHECK_DEADLOCK FALSE
