SPECIFICATION Spec
CONSTANTS
  UserCodes <- OneCode
  MaxSends <- OneOfTheClient
  MaxPings <- OneEach
  Events <- OnlyGarbage
  Compression = FALSE
INVARIANTS OneErrorEvent

CHECK_DEADLOCK FALSE
