SPECIFICATION FairSpec
CONSTANTS
  UserCodes <- TwoCodes
  MaxSends <- TwoEach
  MaxPings <- OneOfTheServer
  Events <- AllEvents
  Compression = TRUE
CONSTRAINTS MessagesOrAPing RefusedWithoutMessages
INVARIANTS DeliveredInOrder WasCleanIsMutual
PROPERTIES CloseEventComes
CHECK_DEADLOCK FALSE
