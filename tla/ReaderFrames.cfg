SPECIFICATION FairSpec
CONSTANTS
  Huge <- MCHuge
  Scenarios <- MCScenarios
INVARIANTS TypeOK BufferIsTheRest DeliveredAsSent ErrorsAreDeserved
PROPERTIES EverythingIsHandled
CHECK_DEADLOCK FALSE
