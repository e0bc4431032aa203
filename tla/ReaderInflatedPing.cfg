SPECIFICATION Spec
CONSTANTS
  Huge <- MCHuge
  Scenarios <- PingInCompressed
INVARIANTS DeliveredAsSent
CHECK_DEADLOCK FALSE
