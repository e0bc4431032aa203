SPECIFICATION Spec
CONSTANTS
  Huge <- MCHuge
  Scenarios <- CompressedStream
INVARIANTS ErrorsAreDeserved
CHECK_DEADLOCK FALSE
