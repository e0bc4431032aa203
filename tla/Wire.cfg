SPECIFICATION Spec
CONSTANTS
  Sizes <- MCSizes
  Opcodes <- MCOpcodes
  Masks <- MCMasks
  Tracked <- MCTracked
INVARIANTS TypeOK HeaderAsWritten PayloadRestored
