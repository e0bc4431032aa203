SPECIFICATION FairSpec
CONSTANTS
  m1 = m1
  m2 = m2
  m3 = m3
  st = st
  c1 = c1
  c2 = c2
  ping = ping
  close = close
  Closing = close
  Controls <- OnePing
  Sends <- ThreeSends
  Blobs <- TheBlob
  Streams <- OneStream
  Chunks <- TwoChunks
  Fragile <- None
  Fragments <- SmallChunks
  Of <- ChunksOfStream
  Faults <- AllFaults
CONSTRAINT TwoMessages
INVARIANTS TypeOK SentInOrder NothingAfterClose DoneMeansWritten BacklogIsPending ReportedOnce LocksReturned FramesContiguous MessagesWhole
PROPERTIES SendsResolve ControlsAreSent
CHECK_DEADLOCK FALSE
