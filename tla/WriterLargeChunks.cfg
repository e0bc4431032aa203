SPECIFICATION Spec
CONSTANTS
  m1 = m1
  m2 = m2
  m3 = m3
  st = st
  c1 = c1
  c2 = c2
  ping = ping
  close = close
  Closing = close
  Controls <- OnePing
  Sends <- ThreeSends
  Blobs <- TheBlob
  Streams <- OneStream
  Chunks <- TwoChunks
  Fragile <- None
  Fragments <- LargeChunk
  Of <- ChunksOfStream
  Faults <- None
CONSTRAINT TwoMessages
INVARIANTS MessagesWhole
CHECK_DEADLOCK FALSE
