\* Bodies of up to four chunks, that end, fail, time out, or are missing.
CONSTANTS
  MaxChunks = 4
SPECIFICATION Spec
INVARIANTS
  SenderIsLast
PROPERTIES
  ImplementsStream
  ChunksArrive
  EndArrives
\* The stream is over, was dropped, or waits for the network.
CHECK_DEADLOCK FALSE
