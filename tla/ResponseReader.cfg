\* Up to three chunks of up to two bytes, read at most five bytes at a time.
CONSTANTS
  BodyChunks = 3
  MaxLength = 2
  MaxWant = 5
SPECIFICATION ReaderSpec
INVARIANTS
  ReaderTypeOK
  BytesInOrder
  SpinsAtTheEdges
PROPERTIES
  EmptyMeansEnd
  ReadReturns
\* A read without a buffer spins.
CHECK_DEADLOCK FALSE
