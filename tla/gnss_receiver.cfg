\* Sentences of four bytes; ring and queue overflow, in either order.
SPECIFICATION RxSpec
CONSTANTS
  SentenceLen = 4
  MinLine = 2
  LineMax = 5
  BufSize = 1
  RingSize = 4
  QueueSize = 2
  Burst = 2
INVARIANTS
  RxTypeOK
  NoSplice
  LatestParsed
