CONSTANTS
  producer = producer
  consumer = consumer
  Dispatchers = {producer, consumer}
  Holders = {h1}
  Closers = {k1, k2}
  Closes <- MCCloses
  MaxCalls = 2
SPECIFICATION MCSpec
INVARIANTS CloseIsComplete NoCorruption ReleaseBeforeAbandonment
PROPERTIES CloseEnds
CHECK_DEADLOCK FALSE
