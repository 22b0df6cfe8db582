SPECIFICATION Spec
CONSTANTS
  Capacity = 2
  IndexRange = 4
  StreamLen = 5
  WriteLens <- MCWriteLens
  ReadLens <- MCReadLens
  Ordered = TRUE
  Junk = Junk
INVARIANT TypeOK
INVARIANT BytesIntact
INVARIANT WriteCountExact
INVARIANT PendingHolds
INVARIANT NoLostWake
INVARIANT NeverBothAsleep
PROPERTY ImplementsByteStream
PROPERTY ReadReturns
PROPERTY WriteReturns
CHECK_DEADLOCK FALSE
