SPECIFICATION Spec
CONSTANTS
  Capacity = 2
  IndexRange = 4
  StreamLen = 3
  WriteLens <- MCWriteLens
  ReadLens <- MCReadLens
  Ordered = TRUE
  Junk = Junk
PROPERTY CloseIsLearned
CHECK_DEADLOCK FALSE
