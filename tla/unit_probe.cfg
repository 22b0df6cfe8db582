SPECIFICATION Spec
INVARIANT TypeOK
INVARIANT ChecksHold
PROPERTY ImplementsQuietUnit
PROPERTY NothingLingers
CHECK_DEADLOCK FALSE
