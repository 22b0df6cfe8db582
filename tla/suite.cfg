SPECIFICATION Spec
CONSTANTS
  ShortReads = FALSE
  AlwaysClaimed = {"channel"}
  CopyNames = {"c1", "c2"}
  MaxMishaps = 1
CHECK_DEADLOCK FALSE
INVARIANT TypeOK
INVARIANT ConformingIsNotReported
INVARIANT LeavesNothingBehind
INVARIANT HandlesAreKept
INVARIANT RemovesOnlyWhatIsFree
PROPERTY UnmadeIsReported
PROPERTY ImplementsSuiteAlone
PROPERTY Completes
