SPECIFICATION Spec
CONSTANTS
  Features = {full, some}
  Flags = {noflags, pthread}
  Arrangements = {plain, start}
  NoFlags = noflags
  None = None
  MaxRuns = 3
  MaxKills = 1
  MaxEdits = 1
INVARIANT TypeOK
INVARIANT ReportsWhatWasAsked
INVARIANT SuiteIsUnambiguous
INVARIANT ManifestsRestored
CHECK_DEADLOCK FALSE
