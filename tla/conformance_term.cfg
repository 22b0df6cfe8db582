SPECIFICATION SpecTerminated
CONSTANTS
  Features = {full, some}
  Flags = {noflags, pthread}
  Arrangements = {plain, start}
  NoFlags = noflags
  None = None
  MaxRuns = 1
  MaxKills = 0
  MaxEdits = 0
INVARIANT ManifestsRestored
CHECK_DEADLOCK FALSE
