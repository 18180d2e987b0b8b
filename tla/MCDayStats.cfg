\* Two completions at once, on three days of two hours with one day kept; time
\* zones at and east of UTC; one damaged file, failing read or failing purge.
SPECIFICATION Spec
CONSTANTS
  Recorders = {r1, r2}
  LastDay = 2
  HoursPerDay = 2
  RetainDays = 1
  Offsets = {0, 1}
  MaxPerDay = 2
  MaxFaults = 1
CHECK_DEADLOCK FALSE
INVARIANTS PageShowsAll
PROPERTIES BookKept PageFailsOnlyAtPurge OldFilesGo
