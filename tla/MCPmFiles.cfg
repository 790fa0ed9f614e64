SPECIFICATION FairFiles
CONSTANTS
  Job = {j1, j2}
  Locked = Locked
  Periods <- MCPeriods
  MaxTime = 4
  MaxReports = 2
  MaxChanges = 1
INVARIANTS
  OneFile
  FilesTile
  NotBeforeItsPeriod
PROPERTY AllPublished
\* The clock stops at its bound, and a directory that cannot be written ends
\* the adapter.
CHECK_DEADLOCK FALSE
