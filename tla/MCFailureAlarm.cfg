SPECIFICATION AlarmSpec
CONSTANTS
  Cause = {radio}
  MinAttempts = 2
  FailPercent = 50
  MaxAttempts = 2
  MaxRestarts = 1
  Severity = {0, 3, 4}
  RaiseN = 2
  ClearN = 2
  Source = {cell, amf}
  Ratio = cell
INVARIANTS
  AlarmIsWorst
  NoPhantomFailures
  LostReportsLoseNothing
PROPERTIES
  ImplementsDebounce
