SPECIFICATION Spec
CONSTANTS
  LateN = 3
  MasterClearN = 3
INVARIANT ExcursionSeen
PROPERTY Debounced
