SPECIFICATION Spec
CONSTANTS
  Interval = 2
  Guard = 1
  PollCap = 1
  ReapLimit = 2
  RpcMax = 2
  CloseMax = 1
  RetryMax = 1
  Promise <- MCPromise
  CycleHandlers = TRUE
  CallHome = FALSE
  MaxQueue = 2
  MaxOther = 1
  EndlessOther = FALSE
INVARIANTS
  AlarmsMatchPhase
  DeadlineHonest
  FedWhileHandling
  HandlersDoneBeforeTeardown
  NoSessionOutlivesCycle
PROPERTIES
  LifecycleRefinement
