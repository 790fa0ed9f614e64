SPECIFICATION Spec
CONSTANTS
  Interval = 2
  Guard = 1
  PollCap = 1
  ReapLimit = 2
  RpcMax = 1
  CloseMax = 1
  RetryMax = 1
  Promise <- MCPromise
  CycleHandlers = TRUE
  CallHome = FALSE
  MaxQueue = 1
  MaxOther = 1
  EndlessOther = FALSE
INVARIANT SupervisedMeansFed
