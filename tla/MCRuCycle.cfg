SPECIFICATION FairCycle
CONSTANTS
  Setups <- MCSetups
  InterfacePolls = 1
  SyncPolls = 1
  ReadyPolls = 1
  Group = {"rx_window", "epe"}
  Object = {"on_time", "late", "temp"}
  RxWindow = "rx_window"
  Default <- MCDefault
  Unset = Unset
  PmSetups <- MCPmSetups
INVARIANTS
  NoDanglingEdit
  ActiveOverComplete
  RefusalsKept
PROPERTIES
  HandlersEnd
  Heals
\* A provisioned O-RU that gives no more trouble leaves nothing to do.
CHECK_DEADLOCK FALSE
