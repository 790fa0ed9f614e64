CONSTANTS
  t1 = t1
  t2 = t2
  a1 = a1
  a2 = a2
  Task <- MCTask
  Alarm <- MCAlarm
  Static <- MCStatic
  Callers <- MCCallers
  Severity <- MCSeverity
  Note = {n1}
  NoNote = NoNote
  NoEvent = NoEvent
  MaxSeq = 3
SPECIFICATION Spec
INVARIANTS
  NorthAgreesWithRegistry
  ClearTellsItsOwnTrend
PROPERTIES
  EventsFollowOn
  FeedRefinement
CHECK_DEADLOCK FALSE
