CONSTANTS
  n1 = n1
  n2 = n2
  Node <- MCNode
  Scenarios <- MCScenarios
  MaxAttempts = 1
  MaxRecords = 6
  Limit = 1
  ChanCap = 1
  WireCap = 1
  None = None
SPECIFICATION Spec
CHECK_DEADLOCK FALSE
INVARIANTS RecordedOnce ExactlyOnce StatusFollows
PROPERTIES Delivered
