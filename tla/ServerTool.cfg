SPECIFICATION Spec
CONSTANTS
  t1 = t1
  t2 = t2
  Handler = Handler
  Free = Free
  Timers <- OneTimer
  Requests <- MotionRequests
  Pins <- OnePin
  MaxRequests = 1
  MaxFaults = 0
CHECK_DEADLOCK FALSE
INVARIANTS ToolRequestSetsTool
