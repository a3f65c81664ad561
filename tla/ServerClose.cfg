SPECIFICATION Spec
CONSTANTS
  t1 = t1
  t2 = t2
  Handler = Handler
  Free = Free
  Timers <- OneTimer
  Requests <- CloseRequests
  Pins <- OnePin
  MaxRequests = 2
  MaxFaults = 0
CHECK_DEADLOCK FALSE
INVARIANTS NoUseAfterFree
