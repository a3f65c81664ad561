SPECIFICATION FairSpec
CONSTANTS
  t1 = t1
  t2 = t2
  Handler = Handler
  Free = Free
  Timers <- OneTimer
  Requests <- FaultRequests
  Pins <- OnePin
  MaxRequests = 1
  MaxFaults = 1
CHECK_DEADLOCK FALSE
PROPERTIES HandlesErrors
