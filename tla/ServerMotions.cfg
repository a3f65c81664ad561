SPECIFICATION FairSpec
CONSTANTS
  t1 = t1
  t2 = t2
  Handler = Handler
  Free = Free
  Timers <- OneTimer
  Requests <- MotionRequests
  Pins <- OnePin
  MaxRequests = 3
  MaxFaults = 1
CHECK_DEADLOCK FALSE
INVARIANTS RunsOnce
PROPERTIES AlwaysAnswers KeepsContract
