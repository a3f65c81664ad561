SPECIFICATION FairSpec
CONSTANTS
  t1 = t1
  t2 = t2
  Handler = Handler
  Free = Free
  Timers <- TwoTimers
  Requests <- OutputRequests
  Pins <- TwoPins
  MaxRequests = 3
  MaxFaults = 1
CHECK_DEADLOCK FALSE
INVARIANTS TypeOK MutexProtectsContext HeldMeansIdle
PROPERTIES TimedOff KeepsContract
