SPECIFICATION Spec
CONSTANTS
  Goals <- Negatives
  MaxStep = 0
INVARIANT NegativeWritten
CHECK_DEADLOCK FALSE
