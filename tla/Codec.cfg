SPECIFICATION Spec
CONSTANTS
  Goals <- Grid
  MaxStep = 2
INVARIANT TypeOK
INVARIANT WrittenAsCommanded
INVARIANT CorrectionIdle
INVARIANT ReadUnlessCrossed
CHECK_DEADLOCK FALSE
