SPECIFICATION Spec
CONSTANTS
  Turns <- QuarterTurns
  Places <- TwoPlaces
  Pictures <- SomePictures
  tool2cam <- Mounted
INVARIANTS QuaternionsTurnAlike AnglesTurnBack FoundAsPictured
CHECK_DEADLOCK FALSE
