SPECIFICATION FairSpec
CONSTANTS
  NoRequest = NoRequest
  Views <- TornViews
  Sources <- AllSources
  QueueDepth = 1
  N = 2
  MaxShifts = 1
  Elsewhere = Elsewhere
  Faults = {"late", "lost"}
  Timed = FALSE
  Pins = {1}
INVARIANT TypeOK
INVARIANT JudgedAsSeen
INVARIANT BlindNeverPicks
INVARIANT EndsAtHome
PROPERTY LiftsWithVacuum
PROPERTY ReleasesAtPlace
PROPERTY LinesAreVertical
PROPERTY Finishes
CHECK_DEADLOCK FALSE
