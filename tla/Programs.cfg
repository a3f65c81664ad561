SPECIFICATION FairSpec
CONSTANTS
  NoRequest = NoRequest
  Names = {"first", "long", "io", "hand", "client"}
  Elsewhere = Elsewhere
  Faults = {"late", "lost"}
  Timed = FALSE
  Pins = {1, 3}
INVARIANTS TypeOK DoneAsLogged
PROPERTIES EntersAlongALine CarriedUnderVacuum BroadcastsEveryPose 
CHECK_DEADLOCK FALSE
