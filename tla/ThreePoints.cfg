SPECIFICATION FairSpec
CONSTANTS
  NoRequest = NoRequest
  Elsewhere = Elsewhere
  Faults = {"late", "lost"}
  Timed = FALSE
  Pins = {1}
  MaxTries = 1
  Looks = 2
  Markers <- TwoMarkers
  Lies <- OnTable
  Contacts <- SomeContacts
INVARIANTS TypeOK RecordsTheTouch BaseOnMarkers
 
CHECK_DEADLOCK FALSE
