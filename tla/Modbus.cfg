SPECIFICATION FairSpec
CONSTANTS
  ReadState = ReadState
  WriteTable = WriteTable
  Ops <- MCOps
  TidMod = 3
  Recoveries <- AnyRecovery
  SockBuf = 2
  MaxAge = 4
  MaxFaults = 5
INVARIANTS TypeOK StaleOnlyAfterWrap
PROPERTIES LeftoverNeverShrinks LeftoverBlocksSuccess Resynchronises
CHECK_DEADLOCK FALSE
